------------------------------ MODULE BagTransfer ------------------------------
(***************************************************************************)
(* BagTransfer (bag_transfer.cpp): the GUI copies a bag of the robot into  *)
(* a local directory with an rsync process, reads what rsync prints, and   *)
(* reports the end.  The steps of rsync are the environment's; the others  *)
(* are slots and calls on the GUI thread.                                  *)
(*                                                                         *)
(* rsync prints lines: the number of bytes it has handled, or a notice     *)
(* (an error of ssh, say).  A line counts as printed with its last byte,   *)
(* and its separator may come in a later chunk: what of a line comes       *)
(* before only waits in readBuffer_, and if the rest never comes is a      *)
(* notice, or the report when the time alone is cut.  With the option      *)
(* --no-inc-recursive (:78) rsync knows the size of the bag when it prints *)
(* the first report.  Speed, time left and file counts are for display     *)
(* only and left out.                                                      *)
(***************************************************************************)
EXTENDS Integers, Sequences, SequencesExt

CONSTANTS
  Bags,         \* the names of bags, of the robot and local
  Remote,       \* the bags of the robot
  Files,        \* the files of a bag
  Size,         \* the bytes of a bag
  Reports,      \* the numbers of bytes rsync reports
  TailLength,   \* the lines kept for an error report (kMaxOutputLines)
  MaxLines,     \* bound: the lines of one rsync process
  MaxTransfers, \* bound: the transfers started
  NoBag

ASSUME SizeAssumption == Size \in Nat \ {0} /\ Reports \subseteq 1..Size
ASSUME LinesAssumption ==
  TailLength \in Nat \ {0} /\ MaxLines \in Nat /\ MaxTransfers \in Nat
ASSUME BagsAssumption == Remote \subseteq Bags /\ NoBag \notin Bags

VARIABLES
  process,        \* process_: "none", or what has become of it
  exit,           \* how it ended: whether it crashed, and its exit code
  running,        \* running_
  target,         \* the bag of localPath_
  status,         \* statusText_
  progress,       \* progress_
  bytes,          \* bytesTransferred_
  bytesTotal,     \* bytesTotal_
  readBuffer,     \* readBuffer_
  recentOutput,   \* recentOutput_
  failureOutput,  \* failureOutput_
  pipe,           \* what rsync has printed and nobody has read
  copied,         \* the files rsync has copied or found in place
  disk,           \* the local directories: whether they exist, and their files
  transfers,      \* bound: the transfers so far
  printed         \* history: the lines of this rsync process

view == <<status, progress, bytes, bytesTotal>>
output == <<readBuffer, recentOutput, failureOutput>>
rsync == <<process, exit, pipe, copied, printed>>
transferVars == <<running, target, view, output, rsync, transfers>>

Separator == 0
Notice == -1
Lines == Reports \cup {Notice}
NoExit == [crash |-> FALSE, code |-> 0]
Absent == [there |-> FALSE, files |-> {}]

TransferInit ==
  /\ process = "none" /\ exit = NoExit /\ running = FALSE
  /\ target = NoBag /\ status = "" /\ progress = 0 /\ bytes = 0 /\ bytesTotal = 0
  /\ readBuffer = <<>> /\ recentOutput = <<>> /\ failureOutput = <<>>
  /\ pipe = <<>> /\ copied = {} /\ transfers = 0 /\ printed = <<>>
-----------------------------------------------------------------------------
(***************************************************************************)
(* The rsync process.                                                      *)
(***************************************************************************)

\* Whether the last line has its separator.
AtLineStart ==
  LET out == readBuffer \o pipe
  IN \A i \in DOMAIN out : i = Len(out) => out[i] = Separator

\* The bytes grow.
PrintLine(line) ==
  /\ process = "alive" /\ AtLineStart /\ Len(printed) < MaxLines
  /\ \A i \in DOMAIN printed : line = Notice \/ printed[i] < line
  /\ pipe' = Append(pipe, line) /\ printed' = Append(printed, line)
  /\ UNCHANGED <<running, target, view, output, process, exit, copied, disk, transfers>>

EndLine ==
  /\ process = "alive" /\ ~AtLineStart
  /\ pipe' = Append(pipe, Separator)
  /\ UNCHANGED <<running, target, view, output, process, exit, copied, printed,
                 disk, transfers>>

\* A file comes under its name when it is whole, in no order the GUI could know.
CopyFile(f) ==
  /\ process = "alive" /\ f \notin copied /\ disk[target].there
  /\ copied' = copied \cup {f}
  /\ disk' = [disk EXCEPT ![target].files = @ \cup {f}]
  /\ UNCHANGED <<running, target, view, output, process, exit, pipe, printed,
                 transfers>>

\* It ends well when it has copied everything, and badly at any time; when it
\* crashes or is killed the exit code says nothing, and may be 0.
Exit ==
  /\ process \in {"alive", "killed"}
  /\ exit' \in {[crash |-> TRUE, code |-> 0]}
         \cup (IF process = "killed" THEN {}
               ELSE [crash : {FALSE}, code : IF copied = Files THEN {0, 1} ELSE {1}])
  /\ process' = "exited" /\ copied' = {}
  /\ UNCHANGED <<running, target, view, output, pipe, printed, disk, transfers>>
-----------------------------------------------------------------------------
(***************************************************************************)
(* What is made of its output.                                             *)
(***************************************************************************)

\* rsync rounds the percentage down.
Percent(report) == (report * 100) \div Size

Distance(a, b) == IF a < b THEN b - a ELSE a - b

\* The size, from a report: the first estimate that is good enough, and then
\* one that is off by more than a twentieth.
Estimate(total, report) ==
  LET estimated == (report * 100) \div Percent(report)
  IN IF Percent(report) = 0 THEN total
     ELSE IF total = 0 THEN IF Percent(report) >= 5 THEN estimated ELSE 0
     ELSE IF 20 * Distance(estimated, total) > total THEN estimated ELSE total

\* parseLine: the tail of the output, and from a report the numbers.
ParseLine(seen, line) ==
  LET recent == Append(seen.recent, line)
      tail == SubSeq(recent, 1 + (IF Len(recent) > TailLength THEN 1 ELSE 0), Len(recent))
  IN IF line = Notice THEN [seen EXCEPT !.recent = tail]
     ELSE [recent |-> tail, bytes |-> line, progress |-> Percent(line),
           total |-> Estimate(seen.total, line), status |-> "progress"]

Seen == [recent |-> recentOutput, bytes |-> bytes, progress |-> progress,
         total |-> bytesTotal, status |-> status]

ParseLines(chunk) ==
  LET seen[i \in 0..Len(chunk)] ==
        IF i = 0 THEN Seen
        ELSE IF chunk[i] = Separator THEN seen[i - 1] ELSE ParseLine(seen[i - 1], chunk[i])
  IN seen[Len(chunk)]

\* Fault: what comes behind the last separator is not kept.
ReadOutputForgets ==
  /\ process # "none" /\ pipe # <<>> /\ pipe' = <<>>
  /\ LET buffer == readBuffer \o pipe
         ends == {0} \cup {i \in DOMAIN buffer : buffer[i] = Separator}
         last == CHOOSE i \in ends : \A j \in ends : j <= i
         seen == ParseLines(SubSeq(buffer, 1, last))
     IN /\ readBuffer' = <<>>
        /\ recentOutput' = seen.recent /\ bytes' = seen.bytes
        /\ progress' = seen.progress /\ bytesTotal' = seen.total
        /\ status' = seen.status
  /\ UNCHANGED <<running, target, failureOutput, process, exit, copied, printed,
                 disk, transfers>>

\* onReadyReadStdout: all there is is read, and parsed up to the last separator.
ReadOutput ==
  /\ process # "none" /\ pipe # <<>> /\ pipe' = <<>>
  /\ LET buffer == readBuffer \o pipe
         ends == {0} \cup {i \in DOMAIN buffer : buffer[i] = Separator}
         last == CHOOSE i \in ends : \A j \in ends : j <= i
         seen == ParseLines(SubSeq(buffer, 1, last))
     IN /\ readBuffer' = SubSeq(buffer, last + 1, Len(buffer))
        /\ recentOutput' = seen.recent /\ bytes' = seen.bytes
        /\ progress' = seen.progress /\ bytesTotal' = seen.total
        /\ status' = seen.status
  /\ UNCHANGED <<running, target, failureOutput, process, exit, copied, printed,
                 disk, transfers>>
-----------------------------------------------------------------------------
(***************************************************************************)
(* The calls, and the end of the process.                                  *)
(***************************************************************************)

\* start(): the directory is made, and the process begun.  Only finished() is
\* connected, which a process that could not be started never emits.
Start(b) ==
  /\ ~running /\ transfers < MaxTransfers
  /\ transfers' = transfers + 1
  /\ running' = TRUE /\ target' = b /\ disk' = [disk EXCEPT ![b].there = TRUE]
  /\ failureOutput' = <<>> /\ recentOutput' = <<>> /\ readBuffer' = <<>>
  /\ progress' = 0 /\ bytes' = 0 /\ bytesTotal' = 0 /\ status' = "starting"
  /\ process' \in {"alive", "not started"}
  /\ pipe' = <<>> /\ copied' = {} /\ printed' = <<>>
  /\ UNCHANGED exit

Cancel ==
  /\ process # "none" /\ running
  /\ process' = IF process = "alive" THEN "killed" ELSE process
  /\ status' = "cancelled"
  /\ UNCHANGED <<running, target, progress, bytes, bytesTotal, output, exit,
                 pipe, copied, printed, disk, transfers>>

\* The rest of the output is delivered before finished(), and the unfinished
\* line parsed here.
Finishing ==
  /\ process = "exited" /\ pipe = <<>>
  /\ process' = "none" /\ readBuffer' = <<>> /\ exit' = NoExit
  /\ UNCHANGED <<target, pipe, copied, printed, disk, transfers>>

Succeeded == ~exit.crash /\ exit.code = 0

\* Fault: running_ stays.
FinishStillRunning ==
  /\ Finishing /\ Succeeded /\ UNCHANGED running
  /\ LET seen == ParseLines(readBuffer)
     IN /\ recentOutput' = seen.recent /\ bytes' = seen.bytes
        /\ bytesTotal' = seen.bytes
  /\ progress' = 100 /\ status' = "complete"
  /\ UNCHANGED failureOutput

Finish ==
  /\ Finishing /\ Succeeded /\ running' = FALSE
  /\ LET seen == ParseLines(readBuffer)
     IN /\ recentOutput' = seen.recent /\ bytes' = seen.bytes
        /\ bytesTotal' = seen.bytes
  /\ progress' = 100 /\ status' = "complete"
  /\ UNCHANGED failureOutput

\* The end of the output is kept for the user, and the numbers are reset; a
\* transfer that was cancelled fails like any other.
Fail ==
  /\ Finishing /\ ~Succeeded /\ running' = FALSE
  /\ recentOutput' = ParseLines(readBuffer).recent
  /\ failureOutput' = recentOutput'
  /\ progress' = 0 /\ bytes' = 0 /\ bytesTotal' = 0 /\ status' = "failed"

\* ~BagTransfer kills the process and waits; the next object begins afresh.
Destroy ==
  /\ process # "none" /\ process' = "none"
  /\ running' = FALSE /\ status' = "" /\ target' = NoBag
  /\ progress' = 0 /\ bytes' = 0 /\ bytesTotal' = 0
  /\ readBuffer' = <<>> /\ recentOutput' = <<>> /\ failureOutput' = <<>>
  /\ pipe' = <<>> /\ copied' = {} /\ printed' = <<>> /\ exit' = NoExit
  /\ UNCHANGED <<disk, transfers>>
===============================================================================
