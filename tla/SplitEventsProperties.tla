------------------------ MODULE SplitEventsProperties ------------------------
(***************************************************************************)
(* What must hold of the list of files of a recording.                     *)
(***************************************************************************)
EXTENDS SplitEvents

\* The types of the state; the mutex is held exactly while the event thread is
\* between its lock and its wait or unlock.
TypeOK ==
  /\ in_recording \in BOOLEAN
  /\ executor \in {"idle", "callback", "notify", "stop", "notify_exit", "join"}
  /\ thread \in {"none", "check", "lock", "test", "sleep", "waiting", "process",
                 "unlock", "exited"}
  /\ mutex = IF thread \in {"test", "sleep", "process", "unlock"}
             THEN "thread" ELSE "free"
  /\ written \in 0..MaxFiles /\ slot \in 0..MaxFiles
  /\ occurred \in BOOLEAN /\ should_exit \in BOOLEAN
  /\ files \in Seq(0..MaxFiles)
  /\ wakeups \in 0..MaxWakeups

\* The list of files names no file twice and keeps the order in which they were
\* written, whatever the two threads do in between.
FilesInOrder ==
  \A i, j \in 1..Len(files) : i < j => files[i] < files[j]

\* Once the event thread has caught up, the last file in the list is the one the
\* writer has opened last: the status never stays behind, and what a stopped
\* recorder has not listed is an event it has not taken.
CaughtUp == written > 0 /\ executor # "callback" /\ ~occurred
LastFileListed == CaughtUp => files # <<>> /\ files[Len(files)] = written

\* A file the writer has opened is listed, unless another follows or the
\* recording ends first: no notification is lost.  (A recorder that records again
\* after stop() lists no more files: its exit flag is set.)
SplitIsListed ==
  \A n \in 1..MaxFiles :
    (in_recording /\ ~should_exit /\ written = n /\ executor = "idle")
      ~> (\E i \in DOMAIN files : files[i] = n) \/ written # n \/ executor # "idle"

\* stop() returns: the event thread sees the exit flag however it sleeps.
StopReturns == executor # "idle" ~> executor = "idle"
===============================================================================
