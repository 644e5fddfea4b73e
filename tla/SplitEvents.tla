----------------------------- MODULE SplitEvents -----------------------------
(***************************************************************************)
(* How a recording learns that its writer has opened another file: the     *)
(* write_split callback, which runs on the executor thread, and the event  *)
(* publisher thread of RecorderImpl, with the mutex, the condition         *)
(* variable and the flags between them (recorder_impl.cpp).                *)
(*                                                                         *)
(* Files are numbered in the order in which the writer opens them.  stop() *)
(* leaves flags, slot and list as they are: only the destruction of the    *)
(* recorder (Destroy) resets them.  The node destroys every recorder it    *)
(* has stopped; here record() may also be called again, as the header says *)
(* (recorder_impl.hpp:86), though the exit flag is still set then.         *)
(***************************************************************************)
EXTENDS Naturals, Sequences

CONSTANTS
  MaxFiles,    \* bound: the files of one recorder
  MaxWakeups   \* bound: the spurious wakeups of one recorder

ASSUME FilesAssumption == MaxFiles \in Nat
ASSUME WakeupsAssumption == MaxWakeups \in Nat

VARIABLES
  in_recording,  \* RecorderImpl::in_recording_
  executor,      \* where the executor thread is
  thread,        \* where the event publisher thread is
  mutex,         \* the owner of event_publisher_thread_mutex_
  written,       \* the file the writer has opened last
  slot,          \* bag_split_info_.opened_file
  occurred,      \* write_split_has_occurred_
  should_exit,   \* event_publisher_thread_should_exit_
  files,         \* files_
  wakeups        \* spurious wakeups so far

vars == <<in_recording, executor, thread, mutex, written, slot, occurred,
          should_exit, files, wakeups>>

Init ==
  /\ in_recording = FALSE /\ executor = "idle"
  /\ thread = "none" /\ mutex = "free"
  /\ written = 0 /\ slot = 0 /\ occurred = FALSE /\ should_exit = FALSE
  /\ files = <<>> /\ wakeups = 0
-----------------------------------------------------------------------------
(***************************************************************************)
(* The executor thread.                                                    *)
(***************************************************************************)

\* Only stop() sets the exit flag, and nothing but the destructor clears it.
Stopped == ~in_recording /\ should_exit
MayRecord == executor = "idle" /\ ~in_recording

\* record(): the first file, and the event publisher thread.
Record ==
  /\ MayRecord
  /\ written < MaxFiles
  /\ written' = written + 1
  /\ in_recording' = TRUE
  /\ files' = Append(files, written + 1)
  /\ thread' = "check"
  /\ UNCHANGED <<executor, mutex, slot, occurred, should_exit, wakeups>>

\* ... or the bag cannot be opened: there is no thread, but in_recording_ is set.
RecordFails ==
  /\ MayRecord
  /\ in_recording' = TRUE
  /\ UNCHANGED <<executor, thread, mutex, written, slot, occurred, should_exit,
                 files, wakeups>>

\* The writer closes its file and opens the next, because the file is full or
\* split() is called, and calls back.
Split ==
  /\ executor = "idle" /\ thread # "none"
  /\ written < MaxFiles
  /\ written' = written + 1
  /\ executor' = "callback"
  /\ UNCHANGED <<in_recording, thread, mutex, slot, occurred, should_exit, files,
                 wakeups>>

\* Fault: an event that is still there is kept.
CallbackKeepsFirst ==
  /\ executor = "callback" /\ mutex = "free"
  /\ slot' = IF occurred THEN slot ELSE written
  /\ occurred' = TRUE
  /\ executor' = "notify"
  /\ UNCHANGED <<in_recording, thread, mutex, written, should_exit, files, wakeups>>

\* write_split_callback: one slot and one flag, under the mutex.
Callback ==
  /\ executor = "callback" /\ mutex = "free"
  /\ slot' = written
  /\ occurred' = TRUE
  /\ executor' = "notify"
  /\ UNCHANGED <<in_recording, thread, mutex, written, should_exit, files, wakeups>>

\* The event publisher thread wakes up, and has to take the mutex again.
Woken == IF thread = "waiting" THEN "lock" ELSE thread

\* Fault: the notification is forgotten.
NotifyForgotten ==
  /\ executor = "notify"
  /\ executor' = "idle"
  /\ UNCHANGED <<in_recording, thread, mutex, written, slot, occurred, should_exit,
                 files, wakeups>>

\* notify_all
Notify ==
  /\ executor = "notify"
  /\ thread' = Woken
  /\ executor' = "idle"
  /\ UNCHANGED <<in_recording, mutex, written, slot, occurred, should_exit, files,
                 wakeups>>

\* stop(): writer_->close() has returned.  (Where it throws, nothing changes here.)
Stop ==
  /\ executor = "idle" /\ in_recording
  /\ executor' = "stop"
  /\ UNCHANGED <<in_recording, thread, mutex, written, slot, occurred, should_exit,
                 files, wakeups>>

\* stop(): the exit flag, under the mutex.
SetExit ==
  /\ executor = "stop" /\ mutex = "free"
  /\ should_exit' = TRUE
  /\ executor' = "notify_exit"
  /\ UNCHANGED <<in_recording, thread, mutex, written, slot, occurred, files,
                 wakeups>>

NotifyExit ==
  /\ executor = "notify_exit"
  /\ thread' = Woken
  /\ executor' = "join"
  /\ UNCHANGED <<in_recording, mutex, written, slot, occurred, should_exit, files,
                 wakeups>>

\* join() returns, and stop() with it.
Join ==
  /\ executor = "join" /\ thread \in {"none", "exited"}
  /\ executor' = "idle"
  /\ in_recording' = FALSE
  /\ thread' = "none"
  /\ UNCHANGED <<mutex, written, slot, occurred, should_exit, files, wakeups>>

\* The node drops the recorder; the next recording has a new one.
Destroy ==
  /\ executor = "idle" /\ Stopped
  /\ mutex' = "free"
  /\ written' = 0 /\ slot' = 0 /\ occurred' = FALSE /\ should_exit' = FALSE
  /\ files' = <<>> /\ wakeups' = 0
  /\ UNCHANGED <<in_recording, executor, thread>>
-----------------------------------------------------------------------------
(***************************************************************************)
(* The event publisher thread: event_publisher_thread_main.                *)
(***************************************************************************)

\* Fault: the exit flag only wakes the thread.
CheckExitNot ==
  /\ thread = "check"
  /\ thread' = "lock"
  /\ UNCHANGED <<in_recording, executor, mutex, written, slot, occurred,
                 should_exit, files, wakeups>>

\* The condition of the while loop, read without the mutex.
CheckExit ==
  /\ thread = "check"
  /\ thread' = IF should_exit THEN "exited" ELSE "lock"
  /\ UNCHANGED <<in_recording, executor, mutex, written, slot, occurred,
                 should_exit, files, wakeups>>

Lock ==
  /\ thread = "lock" /\ mutex = "free"
  /\ mutex' = "thread"
  /\ thread' = "test"
  /\ UNCHANGED <<in_recording, executor, written, slot, occurred, should_exit,
                 files, wakeups>>

\* event_publisher_thread_should_wake
Test ==
  /\ thread = "test"
  /\ thread' = IF occurred \/ should_exit THEN "process" ELSE "sleep"
  /\ UNCHANGED <<in_recording, executor, mutex, written, slot, occurred,
                 should_exit, files, wakeups>>

\* The condition variable releases the mutex and waits, in one step.
Sleep ==
  /\ thread = "sleep"
  /\ mutex' = "free"
  /\ thread' = "waiting"
  /\ UNCHANGED <<in_recording, executor, written, slot, occurred, should_exit,
                 files, wakeups>>

SpuriousWakeup ==
  /\ thread = "waiting" /\ wakeups < MaxWakeups
  /\ wakeups' = wakeups + 1
  /\ thread' = "lock"
  /\ UNCHANGED <<in_recording, executor, mutex, written, slot, occurred,
                 should_exit, files>>

\* Fault: the flag stays.
ProcessAgain ==
  /\ thread = "process"
  /\ thread' = "unlock"
  /\ files' = IF occurred THEN Append(files, slot) ELSE files
  /\ UNCHANGED <<in_recording, executor, mutex, written, slot, occurred,
                 should_exit, wakeups>>

\* The event is taken, its file listed and published; an exception of the
\* publisher is caught.
Process ==
  /\ thread = "process"
  /\ thread' = "unlock"
  /\ occurred' = FALSE
  /\ files' = IF occurred THEN Append(files, slot) ELSE files
  /\ UNCHANGED <<in_recording, executor, mutex, written, slot, should_exit,
                 wakeups>>

Unlock ==
  /\ thread = "unlock"
  /\ mutex' = "free"
  /\ thread' = "check"
  /\ UNCHANGED <<in_recording, executor, written, slot, occurred, should_exit,
                 files, wakeups>>
-----------------------------------------------------------------------------
\* What each thread does on its own.
Handler == Callback \/ Notify \/ SetExit \/ NotifyExit \/ Join
ThreadStep == CheckExit \/ Lock \/ Test \/ Sleep \/ Process \/ Unlock

Next ==
  \/ Record \/ RecordFails \/ Split \/ Stop \/ Destroy
  \/ Handler
  \/ ThreadStep \/ SpuriousWakeup

Spec == Init /\ [][Next]_vars

\* Both threads are scheduled.  Whether a recording is split or stopped is up to
\* others.
FairSpec == Spec /\ WF_vars(Handler) /\ WF_vars(ThreadStep)
===============================================================================
