------------------------------ MODULE BagRecorder ------------------------------
(***************************************************************************)
(* BagRecorderEngine (bag_recorder_engine.cpp): the GUI records a bag by   *)
(* itself.  The GUI thread runs the calls of the user; the executor's      *)
(* thread runs the callbacks of the subscriptions, one at a time.  A       *)
(* callback tests the flags, then takes writerMutex_ and writes, then      *)
(* takes statsMutex_ and counts; the GUI thread may be anywhere meanwhile, *)
(* and a callback that has begun outlives its subscription.                *)
(*                                                                         *)
(* A section under statsMutex_ is one step; the rates that onStatsTick     *)
(* derives from it for display are left out.  writerMutex_ is a variable,  *)
(* because startRecording makes, opens, closes and destroys the writer     *)
(* without it.  Bags are numbered as they are opened; a message is known   *)
(* by its topic and by the bag its subscription was made for.              *)
(***************************************************************************)
EXTENDS Integers, FiniteSets, FiniteSetsExt

CONSTANTS
  Topics,       \* the topics a user may select
  MaxBags,      \* bound: the bags opened
  MaxMessages,  \* bound: the messages received
  MaxRequests   \* bound: the calls that change neither bag nor subscriptions

ASSUME TopicsAssumption == IsFiniteSet(Topics)
ASSUME BoundsAssumption ==
  MaxBags \in Nat /\ MaxMessages \in Nat /\ MaxRequests \in Nat

VARIABLES
  engine,         \* the call the GUI thread is in; "ready" in none, "gone"
                  \* without an engine
  state,          \* state_
  paused,         \* paused_
  stopping,       \* stopping_
  writer,         \* writer_: the bag it writes or is to open, or 0
  writerMutex,    \* who holds writerMutex_
  subscriptions,  \* subscriptions_: topic and bag of each
  toSubscribe,    \* in startRecording: the topics still to come
  timer,          \* whether statsTimer_ is active
  error,          \* whether errorMessage_ says something
  executor,       \* the executor's thread: "none", "spinning", "canceled"
  callback,       \* the callback it runs
  topicStats,     \* topicStats_: the msgCount of its topics
  total,          \* totalMessageCount_
  content,        \* the messages of the bags, from their own subscriptions
  strays,         \* those from subscriptions made for another bag
  complete,       \* the bags that were closed in order
  broken,         \* history: those whose close() threw, or that the end of the
                  \* process has left open
  received,       \* bound: the messages received
  requests,       \* bound: see MaxRequests
  late            \* history: the messages written since the last pause

gui == <<engine, toSubscribe, timer, error>>
flags == <<state, paused, stopping>>
stats == <<topicStats, total>>
disk == <<content, strays, complete, broken>>
bounds == <<received, requests>>
vars == <<gui, flags, writer, writerMutex, subscriptions, executor, callback,
          stats, disk, bounds, late>>

NoCallback == [at |-> "none"]
Opened == DOMAIN content
Bag == Cardinality(Opened)
Closed == complete \cup broken

\* What becomes of a callback when the writer is destroyed without the mutex: one that
\* is in write() goes on in an object that is gone.
Orphaned ==
  IF callback.at = "writing" THEN [callback EXCEPT !.at = "dangling"] ELSE callback

Init ==
  /\ engine = "gone" /\ toSubscribe = {} /\ timer = FALSE /\ error = FALSE
  /\ state = "idle" /\ paused = FALSE /\ stopping = FALSE
  /\ writer = 0 /\ writerMutex = "free" /\ subscriptions = {}
  /\ executor = "none" /\ callback = NoCallback
  /\ topicStats = <<>> /\ total = 0
  /\ content = <<>> /\ strays = <<>> /\ complete = {} /\ broken = {}
  /\ received = 0 /\ requests = 0 /\ late = 0

Construct ==
  /\ engine = "gone" /\ requests < MaxRequests
  /\ engine' = "ready" /\ error' = FALSE /\ requests' = requests + 1
  /\ topicStats' = <<>> /\ total' = 0
  /\ UNCHANGED <<toSubscribe, timer, flags, writer, writerMutex, subscriptions,
                 executor, callback, disk, received, late>>

Request == engine = "ready" /\ requests < MaxRequests /\ requests' = requests + 1

\* ensureNode(): the node and its executor are made once.
EnsureNode == executor' = "spinning"
-----------------------------------------------------------------------------
(***************************************************************************)
(* Starting.                                                               *)
(***************************************************************************)

DiscoverTopics ==
  /\ Request /\ executor = "none" /\ EnsureNode
  /\ UNCHANGED <<gui, flags, writer, writerMutex, subscriptions, callback,
                 stats, disk, received, late>>

\* There is a recording already, or no topic is selected.
StartRefused ==
  /\ Request /\ error' = TRUE
  /\ UNCHANGED <<engine, toSubscribe, timer, flags, writer, writerMutex,
                 subscriptions, executor, callback, stats, disk, received, late>>

\* The directory cannot be made.
StartFails ==
  /\ Request /\ state = "idle" /\ error' = TRUE /\ EnsureNode
  /\ UNCHANGED <<engine, toSubscribe, timer, flags, writer, writerMutex,
                 subscriptions, callback, stats, disk, received, late>>

\* The writer is made, in the place of one that is still there.
Start(topics) ==
  /\ engine = "ready" /\ state = "idle" /\ topics # {} /\ Bag < MaxBags
  /\ EnsureNode /\ error' = FALSE
  /\ writer' = Bag + 1 /\ callback' = Orphaned
  /\ toSubscribe' = topics /\ engine' = "opening"
  /\ UNCHANGED <<timer, flags, writerMutex, subscriptions, stats, disk, bounds, late>>

\* Fault: the writer that could not open its bag stays.
OpenFailsKeeping ==
  /\ engine = "opening" /\ engine' = "ready"
  /\ error' = TRUE /\ toSubscribe' = {}
  /\ UNCHANGED <<timer, flags, writer, writerMutex, subscriptions, executor, callback,
                 stats, disk, bounds, late>>

\* The bag is there already (its name has a resolution of one second) or cannot be
\* opened: the writer is destroyed, without the mutex.
OpenFails ==
  /\ engine = "opening" /\ engine' = "ready"
  /\ error' = TRUE /\ toSubscribe' = {}
  /\ writer' = 0 /\ callback' = Orphaned
  /\ UNCHANGED <<timer, flags, writerMutex, subscriptions, executor, stats, disk,
                 bounds, late>>

Open ==
  /\ engine = "opening" /\ engine' = "resetting"
  /\ content' = [b \in 1..Bag + 1 |-> IF b \in Opened THEN content[b] ELSE 0]
  /\ strays' = [b \in 1..Bag + 1 |-> IF b \in Opened THEN strays[b] ELSE 0]
  /\ UNCHANGED <<toSubscribe, timer, error, flags, writer, writerMutex, subscriptions,
                 executor, callback, stats, complete, broken, bounds, late>>

ResetStats ==
  /\ engine = "resetting" /\ engine' = "subscribing"
  /\ topicStats' = <<>> /\ total' = 0
  /\ paused' = FALSE /\ stopping' = FALSE
  /\ UNCHANGED <<toSubscribe, timer, error, state, writer, writerMutex,
                 subscriptions, executor, callback, disk, bounds, late>>

\* An entry for t, as operator[] makes it.
WithEntry(t) ==
  [u \in DOMAIN topicStats \cup {t} |->
     IF u \in DOMAIN topicStats THEN topicStats[u] ELSE 0]

Subscribe(t) ==
  /\ engine = "subscribing" /\ t \in toSubscribe
  /\ toSubscribe' = toSubscribe \ {t}
  /\ topicStats' = WithEntry(t)
  /\ subscriptions' = subscriptions \cup {[topic |-> t, bag |-> Bag]}
  /\ UNCHANGED <<engine, timer, error, flags, writer, writerMutex, executor,
                 callback, total, disk, bounds, late>>

\* The topic is not on the graph or the writer refuses it, and is passed over;
\* or the subscription fails, and the entry of its statistics stays.
SubscribeFails(t) ==
  /\ engine = "subscribing" /\ t \in toSubscribe
  /\ toSubscribe' = toSubscribe \ {t}
  /\ topicStats' \in {topicStats, WithEntry(t)}
  /\ UNCHANGED <<engine, timer, error, flags, writer, writerMutex,
                 subscriptions, executor, callback, total, disk, bounds, late>>

\* Fault: the statistics are reset once the recording runs.
RecordResetsStats ==
  /\ engine = "subscribing" /\ toSubscribe = {} /\ subscriptions # {}
  /\ engine' = "ready" /\ timer' = TRUE /\ state' = "recording"
  /\ topicStats' = [t \in DOMAIN topicStats |-> 0]
  /\ total' = 0
  /\ UNCHANGED <<toSubscribe, error, paused, stopping, writer, writerMutex,
                 subscriptions, executor, callback, disk, bounds, late>>

Record ==
  /\ engine = "subscribing" /\ toSubscribe = {} /\ subscriptions # {}
  /\ engine' = "ready" /\ timer' = TRUE /\ state' = "recording"
  /\ UNCHANGED <<toSubscribe, error, paused, stopping, writer, writerMutex,
                 subscriptions, executor, callback, stats, disk, bounds, late>>

\* No topic could be subscribed: the bag is closed, without the mutex ...
NoneSubscribed == engine = "subscribing" /\ toSubscribe = {} /\ subscriptions = {}

GiveUp ==
  /\ NoneSubscribed
  /\ engine' = "giving up" /\ error' = TRUE
  /\ complete' = complete \cup {writer}
  /\ UNCHANGED <<toSubscribe, timer, flags, writer, writerMutex, subscriptions,
                 executor, callback, stats, content, strays, broken, bounds, late>>

\* ... and the writer destroyed.
DropWriter ==
  /\ engine = "giving up" /\ engine' = "ready"
  /\ writer' = 0 /\ callback' = Orphaned
  /\ UNCHANGED <<toSubscribe, timer, error, flags, writerMutex, subscriptions,
                 executor, stats, disk, bounds, late>>

\* close() throws, and nothing in startRecording catches it: where its caller does, the
\* writer stays; where nobody does, the process ends (GiveUpEnds).
GiveUpThrows ==
  /\ NoneSubscribed
  /\ engine' = "ready" /\ error' = TRUE
  /\ broken' = broken \cup {writer}
  /\ UNCHANGED <<toSubscribe, timer, flags, writer, writerMutex, subscriptions,
                 executor, callback, stats, content, strays, complete, bounds, late>>

\* The end of the process; what is on disk stays, and there may be another one.
ProcessEnds ==
  /\ engine' = "gone" /\ toSubscribe' = {} /\ timer' = FALSE /\ error' = FALSE
  /\ state' = "idle" /\ paused' = FALSE /\ stopping' = FALSE
  /\ writer' = 0 /\ writerMutex' = "free" /\ subscriptions' = {}
  /\ executor' = "none" /\ callback' = NoCallback
  /\ topicStats' = <<>> /\ total' = 0 /\ late' = 0
  /\ broken' = broken \cup (Opened \ complete)
  /\ UNCHANGED <<content, strays, complete, bounds>>

GiveUpEnds == NoneSubscribed /\ ProcessEnds
-----------------------------------------------------------------------------
(***************************************************************************)
(* Pause, resume and split.                                                *)
(***************************************************************************)

Pause ==
  /\ Request /\ state = "recording"
  /\ paused' = TRUE /\ state' = "paused" /\ late' = 0
  /\ UNCHANGED <<gui, stopping, writer, writerMutex, subscriptions, executor,
                 callback, stats, disk, received>>

Resume ==
  /\ Request /\ state = "paused"
  /\ paused' = FALSE /\ state' = "recording" /\ late' = 0
  /\ UNCHANGED <<gui, stopping, writer, writerMutex, subscriptions, executor,
                 callback, stats, disk, received>>

\* The next file of the bag; the writer may refuse.
SplitBag ==
  /\ Request /\ state # "idle" /\ writerMutex = "free"
  /\ error' \in {error, TRUE}
  /\ UNCHANGED <<engine, toSubscribe, timer, flags, writer, writerMutex,
                 subscriptions, executor, callback, stats, disk, received, late>>
-----------------------------------------------------------------------------
(***************************************************************************)
(* Stopping and destruction.                                               *)
(***************************************************************************)

\* Fault: the subscriptions stay.
StopStillSubscribed ==
  /\ engine = "ready" /\ state # "idle" /\ ~stopping
  /\ engine' = "stopping" /\ stopping' = TRUE /\ timer' = FALSE
  /\ UNCHANGED <<subscriptions, toSubscribe, error, state, paused, writer, writerMutex,
                 executor, callback, stats, disk, bounds, late>>

\* stopRecording(): the flag, the timer and the subscriptions first ...
Stop ==
  /\ engine = "ready" /\ state # "idle" /\ ~stopping
  /\ engine' = "stopping" /\ stopping' = TRUE /\ timer' = FALSE
  /\ subscriptions' = {}
  /\ UNCHANGED <<toSubscribe, error, state, paused, writer, writerMutex,
                 executor, callback, stats, disk, bounds, late>>

\* ... then the writer, under the mutex ...
LockWriter ==
  /\ engine \in {"stopping", "destroying"} /\ writerMutex = "free"
  /\ writerMutex' = "gui"
  /\ engine' = IF engine = "stopping" THEN "closing" ELSE "closing for good"
  /\ UNCHANGED <<toSubscribe, timer, error, flags, writer, subscriptions,
                 executor, callback, stats, disk, bounds, late>>

\* close() may throw, which nobody is told: the bag is then not complete.
CloseWriter ==
  /\ engine \in {"closing", "closing for good"}
  /\ \E closes \in BOOLEAN :
       /\ complete' = IF closes THEN complete \cup ({writer} \ {0}) ELSE complete
       /\ broken' = IF closes THEN broken ELSE broken \cup ({writer} \ {0})
  /\ writer' = 0 /\ writerMutex' = "free"
  /\ engine' = IF engine = "closing" THEN "closed" ELSE "joining"
  /\ UNCHANGED <<toSubscribe, timer, error, flags, subscriptions, executor,
                 callback, stats, content, strays, bounds, late>>

\* ... and the flags last, with recordingFinished.
Stopped ==
  /\ engine = "closed" /\ engine' = "ready"
  /\ paused' = FALSE /\ stopping' = FALSE /\ state' = "idle"
  /\ UNCHANGED <<toSubscribe, timer, error, writer, writerMutex, subscriptions,
                 executor, callback, stats, disk, bounds, late>>

\* The destructor, with a recording and without.
Destroy ==
  /\ Request /\ state # "idle"
  /\ engine' = "destroying" /\ stopping' = TRUE /\ subscriptions' = {}
  /\ timer' = FALSE
  /\ UNCHANGED <<toSubscribe, error, state, paused, writer, writerMutex,
                 executor, callback, stats, disk, received, late>>

DestroyIdle ==
  /\ Request /\ state = "idle" /\ engine' = "joining"
  /\ UNCHANGED <<toSubscribe, timer, error, flags, writer, writerMutex,
                 subscriptions, executor, callback, stats, disk, received, late>>

\* shutdownNode(): cancel() and the end of the context stop the executor ...
CancelExecutor ==
  /\ engine = "joining" /\ executor = "spinning" /\ executor' = "canceled"
  /\ UNCHANGED <<gui, flags, writer, writerMutex, subscriptions, callback,
                 stats, disk, bounds, late>>

\* ... and its thread is joined when its callback has returned.  The members go last.
JoinExecutor ==
  /\ engine = "joining" /\ executor # "spinning" /\ callback = NoCallback
  /\ engine' = "gone" /\ executor' = "none" /\ writer' = 0
  /\ state' = "idle" /\ paused' = FALSE /\ stopping' = FALSE
  /\ UNCHANGED <<toSubscribe, timer, error, writerMutex, subscriptions,
                 callback, stats, disk, bounds, late>>
-----------------------------------------------------------------------------
(***************************************************************************)
(* The callback of a subscription.                                         *)
(***************************************************************************)

Receive(s) ==
  /\ executor = "spinning" /\ callback = NoCallback
  /\ s \in subscriptions /\ received < MaxMessages
  /\ callback' = [at |-> "received", topic |-> s.topic, bag |-> s.bag]
  /\ received' = received + 1
  /\ UNCHANGED <<gui, flags, writer, writerMutex, subscriptions, executor,
                 stats, disk, requests, late>>

TestFlags ==
  /\ callback.at = "received"
  /\ callback' = IF paused \/ stopping THEN NoCallback
                 ELSE [callback EXCEPT !.at = "passed"]
  /\ UNCHANGED <<gui, flags, writer, writerMutex, subscriptions, executor,
                 stats, disk, bounds, late>>

\* Without a writer the message is not written, and counted all the same.
FindWriter ==
  /\ callback.at = "passed" /\ writerMutex = "free"
  /\ IF writer = 0
     THEN callback' = [callback EXCEPT !.at = "counting"] /\ UNCHANGED writerMutex
     ELSE callback' = [callback EXCEPT !.at = "writing"] /\ writerMutex' = "callback"
  /\ UNCHANGED <<gui, flags, writer, subscriptions, executor, stats, disk,
                 bounds, late>>

\* The message goes to the writer there is, if it has a bag open.
Write ==
  /\ callback.at = "writing" /\ writer \in Opened \ Closed
  /\ writerMutex' = "free" /\ callback' = [callback EXCEPT !.at = "counting"]
  /\ IF callback.bag = writer
     THEN content' = [content EXCEPT ![writer] = @ + 1] /\ UNCHANGED strays
     ELSE strays' = [strays EXCEPT ![writer] = @ + 1] /\ UNCHANGED content
  /\ late' = IF paused THEN late + 1 ELSE late
  /\ UNCHANGED <<gui, flags, writer, subscriptions, executor, stats, complete,
                 broken, bounds>>

\* Fault: the mutex is not released when write() throws.
WriteFailsLocked ==
  /\ callback.at = "writing"
  /\ callback' = NoCallback
  /\ UNCHANGED <<writerMutex, gui, flags, writer, subscriptions, executor, stats, disk,
                 bounds, late>>

\* write() throws; without an open bag it always does.
WriteFails ==
  /\ callback.at \in {"writing", "dangling"}
  /\ writerMutex' = "free" /\ callback' = NoCallback
  /\ UNCHANGED <<gui, flags, writer, subscriptions, executor, stats, disk,
                 bounds, late>>

\* write() in a writer that is gone is undefined: it throws, writes nowhere,
WriteLost ==
  /\ callback.at = "dangling"
  /\ writerMutex' = "free" /\ callback' = [callback EXCEPT !.at = "counting"]
  /\ UNCHANGED <<gui, flags, writer, subscriptions, executor, stats, disk,
                 bounds, late>>

\* or ends the process.
WriteCrashes == callback.at = "dangling" /\ ProcessEnds

Count ==
  /\ callback.at = "counting" /\ callback' = NoCallback
  /\ topicStats' = [WithEntry(callback.topic) EXCEPT ![callback.topic] = @ + 1]
  /\ total' = total + 1
  /\ UNCHANGED <<gui, flags, writer, writerMutex, subscriptions, executor,
                 disk, bounds, late>>
-----------------------------------------------------------------------------
\* The calls of the user and the timer.
User ==
  \/ Construct \/ DiscoverTopics \/ StartRefused \/ StartFails
  \/ Pause \/ Resume \/ SplitBag \/ Stop \/ Destroy \/ DestroyIdle
  \/ \E topics \in SUBSET Topics : Start(topics)

\* The GUI thread inside a call.
Gui ==
  \/ Open \/ OpenFails \/ ResetStats \/ Record
  \/ GiveUp \/ DropWriter \/ GiveUpThrows \/ GiveUpEnds
  \/ LockWriter \/ CloseWriter \/ Stopped
  \/ CancelExecutor \/ JoinExecutor
  \/ \E t \in Topics : Subscribe(t) \/ SubscribeFails(t)

\* The executor's thread inside a callback.
Callback ==
  \/ TestFlags \/ FindWriter \/ Write \/ WriteFails \/ Count
  \/ WriteLost \/ WriteCrashes

Next ==
  \/ User \/ Gui \/ Callback
  \/ \E s \in subscriptions : Receive(s)

Spec == Init /\ [][Next]_vars

\* Both threads run; nobody has to call, and no message has to come.
FairSpec == Spec /\ WF_vars(Gui) /\ WF_vars(Callback)
===============================================================================
