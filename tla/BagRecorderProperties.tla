------------------------- MODULE BagRecorderProperties -------------------------
(***************************************************************************)
(* What must hold of recordings the GUI makes by itself.                   *)
(***************************************************************************)
EXTENDS BagRecorder

Calls ==
  {"gone", "ready", "opening", "resetting", "subscribing", "giving up", "stopping",
   "closing", "closed", "destroying", "closing for good", "joining"}
Stages == {"received", "passed", "writing", "dangling", "counting"}

\* The types of the members of the engine, and who may hold the mutex.
TypeOK ==
  /\ engine \in Calls /\ toSubscribe \subseteq Topics
  /\ timer \in BOOLEAN /\ error \in BOOLEAN
  /\ state \in {"idle", "recording", "paused"}
  /\ paused \in BOOLEAN /\ stopping \in BOOLEAN
  /\ writer \in 0..Bag + 1 /\ writerMutex \in {"free", "gui", "callback"}
  /\ writerMutex = "gui" <=> engine \in {"closing", "closing for good"}
  /\ writerMutex = "callback" <=> callback.at \in {"writing", "dangling"}
  /\ subscriptions \subseteq [topic : Topics, bag : 1..Bag]
  /\ executor \in {"none", "spinning", "canceled"}
  /\ callback \in {NoCallback} \cup [at : Stages, topic : Topics, bag : 1..Bag]
  /\ DOMAIN topicStats \subseteq Topics /\ total \in Nat
  /\ Opened = 1..Bag /\ Bag <= MaxBags
  /\ complete \subseteq Opened /\ broken \subseteq Opened
  /\ received \in 0..MaxMessages /\ requests \in 0..MaxRequests /\ late \in Nat

\* Between two calls the state the panel shows is that of the writer: a bag is
\* open, with somebody to fill it, exactly while it does not say "idle", no bag is
\* forgotten, and no flag is left from the recording before.  An idle engine has a
\* writer only where a start that subscribed to nothing could not close its bag.
WriterMatchesState ==
  engine = "ready" =>
    /\ Opened \ Closed = IF state = "idle" THEN {} ELSE {writer}
    /\ state = "idle" => writer = 0 \/ writer \in broken
    /\ state # "idle" <=> subscriptions # {}
    /\ timer <=> state # "idle"
    /\ paused <=> state = "paused"
    /\ ~stopping

\* A callback that writes has a writer under it, and during a recording an open bag:
\* writerMutex_ keeps stop and destructor away.  A start does not take the mutex, and
\* may destroy its writer under a callback ("dangling") when the bag cannot be opened,
\* when nothing could be subscribed, and when it replaces one it could not close; but
\* it is never one of the recording that goes on.
WritesOnlyOpenBag ==
  /\ callback.at = "writing" => writer # 0 /\ (state # "idle" => writer \notin Closed)
  /\ callback.at = "dangling" /\ state # "idle" => callback.bag < writer

\* Whatever fails on the way, the engine and its writer agree (startRecording,
\* stopRecording and the callbacks beside them).
EngineMatchesWriter == TypeOK /\ WriterMatchesState /\ WritesOnlyOpenBag

\* "messages are discarded while paused" (bag_recorder_engine.hpp:76), but for
\* the one whose callback had already tested the flag.
PauseHolds == late <= 1

\* The total is the sum over the topics.
TotalIsSum == total = MapThenSumSet(LAMBDA t : topicStats[t], DOMAIN topicStats)

\* The total is the number of messages in the bag, but for the callback under way,
\* one message of the bag before, and one that found its bag closed.
TotalNearBag ==
  DOMAIN topicStats # {} /\ engine # "resetting" =>
    content[Bag] - 1 <= total /\ total <= content[Bag] + 2

\* The numbers the panel shows are those of the bag, give or take the few messages
\* that the flags and the mutex let slip (write and count are two steps).
CountsNearBag == TotalIsSum /\ TotalNearBag

\* A bag holds messages of its own topics, but for one whose callback had
\* already tested the flags when the bag before was stopped.
AtMostOneStray == \A b \in Opened : strays[b] <= 1

\* Pausing and stopping take effect at once, but for the one callback that has tested
\* the flags before they were set (and takes writerMutex_ after).
OneCallbackLate == PauseHolds /\ AtMostOneStray

\* The GUI thread returns from every call, unless its process ends: it gets the mutex,
\* and the executor's thread ends.
CallsReturn == engine \notin {"ready", "gone"} ~> engine \in {"ready", "gone"}
===============================================================================
