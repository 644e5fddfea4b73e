------------------------- MODULE TopicDiscoveryProofs -------------------------
(***************************************************************************)
(* Proofs about topic discovery for every set of topics and options: no    *)
(* discovery thread runs beside another one or behind a handler but one    *)
(* the handler has given up waiting for; and when only named topics are    *)
(* recorded and the options stay, discovery ends only once all of them are *)
(* subscribed.                                                             *)
(***************************************************************************)
EXTENDS TopicDiscoveryProperties, FiniteSetTheorems, TLAPS

Pc == {"none", "clock", "loop", "scan", "subscribe", "sleep", "done"}

\* A thread that exists is the one of the future or the one just spawned; a
\* recorder that does not exist has none; what a thread has still to subscribe
\* is forgotten at the end of its round; and the flag is set from the call of
\* stop_discovery until an update launches the next thread.
Owned ==
  /\ \A t \in Thread : t # future /\ t # spawned => thread[t] = "none"
  /\ handler = "assign" <=> spawned # NoThread
  /\ spawned # NoThread => spawned # future /\ thread[spawned] # "none"
  /\ alive => handler # "join"
  /\ ~alive => handler \in {"idle", "join"}
  /\ ~alive /\ handler = "idle" => future = NoThread /\ ~stop_discovery
  /\ \A t \in Thread : thread[t] # "subscribe" => missing[t] = {}
  /\ handler \in {"launch_wait", "launch", "close_wait", "close", "closing", "stopped",
                  "join"} => stop_discovery
  /\ handler = "assign" => ~stop_discovery

\* Wherever the handler has waited for the thread, and wherever it will not wait
\* because the flag is still set, the thread has returned, or it is late.  When it
\* has returned, nothing undoes the clearing of the subscriptions.
Waited ==
  /\ handler \in {"launch", "close", "closing", "stopped", "join", "assign"}
       => Finished(future) \/ future \in late
  /\ stop_discovery /\ handler = "idle" => Finished(future) \/ future \in late
  /\ handler \in {"closing", "stopped", "join"} /\ late = {} => subscriptions = {}

\* Every step preserves the types and the ownership of the threads.
LEMMA OwnedStep == TypeOK /\ Owned /\ [Next]_vars => TypeOK' /\ Owned'
<1> SUFFICES ASSUME TypeOK, Owned, [Next]_vars PROVE TypeOK' /\ Owned'
  OBVIOUS
<1> USE OptionsAssumption, FailuresAssumption
    DEF TypeOK, Owned, Thread, NoThread, environment, recorder, executor, discovery
<1>1. ASSUME NEW o \in Options, Start(o) PROVE TypeOK' /\ Owned'
  <2>1. CASE o.disabled
    BY <1>1, <2>1 DEF Start, Record, StartDiscovery, Selected
  <2>2. CASE ~o.disabled
    <3>1. ~stop_discovery /\ future = NoThread /\ spawned = NoThread
      BY <1>1 DEF Start
    <3>2. PICK t \in Thread : Launch(t, o) /\ future' = t
      BY <1>1, <2>2, <3>1 DEF Start, Record, StartDiscovery
    <3>3. thread' = [thread EXCEPT ![t] = Entry(o)] /\ Entry(o) \in {"clock", "loop"}
      BY <3>2 DEF Launch, Entry
    <3>4. Owned'
      BY <1>1, <2>2, <3>1, <3>2, <3>3 DEF Start, Record, StartDiscovery, Launch
    <3>5. thread' \in [Thread -> Pc] /\ thread'[t] # "none"
      BY <3>3 DEF Pc
    <3>6. o \in RecordOptions /\ subscriptions' \subseteq Topic
      BY <1>1 DEF Start, Record, Selected
    <3>7. TypeOK'
      BY <1>1, <2>2, <3>1, <3>2, <3>5, <3>6
      DEF Start, Record, StartDiscovery, Launch, Pc
    <3>8. QED BY <3>4, <3>7
  <2>3. QED BY <2>1, <2>2
<1>2. ASSUME NEW o \in Options, NEW s \in SUBSET Topic, StartFails(o, s)
      PROVE  TypeOK' /\ Owned'
  BY <1>2 DEF StartFails
<1>3. CASE RecordAgain
  <2>1. CASE options.disabled \/ stop_discovery
    BY <1>3, <2>1 DEF RecordAgain, Record, StartDiscovery, Selected
  <2>2. CASE ~options.disabled /\ ~stop_discovery
    BY <1>3, <2>2 DEF RecordAgain
  <2>3. QED BY <2>1, <2>2
<1>4. ASSUME NEW o \in Updates, Update(o) PROVE TypeOK' /\ Owned'
  BY <1>4 DEF Update, StopDiscovery
<1>5. CASE Stop BY <1>5 DEF Stop, StopDiscovery
<1>6. CASE Destroy BY <1>6 DEF Destroy
<1>7. CASE WaitReady BY <1>7 DEF WaitReady, After
<1>8. CASE WaitTimesOut
  <2>1. future # NoThread
    BY <1>8 DEF WaitTimesOut, Finished
  <2>2. QED BY <1>8, <2>1 DEF WaitTimesOut, After
<1>9. CASE UpdateLaunch
  <2>1. PICK t \in Thread : Launch(t, pending) /\ spawned' = t
    BY <1>9 DEF UpdateLaunch
  <2>2. thread' = [thread EXCEPT ![t] = Entry(pending)] /\ Entry(pending) \in {"clock", "loop"}
    BY <2>1 DEF Launch, Entry
  <2>3. t # future /\ thread[t] = "none"
    BY <2>1 DEF Launch
  <2>4. Owned'
    BY <1>9, <2>1, <2>2, <2>3 DEF UpdateLaunch, Launch
  <2>5. thread' \in [Thread -> Pc]
    BY <2>2 DEF Pc
  <2>6. future # NoThread => thread'[future] # "none"
    BY <2>2, <2>3
  <2>7. NoOptions \in RecordOptions
    BY DEF NoOptions, RecordOptions
  <2>8. TypeOK'
    BY <1>9, <2>1, <2>5, <2>6, <2>7 DEF UpdateLaunch, Launch, Pc
  <2>9. QED BY <2>4, <2>8
<1>10. CASE UpdateAssign BY <1>10 DEF UpdateAssign, Finished
<1>11. CASE Clear \/ Close \/ CloseFails
  <2>1. CASE Clear BY <2>1 DEF Clear
  <2>2. CASE Close BY <2>2 DEF Close
  <2>3. CASE CloseFails BY <2>3 DEF CloseFails
  <2>4. QED BY <1>11, <2>1, <2>2, <2>3
<1>12. CASE Join BY <1>12 DEF Join, Finished, NoOptions, RecordOptions
<1>13. ASSUME NEW t \in Thread, ThreadStep(t) PROVE TypeOK' /\ Owned'
  <2>1. CASE ClockWait(t) BY <2>1 DEF ClockWait, Goto
  <2>2. CASE LoopEnters(t) BY <2>2 DEF LoopEnters, Goto
  <2>3. CASE LoopExits(t) BY <2>3 DEF LoopExits, Goto
  <2>4. CASE Scan(t) BY <2>4 DEF Scan, Goto
  <2>5. ASSUME NEW topic \in Topic, Subscribe(t, topic) PROVE TypeOK' /\ Owned'
    BY <2>5 DEF Subscribe, Goto
  <2>6. CASE SubscribeFails(t) BY <2>6 DEF SubscribeFails, Goto
  <2>7. CASE RoundEnds(t) BY <2>7 DEF RoundEnds, Goto
  <2>8. CASE DiscoveryEnds(t) BY <2>8 DEF DiscoveryEnds, Goto
  <2>9. CASE Wake(t) BY <2>9 DEF Wake, Goto
  <2>10. QED
    BY <1>13, <2>1, <2>2, <2>3, <2>4, <2>5, <2>6, <2>7, <2>8, <2>9 DEF ThreadStep
<1>14. ASSUME NEW topic \in Topic, GraphChanges(topic) PROVE TypeOK' /\ Owned'
  BY <1>14 DEF GraphChanges
<1>15. CASE ClockStarts BY <1>15 DEF ClockStarts
<1>16. CASE Interrupt BY <1>16 DEF Interrupt
<1>17. CASE UNCHANGED vars BY <1>17 DEF vars
<1>18. QED
  BY <1>1, <1>2, <1>3, <1>4, <1>5, <1>6, <1>7, <1>8, <1>9, <1>10, <1>11, <1>12,
     <1>13, <1>14, <1>15, <1>16, <1>17 DEF Next, Requests, Handler, Environment

\* Every step preserves the wait: a thread that has returned takes no step, and
\* the flag is cleared only together with a new thread or for the next recording.
LEMMA WaitedStep == TypeOK /\ Owned /\ Waited /\ [Next]_vars => Waited'
<1> SUFFICES ASSUME TypeOK, Owned, Waited, [Next]_vars PROVE Waited'
  OBVIOUS
<1> USE DEF TypeOK, Owned, Waited, Finished, Thread, NoThread, environment,
            recorder, executor, discovery
<1>1. ASSUME NEW o \in Options, Start(o) PROVE Waited'
  <2>1. handler' = "idle" /\ (o.disabled => stop_discovery' = stop_discovery)
    BY <1>1 DEF Start, Record, StartDiscovery
  <2>2. ~stop_discovery'
    BY <1>1, <2>1 DEF Start, Record, StartDiscovery
  <2>3. QED BY <2>1, <2>2
<1>2. ASSUME NEW o \in Options, NEW s \in SUBSET Topic, StartFails(o, s)
      PROVE  Waited'
  BY <1>2 DEF StartFails
<1>3. CASE RecordAgain
  <2>1. CASE options.disabled
    BY <1>3, <2>1 DEF RecordAgain, Record, StartDiscovery
  <2>2. CASE ~options.disabled
    BY <1>3, <2>2 DEF RecordAgain, Record, StartDiscovery
  <2>3. QED BY <2>1, <2>2
<1>4. ASSUME NEW o \in Updates, Update(o) PROVE Waited'
  BY <1>4 DEF Update, StopDiscovery
<1>5. CASE Stop BY <1>5 DEF Stop, StopDiscovery
<1>6. CASE Destroy BY <1>6 DEF Destroy
<1>7. CASE WaitReady BY <1>7 DEF WaitReady, After
<1>8. CASE WaitTimesOut BY <1>8 DEF WaitTimesOut, After
<1>9. CASE UpdateLaunch
  <2>1. PICK t \in Thread : Launch(t, pending) /\ spawned' = t
    BY <1>9 DEF UpdateLaunch
  <2>2. t # future /\ thread' = [thread EXCEPT ![t] = Entry(pending)]
    BY <1>9, <2>1 DEF UpdateLaunch, Launch
  <2>3. handler' = "assign" /\ future' = future
    BY <1>9 DEF UpdateLaunch
  <2>4. Finished(future)' \/ (future \in late)'
    BY <1>9, <2>2, <2>3 DEF UpdateLaunch
  <2>5. QED BY <2>3, <2>4
<1>10. CASE UpdateAssign BY <1>10 DEF UpdateAssign
<1>11. CASE Clear \/ Close \/ CloseFails BY <1>11 DEF Clear, Close, CloseFails
<1>12. CASE Join BY <1>12 DEF Join
<1>13. ASSUME NEW t \in Thread, ThreadStep(t) PROVE Waited'
  <2>1. CASE ClockWait(t) BY <2>1 DEF ClockWait, Goto
  <2>2. CASE LoopEnters(t) BY <2>2 DEF LoopEnters, Goto
  <2>3. CASE LoopExits(t) BY <2>3 DEF LoopExits, Goto
  <2>4. CASE Scan(t) BY <2>4 DEF Scan, Goto
  <2>5. ASSUME NEW topic \in Topic, Subscribe(t, topic) PROVE Waited'
    BY <2>5 DEF Subscribe, Goto
  <2>6. CASE SubscribeFails(t) BY <2>6 DEF SubscribeFails, Goto
  <2>7. CASE RoundEnds(t) BY <2>7 DEF RoundEnds, Goto
  <2>8. CASE DiscoveryEnds(t) BY <2>8 DEF DiscoveryEnds, Goto
  <2>9. CASE Wake(t) BY <2>9 DEF Wake, Goto
  <2>10. QED
    BY <1>13, <2>1, <2>2, <2>3, <2>4, <2>5, <2>6, <2>7, <2>8, <2>9 DEF ThreadStep
<1>14. ASSUME NEW topic \in Topic, GraphChanges(topic) PROVE Waited'
  BY <1>14 DEF GraphChanges
<1>15. CASE ClockStarts BY <1>15 DEF ClockStarts
<1>16. CASE Interrupt BY <1>16 DEF Interrupt
<1>17. CASE UNCHANGED vars BY <1>17 DEF vars
<1>18. QED
  BY <1>1, <1>2, <1>3, <1>4, <1>5, <1>6, <1>7, <1>8, <1>9, <1>10, <1>11, <1>12,
     <1>13, <1>14, <1>15, <1>16, <1>17 DEF Next, Requests, Handler, Environment

\* The initial state has no recorder and no thread.
LEMMA Initially == Init => TypeOK /\ Owned /\ Waited
<1> SUFFICES ASSUME Init PROVE TypeOK /\ Owned /\ Waited
  OBVIOUS
<1>1. NoOptions \in RecordOptions /\ 0 \in 0..MaxFailures
  BY FailuresAssumption DEF NoOptions, RecordOptions
<1>2. thread \in [Thread -> Pc] /\ missing \in [Thread -> SUBSET Topic]
  BY DEF Init, Pc
<1>3. TypeOK
  BY <1>1, <1>2 DEF Init, TypeOK, Pc, NoThread
<1>4. Owned /\ Waited
  BY DEF Init, Owned, Waited, Finished, Thread, NoThread
<1>5. QED BY <1>3, <1>4

\* The types hold, and a future always stands for a thread that was started.
THEOREM TypeCorrect == Spec => []TypeOK
<1>1. Spec => [](TypeOK /\ Owned)
  BY Initially, OwnedStep, PTL DEF Spec
<1>2. QED BY <1>1, PTL

\* The wait is an invariant.
LEMMA AlwaysWaited == Spec => [](TypeOK /\ Owned /\ Waited)
<1>1. TypeOK /\ Owned /\ Waited /\ [Next]_vars => (TypeOK /\ Owned /\ Waited)'
  BY OwnedStep, WaitedStep
<1>2. QED BY Initially, <1>1, PTL DEF Spec

\* Two discovery threads run at once only while an update whose wait has timed out
\* gives up the late one, however often and in whatever order the recorder is
\* updated, stopped, destroyed and started.
THEOREM AtMostOneDiscoveryThread == Spec => []OneDiscoveryThread
<1>1. TypeOK /\ Owned /\ Waited => OneDiscoveryThread
  BY DEF TypeOK, Owned, Waited, OneDiscoveryThread, Running, Finished, Thread, NoThread
<1>2. QED BY <1>1, AlwaysWaited, PTL

\* No discovery thread runs while an update replaces the options it reads, or while
\* a recording is torn down, but one the handler has waited for in vain; without
\* such a thread no subscription outlives the recording.
THEOREM HandlersHaveTheRecorderToThemselves == Spec => []NoThreadBehindHandler
<1>1. TypeOK /\ Owned /\ Waited => NoThreadBehindHandler
  BY DEF TypeOK, Owned, Waited, NoThreadBehindHandler, Running, Finished, Thread, NoThread
<1>2. QED BY <1>1, AlwaysWaited, PTL
-----------------------------------------------------------------------------
\* With named topics only and no updates, a recorder subscribes to nothing else.
NamedOnly ==
  /\ Updates = {}
  /\ \A o \in Options : o.extra = {}

Named ==
  /\ options.extra = {}
  /\ handler \notin {"launch_wait", "launch", "assign"}
  /\ subscriptions \subseteq options.topics
  /\ \A t \in Thread : missing[t] \subseteq options.topics

\* Every step preserves that.
LEMMA NamedStep ==
  ASSUME NamedOnly
  PROVE  TypeOK /\ Owned /\ Named /\ [Next]_vars => Named'
<1> SUFFICES ASSUME TypeOK, Owned, Named, [Next]_vars PROVE Named'
  OBVIOUS
<1> USE DEF TypeOK, Owned, Named, Thread, NoThread, environment, recorder,
            executor, discovery
<1>0. Updates = {} /\ \A o \in Options : o.extra = {}
  BY DEF NamedOnly
<1>1. ASSUME NEW o \in Options, Start(o) PROVE Named'
  <2>1. \A t \in Thread : missing[t] = {}
    BY <1>1 DEF Start
  <2>2. missing' = missing
    BY <1>1 DEF Start, Record, StartDiscovery, Launch
  <2>3. options' = o /\ handler' = "idle" /\ subscriptions' \subseteq Selected(o)
    BY <1>1 DEF Start, Record
  <2>4. Selected(o) = o.topics
    BY <1>0 DEF Selected
  <2>5. QED BY <1>0, <2>1, <2>2, <2>3, <2>4
<1>2. ASSUME NEW o \in Options, NEW s \in SUBSET Topic, StartFails(o, s)
      PROVE  Named'
  <2>1. \A t \in Thread : missing[t] = {}
    BY <1>2 DEF StartFails
  <2>2. /\ missing' = missing /\ options' = o /\ handler' = handler
        /\ subscriptions' \subseteq Selected(o)
    BY <1>2 DEF StartFails
  <2>3. Selected(o) = o.topics
    BY <1>0 DEF Selected
  <2>4. QED BY <1>0, <2>1, <2>2, <2>3
<1>3. CASE RecordAgain
  <2>1. missing' = missing
    BY <1>3 DEF RecordAgain, Record, StartDiscovery, Launch
  <2>2. options' = options /\ handler' = "idle" /\ subscriptions' \subseteq Selected(options)
    BY <1>3 DEF RecordAgain, Record
  <2>3. Selected(options) = options.topics
    BY DEF Selected
  <2>4. QED BY <2>1, <2>2, <2>3
<1>4. ASSUME NEW o \in Updates, Update(o) PROVE Named'
  BY <1>0, <1>4
<1>5. CASE Stop BY <1>5 DEF Stop, StopDiscovery
<1>6. CASE Destroy BY <1>6 DEF Destroy
<1>7. CASE WaitReady BY <1>7 DEF WaitReady, After
<1>8. CASE WaitTimesOut BY <1>8 DEF WaitTimesOut, After
<1>9. CASE UpdateLaunch BY <1>9 DEF UpdateLaunch
<1>10. CASE UpdateAssign BY <1>10 DEF UpdateAssign
<1>11. CASE Clear \/ Close \/ CloseFails BY <1>11 DEF Clear, Close, CloseFails
<1>12. CASE Join
  <2>1. \A t \in Thread : missing[t] = {}
    BY <1>12 DEF Join, Finished
  <2>2. QED BY <1>12, <2>1 DEF Join, NoOptions
<1>13. ASSUME NEW t \in Thread, ThreadStep(t) PROVE Named'
  <2>1. CASE ClockWait(t) BY <2>1 DEF ClockWait, Goto
  <2>2. CASE LoopEnters(t) BY <2>2 DEF LoopEnters, Goto
  <2>3. CASE LoopExits(t) BY <2>3 DEF LoopExits, Goto
  <2>4. CASE Scan(t) BY <2>4 DEF Scan, Goto, Selected
  <2>5. ASSUME NEW topic \in Topic, Subscribe(t, topic) PROVE Named'
    BY <2>5 DEF Subscribe, Goto
  <2>6. CASE SubscribeFails(t) BY <2>6 DEF SubscribeFails, Goto
  <2>7. CASE RoundEnds(t) BY <2>7 DEF RoundEnds, Goto
  <2>8. CASE DiscoveryEnds(t) BY <2>8 DEF DiscoveryEnds, Goto
  <2>9. CASE Wake(t) BY <2>9 DEF Wake, Goto
  <2>10. QED
    BY <1>13, <2>1, <2>2, <2>3, <2>4, <2>5, <2>6, <2>7, <2>8, <2>9 DEF ThreadStep
<1>14. ASSUME NEW topic \in Topic, GraphChanges(topic) PROVE Named'
  BY <1>14 DEF GraphChanges
<1>15. CASE ClockStarts BY <1>15 DEF ClockStarts
<1>16. CASE Interrupt BY <1>16 DEF Interrupt
<1>17. CASE UNCHANGED vars BY <1>17 DEF vars
<1>18. QED
  BY <1>1, <1>2, <1>3, <1>4, <1>5, <1>6, <1>7, <1>8, <1>9, <1>10, <1>11, <1>12,
     <1>13, <1>14, <1>15, <1>16, <1>17 DEF Next, Requests, Handler, Environment

\* As many subscriptions as topics are all topics, if there are no others.
LEMMA EnoughIsAll ==
  ASSUME TypeOK, subscriptions \subseteq options.topics, Enough
  PROVE  options.topics \subseteq subscriptions
<1>1. IsFiniteSet(options.topics) /\ options.topics \subseteq Topic
  BY TopicAssumption, FS_Subset DEF TypeOK, RecordOptions
<1>2. /\ Cardinality(subscriptions) <= Cardinality(options.topics)
      /\ Cardinality(options.topics) = Cardinality(subscriptions)
           => options.topics = subscriptions
  BY <1>1, FS_Subset
<1>3. Cardinality(subscriptions) \in Nat /\ Cardinality(options.topics) \in Nat
  BY <1>1, FS_Subset, FS_CardinalityType
<1>4. Cardinality(options.topics) = Cardinality(subscriptions)
  BY <1>2, <1>3 DEF Enough
<1>5. QED BY <1>2, <1>4

\* "All requested topics are subscribed" is true when discovery says so, as long
\* as only named topics are recorded and the options stay.
THEOREM EndsOnlyWhenAllSubscribed ==
  ASSUME NamedOnly
  PROVE  Spec => EndsWhenAllSubscribed
<1>1. Init => Named
  BY DEF Init, Named, NoOptions, Thread
<1>2. TypeOK /\ Owned /\ Named /\ [Next]_vars => (TypeOK /\ Owned /\ Named)'
  BY OwnedStep, NamedStep
<1>3. TypeOK /\ Owned /\ Named /\ [Next]_vars
        => [\A t \in Thread :
              DiscoveryEnds(t) => options.topics \subseteq subscriptions]_vars
  BY EnoughIsAll DEF Named, DiscoveryEnds
<1>4. QED BY Initially, <1>1, <1>2, <1>3, PTL DEF Spec, EndsWhenAllSubscribed
===============================================================================
