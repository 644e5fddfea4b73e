---------------------------- MODULE TopicDiscovery ----------------------------
(***************************************************************************)
(* Topic discovery of one RecorderImpl at a time: the handlers of the      *)
(* executor thread that start, update, stop and destroy the recorder, and  *)
(* the discovery threads std::async runs beside them (recorder_impl.cpp).  *)
(*                                                                         *)
(* stop_discovery_ and the future are the only means of communication.     *)
(* wait_for gives up after twice the polling interval, which a discovery   *)
(* round of many topics can exceed, and the handler goes on all the same.  *)
(***************************************************************************)
EXTENDS FiniteSets, Naturals

CONSTANTS
  Topic,        \* topic names
  Options,      \* the record options of new recordings
  Updates,      \* the record options of hot updates
  Reuse,        \* record() may be called again on a stopped recorder
  MaxFailures   \* bound: exceptions in discovery rounds and subscriptions

\* topics: record_options_.topics; extra: what 'all', 'regex' and 'services'
\* select besides; disabled: is_discovery_disabled; sim: use_sim_time.  The
\* constructor of RecorderImpl refuses the last two together.
RecordOptions == [topics : SUBSET Topic, extra : SUBSET Topic,
                  disabled : BOOLEAN, sim : BOOLEAN]

ASSUME OptionsAssumption ==
  /\ Options \subseteq RecordOptions
  /\ Updates \subseteq RecordOptions
  /\ \A o \in Options : ~(o.disabled /\ o.sim)
ASSUME SwitchAssumption == Reuse \in BOOLEAN
ASSUME FailuresAssumption == MaxFailures \in Nat
ASSUME TopicAssumption == IsFiniteSet(Topic)

\* An update keeps two discovery threads at most: it waits for the old one.
Thread == {1, 2}
NoThread == 0

VARIABLES
  graph,           \* the topics the ROS graph has at the moment
  clock_started,   \* a /clock message has arrived
  ok,              \* rclcpp::ok()
  alive,           \* the members of the recorder exist
  in_recording,    \* RecorderImpl::in_recording_
  options,         \* RecorderImpl::record_options_ and topic_filter_
  subscriptions,   \* RecorderImpl::subscriptions_
  stop_discovery,  \* RecorderImpl::stop_discovery_
  future,          \* the thread behind discovery_future_
  handler,         \* where the executor thread is
  pending,         \* the new options of update_record_options
  spawned,         \* the thread an update has started
  thread,          \* where each discovery thread is
  missing,         \* what each has still to subscribe in its round
  late,            \* history: a thread the executor has given up waiting for
  failures

environment == <<graph, clock_started, ok, failures>>
recorder == <<alive, in_recording, options, subscriptions, stop_discovery, future>>
executor == <<handler, pending, spawned, late>>
discovery == <<thread, missing>>
vars == <<environment, recorder, executor, discovery>>

NoOptions == [topics |-> {}, extra |-> {}, disabled |-> FALSE, sim |-> FALSE]

\* The topics the filter lets through.
Selected(o) == o.topics \cup o.extra

\* The first statement of topics_discovery.
Entry(o) == IF o.sim THEN "clock" ELSE "loop"

Running(t) == thread[t] \notin {"none", "done"}

\* The future is ready, or there is none.
Finished(f) == \A t \in Thread : t = f => thread[t] = "done"
-----------------------------------------------------------------------------
(***************************************************************************)
(* The executor thread.                                                    *)
(***************************************************************************)

Launch(t, o) ==
  /\ thread[t] = "none"
  /\ thread' = [thread EXCEPT ![t] = Entry(o)]
  /\ UNCHANGED missing

\* start_discovery, from record(): a flag that was true means "already running".
StartDiscovery(o) ==
  IF o.disabled THEN UNCHANGED <<stop_discovery, future, discovery>>
  ELSE /\ stop_discovery' = FALSE
       /\ IF stop_discovery THEN UNCHANGED <<future, discovery>>
          ELSE \E t \in Thread : Launch(t, o) /\ future' = t

\* record(): the topics there are now, then discovery.
Record(o) ==
  /\ handler' = "idle"
  /\ alive' = TRUE /\ in_recording' = TRUE /\ options' = o
  /\ subscriptions' = IF o.sim THEN {} ELSE Selected(o) \cap graph
  /\ StartDiscovery(o)
  /\ UNCHANGED <<environment, pending, spawned, late>>

\* A new recorder object.
Start(o) == handler = "idle" /\ ~alive /\ ok /\ Record(o)

\* A topic of the first round cannot be subscribed: record() throws, with the
\* topics before it subscribed and without discovery.
StartFails(o, subscribed) ==
  /\ handler = "idle" /\ ~alive /\ ok
  /\ failures < MaxFailures /\ failures' = failures + 1
  /\ ~o.sim /\ subscribed \subseteq Selected(o) \cap graph
  /\ subscribed # Selected(o) \cap graph
  /\ alive' = TRUE /\ in_recording' = TRUE /\ options' = o
  /\ subscriptions' = subscribed
  /\ UNCHANGED <<graph, clock_started, ok, stop_discovery, future, executor,
                 discovery>>

\* The same object again, after stop().
RecordAgain == handler = "stopped" /\ Reuse /\ ok /\ Record(options)

\* Faults: the future is not waited for; the flag is not set.
StopDiscoveryNoWait(next, wait) ==
  /\ stop_discovery' = TRUE
  /\ handler' = next

StopDiscoveryNoFlag(next, wait) ==
  /\ stop_discovery' = stop_discovery
  /\ handler' = IF stop_discovery \/ future = NoThread THEN next ELSE wait

\* stop_discovery: a flag that was true means there is nothing to wait for.
StopDiscovery(next, wait) ==
  /\ stop_discovery' = TRUE
  /\ handler' = IF stop_discovery \/ future = NoThread THEN next ELSE wait

\* update_record_options, up to the call of stop_discovery.
Update(o) ==
  /\ handler = "idle" /\ alive /\ ok
  /\ StopDiscovery("launch", "launch_wait")
  /\ pending' = o
  /\ UNCHANGED <<environment, alive, in_recording, options, subscriptions, future,
                 spawned, late, discovery>>

\* stop(), up to the call of stop_discovery.
Stop ==
  /\ handler = "idle" /\ alive
  /\ StopDiscovery("close", "close_wait")
  /\ UNCHANGED <<environment, alive, in_recording, options, subscriptions, future,
                 pending, spawned, late, discovery>>

\* discovery_future_.wait_for returns: the future is ready ...
After == IF handler = "launch_wait" THEN "launch" ELSE "close"

WaitReady ==
  /\ handler \in {"launch_wait", "close_wait"}
  /\ Finished(future)
  /\ handler' = After
  /\ late' = {}
  /\ UNCHANGED <<environment, recorder, pending, spawned, discovery>>

\* ... or the time is up, which is logged.
WaitTimesOut ==
  /\ handler \in {"launch_wait", "close_wait"}
  /\ ~Finished(future)
  /\ handler' = After
  /\ late' = {future}
  /\ UNCHANGED <<environment, recorder, pending, spawned, discovery>>

\* update_record_options: the new options, the flag reset, and a new thread,
\* whatever is_discovery_disabled says.
UpdateLaunch ==
  /\ handler = "launch"
  /\ options' = pending /\ pending' = NoOptions
  /\ stop_discovery' = FALSE
  /\ \E t \in Thread : Launch(t, pending) /\ spawned' = t
  /\ handler' = "assign"
  /\ UNCHANGED <<environment, alive, in_recording, subscriptions, future, late>>

\* discovery_future_ = ...: the old future is given up, which blocks until the
\* thread behind it has returned.  One that was late has missed its signal to stop:
\* the flag is down again.
UpdateAssign ==
  /\ handler = "assign" /\ Finished(future)
  /\ future' = spawned /\ spawned' = NoThread /\ late' = {}
  /\ thread' = [t \in Thread |-> IF t = future THEN "none" ELSE thread[t]]
  /\ handler' = "idle"
  /\ UNCHANGED <<environment, alive, in_recording, options, subscriptions,
                 stop_discovery, pending, missing>>

\* stop(): subscriptions_.clear() ...
Clear ==
  /\ handler = "close"
  /\ subscriptions' = {}
  /\ handler' = "closing"
  /\ UNCHANGED <<environment, alive, in_recording, options, stop_discovery, future,
                 pending, spawned, late, discovery>>

\* ... and writer_->close(), with the rest of stop(),
Close ==
  /\ handler = "closing"
  /\ in_recording' = FALSE
  /\ handler' = "stopped"
  /\ UNCHANGED <<environment, alive, options, subscriptions, stop_discovery, future,
                 pending, spawned, late, discovery>>

\* which throws instead: the recorder stays in recording, with its subscriptions
\* and its discovery gone, until it is stopped again.
CloseFails ==
  /\ handler = "closing"
  /\ failures < MaxFailures /\ failures' = failures + 1
  /\ handler' = "idle"
  /\ UNCHANGED <<graph, clock_started, ok, recorder, pending, spawned, late,
                 discovery>>

\* recorder.reset(): the members declared after discovery_future_ (topics_info_,
\* files_, throttle_states_) are destroyed first ...
Destroy ==
  /\ handler = "stopped"
  /\ alive' = FALSE
  /\ handler' = "join"
  /\ UNCHANGED <<environment, in_recording, options, subscriptions,
                 stop_discovery, future, pending, spawned, late, discovery>>

\* ... then the future, whose destructor waits for its thread.  After a
\* shutdown the next recorder is that of the next process.
Join ==
  /\ handler = "join" /\ Finished(future)
  /\ handler' = "idle"
  /\ options' = NoOptions /\ subscriptions' = {}
  /\ stop_discovery' = FALSE /\ future' = NoThread
  /\ thread' = [t \in Thread |-> IF t = future THEN "none" ELSE thread[t]]
  /\ ok' = TRUE /\ late' = {}
  /\ UNCHANGED <<graph, clock_started, failures, alive, in_recording, pending,
                 spawned, missing>>
-----------------------------------------------------------------------------
(***************************************************************************)
(* A discovery thread: topics_discovery.                                   *)
(***************************************************************************)

Goto(t, from, to) ==
  thread[t] = from /\ thread' = [thread EXCEPT ![t] = to]

\* wait_until_started, repeated
ClockWait(t) ==
  /\ clock_started \/ stop_discovery \/ ~ok
  /\ Goto(t, "clock", "loop")
  /\ UNCHANGED <<environment, recorder, executor, missing>>

LoopEnters(t) ==
  /\ ok /\ ~stop_discovery
  /\ Goto(t, "loop", "scan")
  /\ UNCHANGED <<environment, recorder, executor, missing>>

LoopExits(t) ==
  /\ ~ok \/ stop_discovery
  /\ Goto(t, "loop", "done")
  /\ UNCHANGED <<environment, recorder, executor, missing>>

\* get_requested_or_available_topics and get_missing_topics
Scan(t) ==
  /\ Goto(t, "scan", "subscribe")
  /\ missing' = [missing EXCEPT ![t] = (Selected(options) \cap graph) \ subscriptions]
  /\ UNCHANGED <<environment, recorder, executor>>

\* subscribe_topic.  A closed writer creates no topics (SubscribeFails).
Subscribe(t, topic) ==
  /\ Goto(t, "subscribe", "subscribe")
  /\ topic \in missing[t] /\ in_recording
  /\ subscriptions' = subscriptions \cup {topic}
  /\ missing' = [missing EXCEPT ![t] = @ \ {topic}]
  /\ UNCHANGED <<environment, executor, alive, in_recording, options,
                 stop_discovery, future>>

\* Fault: the exception ends the thread.
SubscribeFailsForGood(t) ==
  /\ missing[t] # {}
  /\ \/ ~in_recording /\ UNCHANGED failures
     \/ failures < MaxFailures /\ failures' = failures + 1
  /\ Goto(t, "subscribe", "done")
  /\ missing' = [missing EXCEPT ![t] = {}]
  /\ UNCHANGED <<graph, clock_started, ok, recorder, executor>>

\* create_topic or create_generic_subscription throws: the round ends here.
SubscribeFails(t) ==
  /\ missing[t] # {}
  /\ \/ ~in_recording /\ UNCHANGED failures
     \/ failures < MaxFailures /\ failures' = failures + 1
  /\ Goto(t, "subscribe", "sleep")
  /\ missing' = [missing EXCEPT ![t] = {}]
  /\ UNCHANGED <<graph, clock_started, ok, recorder, executor>>

\* Fault: off by one.
EnoughTooEarly == options.topics # {}
  /\ Cardinality(subscriptions) + 1 >= Cardinality(options.topics)

\* "All requested topics are subscribed": as many subscriptions as topics.
Enough == options.topics # {}
  /\ Cardinality(subscriptions) >= Cardinality(options.topics)

RoundEnds(t) ==
  /\ missing[t] = {} /\ ~Enough
  /\ Goto(t, "subscribe", "sleep")
  /\ UNCHANGED <<environment, recorder, executor, missing>>

DiscoveryEnds(t) ==
  /\ missing[t] = {} /\ Enough
  /\ Goto(t, "subscribe", "done")
  /\ UNCHANGED <<environment, recorder, executor, missing>>

\* sleep_for
Wake(t) ==
  /\ Goto(t, "sleep", "loop")
  /\ UNCHANGED <<environment, recorder, executor, missing>>

ThreadStep(t) ==
  \/ ClockWait(t) \/ LoopEnters(t) \/ LoopExits(t) \/ Scan(t)
  \/ \E topic \in Topic : Subscribe(t, topic)
  \/ SubscribeFails(t) \/ RoundEnds(t) \/ DiscoveryEnds(t) \/ Wake(t)
-----------------------------------------------------------------------------
(***************************************************************************)
(* The environment.                                                        *)
(***************************************************************************)

GraphChanges(topic) ==
  /\ graph' = IF topic \in graph THEN graph \ {topic} ELSE graph \cup {topic}
  /\ UNCHANGED <<clock_started, ok, failures, recorder, executor, discovery>>

ClockStarts ==
  /\ clock_started' = TRUE
  /\ UNCHANGED <<graph, ok, failures, recorder, executor, discovery>>

\* SIGINT: the executor returns from spin once its handler is done.
Interrupt ==
  /\ ok /\ alive
  /\ ok' = FALSE
  /\ UNCHANGED <<graph, clock_started, failures, recorder, executor, discovery>>
-----------------------------------------------------------------------------
Init ==
  /\ graph = {} /\ clock_started = FALSE /\ ok = TRUE /\ failures = 0
  /\ alive = FALSE /\ in_recording = FALSE /\ options = NoOptions
  /\ subscriptions = {} /\ stop_discovery = FALSE /\ future = NoThread
  /\ handler = "idle" /\ pending = NoOptions /\ spawned = NoThread /\ late = {}
  /\ thread = [t \in Thread |-> "none"]
  /\ missing = [t \in Thread |-> {}]

\* What the executor thread does on its own once it is in a handler.
Handler ==
  WaitReady \/ UpdateLaunch \/ UpdateAssign \/ Clear \/ Close \/ CloseFails \/ Join

Requests ==
  \/ \E o \in Options : Start(o)
  \/ \E o \in Options, subscribed \in SUBSET Topic : StartFails(o, subscribed)
  \/ RecordAgain
  \/ \E o \in Updates : Update(o)
  \/ Stop \/ Destroy

Environment == (\E topic \in Topic : GraphChanges(topic)) \/ ClockStarts \/ Interrupt

Next ==
  \/ Requests \/ Handler \/ WaitTimesOut
  \/ \E t \in Thread : ThreadStep(t)
  \/ Environment

Spec == Init /\ [][Next]_vars

\* The operating system runs the threads, sleeps and waits end, and the executor
\* goes on with a handler it has begun.  Nothing is assumed of requests, of the
\* graph, of failures or of timeouts.
FairSpec ==
  /\ Spec
  /\ WF_vars(Handler)
  /\ \A t \in Thread : WF_vars(ThreadStep(t))
===============================================================================
