----------------------- MODULE TopicDiscoveryProperties -----------------------
(***************************************************************************)
(* What must hold of topic discovery.                                      *)
(***************************************************************************)
EXTENDS TopicDiscovery

\* The types of the state; discovery_future_ is always that of a thread that was
\* started.
TypeOK ==
  /\ graph \subseteq Topic /\ clock_started \in BOOLEAN /\ ok \in BOOLEAN
  /\ failures \in 0..MaxFailures
  /\ alive \in BOOLEAN /\ in_recording \in BOOLEAN
  /\ options \in RecordOptions /\ pending \in RecordOptions
  /\ subscriptions \subseteq Topic
  /\ stop_discovery \in BOOLEAN
  /\ future \in Thread \cup {NoThread} /\ spawned \in Thread \cup {NoThread}
  /\ handler \in {"idle", "launch_wait", "launch", "assign", "close_wait",
                  "close", "closing", "stopped", "join"}
  /\ late \subseteq {future} \ {NoThread}
  /\ thread \in [Thread -> {"none", "clock", "loop", "scan", "subscribe",
                            "sleep", "done"}]
  /\ missing \in [Thread -> SUBSET Topic]
  /\ future # NoThread => thread[future] # "none"

\* Two discovery threads, which share subscriptions_ and record_options_ without a
\* lock, run at once only where the wait of an update has timed out, and then only
\* until the late one has returned: its future is given up before anything else.
OneDiscoveryThread ==
  \A t, u \in Thread :
    Running(t) /\ Running(u) /\ t # u => handler = "assign" /\ future \in late

\* While record_options_ and topic_filter_ are replaced, and from the clearing of
\* subscriptions_ to the end of the destructor, no discovery thread runs but one
\* the handler has given up waiting for, also where it did not wait because the
\* flag was still set; and without one no subscription comes back.
NoThreadBehindHandler ==
  /\ handler \in {"launch", "close", "closing", "stopped", "join"} =>
       \A t \in Thread : Running(t) => t \in late
  /\ handler \in {"stopped", "join"} /\ late = {} => subscriptions = {}

\* A handler that has begun ends, though waits time out and discovery fails.  There
\* is one exception: an update whose wait has timed out gives up the future of a
\* thread whose flag it has just reset, and hangs for as long as that thread has
\* topics left to find, or waits for a clock.  (recorder_impl.cpp:244 says that the
\* future is completed there.)
HandlerReturns ==
  \/ handler \notin {"idle", "stopped"} ~> handler \in {"idle", "stopped"}
  \/ <>[](/\ handler = "assign" /\ future \in late /\ ok
          /\ Enough => thread[future] = "clock" /\ ~clock_started)

\* "All requested topics are subscribed (%zu/%zu). Stopping discovery...": when
\* discovery ends by itself, every topic of record_options_.topics is subscribed.
EndsWhenAllSubscribed ==
  [][\A t \in Thread : DiscoveryEnds(t) => options.topics \subseteq subscriptions]_vars

\* A selected topic that stays on the graph while a recording with discovery goes
\* on is subscribed in the end, however often it was missed or failed before.
\* (With sim time, once there is a clock.  A stop() that has failed has ended
\* discovery, though not the recording.)
AvailableIsSubscribed ==
  \A topic \in Topic :
    (<>[](/\ future # NoThread /\ in_recording /\ ok /\ handler = "idle"
          /\ ~stop_discovery
          /\ topic \in Selected(options) \cap graph
          /\ options.sim => clock_started))
      => <>[](topic \in subscriptions)
===============================================================================
