----------------------------- MODULE RecordingQos -----------------------------
(***************************************************************************)
(* The subscriptions of a recorder and their QoS (recorder_impl.cpp), under*)
(* the configuration of module Configuration: a topic is subscribed with    *)
(* the profile of the override file, or one adapted to the publishers that  *)
(* are there; a publisher that comes later and does not fit is warned about,*)
(* since nothing of it is recorded.                                         *)
(*                                                                         *)
(* The discovery thread is a step for the warnings of a round and one for    *)
(* its subscriptions.  Its start and end, and subscriptions that fail, are  *)
(* the subject of TopicDiscovery; here it is never behind a handler.         *)
(***************************************************************************)
EXTENDS Configuration

CONSTANTS
  Topics,     \* the topics of the system, under the words that name them
  Publishers  \* the publishers there may be: [topic, reliability, durability]

ASSUME PublisherAssumption == \A p \in Publishers : p.topic \in Topics

VARIABLES
  publishers,  \* the ROS graph: the publishers that are there
  requested,   \* subscriptions_: the topics subscribed, and with which profile
  warned,      \* topics_warned_about_incompatibility_
  thread,      \* the discovery thread: "off", or about to "warn" or "subscribe"
  found        \* topics_to_subscribe of its round

recorderVars == <<requested, warned, thread, found>>
qosVars == <<publishers, recorderVars>>
allVars == <<vars, qosVars>>
-----------------------------------------------------------------------------
\* TopicFilter::filter_topics for the options of a recorder: everything, or the
\* topics that are named, as far as they have a publisher.
Selected(o) ==
  {t \in Topics : o.members["all_topics"] # "none" \/ o.members["topics"] = t}
Available(o) == {p.topic : p \in publishers} \cap Selected(o)

OffersOf(t) == {p \in publishers : p.topic = t}

\* Rosbag2QoS::adapt_request_to_offers: what all offer, or else what every offer
\* satisfies.
Adapted(offers) ==
  [DefaultProfile EXCEPT
     !.reliability = IF \A p \in offers : p.reliability = "reliable"
                     THEN "reliable" ELSE "best_effort",
     !.durability = IF offers # {} /\ \A p \in offers : p.durability = "transient_local"
                    THEN "transient_local" ELSE "volatile"]

\* The overrides the recorder has copied when it began.
OverridesInForce(o) ==
  LET path == o.members["topic_qos_profile_overrides_path"]
  IN IF path = "none" THEN <<>> ELSE Overrides(OverrideFiles[path])

\* subscription_qos_for_topic
SubscriptionQos(t, o) ==
  IF t \in DOMAIN OverridesInForce(o) THEN OverridesInForce(o)[t]
  ELSE Adapted(OffersOf(t))

\* A publisher that offers less than the subscription asks for is not heard.
Unheard(p, profile) ==
  \/ p.reliability = "best_effort" /\ profile.reliability # "best_effort"
  \/ p.durability = "volatile" /\ profile.durability # "volatile"
SomeUnheard(t) == \E p \in OffersOf(t) : Unheard(p, requested[t])
-----------------------------------------------------------------------------
(***************************************************************************)
(* What a request does to the subscriptions.                               *)
(***************************************************************************)

Destroyed ==
  /\ requested' = <<>> /\ warned' = {}
  /\ thread' = "off" /\ found' = {}
  /\ UNCHANGED publishers

\* record() of a new RecorderImpl: it subscribes what is there, unless it must
\* wait for the clock, and starts the discovery, unless it is disabled.
Recorded ==
  IF ~recording' THEN Destroyed
  ELSE LET o == running'
           now == IF o.members["use_sim_time"] # "none" THEN {} ELSE Available(o)
       IN /\ requested' = [t \in now |-> SubscriptionQos(t, o)]
          /\ warned' = {} /\ found' = {}
          /\ thread' = IF o.members["is_discovery_disabled"] # "none" THEN "off"
                       ELSE "warn"
          /\ UNCHANGED publishers

\* update_record_options: subscriptions and warnings stay, and a new thread runs.
Relaunched ==
  /\ thread' = "warn" /\ found' = {}
  /\ UNCHANGED <<publishers, requested, warned>>

Applied(doc, restart) ==
  IF Rejected(doc) \/ ~recording THEN UNCHANGED qosVars
  ELSE IF restart THEN Recorded ELSE Relaunched
-----------------------------------------------------------------------------
(***************************************************************************)
(* The discovery thread.                                                   *)
(***************************************************************************)

\* Fault: only topics that are not subscribed yet are looked at.
WarnOfMissing ==
  /\ thread = "warn"
  /\ thread' = "subscribe"
  /\ found' = Available(running)
  /\ warned' = warned
  /\ UNCHANGED <<publishers, requested>>

\* warn_if_new_qos_for_subscribed_topic, for every topic of the round.
Warn ==
  /\ thread = "warn"
  /\ thread' = "subscribe"
  /\ found' = Available(running)
  /\ warned' = warned \cup {t \in found' \cap DOMAIN requested : SomeUnheard(t)}
  /\ UNCHANGED <<publishers, requested>>

\* subscribe_topics for those that are missing; the publishers may be others by
\* now.  With topics given by name the thread ends when there are as many
\* subscriptions as names.
Subscribe ==
  /\ thread = "subscribe"
  /\ requested' =
       Over([t \in found \ DOMAIN requested |-> SubscriptionQos(t, running)], requested)
  /\ thread' = IF running.members["topics"] # "none" /\ DOMAIN requested' # {}
               THEN "off" ELSE "warn"
  /\ UNCHANGED <<publishers, warned, found>>

\* Publishers come and go.
GraphChanges ==
  \E p \in Publishers :
    /\ publishers' = IF p \in publishers THEN publishers \ {p} ELSE publishers \cup {p}
    /\ UNCHANGED recorderVars
-----------------------------------------------------------------------------
QosInit ==
  /\ Init
  /\ publishers = {} /\ requested = <<>> /\ warned = {}
  /\ thread = "off" /\ found = {}

QosNext ==
  \/ (Boot \/ StartRecording) /\ Recorded
  \/ (StopRecording \/ Shutdown) /\ Destroyed
  \/ \E restart \in BOOLEAN :
       \/ ApplyEditor(restart) /\ Applied(editor, restart)
       \/ \E n \in Names : ApplyPreset(n, restart) /\ Applied(files[n], restart)
  \/ Elsewhere /\ UNCHANGED qosVars
  \/ (Warn \/ Subscribe) /\ UNCHANGED vars
  \/ up /\ GraphChanges /\ UNCHANGED vars

QosSpec == QosInit /\ [][QosNext]_allVars

\* The thread sleeps between rounds, and goes on.
FairQosSpec == QosSpec /\ WF_thread(Warn /\ UNCHANGED vars)
                       /\ WF_thread(Subscribe /\ UNCHANGED vars)
=============================================================================
