---------------------------- MODULE MCConfiguration ----------------------------
(***************************************************************************)
(* The instance: every argument list of up to four of twelve arguments, a  *)
(* configuration file with a preset beside it, documents that differ in    *)
(* keys of every treatment (kept and reset, written and not), override     *)
(* files good and bad, and two publishers of one topic.                    *)
(***************************************************************************)
EXTENDS ConfigurationProperties

Nodes(ks, vs) == [i \in {ks[j] : j \in DOMAIN ks} |->
                    vs[CHOOSE j \in DOMAIN ks : ks[j] = i]]
Doc(ks, vs, throttles) == [nodes |-> Nodes(ks, vs), throttles |-> throttles]
Limit(type, n) == [type |-> type, limit |-> n]

BootDoc == Doc(<<"topics", "include_hidden_topics">>, <<"one", "one">>,
               "/scan" :> Limit("messages", 1))
PresetDoc == Doc(<<"all_topics", "max_bag_size_gb", "services", "output",
                   "start_paused", "topic_qos_profile_overrides_path">>,
                 <<"one", "two", "one", "two", "one", "one">>,
                 "/image" :> Limit("bytes", 2))
ClashDoc == Doc(<<"use_sim_time", "is_discovery_disabled", "all_topics">>,
                <<"one", "one", "one">>, NoThrottle)
BadOverridesDoc == Doc(<<"topics", "topic_qos_profile_overrides_path">>,
                       <<"two", "two">>, NoThrottle)
BrokenDoc == Doc(<<"topics", "all_services">>, <<"two", "one">>,
                 "/scan" :> Limit("frequency", 1))

MCInitialFiles == "one" :> BootDoc @@ "two" :> PresetDoc
MCDocuments == {EmptyDocument, ClashDoc, BrokenDoc, BadOverridesDoc}
MCNewNames == {"two"}

Long(o, v) == [kind |-> "long", option |-> o, value |-> v]
Short(o, v) == [kind |-> "short", option |-> o, value |-> v]
Word(t) == [kind |-> "word", text |-> t]
Arguments ==
  {Long("config", "one"), Short("topics", ""), Long("max_bag_size", ""),
   Long("max_bag_size_gb", "two"), Short("all", ""), Long("help", ""),
   Long("topic_qos_profile_overrides_path", "one"), Long("custom_data", ""),
   Long("unknown", ""), Word("one"), Word("two"), [kind |-> "mark"]}

Entry(t, profile) == [topic |-> t, profile |-> profile]
Lasting(s, n) == [sec |-> s, nsec |-> n]
Profile == [reliability |-> "reliable", depth |-> 1, deadline |-> Lasting(1, 7),
            lifespan |-> Lasting(5, -1)]
BestEffort == [reliability |-> "best_effort", history |-> "keep_all"]
MCOverrideFiles ==
  "one" :> <<Entry("one", Profile), Entry("one", BestEffort)>>
  @@ "two" :> <<Entry("one", [deadline |-> Lasting(0, -1)])>>

Publisher(r, d) == [topic |-> "one", reliability |-> r, durability |-> d]
MCTopics == {"one"}
MCPublishers == {Publisher("reliable", "transient_local"),
                 Publisher("best_effort", "volatile")}

MCArgLists == BoundedSeq(Arguments, 4) \ {<<>>}
=============================================================================
