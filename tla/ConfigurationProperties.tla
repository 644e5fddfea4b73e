------------------------ MODULE ConfigurationProperties ------------------------
(***************************************************************************)
(* What must hold of the configuration of a recorder, and of what it does   *)
(* to the subscriptions.                                                    *)
(***************************************************************************)
EXTENDS RecordingQos

IsOptions(o) ==
  /\ o.members \in [Fields -> Value \cup {"resolved"}]
  /\ \A t \in DOMAIN o.throttles : o.throttles[t] \in ThrottleConfig

\* Every variable has its type: no option ever holds what the parser rejects,
\* and no throttle is in force without a positive limit.
TypeOK ==
  /\ up \in BOOLEAN /\ recording \in BOOLEAN
  /\ IsOptions(options) /\ IsOptions(running)
  /\ raw \in Value \cup {"resolved"}
  /\ config_path \in {""} \cup Names
  /\ preset_names \subseteq Names /\ active_preset \in {""} \cup Names
  /\ requests \in 0..MaxRequests
  /\ publishers \subseteq Publishers
  /\ DOMAIN requested \subseteq Topics /\ warned \subseteq DOMAIN requested
  /\ \A t \in DOMAIN requested : DOMAIN requested[t] = Policies
  /\ thread \in {"off", "warn", "subscribe"} /\ found \subseteq Topics
-----------------------------------------------------------------------------
(***************************************************************************)
(* The command line.                                                       *)
(***************************************************************************)

\* A reading of the arguments: head[i] is the argument that argument i belongs
\* to.  The groups are contiguous and begin with an option, or are a -- alone.
IsGroup(head, j) ==
  LET arg == args[j]
      own == {i \in DOMAIN args : head[i] = j}
      values == own \ {j}
      glued == IF arg.value # "" THEN 1 ELSE 0
      least == AtLeast(arg.option) - glued
      later == {i \in values : i - j > least}
      ended == later # {} /\ IsMark(args[j + Cardinality(values)])
      taken == glued + Cardinality(values) - (IF ended THEN 1 ELSE 0)
  IN /\ arg.kind \in {"long", "short"} /\ arg.option # "unknown"
     /\ own = j..(j + Cardinality(values))
     /\ Cardinality(values) >= least
     /\ arg.option \notin ListOptions \cup PairOptions =>
          Cardinality(values) = (IF arg.option \in FlagOptions THEN 0 ELSE least)
     /\ arg.option \in FlagOptions => arg.kind = "long" \/ glued = 0
     /\ arg.option \in PairOptions => taken % 2 = 0
     /\ \A i \in later : IsWord(args[i]) \/ (ended /\ i = j + Cardinality(values))

IsReading(head) ==
  /\ \A i \in DOMAIN args : head[i] <= i /\ head[head[i]] = head[i]
  /\ \A j \in DOMAIN args : head[j] = j =>
       \/ IsGroup(head, j)
       \/ IsMark(args[j]) /\ j = Len(args)

\* The parser takes a command line, up to the checks of the values, exactly when
\* it can be cut into options with the values they may have: reading ahead one
\* argument at a time loses nothing and makes nothing up (_parse_arg).
ReadsAsGrouped ==
  args # <<>> =>
    ((~Parse.broken /\ Parse.extras = 0) <=>
       \E head \in [DOMAIN args -> DOMAIN args] : IsReading(head))

\* A process started from a configuration file has the settings of that file and
\* the defaults, and nothing else that was on its command line (the exclusions
\* of arg_parser.cpp).
ConfigStandsAlone ==
  [][~up /\ up' /\ config_path' # "" =>
       /\ \A f \in Fields \ {"output"} :
            options'.members[f] = Member(files[config_path'], Default(f), f)
       /\ options'.throttles = files[config_path'].throttles]_vars
-----------------------------------------------------------------------------
(***************************************************************************)
(* The services.                                                           *)
(***************************************************************************)

\* The settings a document makes: not the directory of the bag, nor the custom
\* data a recording adds to.
Settings(o) == [o EXCEPT !.members["output"] = "none", !.members["custom_data"] = "none"]

\* What GetConfig serves can be applied as it is, and changes none of the keys it
\* names, the throttles, or the output: a client that sends back what it was
\* served does not turn the directory of the active bag into the configured one
\* (handleGetConfig, handleApplyConfig).
ServedConfigIsNeutral ==
  up => LET after == Parsed(Served, options)
        IN /\ ~Rejected(Served)
           /\ after.throttles = options.throttles
           /\ \A f \in Written \ {"output"} :
                after.members[f] = options.members[f]
           /\ raw # "none" => after.members["output"] = raw

\* A recorder at work follows the record options and the throttles of the node,
\* whichever way they came there: start, restart or hot update.  What record()
\* copies once is what the hot update does not reach.
RecorderFollowsConfig ==
  recording => /\ \A f \in RecordKeys \ OnlyAtRecord :
                    running.members[f] = options.members[f]
               /\ running.throttles = options.throttles

\* A valid configuration is in force, in the node and in its recorder.
ValidConfigInForce == TypeOK /\ RecorderFollowsConfig

Agrees(o, doc) ==
  /\ \A k \in DOMAIN doc.nodes \ {"output", "custom_data", "max_bag_size_gb"} :
       o.members[k] = doc.nodes[k]
  /\ \A t \in DOMAIN doc.throttles : o.throttles[t] = doc.throttles[t]

\* When the settings change and the status names an active preset afterwards, it
\* is that preset's file they now agree with: the name never survives another
\* configuration (active_preset, handleApplyConfig and scanPresetDir).
ActivePresetIsTrue ==
  [][up' /\ active_preset' # "" /\ Settings(options') # Settings(options)
       => Agrees(options', files[active_preset'])]_vars

\* The settings of a running process only ever change to those of one document
\* as a whole: a document that is rejected at its end leaves no trace
\* (parseYamlNode throws halfway, handleApplyConfig).
SettingsChangeWhole ==
  [][up /\ up' /\ Settings(options') # Settings(options) =>
       \E doc \in {editor} \cup {files[n] : n \in {m \in Names : files[m] # NoFile}} :
         /\ ~Rejected(doc)
         /\ Settings(options') = Settings(Parsed(doc, options))]_vars

\* One document is in force, the one that is named, from the start of the process
\* through every application of another.
OneDocumentInForce == ConfigStandsAlone /\ ActivePresetIsTrue /\ SettingsChangeWhole
-----------------------------------------------------------------------------
(***************************************************************************)
(* The subscriptions.                                                      *)
(***************************************************************************)

\* A duration the narrow types of rmw_time_t can hold.
Fits(d) == d.sec \in 0..(Half - 1) /\ d.nsec \in 0..(2 * Half - 1)

\* A topic the file of the recording has an override for is subscribed with the
\* first profile there is for it, durations to the nanosecond as far as they fit
\* (parse_duration, convert_yaml_to_qos_overrides), and no configuration applied
\* to the running recorder takes that away (update_record_options).
OverrideIsRequested ==
  LET path == running.members["topic_qos_profile_overrides_path"]
  IN path # "none" =>
       \A i \in DOMAIN OverrideFiles[path] :
         LET entry == OverrideFiles[path][i]
         IN (/\ entry.topic \in DOMAIN requested
             /\ \A j \in 1..(i - 1) : OverrideFiles[path][j].topic # entry.topic) =>
              \A policy \in DOMAIN entry.profile :
                (policy \in DurationPolicies => Fits(entry.profile[policy])) =>
                  requested[entry.topic][policy] = entry.profile[policy]

\* A topic without an override is subscribed so that every publisher there is at
\* that moment is heard (subscription_qos_for_topic), also in a round whose topics
\* were found with other publishers.
HearsAllAtFirst ==
  [][\A t \in DOMAIN requested' \ DOMAIN requested :
       t \notin DOMAIN OverridesInForce(running') =>
         \A p \in OffersOf(t) : ~Unheard(p, requested'[t])]_allVars

\* A selected topic with a publisher that is not heard, because it came after the
\* subscription or an override asks for more than it offers, is in the end warned
\* about, as long as the discovery runs and the publisher stays
\* (warn_if_new_qos_for_subscribed_topic).
Unnoticed(t) ==
  /\ thread # "off" /\ t \in Selected(running)
  /\ t \in DOMAIN requested /\ t \notin warned /\ SomeUnheard(t)
UnheardIsWarned == \A t \in Topics : Unnoticed(t) ~> ~Unnoticed(t)

\* Every publisher of a recorded topic is heard or warned about, whenever it comes.
HeardOrWarned == HearsAllAtFirst /\ UnheardIsWarned
=============================================================================
