------------------------------ MODULE ConfigYaml ------------------------------
(***************************************************************************)
(* The YAML configuration (config_yaml.cpp) as a table: what each key sets, *)
(* what its absence means, and whether serializeConfigToYaml writes it.     *)
(*                                                                         *)
(* A value is abstract: "none" is the value that counts as not set (an      *)
(* empty string or list, a zero, FALSE, -1), "one" and "two" are others,   *)
(* "text" is a string that is no number, no flag and no known choice, and  *)
(* "malformed" is a node that as<T>() rejects.                              *)
(***************************************************************************)
EXTENDS QosOverrides

Value == {"none", "one", "two", "text"}

StorageKeys ==
  {"output", "storage_id", "max_bag_size", "max_bag_duration", "max_cache_size",
   "storage_preset_profile", "storage_config_uri", "snapshot_mode",
   "start_time_ns", "end_time_ns", "custom_data"}

RecordKeys ==
  {"all_topics", "all_services", "is_discovery_disabled", "topics",
   "topic_types", "services", "exclude_topics", "exclude_topic_types",
   "exclude_service_events", "rmw_serialization_format",
   "topic_polling_interval", "regex", "exclude_regex", "node_prefix",
   "compression_mode", "compression_format", "compression_queue_size",
   "compression_threads", "compression_threads_priority",
   "topic_qos_profile_overrides_path", "include_hidden_topics",
   "include_unpublished_topics", "ignore_leaf_topics", "start_paused",
   "use_sim_time", "disable_keyboard_controls"}

CustomKeys == {"node_name", "publish_status", "publish_status_topic"}

\* The members of StorageOptions, RecordOptions and CustomOptions a document can
\* set.  max_bag_size_gb is a second key of max_bag_size.
Fields == StorageKeys \cup RecordKeys \cup CustomKeys
Keys == Fields \cup {"max_bag_size_gb"}

\* The keys with an else branch: without them the member gets its default.  The
\* other members keep the value they have.
ResetWhenAbsent ==
  {"max_bag_duration", "max_cache_size", "snapshot_mode", "start_time_ns",
   "end_time_ns", "all_topics", "all_services", "is_discovery_disabled",
   "rmw_serialization_format", "topic_polling_interval",
   "compression_queue_size", "compression_threads",
   "compression_threads_priority", "include_hidden_topics",
   "include_unpublished_topics", "ignore_leaf_topics", "start_paused",
   "use_sim_time", "disable_keyboard_controls"}

\* The keys serializeConfigToYaml writes whatever their value, and those it
\* writes only when they are set.  It never writes the others.
WrittenAlways ==
  {"node_name", "output", "storage_id", "snapshot_mode", "all_topics",
   "all_services", "rmw_serialization_format", "publish_status",
   "publish_status_topic"}
WrittenIfSet ==
  {"max_bag_size", "max_bag_duration", "max_cache_size",
   "storage_preset_profile", "storage_config_uri", "topics", "topic_types",
   "services", "exclude_topics", "exclude_topic_types",
   "exclude_service_events", "regex", "exclude_regex", "compression_mode",
   "compression_format"}
Written == WrittenAlways \cup WrittenIfSet

\* One entry of topic_throttle as a document has it (limit 0: missing, or not
\* positive) and as ThrottleConfig has it.
ThrottleNode == [type : {"messages", "bytes", "frequency"}, limit : {0, 1, 2}]
ThrottleConfig == [type : {"messages", "bytes"}, limit : {1, 2}]

\* A document is a record: nodes, a function from the keys it has, and throttles,
\* its topic_throttle map.
NoThrottle == <<>>
IsDocument(doc) ==
  /\ DOMAIN doc.nodes \subseteq Keys
  /\ doc.nodes \in [DOMAIN doc.nodes -> Value \cup {"resolved", "malformed"}]
  /\ doc.throttles \in [DOMAIN doc.throttles -> ThrottleNode]
-----------------------------------------------------------------------------
\* A document, or --topic-qos-profile-overrides-path, names a file that cannot be
\* loaded.
OverridesFail(path) ==
  path \notin DOMAIN OverrideFiles \/ OverridesRejected(OverrideFiles[path])

\* parseYamlNode throws or returns FALSE: the two sizes together, a node of the
\* wrong type (custom_data: anything but a sequence of pairs, a map included),
\* overrides that cannot be loaded, a throttle of an unknown type, with no limit
\* or one that is not positive.
Rejected(doc) ==
  \/ {"max_bag_size", "max_bag_size_gb"} \subseteq DOMAIN doc.nodes
  \/ \E k \in DOMAIN doc.nodes : doc.nodes[k] = "malformed"
  \/ /\ "topic_qos_profile_overrides_path" \in DOMAIN doc.nodes
     /\ OverridesFail(doc.nodes["topic_qos_profile_overrides_path"])
  \/ \E t \in DOMAIN doc.throttles : doc.throttles[t] \notin ThrottleConfig

\* What parseYamlNode leaves in member f, which holds old.
Member(doc, old, f) ==
  IF f \in DOMAIN doc.nodes THEN doc.nodes[f]
  ELSE IF f = "max_bag_size" /\ "max_bag_size_gb" \in DOMAIN doc.nodes
  THEN doc.nodes["max_bag_size_gb"]
  ELSE IF f \in ResetWhenAbsent THEN "none" ELSE old

\* parseYamlNode on a document it accepts: throttles are merged, topic by topic,
\* into those that are there.
Parsed(doc, options) ==
  [members |-> [f \in Fields |-> Member(doc, options.members[f], f)],
   throttles |-> Over(doc.throttles, options.throttles)]

\* serializeConfigToYaml; output is what it writes for the 'output' key.
Serialized(options, output) ==
  LET written == [options.members EXCEPT !["output"] = output]
  IN [nodes |-> Restrict(written,
                  {k \in Written : k \in WrittenAlways \/ written[k] # "none"}),
      throttles |-> options.throttles]
=============================================================================
