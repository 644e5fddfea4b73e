----------------------------- MODULE QosOverrides -----------------------------
(***************************************************************************)
(* Files of QoS overrides (config_yaml.cpp): a map from topics to profiles,*)
(* and a profile a map from policies to values.  A file is a sequence of    *)
(* entries, since YAML lets a key occur twice.                              *)
(*                                                                         *)
(* Durations are read as 64 bit integers and narrowed to 32: int32_t holds *)
(* -Half..Half - 1, uint32_t 0..2 * Half - 1.                               *)
(***************************************************************************)
EXTENDS Integers, Sequences, FiniteSets, Functions

CONSTANTS
  Half,          \* 2^31
  OverrideFiles  \* the override files, under the words that name them

DurationPolicies == {"deadline", "lifespan", "liveliness_lease_duration"}

\* A file is a sequence of entries, a duration a pair of integers.
IsOverrides(file) ==
  /\ file \in Seq(Range(file))
  /\ \A i \in DOMAIN file :
       \A policy \in DOMAIN file[i].profile \cap DurationPolicies :
         file[i].profile[policy] \in [sec : Int, nsec : Int]

\* f where it is defined, and g elsewhere.
Over(f, g) ==
  [x \in DOMAIN f \cup DOMAIN g |-> IF x \in DOMAIN f THEN f[x] ELSE g[x]]

ASSUME WidthAssumption == Half \in Nat \ {0}
ASSUME OverridesAssumption ==
  \A path \in DOMAIN OverrideFiles : IsOverrides(OverrideFiles[path])

\* The words of the policies that are choices.
PolicyWords ==
  [history |-> {"keep_last", "keep_all", "system_default"},
   reliability |-> {"reliable", "best_effort", "system_default"},
   durability |-> {"volatile", "transient_local", "system_default"},
   liveliness |-> {"automatic", "manual_by_topic", "system_default"}]

\* rmw_qos_profile_default; a duration of zero is none.
NoDuration == [sec |-> 0, nsec |-> 0]
DefaultProfile ==
  [history |-> "keep_last", depth |-> 10, reliability |-> "reliable",
   durability |-> "volatile", liveliness |-> "system_default",
   avoid_ros_namespace_conventions |-> FALSE, deadline |-> NoDuration,
   lifespan |-> NoDuration, liveliness_lease_duration |-> NoDuration]
Policies == DOMAIN DefaultProfile
-----------------------------------------------------------------------------
\* parse_duration throws, with both parts there.  A negative nsec is refused only
\* when there are no seconds.
DurationRejected(d) == d.sec < 0 \/ (d.sec = 0 /\ d.nsec < 0)

\* static_cast<int32_t> of sec, put into an unsigned member of 64 bits, and
\* static_cast<uint32_t> of nsec.
Narrowed(n) ==
  LET low == n % (2 * Half) IN IF low < Half THEN low ELSE low - 2 * Half
Duration(d) ==
  [sec |-> Narrowed(d.sec) % (4 * Half * Half), nsec |-> d.nsec % (2 * Half)]

\* A policy or a value interpret_node_as_qos does not take.  A value of another
\* type than the policy's is refused as one out of range is.
PolicyRejected(policy, value) ==
  \/ policy \notin Policies
  \/ policy \in DOMAIN PolicyWords /\ value \notin PolicyWords[policy]
  \/ policy = "depth" /\ value < 0
  \/ policy \in DurationPolicies /\ DurationRejected(value)

ProfileRejected(profile) ==
  \E policy \in DOMAIN profile : PolicyRejected(policy, profile[policy])

\* interpret_node_as_qos, on a profile it accepts.
Interpreted(profile) ==
  [policy \in Policies |->
     IF policy \notin DOMAIN profile THEN DefaultProfile[policy]
     ELSE IF policy \in DurationPolicies THEN Duration(profile[policy])
     ELSE profile[policy]]

\* load_qos_overrides_from_file throws.
OverridesRejected(file) == \E i \in DOMAIN file : ProfileRejected(file[i].profile)

\* convert_yaml_to_qos_overrides: of two entries for a topic emplace keeps the
\* first.
EntryOf(file, topic) ==
  CHOOSE i \in DOMAIN file :
    /\ file[i].topic = topic
    /\ \A j \in 1..(i - 1) : file[j].topic # topic
Overrides(file) ==
  [topic \in {file[i].topic : i \in DOMAIN file} |->
     Interpreted(file[EntryOf(file, topic)].profile)]
=============================================================================
