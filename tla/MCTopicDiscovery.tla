--------------------------- MODULE MCTopicDiscovery ---------------------------
EXTENDS TopicDiscoveryProperties

Record2(topics, extra, disabled, sim) ==
  [topics |-> topics, extra |-> extra, disabled |-> disabled, sim |-> sim]

MCTopic == {"a", "b"}

\* Named topics, everything, sim time, and --no-discovery.
Named == Record2({"a", "b"}, {}, FALSE, FALSE)
One == Record2({"b"}, {}, FALSE, FALSE)
All == Record2({}, {"a", "b"}, FALSE, FALSE)
Sim == Record2({"a"}, {}, FALSE, TRUE)
Disabled == Record2({"a", "b"}, {}, TRUE, FALSE)

AllOptions == {Named, All, Sim, Disabled}
NamedOptions == {Named, One, Sim}
NoUpdates == {}
SomeUpdates == {One, All}
===============================================================================
