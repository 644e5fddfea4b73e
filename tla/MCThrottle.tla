------------------------------ MODULE MCThrottle ------------------------------
EXTENDS ThrottleProperties

\* Two throttles of each type: another rate, another window and limit.
MCThrottles ==
  {[kind |-> k, period |-> p, window |-> 2, limit |-> 3] :
     k \in {"messages", "frequency"}, p \in {2, 3}}
  \cup {[kind |-> "bytes", period |-> 2, window |-> 2, limit |-> 3],
        [kind |-> "bytes", period |-> 2, window |-> 3, limit |-> 2]}
MCSizes == {1, 2}
MCJumps == {-1, 3}
===============================================================================
