-------------------------- MODULE ThrottleProperties --------------------------
(***************************************************************************)
(* What must hold of a throttled topic, in the time that really passes.    *)
(***************************************************************************)
EXTENDS Throttle

\* Ticks between two recorded messages, and the most periods that begin in them.
Between(i, j) == passed[j].at - passed[i].at
PeriodsBegun(ticks) == (ticks + period - 1) \div period

\* The rate is kept: from any recorded message to any later one there are no more
\* messages than periods.  A pace ("frequency") may put two of them on both sides
\* of a beat.  Each time the clock is set costs one message at most, on a pace
\* one more for the beat that moves.  A new rate is kept from the last message
\* on that was recorded at the old one.
RateKept ==
  \A i, j \in 1..Len(passed) : i < j =>
    /\ kind = "messages" => j - i <= Between(i, j) \div period + jumps
    /\ kind = "frequency" => j - i <= PeriodsBegun(Between(i, j)) + 2 * jumps

\* What a window may take: less than the limit, and one message more, which the
\* budget test does not count.  A limit that was lowered counts from the next window
\* on.
Budget == allowed - 1 + Max(Sizes)

\* The bandwidth is kept: the bytes recorded since any message of the last window
\* stay within the budget, and reach it once more each time the clock is set; also
\* when the limit is raised or lowered, or the window shortened, meanwhile.
BandwidthKept ==
  kind = "bytes" =>
    \A i \in 1..Len(passed) : passed[i].at >= elapsed - window =>
      Bytes(SubSeq(passed, i, Len(passed))) <= (jumps + 1) * Budget

\* No topic is silenced: a period (or a window) after the last recorded message
\* the next one is recorded, given as much more time as the clock was set back.  That
\* holds whatever throttles the topic has had, of whatever type, rate and window
\* (update_throttle_configs keeps the state of all of them), but a pace takes up a new
\* rate only after a period of the old one.  A topic without a throttle has no state
\* (update_throttle_configs erases it): its next throttle starts afresh.
NotSilenced ==
  LET quiet == elapsed - since - set_back
  IN /\ kind = "messages" /\ quiet >= period => Passes
     /\ kind = "bytes" /\ quiet > window => Passes
     /\ kind = "frequency" /\ quiet >= pace => Passes
     /\ kind = "none" =>
          last_time = 0 /\ next_time = 0 /\ last_call = 0 /\ sent = <<>>
===============================================================================
