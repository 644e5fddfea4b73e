------------------------------- MODULE Throttle -------------------------------
(***************************************************************************)
(* Which messages of one throttled topic are recorded: throttle_pass and   *)
(* update_throttle_configs of RecorderImpl (recorder_impl.cpp), over a     *)
(* system clock that is sometimes set.                                     *)
(*                                                                         *)
(* Time is counted in ticks.  The state of a topic is its own, so one      *)
(* topic is modelled.  The code sees none of elapsed, the time that really *)
(* passes, and of the history: passed, since, pace and allowed.            *)
(***************************************************************************)
EXTENDS Integers, FiniteSets, SequencesExt

CONSTANTS
  Throttles,   \* the throttles the topic is given
  Sizes,       \* message sizes
  StartTime,   \* the system clock when recording begins
  Jumps,       \* how far the system clock may be set, in ticks
  MaxElapsed,  \* bound: the time that passes
  MaxJumps     \* bound: how often the clock is set

\* period: ticks between messages at the configured rate; window: 'window', in ticks;
\* limit: 'bytes_per_sec'.  Each type uses its own of them.
Positive == Nat \ {0}
ThrottleConfig == [kind : {"messages", "bytes", "frequency"},
                   period : Positive, window : Positive, limit : Positive]

ASSUME ThrottlesAssumption == Throttles \subseteq ThrottleConfig
ASSUME SizesAssumption == Sizes \subseteq Nat /\ IsFiniteSet(Sizes) /\ Sizes # {}
ASSUME ClockAssumption ==
  /\ Jumps \subseteq Int
  /\ MaxElapsed \in Nat /\ MaxJumps \in Nat
  \* The clock is not set to before 0, the time of a state that was never used.
  /\ StartTime \in Nat
  /\ \A j \in Jumps : StartTime + MaxJumps * j >= 0

VARIABLES
  elapsed,    \* the time that has passed
  clock,      \* rclcpp::Clock{}.now()
  jumps,      \* how often the clock was set
  set_back,   \* by how much it was set back, in all
  kind,       \* the throttle type of the topic, "none" without one
  period,     \* its period,
  window,     \* window
  limit,      \* and limit
  last_time,  \* ThrottleState::last_time
  next_time,  \* ThrottleState::frequency_next_time
  last_call,  \* ThrottleState::frequency_last_call_time
  sent,       \* ThrottleState::sent_deque
  passed,     \* the messages recorded that the throttle is judged by
  since,      \* when the last message was recorded, or the topic had no throttle
  pace,       \* the period with which next_time was set
  allowed     \* the greatest limit while passed was recorded

config == <<kind, period, window, limit>>
state == <<last_time, next_time, last_call, sent>>
time == <<elapsed, clock, jumps, set_back>>
history == <<passed, since, pace, allowed>>
vars == <<time, config, state, history>>

Bytes(messages) == FoldLeft(LAMBDA sum, m : sum + m.size, 0, messages)
-----------------------------------------------------------------------------
(***************************************************************************)
(* throttle_pass                                                           *)
(***************************************************************************)
Record(size) ==
  /\ passed' = Append(passed, [at |-> elapsed, size |-> size])
  /\ since' = elapsed

\* MESSAGES: a clock that was set back starts the period anew.
MessageDue == last_time > clock \/ clock - last_time >= period

PassMessage(size) ==
  /\ kind = "messages" /\ MessageDue
  /\ last_time' = clock
  /\ Record(size)
  /\ UNCHANGED <<time, config, next_time, last_call, sent, pace, allowed>>

DropMessage == kind = "messages" /\ ~MessageDue /\ UNCHANGED vars

\* Faults: nothing is ever pruned; everything always is.
InWindowAlways == sent
InWindowNever == <<>>

\* BYTES: what is left of the deque once the entries at its front that are older
\* than the window are gone.
InWindow ==
  LET recent == {i \in 1..Len(sent) : sent[i].at >= clock - window}
  IN IF recent = {} THEN <<>> ELSE SubSeq(sent, Min(recent), Len(sent))

BudgetLeft == Bytes(InWindow) < limit

PassBytes(size) ==
  /\ kind = "bytes" /\ BudgetLeft
  /\ sent' = Append(InWindow, [at |-> clock, size |-> size])
  /\ Record(size)
  /\ UNCHANGED <<time, config, last_time, next_time, last_call, pace, allowed>>

DropBytes ==
  /\ kind = "bytes" /\ ~BudgetLeft
  /\ sent' = InWindow
  /\ UNCHANGED <<time, config, last_time, next_time, last_call, history>>

\* FREQUENCY: the first message, and the first after the clock was set back, set
\* the anchor of the pace.
Anchor == IF last_call > clock \/ next_time = 0 THEN clock ELSE next_time

\* The first time after now on the pace the anchor gives.
NextOnPace(anchor) == anchor + period * ((clock - anchor) \div period + 1)

PassFrequency(size) ==
  /\ kind = "frequency" /\ clock >= Anchor
  /\ last_call' = clock
  /\ next_time' = NextOnPace(Anchor)
  /\ Record(size) /\ pace' = period
  /\ UNCHANGED <<time, config, last_time, sent, allowed>>

DropFrequency ==
  /\ kind = "frequency" /\ clock < Anchor
  /\ last_call' = clock
  /\ next_time' = Anchor
  /\ UNCHANGED <<time, config, last_time, sent, history>>

\* What throttle_pass would answer now.
Passes ==
  CASE kind = "messages" -> MessageDue
    [] kind = "bytes" -> BudgetLeft
    [] kind = "frequency" -> clock >= Anchor
    [] kind = "none" -> TRUE
-----------------------------------------------------------------------------
\* What a throttle is judged by when it takes the place of another: nothing when the
\* type differs; at another rate the last message, from which on that rate counts; at
\* another bandwidth all the messages, unless the window grows: those that a shorter
\* one has pruned are forgotten.
Carried(t) ==
  CASE t.kind # kind \/ passed = <<>> -> <<>>
    [] t.kind = kind /\ passed # <<>> /\ kind # "bytes" -> <<passed[Len(passed)]>>
    [] t.kind = kind /\ passed # <<>> /\ kind = "bytes" ->
         IF t.window <= window THEN passed ELSE <<>>

\* Fault: every update erases the state.
ConfigureForgets(t) ==
  /\ kind' = t.kind /\ period' = t.period /\ window' = t.window /\ limit' = t.limit
  /\ last_time' = 0 /\ next_time' = 0 /\ last_call' = 0 /\ sent' = <<>>
  /\ passed' = Carried(t)
  /\ allowed' = IF Carried(t) # <<>> /\ allowed > t.limit THEN allowed ELSE t.limit
  /\ UNCHANGED <<time, since, pace>>

\* update_throttle_configs, with a throttle for the topic: its state stays, whatever the
\* type, the rate and the window were.
Configure(t) ==
  /\ kind' = t.kind /\ period' = t.period /\ window' = t.window /\ limit' = t.limit
  /\ passed' = Carried(t)
  /\ allowed' = IF Carried(t) # <<>> /\ allowed > t.limit THEN allowed ELSE t.limit
  /\ UNCHANGED <<time, state, since, pace>>

\* ... and without one: the state is erased.
Unthrottle ==
  /\ kind' = "none"
  /\ last_time' = 0 /\ next_time' = 0 /\ last_call' = 0 /\ sent' = <<>>
  /\ passed' = <<>> /\ since' = elapsed
  /\ UNCHANGED <<time, period, window, limit, pace, allowed>>

Tick ==
  /\ elapsed < MaxElapsed
  /\ elapsed' = elapsed + 1
  /\ clock' = clock + 1
  /\ UNCHANGED <<jumps, set_back, config, state, history>>

\* The system clock is set.
SetClock(j) ==
  /\ jumps < MaxJumps
  /\ jumps' = jumps + 1
  /\ clock' = clock + j
  /\ set_back' = IF j < 0 THEN set_back - j ELSE set_back
  /\ UNCHANGED <<elapsed, config, state, history>>

Init ==
  /\ elapsed = 0 /\ clock = StartTime /\ jumps = 0 /\ set_back = 0
  /\ \E t \in Throttles :
       kind = t.kind /\ period = t.period /\ window = t.window /\ limit = t.limit
  /\ last_time = 0 /\ next_time = 0 /\ last_call = 0 /\ sent = <<>>
  /\ passed = <<>> /\ since = 0 /\ pace = period /\ allowed = limit

Next ==
  \/ \E size \in Sizes : PassMessage(size) \/ PassBytes(size) \/ PassFrequency(size)
  \/ DropMessage \/ DropBytes \/ DropFrequency
  \/ \E t \in Throttles : Configure(t)
  \/ Unthrottle
  \/ Tick
  \/ \E j \in Jumps : SetClock(j)

Spec == Init /\ [][Next]_vars
===============================================================================
