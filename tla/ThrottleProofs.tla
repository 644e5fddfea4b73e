---------------------------- MODULE ThrottleProofs ----------------------------
(***************************************************************************)
(* Proofs about the throttle of a topic, for any period, window and limit  *)
(* and however often the system clock is set.                              *)
(***************************************************************************)
EXTENDS ThrottleProperties, SequenceTheorems, FiniteSetTheorems, TLAPS

Messages == [at : Int, size : Nat]

\* The types of the clocks, of the throttle and its history, and of the state it keeps.
ClockTypes ==
  /\ elapsed \in Nat /\ clock \in Int /\ jumps \in 0..MaxJumps /\ set_back \in Nat
  /\ period \in Nat \ {0} /\ window \in Nat \ {0} /\ limit \in Nat \ {0}
  /\ since \in 0..elapsed /\ pace \in Nat \ {0}
  /\ allowed \in Nat \ {0} /\ limit <= allowed
StateTypes ==
  /\ last_time \in Int /\ next_time \in Int /\ last_call \in Int
  /\ sent \in Seq(Messages)

\* How far the clock may have been set back; it never comes to 0.
ClockInv ==
  /\ jumps = 0 => clock = StartTime + elapsed
  /\ MaxJumps * (clock - elapsed - StartTime) >= jumps * (0 - StartTime)

\* Messages are recorded in the order of time.
PassedInv ==
  /\ passed \in Seq(Messages)
  /\ \A i \in 1..Len(passed) : passed[i].at <= elapsed
  /\ \A i, j \in 1..Len(passed) : i <= j => passed[i].at <= passed[j].at

LastAt == passed[Len(passed)].at
-----------------------------------------------------------------------------
\* Multiples of a period.
Periods(p, k) == p * k

\* A message more is a period more.
LEMMA PeriodsGrow ==
  \A p, k \in Int :
    /\ Periods(p, k) \in Int /\ Periods(p, 0) = 0
    /\ Periods(p, k + 1) = Periods(p, k) + p
    /\ Periods(p, k - 1) = Periods(p, k) - p
BY DEF Periods

\* Fewer messages take fewer periods.
LEMMA PeriodsMonotone ==
  \A p, k, l \in Int : p > 0 /\ k <= l => Periods(p, k) <= Periods(p, l)
BY DEF Periods

\* Periods before now are in the past.
LEMMA PeriodsSign ==
  \A p, k \in Int : p > 0 =>
    /\ k < 0 => Periods(p, k) < 0
    /\ k = 0 => Periods(p, k) = 0
BY DEF Periods

\* What lasts as long as some periods has that many whole ones.
LEMMA PeriodsFit ==
  \A p, k, ticks \in Int : p > 0 /\ Periods(p, k) <= ticks => k <= ticks \div p
<1> SUFFICES ASSUME NEW p \in Int, p > 0, NEW k \in Int, NEW ticks \in Int,
                    Periods(p, k) <= ticks
             PROVE  k <= ticks \div p
  OBVIOUS
<1> DEFINE whole == ticks \div p
<1>1. whole \in Int /\ ticks < Periods(p, whole) + p
  BY DEF Periods
<1> HIDE DEF whole
<1>2. /\ Periods(p, whole + 1) = Periods(p, whole) + p
      /\ Periods(p, whole) \in Int /\ Periods(p, k) \in Int
  BY <1>1, PeriodsGrow
<1>3. ~(whole + 1 <= k)
  <2>1. whole + 1 <= k => Periods(p, whole + 1) <= Periods(p, k)
    BY <1>1, PeriodsMonotone
  <2>2. QED BY <1>1, <1>2, <2>1
<1>4. QED BY <1>1, <1>3 DEF whole

\* The next time on a pace is later than now, at most by a period, and at least a
\* period later than the anchor.
LEMMA NextOnPaceIsNext ==
  ASSUME NEW anchor \in Int, clock \in Int, period \in Int, period > 0, anchor <= clock
  PROVE  /\ NextOnPace(anchor) \in Int
         /\ NextOnPace(anchor) > clock /\ NextOnPace(anchor) <= clock + period
         /\ NextOnPace(anchor) >= anchor + period
<1> DEFINE whole == (clock - anchor) \div period
<1>1. /\ whole \in Int /\ whole >= 0
      /\ Periods(period, whole) <= clock - anchor
      /\ clock - anchor < Periods(period, whole) + period
  BY DEF Periods
<1>2. Periods(period, whole + 1) = Periods(period, whole) + period /\ Periods(period, whole) >= 0
  <2> HIDE DEF whole
  <2>1. QED BY <1>1, PeriodsGrow, PeriodsMonotone
<1>3. NextOnPace(anchor) = anchor + Periods(period, whole + 1)
  BY DEF NextOnPace, Periods
<1>4. Periods(period, whole) \in Int
  BY <1>1, PeriodsGrow
<1> HIDE DEF whole
<1>5. QED BY <1>1, <1>2, <1>3, <1>4

\* The period of a throttle is one.
LEMMA PeriodPositive == ClockTypes => period \in Int /\ period > 0
BY DEF ClockTypes
-----------------------------------------------------------------------------
\* A set of positions has a least one.
LEMMA LeastElement ==
  ASSUME NEW S \in SUBSET Nat, S # {}
  PROVE  \E x \in S : \A y \in S : x <= y
<1>1. IsWellFoundedOn(OpToRel(<, Nat), Nat)
  BY NatLessThanWellFounded
<1>2. PICK x \in S : \A y \in S : <<y, x>> \notin OpToRel(<, Nat)
  <2>1. \E x \in S : \A y \in S : ~ (<<y, x>> \in OpToRel(<, Nat))
    BY <1>1, WFMin
  <2>2. QED BY <2>1
<1>3. ASSUME NEW y \in S PROVE x <= y
  <2>1. <<y, x>> \in Nat \X Nat
    OBVIOUS
  <2>2. ~ (y < x)
    BY <1>2, <2>1 DEF OpToRel
  <2>3. QED BY <2>2
<1>4. QED BY <1>3

\* What is left in the window was sent.
LEMMA InWindowIsSent ==
  ASSUME sent \in Seq(Messages)
  PROVE  /\ InWindow \in Seq(Messages)
         /\ \A k \in 1..Len(InWindow) : \E l \in 1..Len(sent) : InWindow[k] = sent[l]
<1> DEFINE recent == {i \in 1..Len(sent) : sent[i].at >= clock - window}
<1>1. CASE recent = {}
  <2>1. InWindow = <<>>
    BY <1>1 DEF InWindow
  <2>2. QED BY <2>1, EmptySeq
<1>2. CASE recent # {}
  <2> DEFINE first == Min(recent)
  <2>1. recent \subseteq 1..Len(sent) /\ recent \subseteq Nat /\ Len(sent) \in Nat
    OBVIOUS
  <2>2. \E i \in recent : \A l \in recent : i <= l
    BY <1>2, <2>1, LeastElement
  <2>3. first \in 1..Len(sent)
    <3> HIDE DEF recent
    <3>1. QED BY <2>1, <2>2 DEF Min
  <2>4. InWindow = SubSeq(sent, first, Len(sent))
    BY <1>2 DEF InWindow
  <2> HIDE DEF first, recent
  <2>5. \A i \in first..Len(sent) : sent[i] \in Messages
    BY <2>3
  <2>6. /\ SubSeq(sent, first, Len(sent)) \in Seq(Messages)
        /\ Len(SubSeq(sent, first, Len(sent))) = Len(sent) - first + 1
        /\ \A i \in 1..(Len(sent) - first + 1) :
             SubSeq(sent, first, Len(sent))[i] = sent[first + i - 1]
    BY <2>1, <2>3, <2>5, SubSeqProperties
  <2>7. \A k \in 1..(Len(sent) - first + 1) : first + k - 1 \in 1..Len(sent)
    BY <2>1, <2>3
  <2>8. QED BY <2>4, <2>6, <2>7
<1>3. QED BY <1>1, <1>2

\* What a recorded message adds.
LEMMA RecordedIsLast ==
  ASSUME NEW size \in Sizes, Record(size), ClockTypes, PassedInv
  PROVE  /\ passed' \in Seq(Messages) /\ passed' # <<>>
         /\ Len(passed) \in Nat /\ Len(passed') = Len(passed) + 1
         /\ passed'[Len(passed) + 1].at = elapsed
         /\ \A i \in 1..Len(passed) : passed'[i] = passed[i]
<1>1. [at |-> elapsed, size |-> size] \in Messages
  BY SizesAssumption DEF Messages, ClockTypes
<1>2. QED BY <1>1, AppendProperties DEF Record, PassedInv

\* When something was recorded, the last of it was no earlier than the rest and is over.
LEMMA LastIsLatest ==
  ASSUME ClockTypes, PassedInv
  PROVE  /\ Len(passed) \in Nat
         /\ \A i \in 1..Len(passed) :
              passed[i].at \in Int /\ passed[i].at <= LastAt /\ passed[i].at <= elapsed
         /\ passed # <<>> => LastAt \in Int /\ LastAt <= elapsed /\ Len(passed) \in 1..Len(passed)
<1>1. Len(passed) \in Nat /\ \A i \in 1..Len(passed) : passed[i] \in Messages
  BY DEF PassedInv
<1>2. passed # <<>> => Len(passed) \in 1..Len(passed)
  BY DEF PassedInv
<1>3. \A i \in 1..Len(passed) : Len(passed) \in 1..Len(passed)
  BY <1>1
<1>4. QED BY <1>1, <1>2, <1>3 DEF PassedInv, LastAt, Messages
-----------------------------------------------------------------------------
\* Every step keeps the types,
LEMMA ClockTypesStep == ClockTypes /\ [Next]_vars => ClockTypes'
<1> SUFFICES ASSUME ClockTypes, [Next]_vars PROVE ClockTypes'
  OBVIOUS
<1> USE DEF ClockTypes, vars, time, config, history, Record
<1>1. CASE DropMessage BY <1>1 DEF DropMessage
<1>2. CASE DropBytes BY <1>2 DEF DropBytes
<1>3. CASE DropFrequency BY <1>3 DEF DropFrequency
<1>4. CASE Tick BY <1>4 DEF Tick
<1>5. ASSUME NEW size \in Sizes, PassMessage(size) PROVE ClockTypes'
  BY <1>5 DEF PassMessage
<1>6. ASSUME NEW size \in Sizes, PassBytes(size) PROVE ClockTypes'
  BY <1>6 DEF PassBytes
<1>7. ASSUME NEW size \in Sizes, PassFrequency(size) PROVE ClockTypes'
  BY <1>7 DEF PassFrequency
<1>8. ASSUME NEW t \in Throttles, Configure(t) PROVE ClockTypes'
  <2>1. t \in ThrottleConfig
    BY ThrottlesAssumption
  <2>2. QED BY <1>8, <2>1 DEF Configure, ThrottleConfig, Positive
<1>9. ASSUME NEW j \in Jumps, SetClock(j) PROVE ClockTypes'
  <2>1. j \in Int /\ clock' \in Int /\ set_back' \in Nat
    BY <1>9, ClockAssumption DEF SetClock
  <2>2. jumps' \in 0..MaxJumps
    BY <1>9, ClockAssumption DEF SetClock
  <2>3. QED BY <1>9, <2>1, <2>2 DEF SetClock
<1>10. CASE UNCHANGED vars BY <1>10
<1>11. CASE Unthrottle BY <1>11 DEF Unthrottle
<1>12. QED
  BY <1>1, <1>2, <1>3, <1>4, <1>5, <1>6, <1>7, <1>8, <1>9, <1>10, <1>11 DEF Next

\* and what the clock loses is bounded,
LEMMA ClockInvStep == ClockTypes /\ ClockInv /\ [Next]_vars => ClockInv'
<1> SUFFICES ASSUME ClockTypes, ClockInv, [Next]_vars PROVE ClockInv'
  OBVIOUS
<1> USE DEF ClockTypes, ClockInv, vars, time
<1>1. CASE DropMessage BY <1>1 DEF DropMessage
<1>2. CASE DropBytes BY <1>2 DEF DropBytes
<1>3. CASE DropFrequency BY <1>3 DEF DropFrequency
<1>4. CASE Tick
  <2>1. clock' - elapsed' - StartTime = clock - elapsed - StartTime
    BY <1>4, ClockAssumption DEF Tick
  <2>2. QED BY <1>4, <2>1, ClockAssumption DEF Tick
<1>5. ASSUME NEW size \in Sizes, PassMessage(size) PROVE ClockInv'
  BY <1>5 DEF PassMessage
<1>6. ASSUME NEW size \in Sizes, PassBytes(size) PROVE ClockInv'
  BY <1>6 DEF PassBytes
<1>7. ASSUME NEW size \in Sizes, PassFrequency(size) PROVE ClockInv'
  BY <1>7 DEF PassFrequency
<1>8. ASSUME NEW t \in Throttles, Configure(t) PROVE ClockInv'
  BY <1>8 DEF Configure
<1>9. ASSUME NEW j \in Jumps, SetClock(j) PROVE ClockInv'
  <2> DEFINE ahead == clock - elapsed - StartTime
             room == 0 - StartTime
  <2>1. ahead \in Int /\ room \in Int /\ j \in Int /\ jumps \in Nat /\ MaxJumps \in Nat
    BY ClockAssumption
  <2>2. clock' - elapsed' - StartTime = ahead + j /\ jumps' = jumps + 1
    BY <1>9, <2>1, ClockAssumption DEF SetClock
  <2>3. StartTime + MaxJumps * j >= 0
    BY ClockAssumption
  <2>4. MaxJumps * j >= room
    BY <2>1, <2>3, ClockAssumption
  <2>5. MaxJumps * ahead >= jumps * room
    OBVIOUS
  <2> HIDE DEF ahead, room
  <2>6. /\ MaxJumps * (ahead + j) = MaxJumps * ahead + MaxJumps * j
        /\ (jumps + 1) * room = jumps * room + room
    BY <2>1
  <2>7. MaxJumps * ahead \in Int /\ MaxJumps * j \in Int /\ jumps * room \in Int
    BY <2>1
  <2>8. MaxJumps * (ahead + j) >= (jumps + 1) * room
    BY <2>1, <2>4, <2>5, <2>6, <2>7
  <2>9. QED BY <2>1, <2>2, <2>8 DEF room
<1>10. CASE UNCHANGED vars BY <1>10
<1>11. CASE Unthrottle BY <1>11 DEF Unthrottle
<1>12. QED
  BY <1>1, <1>2, <1>3, <1>4, <1>5, <1>6, <1>7, <1>8, <1>9, <1>10, <1>11 DEF Next

\* for which reason it never comes to 0.
LEMMA ClockNotNegative == ClockTypes /\ ClockInv => clock >= 0
<1> SUFFICES ASSUME ClockTypes, ClockInv PROVE clock >= 0
  OBVIOUS
<1> DEFINE ahead == clock - elapsed - StartTime
           room == 0 - StartTime
<1>1. /\ ahead \in Int /\ room \in Int /\ jumps \in Nat /\ MaxJumps \in Nat /\ jumps <= MaxJumps
      /\ elapsed \in Nat /\ StartTime \in Nat /\ clock = ahead + elapsed + StartTime
  BY ClockAssumption DEF ClockTypes
<1>2. MaxJumps * ahead >= jumps * room /\ (jumps = 0 => ahead = 0)
  BY ClockAssumption DEF ClockInv, ClockTypes
<1>3. room + StartTime >= 0
  BY ClockAssumption
<1> HIDE DEF ahead, room
<1>4. CASE jumps = 0
  BY <1>1, <1>2, <1>4
<1>5. CASE jumps > 0 /\ room >= 0
  <2>1. jumps * room >= 0
    BY <1>1, <1>5
  <2>2. MaxJumps * ahead >= 0 /\ MaxJumps > 0
    BY <1>1, <1>2, <1>5, <2>1
  <2>3. ahead >= 0
    BY <1>1, <2>2
  <2>4. QED BY <1>1, <2>3
<1>6. CASE jumps > 0 /\ room < 0
  <2>1. jumps * room >= MaxJumps * room
    BY <1>1, <1>6
  <2>2. MaxJumps * ahead >= MaxJumps * room /\ MaxJumps > 0
    BY <1>1, <1>2, <1>6, <2>1
  <2>3. ahead >= room
    BY <1>1, <2>2
  <2>4. QED BY <1>1, <1>3, <2>3
<1>7. QED BY <1>1, <1>4, <1>5, <1>6

\* Every step keeps the types of the state,
LEMMA StateTypesStep == ClockTypes /\ StateTypes /\ [Next]_vars => StateTypes'
<1> SUFFICES ASSUME ClockTypes, StateTypes, [Next]_vars PROVE StateTypes'
  OBVIOUS
<1> USE DEF ClockTypes, StateTypes, vars, time, state
<1>1. CASE DropMessage BY <1>1 DEF DropMessage
<1>2. CASE DropBytes
  <2>1. sent' \in Seq(Messages)
    BY <1>2, InWindowIsSent DEF DropBytes
  <2>2. QED BY <1>2, <2>1 DEF DropBytes
<1>3. CASE DropFrequency BY <1>3 DEF DropFrequency, Anchor
<1>4. CASE Tick BY <1>4 DEF Tick
<1>5. ASSUME NEW size \in Sizes, PassMessage(size) PROVE StateTypes'
  BY <1>5 DEF PassMessage
<1>6. ASSUME NEW size \in Sizes, PassBytes(size) PROVE StateTypes'
  <2>1. [at |-> clock, size |-> size] \in Messages
    BY SizesAssumption DEF Messages
  <2>2. sent' = Append(InWindow, [at |-> clock, size |-> size])
    BY <1>6 DEF PassBytes
  <2>3. sent' \in Seq(Messages)
    BY <2>1, <2>2, InWindowIsSent, AppendProperties
  <2>4. QED BY <1>6, <2>3 DEF PassBytes
<1>7. ASSUME NEW size \in Sizes, PassFrequency(size) PROVE StateTypes'
  <2>1. Anchor \in Int /\ Anchor <= clock
    BY <1>7 DEF PassFrequency, Anchor
  <2>2. next_time' = NextOnPace(Anchor)
    BY <1>7 DEF PassFrequency
  <2>3. next_time' \in Int
    BY <2>1, <2>2, NextOnPaceIsNext, PeriodPositive
  <2>4. QED BY <1>7, <2>3 DEF PassFrequency
<1>8. ASSUME NEW t \in Throttles, Configure(t) PROVE StateTypes'
  BY <1>8 DEF Configure
<1>9. ASSUME NEW j \in Jumps, SetClock(j) PROVE StateTypes'
  BY <1>9 DEF SetClock
<1>10. CASE UNCHANGED vars BY <1>10
<1>11. CASE Unthrottle
  <2>1. sent' \in Seq(Messages)
    BY <1>11, EmptySeq DEF Unthrottle
  <2>2. QED BY <1>11, <2>1 DEF Unthrottle
<1>12. QED
  BY <1>1, <1>2, <1>3, <1>4, <1>5, <1>6, <1>7, <1>8, <1>9, <1>10, <1>11 DEF Next

\* and the order of what was recorded.
LEMMA RecordKeepsOrder ==
  ASSUME NEW size \in Sizes, Record(size), ClockTypes, PassedInv, elapsed' = elapsed
  PROVE  PassedInv'
<1>1. /\ passed' \in Seq(Messages)
      /\ Len(passed) \in Nat /\ Len(passed') = Len(passed) + 1
      /\ passed'[Len(passed) + 1].at = elapsed
      /\ \A i \in 1..Len(passed) : passed'[i] = passed[i]
  BY RecordedIsLast
<1>2. \A i \in 1..Len(passed) : passed[i].at <= elapsed
  BY DEF PassedInv
<1>3. \A i, j \in 1..Len(passed) : i <= j => passed[i].at <= passed[j].at
  BY DEF PassedInv
<1>4. elapsed <= elapsed
  BY DEF ClockTypes
<1>5. \A i \in 1..Len(passed') : i \in 1..Len(passed) \/ i = Len(passed) + 1
  BY <1>1
<1>6. \A i \in 1..Len(passed') : passed'[i].at <= elapsed'
  BY <1>1, <1>2, <1>4, <1>5
<1>7. ASSUME NEW i \in 1..Len(passed'), NEW j \in 1..Len(passed'), i <= j
      PROVE  passed'[i].at <= passed'[j].at
  <2>1. CASE j = Len(passed) + 1
    BY <1>1, <1>6, <2>1
  <2>2. CASE j \in 1..Len(passed)
    <3>1. i \in 1..Len(passed)
      BY <1>1, <1>7, <2>2
    <3>2. QED BY <1>1, <1>3, <1>7, <2>2, <3>1
  <2>3. QED BY <1>5, <2>1, <2>2
<1>8. QED BY <1>1, <1>6, <1>7 DEF PassedInv

\* What a throttle is judged by when it takes the place of another.
LEMMA WhatIsCarried ==
  ASSUME NEW t \in Throttles
  PROVE  \/ Carried(t) = <<>>
         \/ /\ t.kind = kind /\ passed # <<>>
            /\ \/ kind # "bytes" /\ Carried(t) = <<passed[Len(passed)]>>
               \/ kind = "bytes" /\ t.window <= window /\ Carried(t) = passed
BY DEF Carried

\* Every step keeps it.
LEMMA PassedInvStep == ClockTypes /\ PassedInv /\ [Next]_vars => PassedInv'
<1> SUFFICES ASSUME ClockTypes, PassedInv, [Next]_vars PROVE PassedInv'
  OBVIOUS
<1>a. ClockTypes
  OBVIOUS
<1> USE DEF PassedInv, ClockTypes, vars, time, config, history
<1>1. CASE DropMessage
  <2>1. UNCHANGED <<elapsed, passed>>
    BY <1>1 DEF DropMessage
  <2>2. QED BY <2>1
<1>2. CASE DropBytes
  <2>1. UNCHANGED <<elapsed, passed>>
    BY <1>2 DEF DropBytes
  <2>2. QED BY <2>1
<1>3. CASE DropFrequency
  <2>1. UNCHANGED <<elapsed, passed>>
    BY <1>3 DEF DropFrequency
  <2>2. QED BY <2>1
<1>4. CASE Tick BY <1>4, LastIsLatest DEF Tick
<1>5. ASSUME NEW size \in Sizes, PassMessage(size) PROVE PassedInv'
  <2>1. Record(size) /\ elapsed' = elapsed
    BY <1>5 DEF PassMessage
  <2>2. QED BY <2>1, RecordKeepsOrder
<1>6. ASSUME NEW size \in Sizes, PassBytes(size) PROVE PassedInv'
  <2>1. Record(size) /\ elapsed' = elapsed
    BY <1>6 DEF PassBytes
  <2>2. QED BY <2>1, RecordKeepsOrder
<1>7. ASSUME NEW size \in Sizes, PassFrequency(size) PROVE PassedInv'
  <2>1. Record(size) /\ elapsed' = elapsed
    BY <1>7 DEF PassFrequency
  <2>2. QED BY <2>1, RecordKeepsOrder
<1>8. ASSUME NEW t \in Throttles, Configure(t) PROVE PassedInv'
  <2>1. passed' = Carried(t) /\ elapsed' = elapsed
    BY <1>8 DEF Configure
  <2>2. CASE Carried(t) = <<>>
    BY <2>1, <2>2, EmptySeq
  <2>3. CASE Carried(t) = passed
    BY <2>1, <2>3
  <2>4. CASE passed # <<>> /\ Carried(t) = <<passed[Len(passed)]>>
    <3>1. passed[Len(passed)] \in Messages /\ LastAt \in Int /\ LastAt <= elapsed
      BY <2>4, <1>a, LastIsLatest
    <3>2. /\ passed' \in Seq(Messages) /\ Len(passed') = 1
          /\ passed'[1].at = LastAt
      BY <2>1, <2>4, <3>1 DEF LastAt
    <3>3. \A i \in 1..Len(passed') : i = 1
      BY <3>2
    <3>4. QED BY <2>1, <3>1, <3>2, <3>3
  <2>5. QED BY <2>2, <2>3, <2>4, WhatIsCarried
<1>9. ASSUME NEW j \in Jumps, SetClock(j) PROVE PassedInv'
  <2>1. UNCHANGED <<elapsed, passed>>
    BY <1>9 DEF SetClock
  <2>2. QED BY <2>1
<1>10. CASE UNCHANGED vars
  <2>1. UNCHANGED <<elapsed, passed>>
    BY <1>10
  <2>2. QED BY <2>1
<1>11. CASE Unthrottle
  <2>1. passed' = <<>> /\ Len(<<>>) = 0
    BY <1>11, EmptySeq DEF Unthrottle
  <2>2. QED BY <2>1, EmptySeq
<1>12. QED
  BY <1>1, <1>2, <1>3, <1>4, <1>5, <1>6, <1>7, <1>8, <1>9, <1>10, <1>11 DEF Next
-----------------------------------------------------------------------------
\* Messages: from one recorded message to another there are no more of them than periods, but
\* for the times the clock was set; and one more fits as soon as the time since the last
\* is known, or the clock was set since.
MessagesInv ==
  kind = "messages" => \A i \in 1..Len(passed) :
    /\ \A j \in i..Len(passed) : Periods(period, j - i - jumps) <= Between(i, j)
    /\ \/ clock - last_time = elapsed - LastAt
       \/ Periods(period, Len(passed) + 1 - i - jumps) <= LastAt - passed[i].at

\* What is last stays it while nothing is recorded.
LEMMA LastStays == UNCHANGED passed => LastAt' = LastAt
BY DEF LastAt

\* The next message is not earlier than a period later, but for the clock.
LEMMA MessagePassed ==
  ASSUME NEW size \in Sizes, Record(size), kind = "messages", MessageDue,
         ClockTypes, StateTypes, PassedInv, MessagesInv,
         last_time' = clock', UNCHANGED <<elapsed, clock, jumps, period>>
  PROVE  MessagesInv'
<1> DEFINE n == Len(passed)
<1>1. /\ n \in Nat /\ Len(passed') = n + 1
      /\ passed'[n + 1].at = elapsed
      /\ \A i \in 1..n : passed'[i] = passed[i]
  BY RecordedIsLast
<1>2. LastAt' = elapsed
  BY <1>1 DEF LastAt
<1>3. elapsed \in Nat /\ clock \in Int /\ last_time \in Int /\ jumps \in Nat
  BY ClockAssumption DEF ClockTypes, StateTypes
<1>4. \A i \in 1..n : passed[i].at \in Int /\ passed[i].at <= LastAt /\ passed[i].at <= elapsed
  BY LastIsLatest
<1>5. clock' - last_time' = elapsed' - LastAt'
  BY <1>2, <1>3
<1>6. ASSUME NEW i \in 1..n PROVE Periods(period, n + 1 - i - jumps) <= elapsed - passed[i].at
  <2>1. n \in i..n /\ LastAt = passed[n].at /\ LastAt \in Int /\ LastAt <= elapsed
    BY <1>1, <1>4 DEF LastAt
  <2>2. CASE clock - last_time = elapsed - LastAt
    <3>1. elapsed - LastAt >= period
      BY <1>3, <2>1, <2>2 DEF MessageDue
    <3>2. Periods(period, n - i - jumps) <= LastAt - passed[i].at
      BY <2>1 DEF MessagesInv, Between
    <3>3. n - i - jumps \in Int /\ n + 1 - i - jumps = (n - i - jumps) + 1
      BY <1>1, <1>3
    <3>4. /\ Periods(period, n - i - jumps) \in Int
          /\ Periods(period, n + 1 - i - jumps) = Periods(period, n - i - jumps) + period
      BY <3>3, PeriodsGrow, PeriodPositive
    <3>5. QED BY <1>3, <1>4, <2>1, <3>1, <3>2, <3>3, <3>4 DEF ClockTypes
  <2>3. CASE Periods(period, n + 1 - i - jumps) <= LastAt - passed[i].at
    <3>1. n + 1 - i - jumps \in Int
      BY <1>1, <1>3
    <3>2. Periods(period, n + 1 - i - jumps) \in Int
      BY <3>1, PeriodsGrow, PeriodPositive
    <3>3. QED BY <1>1, <1>3, <1>4, <2>1, <2>3, <3>1, <3>2
  <2>4. \/ clock - last_time = elapsed - LastAt
        \/ Periods(period, n + 1 - i - jumps) <= LastAt - passed[i].at
    BY DEF MessagesInv
  <2>5. QED BY <2>2, <2>3, <2>4
<1>7. ASSUME NEW i \in 1..(n + 1), NEW j \in i..(n + 1)
      PROVE  Periods(period, j - i - jumps) <= passed'[j].at - passed'[i].at
  <2>1. CASE j \in i..n
    <3>1. Periods(period, j - i - jumps) <= passed[j].at - passed[i].at
      BY <1>1, <2>1 DEF MessagesInv, Between
    <3>2. passed'[i] = passed[i] /\ passed'[j] = passed[j]
      BY <1>1, <2>1
    <3>3. QED BY <1>1, <1>3, <2>1, <3>1, <3>2
  <2>2. CASE j = n + 1 /\ i \in 1..n
    <3>1. passed'[i] = passed[i] /\ passed'[j].at = elapsed
      BY <1>1, <2>2
    <3>2. Periods(period, n + 1 - i - jumps) <= elapsed - passed[i].at
      BY <1>6, <2>2
    <3>3. j - i - jumps = n + 1 - i - jumps
      BY <1>1, <1>3, <2>2
    <3>4. QED BY <3>1, <3>2, <3>3
  <2>3. CASE j = n + 1 /\ i = n + 1
    <3>1. Periods(period, 0 - jumps) <= Periods(period, 0)
      BY <1>3, PeriodsMonotone, PeriodPositive
    <3>2. j - i - jumps = 0 - jumps
      BY <1>1, <1>3, <2>3
    <3>3. passed'[j].at - passed'[i].at = 0
      BY <1>1, <1>3, <2>3
    <3>4. Periods(period, j - i - jumps) <= 0
      BY <3>1, <3>2, PeriodsGrow, PeriodPositive
    <3>5. QED BY <3>3, <3>4
  <2>4. QED BY <1>1, <2>1, <2>2, <2>3
<1>8. QED BY <1>1, <1>5, <1>7 DEF MessagesInv, Between

\* Setting the clock costs one message.
LEMMA MessagesJump ==
  ASSUME ClockTypes, PassedInv, MessagesInv,
         UNCHANGED <<kind, period, passed>>, jumps' = jumps + 1
  PROVE  MessagesInv'
<1>1. jumps \in Nat /\ Len(passed) \in Nat
  BY ClockAssumption, LastIsLatest DEF ClockTypes
<1>2. SUFFICES ASSUME kind = "messages", NEW i \in 1..Len(passed), NEW j \in i..Len(passed)
               PROVE  /\ Periods(period, j - i - (jumps + 1)) <= Between(i, j)
                      /\ Periods(period, Len(passed) + 1 - i - (jumps + 1))
                           <= LastAt - passed[i].at
  <2>1. Len(passed) \in 1..Len(passed) \/ Len(passed) = 0
    BY <1>1
  <2>2. \A i \in 1..Len(passed) : Len(passed) \in i..Len(passed)
    BY <1>1
  <2>3. QED BY <1>2, <2>1, <2>2, LastStays DEF MessagesInv, Between
<1>3. Len(passed) \in i..Len(passed) /\ i \in Int /\ j \in Int
  BY <1>1
<1>4. /\ Periods(period, j - i - jumps) <= Between(i, j)
      /\ Periods(period, Len(passed) - i - jumps) <= Between(i, Len(passed))
  BY <1>2, <1>3 DEF MessagesInv
<1>5. /\ j - i - jumps \in Int /\ j - i - (jumps + 1) \in Int
      /\ j - i - (jumps + 1) <= j - i - jumps
  BY <1>1, <1>3
<1>6. /\ Periods(period, j - i - (jumps + 1)) <= Periods(period, j - i - jumps)
      /\ Periods(period, j - i - (jumps + 1)) \in Int /\ Periods(period, j - i - jumps) \in Int
  BY <1>5, PeriodsMonotone, PeriodsGrow, PeriodPositive
<1>7. Between(i, j) \in Int
  BY <1>1, <1>3, LastIsLatest DEF Between
<1>8. Len(passed) + 1 - i - (jumps + 1) = Len(passed) - i - jumps
  BY <1>1, <1>3
<1>9. QED BY <1>4, <1>6, <1>7, <1>8 DEF Between, LastAt

\* One message alone is within any rate.
LEMMA OneAlone ==
  ASSUME passed' = <<passed[Len(passed)]>>, passed # <<>>, ClockTypes, PassedInv
  PROVE  /\ Len(passed') = 1 /\ LastAt' = LastAt /\ LastAt \in Int /\ passed'[1].at = LastAt
         /\ \A i \in 1..Len(passed') : i = 1 /\ \A j \in i..Len(passed') : j = 1
<1>1. Len(passed') = 1 /\ passed'[1] = passed[Len(passed)]
  OBVIOUS
<1>2. LastAt \in Int
  BY LastIsLatest
<1>3. QED BY <1>1, <1>2 DEF LastAt

\* A new rate begins with the last message of the old one.
LEMMA MessagesCarry ==
  ASSUME NEW t \in Throttles, Configure(t), ClockTypes, StateTypes, PassedInv, MessagesInv
  PROVE  MessagesInv'
<1>1. /\ UNCHANGED <<clock, elapsed, jumps, last_time>>
      /\ passed' = Carried(t) /\ kind' = t.kind /\ period' = t.period
  BY DEF Configure, time, state
<1>2. CASE Carried(t) = <<>>
  <2>1. Len(<<>>) = 0
    BY EmptySeq
  <2>2. QED BY <1>1, <1>2, <2>1 DEF MessagesInv
<1>3. CASE t.kind = kind /\ passed # <<>> /\ Carried(t) = <<passed[Len(passed)]>>
  <2> SUFFICES ASSUME kind = "messages"
               PROVE  MessagesInv'
    BY <1>1, <1>3 DEF MessagesInv
  <2>1. /\ Len(passed') = 1 /\ LastAt' = LastAt /\ LastAt \in Int /\ passed'[1].at = LastAt
        /\ \A i \in 1..Len(passed') : i = 1 /\ \A j \in i..Len(passed') : j = 1
    BY <1>1, <1>3, OneAlone
  <2>2. jumps \in Nat /\ period \in Nat \ {0} /\ Len(passed) \in 1..Len(passed)
    BY <1>3, ClockAssumption, LastIsLatest DEF ClockTypes
  <2>3. PICK p \in Int : p = t.period /\ p > 0
    BY ThrottlesAssumption DEF ThrottleConfig, Positive
  <2>4. \/ clock - last_time = elapsed - LastAt
        \/ Periods(period, Len(passed) + 1 - Len(passed) - jumps)
             <= LastAt - passed[Len(passed)].at
    BY <2>2 DEF MessagesInv
  <2>5. /\ Len(passed) + 1 - Len(passed) - jumps = 1 - jumps
        /\ LastAt - passed[Len(passed)].at = 0
    BY <2>1, <2>2 DEF LastAt
  <2>6. \/ clock - last_time = elapsed - LastAt
        \/ Periods(period, 1 - jumps) <= 0
    BY <2>4, <2>5
  <2>7. Periods(period, 1 - jumps) <= 0 => jumps >= 1
    <3>1. jumps = 0 => Periods(period, 1 - jumps) = 0 + period
      BY <2>2, PeriodsGrow, PeriodPositive
    <3>2. QED BY <2>2, <3>1
  <2>8. /\ Periods(p, 0 - jumps) <= 0
        /\ jumps >= 1 => Periods(p, 1 - jumps) <= 0
    <3>1. Periods(p, 0) = 0
      BY <2>3, PeriodsGrow
    <3>2. Periods(p, 0 - jumps) <= Periods(p, 0)
      BY <2>2, <2>3, PeriodsMonotone
    <3>3. jumps >= 1 => Periods(p, 1 - jumps) <= Periods(p, 0)
      BY <2>2, <2>3, PeriodsMonotone
    <3>4. QED BY <3>1, <3>2, <3>3
  <2>9. 1 - 1 - jumps = 0 - jumps /\ 1 + 1 - 1 - jumps = 1 - jumps /\ LastAt - LastAt = 0
    BY <2>1, <2>2
  <2>10. Periods(period', 1 - 1 - jumps') <= passed'[1].at - passed'[1].at
    BY <1>1, <2>1, <2>3, <2>8, <2>9
  <2>11. \/ clock' - last_time' = elapsed' - LastAt'
         \/ Periods(period', 1 + 1 - 1 - jumps') <= LastAt' - passed'[1].at
    BY <1>1, <2>1, <2>3, <2>6, <2>7, <2>8, <2>9
  <2>12. QED BY <2>1, <2>10, <2>11 DEF MessagesInv, Between
<1>4. CASE t.kind = kind /\ kind = "bytes"
  BY <1>1, <1>4 DEF MessagesInv
<1>5. QED BY <1>2, <1>3, <1>4, WhatIsCarried

\* Every step keeps it.
LEMMA MessagesInvStep ==
  ClockTypes /\ StateTypes /\ PassedInv /\ MessagesInv /\ [Next]_vars => MessagesInv'
<1> SUFFICES ASSUME ClockTypes, StateTypes, PassedInv, MessagesInv, [Next]_vars
             PROVE  MessagesInv'
  OBVIOUS
<1> USE DEF vars, time, state, config, history
<1>1. CASE DropMessage
  <2>1. UNCHANGED <<kind, period, passed, jumps, last_time, clock, elapsed>>
    BY <1>1 DEF DropMessage
  <2>2. QED BY <2>1, LastStays DEF MessagesInv, Between
<1>2. CASE DropBytes
  <2>1. kind # "messages" /\ UNCHANGED kind
    BY <1>2 DEF DropBytes
  <2>2. QED BY <2>1 DEF MessagesInv
<1>3. CASE DropFrequency
  <2>1. kind # "messages" /\ UNCHANGED kind
    BY <1>3 DEF DropFrequency
  <2>2. QED BY <2>1 DEF MessagesInv
<1>4. CASE Tick
  <2>1. /\ UNCHANGED <<kind, period, passed, jumps, last_time>>
        /\ clock' = clock + 1 /\ elapsed' = elapsed + 1
    BY <1>4 DEF Tick
  <2>2. passed # <<>> =>
          (clock' - last_time' = elapsed' - LastAt' <=> clock - last_time = elapsed - LastAt)
    <3>1. clock \in Int /\ elapsed \in Int /\ last_time \in Int
      BY DEF ClockTypes, StateTypes
    <3>2. LastAt' = LastAt /\ (passed # <<>> => LastAt \in Int)
      BY <2>1, LastIsLatest, LastStays
    <3>3. QED BY <2>1, <3>1, <3>2
  <2>3. \A i \in 1..Len(passed) : passed # <<>>
    BY EmptySeq
  <2>4. QED BY <2>1, <2>2, <2>3, LastStays DEF MessagesInv, Between
<1>5. ASSUME NEW size \in Sizes, PassMessage(size) PROVE MessagesInv'
  <2>1. /\ Record(size) /\ kind' = "messages" /\ kind = "messages" /\ MessageDue
        /\ last_time' = clock' /\ UNCHANGED <<elapsed, clock, jumps, period>>
    BY <1>5 DEF PassMessage
  <2>2. QED BY <2>1, MessagePassed
<1>6. ASSUME NEW size \in Sizes, PassBytes(size) PROVE MessagesInv'
  <2>1. kind # "messages" /\ UNCHANGED kind
    BY <1>6 DEF PassBytes
  <2>2. QED BY <2>1 DEF MessagesInv
<1>7. ASSUME NEW size \in Sizes, PassFrequency(size) PROVE MessagesInv'
  <2>1. kind # "messages" /\ UNCHANGED kind
    BY <1>7 DEF PassFrequency
  <2>2. QED BY <2>1 DEF MessagesInv
<1>8. ASSUME NEW t \in Throttles, Configure(t) PROVE MessagesInv'
  BY <1>8, MessagesCarry
<1>9. ASSUME NEW j \in Jumps, SetClock(j) PROVE MessagesInv'
  <2>1. UNCHANGED <<kind, period, passed>> /\ jumps' = jumps + 1
    BY <1>9 DEF SetClock
  <2>2. QED BY <2>1, MessagesJump
<1>10. CASE UNCHANGED vars
  <2>1. UNCHANGED <<kind, period, passed, jumps, last_time, clock, elapsed>>
    BY <1>10
  <2>2. QED BY <2>1, LastStays DEF MessagesInv, Between
<1>11. CASE Unthrottle
  <2>1. kind' # "messages"
    BY <1>11 DEF Unthrottle
  <2>2. QED BY <2>1 DEF MessagesInv
<1>12. QED
  BY <1>1, <1>2, <1>3, <1>4, <1>5, <1>6, <1>7, <1>8, <1>9, <1>10, <1>11 DEF Next
-----------------------------------------------------------------------------
\* A pace: the same, but for one message on both sides of a beat, and two for each time the
\* clock was set; the next time on the pace is later than every beat of the past.
NextBeat == next_time - clock + elapsed

FrequencyInv ==
  kind = "frequency" => \A i \in 1..Len(passed) :
    /\ \A j \in i..Len(passed) : Periods(period, j - i - 1 - 2 * jumps) < Between(i, j)
    /\ \/ /\ last_call <= clock /\ next_time # 0
          /\ Periods(period, Len(passed) - i - 2 * jumps) < NextBeat - passed[i].at
       \/ Periods(period, Len(passed) + 1 - i - 2 * jumps) < LastAt - passed[i].at

\* What is known of an earlier message when the next one is on the pace.
LEMMA BeatPassed ==
  ASSUME kind = "frequency", clock >= Anchor,
         ClockTypes, StateTypes, ClockInv, PassedInv, FrequencyInv,
         NEW i \in 1..Len(passed)
  PROVE  /\ Periods(period, Len(passed) - i - 2 * jumps) < elapsed - passed[i].at
         /\ Periods(period, Len(passed) + 1 - i - 2 * jumps)
              < NextOnPace(Anchor) - clock + elapsed - passed[i].at
<1> DEFINE k == Len(passed) - i - 2 * jumps
           at == passed[i].at
<1>1. /\ Len(passed) \in Nat /\ i \in Int /\ jumps \in Nat
      /\ elapsed \in Int /\ clock \in Int /\ next_time \in Int
      /\ at \in Int /\ at <= LastAt /\ LastAt \in Int /\ LastAt <= elapsed
  BY ClockAssumption, LastIsLatest, EmptySeq DEF ClockTypes, StateTypes
<1>2. k \in Int /\ Len(passed) + 1 - i - 2 * jumps = k + 1
  BY <1>1
<1>3. /\ Periods(period, k) \in Int /\ Periods(period, k + 1) = Periods(period, k) + period
      /\ period \in Nat
  <2>1. k \in Int /\ period \in Nat /\ period \in Int
    BY <1>2 DEF ClockTypes
  <2> HIDE DEF k
  <2>2. Periods(period, k) \in Int /\ Periods(period, k + 1) = Periods(period, k) + period
    BY <2>1, PeriodsGrow
  <2>3. QED BY <2>1, <2>2
<1>4. Anchor \in Int /\ Anchor <= clock
  BY <1>1 DEF Anchor
<1>5. /\ NextOnPace(Anchor) \in Int /\ NextOnPace(Anchor) > clock
      /\ NextOnPace(Anchor) >= Anchor + period
  BY <1>1, <1>4, NextOnPaceIsNext, PeriodPositive
<1>6. \/ /\ last_call <= clock /\ next_time # 0
         /\ Periods(period, k) < NextBeat - at
      \/ Periods(period, Len(passed) + 1 - i - 2 * jumps) < LastAt - at
  BY DEF FrequencyInv
<1>7. CASE /\ last_call <= clock /\ next_time # 0
           /\ Periods(period, k) < NextBeat - at
  <2>1. Anchor = next_time /\ NextBeat = next_time - clock + elapsed
    BY <1>1, <1>7 DEF Anchor, StateTypes, NextBeat
  <2> HIDE DEF k, at
  <2>2. /\ Periods(period, k) < elapsed - at
        /\ Periods(period, k + 1) < NextOnPace(Anchor) - clock + elapsed - at
    BY <1>1, <1>3, <1>4, <1>5, <1>7, <2>1
  <2>3. QED BY <1>2, <2>2 DEF k, at
<1>8. CASE Periods(period, k + 1) < LastAt - at
  <2> HIDE DEF k, at
  <2>2. /\ Periods(period, k) < elapsed - at
        /\ Periods(period, k + 1) < NextOnPace(Anchor) - clock + elapsed - at
    BY <1>1, <1>3, <1>5, <1>8
  <2>3. QED BY <1>2, <2>2 DEF k, at
<1>9. QED BY <1>2, <1>6, <1>7, <1>8

\* The next message is on the pace.
LEMMA PacePassed ==
  ASSUME NEW size \in Sizes, Record(size), kind = "frequency", clock >= Anchor,
         ClockTypes, StateTypes, ClockInv, PassedInv, FrequencyInv,
         last_call' = clock', next_time' = NextOnPace(Anchor),
         UNCHANGED <<elapsed, clock, jumps, period>>
  PROVE  FrequencyInv'
<1> DEFINE n == Len(passed)
<1>1. /\ n \in Nat /\ Len(passed') = n + 1
      /\ passed'[n + 1].at = elapsed
      /\ \A i \in 1..n : passed'[i] = passed[i]
  BY RecordedIsLast
<1>2. elapsed \in Nat /\ clock \in Nat /\ next_time \in Int /\ jumps \in Nat
  BY ClockAssumption, ClockNotNegative DEF ClockTypes, StateTypes
<1>3. Anchor \in Int /\ Anchor <= clock
  BY <1>2 DEF Anchor
<1>4. next_time' \in Int /\ next_time' > clock
  BY <1>2, <1>3, NextOnPaceIsNext, PeriodPositive
<1>5. last_call' <= clock' /\ next_time' # 0
  BY <1>2, <1>4
<1>6. /\ Periods(period, 0 - 1 - 2 * jumps) \in Int /\ Periods(period, 0 - 1 - 2 * jumps) < 0
      /\ Periods(period, 0 - 2 * jumps) \in Int /\ Periods(period, 0 - 2 * jumps) <= 0
  <2>1. /\ 0 - 1 - 2 * jumps \in Int /\ 0 - 2 * jumps \in Int
        /\ 0 - 1 - 2 * jumps = (0 - 2 * jumps) - 1 /\ 0 - 2 * jumps <= 0
    BY <1>2
  <2>2. Periods(period, 0 - 2 * jumps) <= Periods(period, 0) /\ Periods(period, 0) = 0
    BY <2>1, PeriodsMonotone, PeriodsGrow, PeriodPositive
  <2>3. /\ Periods(period, 0 - 2 * jumps) \in Int
        /\ Periods(period, 0 - 1 - 2 * jumps) = Periods(period, 0 - 2 * jumps) - period
    BY <2>1, PeriodsGrow, PeriodPositive
  <2>4. QED BY <2>2, <2>3 DEF ClockTypes
<1>7. ASSUME NEW i \in 1..(n + 1)
      PROVE  Periods(period, n + 1 - i - 2 * jumps) < next_time' - clock + elapsed - passed'[i].at
  <2>1. CASE i \in 1..n
    BY <1>1, <2>1, BeatPassed
  <2>2. CASE i = n + 1
    <3>1. n + 1 - i - 2 * jumps = 0 - 2 * jumps
      BY <1>1, <1>2, <2>2
    <3>2. next_time' - clock + elapsed - passed'[i].at = next_time' - clock
      BY <1>1, <1>2, <1>4, <2>2
    <3>3. QED BY <1>2, <1>4, <1>6, <3>1, <3>2
  <2>3. QED BY <1>1, <2>1, <2>2
<1>8. ASSUME NEW i \in 1..(n + 1), NEW j \in i..(n + 1)
      PROVE  Periods(period, j - i - 1 - 2 * jumps) < passed'[j].at - passed'[i].at
  <2>1. CASE j \in i..n
    <3>1. i \in 1..n /\ j \in 1..n
      BY <1>1, <2>1
    <3>2. Periods(period, j - i - 1 - 2 * jumps) < passed[j].at - passed[i].at
      BY <2>1, <3>1 DEF FrequencyInv, Between
    <3>3. passed'[i] = passed[i] /\ passed'[j] = passed[j]
      BY <1>1, <3>1
    <3>4. QED BY <3>2, <3>3
  <2>2. CASE j = n + 1 /\ i \in 1..n
    <3>1. passed'[i] = passed[i] /\ passed'[j].at = elapsed
      BY <1>1, <2>2
    <3>2. Periods(period, n - i - 2 * jumps) < elapsed - passed[i].at
      BY <2>2, BeatPassed
    <3>3. j - i - 1 - 2 * jumps = n - i - 2 * jumps
      BY <1>1, <1>2, <2>2
    <3>4. QED BY <3>1, <3>2, <3>3
  <2>3. CASE j = n + 1 /\ i = n + 1
    <3>1. j - i - 1 - 2 * jumps = 0 - 1 - 2 * jumps
      BY <1>1, <1>2, <2>3
    <3>2. passed'[j].at - passed'[i].at = 0
      BY <1>1, <1>2, <2>3
    <3>3. QED BY <1>6, <3>1, <3>2
  <2>4. QED BY <1>1, <2>1, <2>2, <2>3
<1>9. jumps' = jumps /\ clock' = clock /\ elapsed' = elapsed
  OBVIOUS
<1>10. ASSUME NEW i \in 1..Len(passed')
       PROVE  /\ \A j \in i..Len(passed') :
                   Periods(period, j - i - 1 - 2 * jumps') < Between(i, j)'
              /\ Periods(period, Len(passed') - i - 2 * jumps') < NextBeat' - passed'[i].at
  <2>1. NextBeat' = next_time' - clock + elapsed
    BY <1>9 DEF NextBeat
  <2>2. Periods(period, Len(passed') - i - 2 * jumps') < NextBeat' - passed'[i].at
    <3>1. i \in 1..(n + 1)
      BY <1>1
    <3>2. Periods(period, n + 1 - i - 2 * jumps) < next_time' - clock + elapsed - passed'[i].at
      BY <1>7, <3>1
    <3>3. Periods(period, n + 1 - i - 2 * jumps) < NextBeat' - passed'[i].at
      <4>1. passed'[i].at \in Int
        <5>1. passed' \in Seq(Messages)
          BY RecordedIsLast
        <5>2. passed'[i] \in Messages
          BY <5>1
        <5>3. QED BY <5>2 DEF Messages
      <4>2. QED BY <1>2, <1>4, <2>1, <3>2, <4>1
    <3>4. Len(passed') - i - 2 * jumps' = n + 1 - i - 2 * jumps
      BY <1>1, <1>2, <1>9
    <3>5. QED BY <3>3, <3>4
  <2>3. ASSUME NEW j \in i..Len(passed')
        PROVE  Periods(period, j - i - 1 - 2 * jumps') < Between(i, j)'
    BY <1>1, <1>8, <1>9 DEF Between
  <2>4. QED BY <2>2, <2>3
<1>11. QED BY <1>5, <1>10 DEF FrequencyInv

\* Setting the clock costs two messages.
LEMMA PaceJump ==
  ASSUME ClockTypes, PassedInv, FrequencyInv,
         UNCHANGED <<kind, period, passed>>, jumps' = jumps + 1
  PROVE  FrequencyInv'
<1>1. jumps \in Nat /\ Len(passed) \in Nat
  BY ClockAssumption, LastIsLatest DEF ClockTypes
<1>2. SUFFICES ASSUME kind = "frequency", NEW i \in 1..Len(passed), NEW j \in i..Len(passed)
               PROVE  /\ Periods(period, j - i - 1 - 2 * (jumps + 1)) < Between(i, j)
                      /\ Periods(period, Len(passed) + 1 - i - 2 * (jumps + 1))
                           < LastAt - passed[i].at
  <2>1. \A i \in 1..Len(passed) : Len(passed) \in i..Len(passed)
    BY <1>1
  <2>2. QED BY <1>2, <2>1, LastStays DEF FrequencyInv, Between
<1>3. Len(passed) \in i..Len(passed) /\ i \in Int /\ j \in Int
  BY <1>1
<1>4. /\ Periods(period, j - i - 1 - 2 * jumps) < Between(i, j)
      /\ Periods(period, Len(passed) - i - 1 - 2 * jumps) < Between(i, Len(passed))
  BY <1>2, <1>3 DEF FrequencyInv
<1>5. /\ j - i - 1 - 2 * jumps \in Int /\ j - i - 1 - 2 * (jumps + 1) \in Int
      /\ j - i - 1 - 2 * (jumps + 1) <= j - i - 1 - 2 * jumps
  BY <1>1, <1>3
<1>6. /\ Periods(period, j - i - 1 - 2 * (jumps + 1)) <= Periods(period, j - i - 1 - 2 * jumps)
      /\ Periods(period, j - i - 1 - 2 * (jumps + 1)) \in Int
      /\ Periods(period, j - i - 1 - 2 * jumps) \in Int
  BY <1>5, PeriodsMonotone, PeriodsGrow, PeriodPositive
<1>7. Between(i, j) \in Int
  BY <1>1, <1>3, LastIsLatest DEF Between
<1>8. Len(passed) + 1 - i - 2 * (jumps + 1) = Len(passed) - i - 1 - 2 * jumps
  BY <1>1, <1>3
<1>9. QED BY <1>4, <1>6, <1>7, <1>8 DEF Between, LastAt

\* While nothing is recorded and the clock runs, the next time is as far from the past.
LEMMA PaceStays ==
  ASSUME FrequencyInv, UNCHANGED <<kind, period, passed, jumps, next_time>>,
         NextBeat' = NextBeat,
         last_call <= clock => last_call' <= clock'
  PROVE  FrequencyInv'
<1> SUFFICES ASSUME kind = "frequency", NEW i \in 1..Len(passed)
             PROVE  /\ \A j \in i..Len(passed) :
                         Periods(period, j - i - 1 - 2 * jumps) < Between(i, j)
                    /\ \/ /\ last_call' <= clock' /\ next_time # 0
                          /\ Periods(period, Len(passed) - i - 2 * jumps)
                               < NextBeat - passed[i].at
                       \/ Periods(period, Len(passed) + 1 - i - 2 * jumps) < LastAt - passed[i].at
  BY LastStays DEF FrequencyInv, Between
<1>1. QED BY DEF FrequencyInv

\* A new pace begins with the last message of the old one.
LEMMA PaceCarry ==
  ASSUME NEW t \in Throttles, Configure(t), ClockTypes, StateTypes, PassedInv, FrequencyInv
  PROVE  FrequencyInv'
<1>1. /\ UNCHANGED <<clock, elapsed, jumps, last_call, next_time>>
      /\ passed' = Carried(t) /\ kind' = t.kind /\ period' = t.period
  BY DEF Configure, time, state
<1>2. CASE Carried(t) = <<>>
  <2>1. Len(<<>>) = 0
    BY EmptySeq
  <2>2. QED BY <1>1, <1>2, <2>1 DEF FrequencyInv
<1>3. CASE t.kind = kind /\ passed # <<>> /\ Carried(t) = <<passed[Len(passed)]>>
  <2> SUFFICES ASSUME kind = "frequency"
               PROVE  FrequencyInv'
    BY <1>1, <1>3 DEF FrequencyInv
  <2>1. /\ Len(passed') = 1 /\ LastAt' = LastAt /\ LastAt \in Int /\ passed'[1].at = LastAt
        /\ \A i \in 1..Len(passed') : i = 1 /\ \A j \in i..Len(passed') : j = 1
    BY <1>1, <1>3, OneAlone
  <2>2. jumps \in Nat /\ period \in Nat \ {0} /\ Len(passed) \in 1..Len(passed)
    BY <1>3, ClockAssumption, LastIsLatest DEF ClockTypes
  <2>3. PICK p \in Int : p = t.period /\ p > 0
    BY ThrottlesAssumption DEF ThrottleConfig, Positive
  <2>4. \/ /\ last_call <= clock /\ next_time # 0
           /\ Periods(period, Len(passed) - Len(passed) - 2 * jumps)
                < NextBeat - passed[Len(passed)].at
        \/ Periods(period, Len(passed) + 1 - Len(passed) - 2 * jumps)
             < LastAt - passed[Len(passed)].at
    BY <2>2 DEF FrequencyInv
  <2>5. /\ Len(passed) - Len(passed) - 2 * jumps = 0 - 2 * jumps
        /\ Len(passed) + 1 - Len(passed) - 2 * jumps = 1 - 2 * jumps
        /\ LastAt - passed[Len(passed)].at = 0 /\ passed[Len(passed)].at = LastAt
    BY <2>1, <2>2 DEF LastAt
  <2>6. \/ /\ last_call <= clock /\ next_time # 0
           /\ Periods(period, 0 - 2 * jumps) < NextBeat - LastAt
        \/ Periods(period, 1 - 2 * jumps) < 0
    BY <2>4, <2>5
  <2>7. jumps = 0 => Periods(period, 1 - 2 * jumps) = 0 + period
    BY <2>2, PeriodsGrow, PeriodPositive
  <2>8. CASE jumps = 0
    <3>1. /\ last_call <= clock /\ next_time # 0
          /\ 0 < NextBeat - LastAt
      <4>1. Periods(period, 0) = 0 /\ 0 - 2 * jumps = 0 /\ ~(0 + period < 0)
        BY <2>2, <2>8, PeriodsGrow
      <4>2. QED BY <2>6, <2>7, <2>8, <4>1
    <3>2. /\ Periods(p, 0 - 1 - 2 * jumps) < 0
          /\ Periods(p, 0 - 2 * jumps) = 0
      <4>1. /\ 0 - 1 - 2 * jumps \in Int /\ 0 - 1 - 2 * jumps < 0
            /\ 0 - 2 * jumps \in Int /\ 0 - 2 * jumps = 0
        BY <2>2, <2>8
      <4>2. QED BY <2>3, <4>1, PeriodsSign
    <3>3. QED BY <1>1, <2>1, <2>3, <3>1, <3>2 DEF FrequencyInv, Between, NextBeat
  <2>9. CASE jumps >= 1
    <3>1. /\ Periods(p, 0 - 1 - 2 * jumps) < 0
          /\ Periods(p, 1 - 2 * jumps) < 0
      <4>1. /\ 0 - 1 - 2 * jumps \in Int /\ 0 - 1 - 2 * jumps < 0
            /\ 1 - 2 * jumps \in Int /\ 1 - 2 * jumps < 0
        BY <2>2, <2>9
      <4>2. QED BY <2>3, <4>1, PeriodsSign
    <3>2. 1 - 1 - 1 - 2 * jumps = 0 - 1 - 2 * jumps /\ 1 + 1 - 1 - 2 * jumps = 1 - 2 * jumps
      BY <2>2
    <3>3. Periods(period', 1 - 1 - 1 - 2 * jumps') < passed'[1].at - passed'[1].at
      BY <1>1, <2>1, <2>3, <3>1, <3>2
    <3>4. Periods(period', 1 + 1 - 1 - 2 * jumps') < LastAt' - passed'[1].at
      BY <1>1, <2>1, <2>3, <3>1, <3>2
    <3>5. QED BY <2>1, <3>3, <3>4 DEF FrequencyInv, Between
  <2>10. QED BY <2>2, <2>8, <2>9
<1>4. CASE t.kind = kind /\ kind = "bytes"
  BY <1>1, <1>4 DEF FrequencyInv
<1>5. QED BY <1>2, <1>3, <1>4, WhatIsCarried

\* Every step keeps it.
LEMMA FrequencyInvStep ==
  ClockTypes /\ StateTypes /\ ClockInv /\ PassedInv /\ FrequencyInv /\ [Next]_vars
  => FrequencyInv'
<1> SUFFICES ASSUME ClockTypes, StateTypes, ClockInv, PassedInv, FrequencyInv, [Next]_vars
             PROVE  FrequencyInv'
  OBVIOUS
<1> USE DEF vars, time, state, config, history
<1>1. CASE DropMessage
  <2>1. kind # "frequency" /\ UNCHANGED kind
    BY <1>1 DEF DropMessage
  <2>2. QED BY <2>1 DEF FrequencyInv
<1>2. CASE DropBytes
  <2>1. kind # "frequency" /\ UNCHANGED kind
    BY <1>2 DEF DropBytes
  <2>2. QED BY <2>1 DEF FrequencyInv
<1>3. CASE DropFrequency
  <2>1. /\ UNCHANGED <<kind, period, passed, jumps, clock, elapsed, next_time>>
        /\ last_call' = clock
    BY <1>3 DEF DropFrequency, Anchor, StateTypes, ClockTypes
  <2>2. NextBeat' = NextBeat /\ last_call' <= clock'
    BY <2>1 DEF ClockTypes, StateTypes, NextBeat
  <2>3. QED BY <2>1, <2>2, PaceStays
<1>4. CASE Tick
  <2>1. /\ UNCHANGED <<kind, period, passed, jumps, last_call, next_time>>
        /\ clock' = clock + 1 /\ elapsed' = elapsed + 1
    BY <1>4 DEF Tick
  <2>2. NextBeat' = NextBeat /\ (last_call <= clock => last_call' <= clock')
    BY <2>1 DEF ClockTypes, StateTypes, NextBeat
  <2>3. QED BY <2>1, <2>2, PaceStays
<1>5. ASSUME NEW size \in Sizes, PassMessage(size) PROVE FrequencyInv'
  <2>1. kind # "frequency" /\ UNCHANGED kind
    BY <1>5 DEF PassMessage
  <2>2. QED BY <2>1 DEF FrequencyInv
<1>6. ASSUME NEW size \in Sizes, PassBytes(size) PROVE FrequencyInv'
  <2>1. kind # "frequency" /\ UNCHANGED kind
    BY <1>6 DEF PassBytes
  <2>2. QED BY <2>1 DEF FrequencyInv
<1>7. ASSUME NEW size \in Sizes, PassFrequency(size) PROVE FrequencyInv'
  <2>1. /\ Record(size) /\ kind' = "frequency" /\ kind = "frequency" /\ clock >= Anchor
        /\ last_call' = clock' /\ next_time' = NextOnPace(Anchor)
        /\ UNCHANGED <<elapsed, clock, jumps, period>>
    BY <1>7 DEF PassFrequency
  <2>2. QED BY <2>1, PacePassed
<1>8. ASSUME NEW t \in Throttles, Configure(t) PROVE FrequencyInv'
  BY <1>8, PaceCarry
<1>9. ASSUME NEW j \in Jumps, SetClock(j) PROVE FrequencyInv'
  <2>1. UNCHANGED <<kind, period, passed>> /\ jumps' = jumps + 1
    BY <1>9 DEF SetClock
  <2>2. QED BY <2>1, PaceJump
<1>10. CASE UNCHANGED vars
  <2>1. UNCHANGED <<kind, period, passed, jumps, last_call, next_time, clock, elapsed>>
    BY <1>10
  <2>2. NextBeat' = NextBeat /\ (last_call <= clock => last_call' <= clock')
    BY <2>1 DEF NextBeat
  <2>3. QED BY <2>1, <2>2, PaceStays
<1>11. CASE Unthrottle
  <2>1. kind' # "frequency"
    BY <1>11 DEF Unthrottle
  <2>2. QED BY <2>1 DEF FrequencyInv
<1>12. QED
  BY <1>1, <1>2, <1>3, <1>4, <1>5, <1>6, <1>7, <1>8, <1>9, <1>10, <1>11 DEF Next
-----------------------------------------------------------------------------
\* Silence: the clock lost no more since the last recorded message than it was set back.
MessagesQuiet == clock - last_time >= elapsed - since - set_back

FrequencyQuiet == next_time # 0 => next_time - clock <= since + pace - elapsed + set_back

\* No entry of the deque is younger than the last recorded message, but for what the
\* clock was set back.
SentInv == \A l \in 1..Len(sent) : sent[l].at - clock <= since - elapsed + set_back

\* A topic without a throttle has no state.
NoneInv ==
  kind = "none" => last_time = 0 /\ next_time = 0 /\ last_call = 0 /\ sent = <<>>

\* When the clock runs or is set, it loses no more than what it is set back.
LEMMA ClockLoses ==
  ASSUME ClockTypes, Tick \/ \E j \in Jumps : SetClock(j)
  PROVE  \E ahead, on, back \in Int :
           /\ clock' = clock + ahead /\ elapsed' = elapsed + on /\ set_back' = set_back + back
           /\ on >= 0 /\ ahead + back >= on
<1> DEFINE Loses(ahead, on, back) ==
      /\ clock' = clock + ahead /\ elapsed' = elapsed + on /\ set_back' = set_back + back
      /\ on >= 0 /\ ahead + back >= on
<1>1. Tick => Loses(1, 1, 0)
  BY DEF Tick, ClockTypes
<1>2. ASSUME NEW j \in Jumps, SetClock(j)
      PROVE  j \in Int /\ Loses(j, 0, IF j < 0 THEN 0 - j ELSE 0)
  BY <1>2, ClockAssumption DEF SetClock, ClockTypes
<1>3. ASSUME NEW j \in Jumps, SetClock(j)
      PROVE  (IF j < 0 THEN 0 - j ELSE 0) \in Int
  BY <1>2, <1>3
<1> HIDE DEF Loses
<1>4. \E ahead, on, back \in Int : Loses(ahead, on, back)
  BY <1>1, <1>2, <1>3
<1>5. QED BY <1>4 DEF Loses

\* The state of each type changes with its own recorded messages only; any other
\* message, and the end of a throttle, only makes the silence shorter.
Moves ==
  \/ /\ UNCHANGED <<clock, elapsed, set_back, last_time, next_time, sent, pace>>
     /\ since' \in {since, elapsed}
  \/ /\ UNCHANGED <<clock, elapsed, set_back, next_time, sent, pace>>
     /\ since' = elapsed /\ last_time' = clock
  \/ /\ UNCHANGED <<clock, elapsed, set_back, last_time, sent>>
     /\ since' = elapsed /\ pace' = period
     /\ clock >= Anchor /\ next_time' = NextOnPace(Anchor)
  \/ /\ UNCHANGED <<clock, elapsed, set_back, last_time, next_time, pace, since>>
     /\ sent' = InWindow
  \/ /\ UNCHANGED <<clock, elapsed, set_back, last_time, next_time, pace>>
     /\ since' = elapsed /\ \E size \in Sizes :
          sent' = Append(InWindow, [at |-> clock, size |-> size])
  \/ /\ UNCHANGED <<clock, elapsed, set_back>> /\ since' = elapsed
     /\ last_time' = 0 /\ next_time' = 0 /\ sent' = <<>>
  \/ /\ UNCHANGED <<last_time, next_time, sent, pace, since>>
     /\ \E ahead, on, back \in Int :
          /\ clock' = clock + ahead /\ elapsed' = elapsed + on /\ set_back' = set_back + back
          /\ on >= 0 /\ ahead + back >= on

\* Every step is one of these.
LEMMA StepMoves == ClockTypes /\ [Next]_vars => Moves
<1> SUFFICES ASSUME ClockTypes, [Next]_vars PROVE Moves
  OBVIOUS
<1> USE DEF vars, time, state, config, history
<1>1. CASE DropMessage BY <1>1 DEF DropMessage, Moves
<1>2. CASE DropBytes BY <1>2 DEF DropBytes, Moves
<1>3. CASE DropFrequency
  <2>1. next_time' = next_time
    BY <1>3 DEF DropFrequency, Anchor, ClockTypes
  <2>2. QED BY <1>3, <2>1 DEF DropFrequency, Moves
<1>4. CASE Tick
  <2>1. UNCHANGED <<last_time, next_time, sent, pace, since>>
    BY <1>4 DEF Tick
  <2>2. QED BY <1>4, <2>1, ClockLoses DEF Moves
<1>5. ASSUME NEW size \in Sizes, PassMessage(size) PROVE Moves
  BY <1>5 DEF PassMessage, Record, Moves
<1>6. ASSUME NEW size \in Sizes, PassBytes(size) PROVE Moves
  BY <1>6 DEF PassBytes, Record, Moves
<1>7. ASSUME NEW size \in Sizes, PassFrequency(size) PROVE Moves
  BY <1>7 DEF PassFrequency, Record, Moves
<1>8. ASSUME NEW t \in Throttles, Configure(t) PROVE Moves
  BY <1>8 DEF Configure, Moves
<1>9. ASSUME NEW j \in Jumps, SetClock(j) PROVE Moves
  <2>1. UNCHANGED <<last_time, next_time, sent, pace, since>>
    BY <1>9 DEF SetClock
  <2>2. QED BY <1>9, <2>1, ClockLoses DEF Moves
<1>10. CASE UNCHANGED vars BY <1>10 DEF Moves
<1>11. CASE Unthrottle BY <1>11 DEF Unthrottle, Moves
<1>12. QED
  BY <1>1, <1>2, <1>3, <1>4, <1>5, <1>6, <1>7, <1>8, <1>9, <1>10, <1>11 DEF Next

\* Every step keeps each of these: the time since the last message of a rate,
LEMMA MessagesQuietStep ==
  ClockTypes /\ ClockInv /\ StateTypes /\ MessagesQuiet /\ [Next]_vars => MessagesQuiet'
<1> SUFFICES ASSUME ClockTypes, ClockInv, StateTypes, MessagesQuiet, Moves
             PROVE  MessagesQuiet'
  BY StepMoves
<1>1. /\ clock \in Nat /\ elapsed \in Int /\ set_back \in Nat /\ last_time \in Int
      /\ since \in Int /\ since <= elapsed
  BY ClockNotNegative DEF ClockTypes, StateTypes
<1>2. clock - last_time >= elapsed - since - set_back
  BY DEF MessagesQuiet
<1>3. QED BY <1>1, <1>2 DEF Moves, MessagesQuiet

\* the time to the next of a pace,
LEMMA FrequencyQuietStep ==
  ClockTypes /\ StateTypes /\ FrequencyQuiet /\ [Next]_vars => FrequencyQuiet'
<1> SUFFICES ASSUME ClockTypes, StateTypes, FrequencyQuiet, Moves
             PROVE  FrequencyQuiet'
  BY StepMoves
<1>1. /\ clock \in Int /\ elapsed \in Int /\ set_back \in Nat /\ next_time \in Int
      /\ since \in Int /\ since <= elapsed /\ pace \in Nat /\ period \in Nat \ {0}
  BY DEF ClockTypes, StateTypes
<1>2. next_time # 0 => next_time - clock <= since + pace - elapsed + set_back
  BY DEF FrequencyQuiet
<1>3. clock >= Anchor =>
        NextOnPace(Anchor) \in Int /\ NextOnPace(Anchor) <= clock + period
  <2>1. Anchor \in Int
    BY <1>1 DEF Anchor
  <2>2. QED BY <1>1, <2>1, NextOnPaceIsNext, PeriodPositive
<1>4. QED BY <1>1, <1>2, <1>3 DEF Moves, FrequencyQuiet

\* the age of what was sent,
LEMMA SentInvStep ==
  ClockTypes /\ StateTypes /\ SentInv /\ [Next]_vars => SentInv'
<1> SUFFICES ASSUME ClockTypes, StateTypes, SentInv, Moves
             PROVE  SentInv'
  BY StepMoves
<1>1. /\ clock \in Int /\ elapsed \in Int /\ set_back \in Nat
      /\ since \in Int /\ since <= elapsed
  BY DEF ClockTypes
<1>2. \A l \in 1..Len(sent) : sent[l].at \in Int
  <2>1. \A l \in 1..Len(sent) : sent[l] \in Messages
    BY DEF StateTypes
  <2>2. QED BY <2>1 DEF Messages
<1>3. \A l \in 1..Len(sent) : sent[l].at - clock <= since - elapsed + set_back
  BY DEF SentInv
<1>4. ASSUME UNCHANGED <<clock, elapsed, set_back>>, since' \in {since, elapsed},
             NEW at \in Int, at - clock <= since - elapsed + set_back
      PROVE  at - clock' <= since' - elapsed' + set_back'
  <2>1. at - clock <= since - elapsed + set_back /\ at - clock <= elapsed - elapsed + set_back
    BY <1>1, <1>4
  <2>2. QED BY <1>4, <2>1
<1>5. InWindow \in Seq(Messages) /\ Len(InWindow) \in Nat
  BY InWindowIsSent DEF StateTypes
<1>6. \A l \in 1..Len(InWindow) : \E m \in 1..Len(sent) : InWindow[l] = sent[m]
  BY InWindowIsSent DEF StateTypes
<1>7. CASE UNCHANGED <<clock, elapsed, set_back, sent>> /\ since' \in {since, elapsed}
  BY <1>2, <1>3, <1>4, <1>7 DEF SentInv
<1>8. CASE UNCHANGED <<clock, elapsed, set_back, since>> /\ sent' = InWindow
  BY <1>3, <1>6, <1>8 DEF SentInv
<1>9. ASSUME UNCHANGED <<clock, elapsed, set_back>>, since' = elapsed, NEW size \in Sizes,
             sent' = Append(InWindow, [at |-> clock, size |-> size])
      PROVE  SentInv'
  <2>1. [at |-> clock, size |-> size] \in Messages
    BY <1>1, SizesAssumption DEF Messages
  <2>2. /\ Len(sent') = Len(InWindow) + 1
        /\ \A l \in 1..Len(InWindow) : sent'[l] = InWindow[l]
        /\ sent'[Len(InWindow) + 1] = [at |-> clock, size |-> size]
    BY <1>5, <1>9, <2>1, AppendProperties
  <2>3. ASSUME NEW l \in 1..Len(InWindow)
        PROVE  sent'[l].at - clock' <= since' - elapsed' + set_back'
    BY <1>2, <1>3, <1>4, <1>6, <1>9, <2>2
  <2>4. sent'[Len(InWindow) + 1].at - clock' <= since' - elapsed' + set_back'
    BY <1>1, <1>9, <2>2
  <2>5. \A l \in 1..Len(sent') : l \in 1..Len(InWindow) \/ l = Len(InWindow) + 1
    BY <1>5, <2>2
  <2>6. QED BY <2>3, <2>4, <2>5 DEF SentInv
<1>10. CASE sent' = <<>>
  BY <1>10, EmptySeq DEF SentInv
<1>11. ASSUME UNCHANGED <<sent, since>>, NEW ahead \in Int, NEW on \in Int, NEW back \in Int,
              clock' = clock + ahead, elapsed' = elapsed + on, set_back' = set_back + back,
              ahead + back >= on
       PROVE  SentInv'
  <2>1. ASSUME NEW at \in Int, at - clock <= since - elapsed + set_back
        PROVE  at - clock' <= since - elapsed' + set_back'
    BY <1>1, <1>11, <2>1
  <2>2. QED BY <1>2, <1>3, <1>11, <2>1 DEF SentInv
<1>12. QED BY <1>7, <1>8, <1>9, <1>10, <1>11 DEF Moves

\* and the erased state.
LEMMA NoneInvStep == NoneInv /\ [Next]_vars => NoneInv'
<1> SUFFICES ASSUME NoneInv, [Next]_vars PROVE NoneInv'
  OBVIOUS
<1> USE DEF vars, time, state, config, history
<1>1. CASE DropMessage BY <1>1 DEF DropMessage, NoneInv
<1>2. CASE DropBytes BY <1>2 DEF DropBytes, NoneInv
<1>3. CASE DropFrequency BY <1>3 DEF DropFrequency, NoneInv
<1>4. CASE Tick BY <1>4 DEF Tick, NoneInv
<1>5. ASSUME NEW size \in Sizes, PassMessage(size) PROVE NoneInv'
  BY <1>5 DEF PassMessage, NoneInv
<1>6. ASSUME NEW size \in Sizes, PassBytes(size) PROVE NoneInv'
  BY <1>6 DEF PassBytes, NoneInv
<1>7. ASSUME NEW size \in Sizes, PassFrequency(size) PROVE NoneInv'
  BY <1>7 DEF PassFrequency, NoneInv
<1>8. ASSUME NEW t \in Throttles, Configure(t) PROVE NoneInv'
  <2>1. t.kind # "none"
    BY ThrottlesAssumption DEF ThrottleConfig
  <2>2. QED BY <1>8, <2>1 DEF Configure, NoneInv
<1>9. ASSUME NEW j \in Jumps, SetClock(j) PROVE NoneInv'
  BY <1>9 DEF SetClock, NoneInv
<1>10. CASE UNCHANGED vars BY <1>10 DEF NoneInv
<1>11. CASE Unthrottle BY <1>11 DEF Unthrottle, NoneInv
<1>12. QED
  BY <1>1, <1>2, <1>3, <1>4, <1>5, <1>6, <1>7, <1>8, <1>9, <1>10, <1>11 DEF Next

\* No messages have no bytes.
LEMMA NoBytes == Bytes(<<>>) = 0
<1> DEFINE Sums(f) ==
      f = [s \in SUBSET DOMAIN <<>> |->
             IF s = {} THEN 0 ELSE f[s \ {Max(s)}] + <<>>[Max(s)].size]
<1>1. DOMAIN <<>> = {}
  BY EmptySeq
<1>2. Sums([s \in SUBSET {} |-> 0])
  BY <1>1
<1>3. Sums(CHOOSE f : Sums(f))
  BY <1>2
<1>4. \A f : Sums(f) => f[{}] = 0
  BY <1>1
<1>5. Bytes(<<>>) = (CHOOSE f : Sums(f))[DOMAIN <<>>]
  BY DEF Bytes, FoldLeft, MapThenFoldSet
<1> HIDE DEF Sums
<1>6. QED BY <1>1, <1>3, <1>4, <1>5
-----------------------------------------------------------------------------
\* Together they are inductive.
ThrottleInv ==
  /\ ClockTypes /\ StateTypes /\ ClockInv /\ PassedInv
  /\ MessagesInv /\ FrequencyInv
  /\ MessagesQuiet /\ FrequencyQuiet /\ SentInv /\ NoneInv

\* It holds at first: nothing was recorded, and the clock not set.
LEMMA ThrottleInvInit == Init => ThrottleInv
<1> SUFFICES ASSUME Init PROVE ThrottleInv
  OBVIOUS
<1>1. /\ elapsed = 0 /\ clock = StartTime /\ jumps = 0 /\ set_back = 0
      /\ last_time = 0 /\ next_time = 0 /\ last_call = 0 /\ sent = <<>> /\ passed = <<>>
      /\ since = 0 /\ pace = period /\ allowed = limit
  BY DEF Init
<1>a. /\ period \in Nat \ {0} /\ window \in Nat \ {0} /\ limit \in Nat \ {0}
      /\ kind # "none"
  BY ThrottlesAssumption DEF Init, ThrottleConfig, Positive
<1>2. Len(<<>>) = 0 /\ <<>> \in Seq(Messages)
  BY EmptySeq
<1>3. ClockTypes /\ StateTypes
  BY <1>1, <1>2, <1>a, ClockAssumption DEF ClockTypes, StateTypes
<1>4. ClockInv
  BY <1>1, ClockAssumption DEF ClockInv
<1>5. PassedInv /\ MessagesInv /\ FrequencyInv /\ SentInv
  BY <1>1, <1>2 DEF PassedInv, MessagesInv, FrequencyInv, SentInv
<1>6. MessagesQuiet /\ FrequencyQuiet /\ NoneInv
  BY <1>1, <1>a, ClockAssumption DEF MessagesQuiet, FrequencyQuiet, NoneInv
<1>7. QED BY <1>3, <1>4, <1>5, <1>6 DEF ThrottleInv

\* Every step keeps it.
LEMMA ThrottleInvStep == ThrottleInv /\ [Next]_vars => ThrottleInv'
BY ClockTypesStep, StateTypesStep, ClockInvStep, PassedInvStep, MessagesInvStep,
   FrequencyInvStep, MessagesQuietStep, FrequencyQuietStep, SentInvStep, NoneInvStep
DEF ThrottleInv

\* It holds always.
LEMMA ThrottleInvAlways == Spec => []ThrottleInv
BY ThrottleInvInit, ThrottleInvStep, PTL DEF Spec

\* What the invariant says of the rate: in whole periods.
LEMMA RateFromInv ==
  ClockTypes /\ PassedInv /\ MessagesInv /\ FrequencyInv => RateKept
<1> SUFFICES ASSUME ClockTypes, PassedInv, MessagesInv, FrequencyInv,
                    NEW i \in 1..Len(passed), NEW j \in 1..Len(passed), i < j
             PROVE  /\ kind = "messages" => j - i <= Between(i, j) \div period + jumps
                    /\ kind = "frequency" => j - i <= PeriodsBegun(Between(i, j)) + 2 * jumps
  BY DEF RateKept
<1>1. /\ Len(passed) \in Nat /\ jumps \in Nat /\ i \in Int /\ j \in Int /\ j \in i..Len(passed)
      /\ Between(i, j) \in Int
  BY ClockAssumption, LastIsLatest DEF ClockTypes, Between
<1>2. period \in Nat \ {0}
  BY DEF ClockTypes
<1>3. ASSUME kind = "messages" PROVE j - i <= Between(i, j) \div period + jumps
  <2>1. Periods(period, j - i - jumps) <= Between(i, j) /\ j - i - jumps \in Int
    BY <1>1, <1>3 DEF MessagesInv
  <2>2. j - i - jumps <= Between(i, j) \div period
    BY <1>1, <2>1, PeriodsFit, PeriodPositive
  <2>3. Between(i, j) \div period \in Int
    BY <1>1, <1>2
  <2>4. QED BY <1>1, <2>2, <2>3
<1>4. ASSUME kind = "frequency"
      PROVE  j - i <= PeriodsBegun(Between(i, j)) + 2 * jumps
  <2> DEFINE k == j - i - 2 * jumps
             ticks == Between(i, j) + period - 1
  <2>1. k \in Int /\ k - 1 = j - i - 1 - 2 * jumps /\ ticks \in Int
    BY <1>1, <1>2
  <2>2. Periods(period, k - 1) < Between(i, j)
    BY <1>1, <1>4, <2>1 DEF FrequencyInv
  <2>3. Periods(period, k) \in Int /\ Periods(period, k - 1) = Periods(period, k) - period
    BY <2>1, PeriodsGrow, PeriodPositive
  <2>4. Periods(period, k) <= ticks
    <3> HIDE DEF k
    <3>1. QED BY <1>1, <1>2, <2>2, <2>3
  <2>5. k <= ticks \div period /\ ticks \div period \in Int
    <3> HIDE DEF k, ticks
    <3>1. ticks \div period \in Int
      BY <1>2, <2>1
    <3>2. k <= ticks \div period
      BY <2>1, <2>4, PeriodsFit, PeriodPositive
    <3>3. QED BY <3>1, <3>2
  <2>6. PeriodsBegun(Between(i, j)) = ticks \div period
    BY DEF PeriodsBegun
  <2>7. QED
    <3> HIDE DEF ticks
    <3>1. QED BY <1>1, <2>5, <2>6
<1>5. QED BY <1>3, <1>4

\* What it says of silence.
LEMMA SilenceFromInv ==
  /\ ClockTypes /\ StateTypes /\ ClockInv
  /\ MessagesQuiet /\ FrequencyQuiet /\ SentInv /\ NoneInv
  => NotSilenced
<1> SUFFICES ASSUME ClockTypes, StateTypes, ClockInv, MessagesQuiet, FrequencyQuiet,
                    SentInv, NoneInv
             PROVE  NotSilenced
  OBVIOUS
<1> DEFINE quiet == elapsed - since - set_back
<1>1. /\ clock \in Nat /\ elapsed \in Int /\ set_back \in Int
      /\ last_time \in Int /\ next_time \in Int /\ since \in Int /\ pace \in Int
      /\ period \in Nat \ {0} /\ window \in Nat \ {0} /\ limit \in Nat \ {0}
  BY ClockNotNegative DEF ClockTypes, StateTypes
<1>2. ASSUME kind = "messages", quiet >= period PROVE Passes
  <2>1. clock - last_time >= period
    BY <1>1, <1>2 DEF MessagesQuiet
  <2>2. QED BY <1>2, <2>1 DEF Passes, MessageDue
<1>3. ASSUME kind = "frequency", quiet >= pace PROVE Passes
  <2>1. next_time = 0 \/ clock >= next_time
    BY <1>1, <1>3 DEF FrequencyQuiet
  <2>2. clock >= Anchor
    BY <1>1, <2>1 DEF Anchor
  <2>3. QED BY <1>3, <2>2 DEF Passes
<1>4. ASSUME kind = "bytes", quiet > window PROVE Passes
  <2>1. ASSUME NEW l \in 1..Len(sent) PROVE ~(sent[l].at >= clock - window)
    <3>1. sent[l] \in Messages
      BY DEF StateTypes
    <3>2. sent[l].at \in Int
      BY <3>1 DEF Messages
    <3>3. sent[l].at - clock <= since - elapsed + set_back
      BY DEF SentInv
    <3>4. QED BY <1>1, <1>4, <3>2, <3>3
  <2>2. {l \in 1..Len(sent) : sent[l].at >= clock - window} = {}
    BY <2>1
  <2>3. InWindow = <<>>
    BY <2>2 DEF InWindow
  <2>4. BudgetLeft
    BY <1>1, <2>3, NoBytes DEF BudgetLeft
  <2>5. QED BY <1>4, <2>4 DEF Passes
<1>5. QED BY <1>2, <1>3, <1>4 DEF NotSilenced, NoneInv

\* A throttle by rate keeps its rate, and a pace at most one message more in any time,
\* but for as many as the clock was set: whatever the periods, whenever one takes the
\* place of another, and whenever the clock is set, to whatever time, between whichever
\* messages.
THEOREM RateAlwaysKept == Spec => []RateKept
<1>1. ThrottleInv => RateKept
  BY RateFromInv DEF ThrottleInv
<1>2. QED BY <1>1, ThrottleInvAlways, PTL

\* No throttle silences a topic for longer than its period or window and what the clock
\* was set back, whatever throttles it had before, and a topic that loses its throttle
\* loses its state.
THEOREM NeverSilenced == Spec => []NotSilenced
<1>1. ThrottleInv => NotSilenced
  BY SilenceFromInv DEF ThrottleInv
<1>2. QED BY <1>1, ThrottleInvAlways, PTL
-----------------------------------------------------------------------------
(***************************************************************************)
(* Sums of bytes.                                                          *)
(***************************************************************************)

HasGreatest(S) == \E x \in S : \A y \in S : y <= x

\* A finite set of naturals has a greatest one: a set without one, as small as
\* possible, would leave another when it loses an element.
LEMMA GreatestElement ==
  ASSUME NEW S \in SUBSET Nat, IsFiniteSet(S), S # {}
  PROVE  HasGreatest(S)
<1> DEFINE Without == {T \in FiniteSubsetsOf(S) : T # {} /\ ~HasGreatest(T)}
<1>1. SUFFICES ASSUME ~HasGreatest(S) PROVE FALSE
  OBVIOUS
<1>2. S \in Without
  BY <1>1 DEF FiniteSubsetsOf
<1>3. IsWellFoundedOn(StrictSubsetOrdering(S), FiniteSubsetsOf(S))
  BY FS_StrictSubsetOrderingWellFounded
<1>4. PICK T \in Without : \A U \in Without : <<U, T>> \notin StrictSubsetOrdering(S)
  <2>1. Without \subseteq FiniteSubsetsOf(S) /\ Without # {}
    BY <1>2
  <2> HIDE DEF Without
  <2>2. \E T \in Without : \A U \in Without : ~ (<<U, T>> \in StrictSubsetOrdering(S))
    BY <1>3, <2>1, WFMin
  <2>3. QED BY <2>2
<1>5. /\ T \in SUBSET S /\ IsFiniteSet(T) /\ ~HasGreatest(T) /\ T # {}
  BY DEF FiniteSubsetsOf
<1>6. PICK x : x \in T
  BY <1>5
<1>7. T \ {x} \in SUBSET S /\ IsFiniteSet(T \ {x}) /\ T \ {x} # T
  BY <1>5, <1>6, FS_RemoveElement
<1>8. T \ {x} \notin Without
  <2>1. <<T \ {x}, T>> \in StrictSubsetOrdering(S)
    BY <1>5, <1>7 DEF StrictSubsetOrdering
  <2>2. QED BY <1>4, <2>1
<1>9. CASE T \ {x} = {}
  BY <1>5, <1>6, <1>9 DEF HasGreatest
<1>10. CASE T \ {x} # {}
  <2>1. HasGreatest(T \ {x})
    BY <1>7, <1>8, <1>10 DEF FiniteSubsetsOf
  <2>2. PICK y \in T \ {x} : \A z \in T \ {x} : z <= y
    BY <2>1 DEF HasGreatest
  <2>3. CASE x <= y
    BY <1>5, <2>2, <2>3 DEF HasGreatest
  <2>4. CASE ~(x <= y)
    BY <1>5, <1>6, <2>2, <2>4 DEF HasGreatest
  <2>5. QED BY <2>3, <2>4
<1>11. QED BY <1>9, <1>10

\* That is its maximum.
LEMMA MaxIsGreatest ==
  ASSUME NEW S \in SUBSET Nat, IsFiniteSet(S), S # {}
  PROVE  Max(S) \in S /\ \A y \in S : y <= Max(S)
<1>1. \E x \in S : \A y \in S : x >= y
  BY GreatestElement DEF HasGreatest
<1>2. QED BY <1>1 DEF Max

\* A sum over the first positions, as the fold of Bytes makes it: the greatest is
\* added to the sum over the others.
Sums(m, n, f) ==
  f = [s \in SUBSET (1..n) |-> IF s = {} THEN 0 ELSE f[s \ {Max(s)}] + m[Max(s)].size]

\* Sets of positions have a last one.
LEMMA LastPosition ==
  ASSUME NEW n \in Nat, NEW s \in SUBSET (1..n), s # {}
  PROVE  Max(s) \in s /\ \A i \in s : i <= Max(s)
<1>1. s \in SUBSET Nat /\ IsFiniteSet(s)
  <2>1. IsFiniteSet(1..n)
    BY FS_Interval
  <2>2. IsFiniteSet(s)
    BY <2>1, FS_Subset
  <2>3. QED BY <2>2
<1>2. QED BY <1>1, MaxIsGreatest

\* There is such a sum: one position more is added to the sums without it.
LEMMA SumsExist ==
  ASSUME NEW m, NEW n \in Nat
  PROVE  \E f : Sums(m, n, f)
<1> DEFINE Without == {l \in Nat : ~ \E f : Sums(m, l, f)}
<1>1. SUFFICES ASSUME n \in Without PROVE FALSE
  OBVIOUS
<1>2. PICK l \in Without : \A k \in Without : l <= k
  <2>1. Without \in SUBSET Nat /\ Without # {}
    BY <1>1
  <2> HIDE DEF Without
  <2>2. QED BY <2>1, LeastElement
<1>3. l \in Nat /\ ~ \E f : Sums(m, l, f)
  OBVIOUS
<1>4. CASE l = 0
  <2>1. SUBSET (1..l) = {{}}
    BY <1>4
  <2>2. Sums(m, l, [s \in SUBSET (1..l) |-> 0])
    BY <2>1 DEF Sums
  <2>3. QED BY <1>3, <2>2
<1>5. CASE l # 0
  <2>1. l - 1 \in Nat /\ l - 1 \notin Without
    BY <1>2, <1>3, <1>5
  <2>2. PICK f : Sums(m, l - 1, f)
    BY <2>1
  <2> DEFINE g == [s \in SUBSET (1..l) |->
                     IF l \in s THEN f[s \ {l}] + m[l].size ELSE f[s]]
             h == [s \in SUBSET (1..l) |->
                     IF s = {} THEN 0 ELSE g[s \ {Max(s)}] + m[Max(s)].size]
  <2>3. \A s \in SUBSET (1..l) : l \notin s => s \in SUBSET (1..(l - 1))
    BY <1>3, <1>5
  <2>4. \A s \in SUBSET (1..(l - 1)) :
          f[s] = IF s = {} THEN 0 ELSE f[s \ {Max(s)}] + m[Max(s)].size
    BY <2>2 DEF Sums
  <2>5. ASSUME NEW s \in SUBSET (1..l) PROVE g[s] = h[s]
    <3>1. CASE s = {}
      <4>1. l \notin s /\ s \in SUBSET (1..(l - 1))
        BY <3>1
      <4>2. f[s] = 0
        BY <2>4, <3>1, <4>1
      <4>3. QED BY <3>1, <4>1, <4>2
    <3>2. CASE l \in s
      <4>1. Max(s) \in s /\ \A i \in s : i <= Max(s)
        BY <1>3, <3>2, LastPosition
      <4>2. Max(s) = l
        <5>1. Max(s) \in 1..l /\ l <= Max(s)
          BY <3>2, <4>1
        <5>2. QED BY <1>3, <5>1
      <4>3. s \ {l} \in SUBSET (1..l) /\ l \notin s \ {l}
        OBVIOUS
      <4>4. g[s \ {l}] = f[s \ {l}]
        BY <4>3
      <4>5. g[s] = f[s \ {l}] + m[l].size
        BY <3>2
      <4>6. h[s] = g[s \ {l}] + m[l].size
        BY <3>2, <4>2
      <4>7. QED BY <4>4, <4>5, <4>6
    <3>3. CASE s # {} /\ l \notin s
      <4>1. s \in SUBSET (1..(l - 1))
        BY <2>3, <3>3
      <4>2. s \ {Max(s)} \in SUBSET (1..l) /\ l \notin s \ {Max(s)}
        BY <3>3
      <4>3. f[s] = f[s \ {Max(s)}] + m[Max(s)].size
        BY <2>4, <3>3, <4>1
      <4>4. g[s] = f[s] /\ g[s \ {Max(s)}] = f[s \ {Max(s)}]
        BY <3>3, <4>2
      <4>5. QED BY <3>3, <4>3, <4>4
    <3>4. QED BY <3>1, <3>2, <3>3
  <2>6. g = h
    <3> HIDE DEF g, h
    <3>1. DOMAIN g = SUBSET (1..l) /\ g = [s \in SUBSET (1..l) |-> g[s]]
      BY DEF g
    <3>2. h = [s \in SUBSET (1..l) |-> h[s]]
      BY DEF h
    <3>3. QED BY <2>5, <3>1, <3>2
  <2>7. Sums(m, l, g)
    BY <2>6 DEF Sums
  <2>8. QED BY <1>3, <2>7
<1>6. QED BY <1>4, <1>5

\* The sums of the first messages, one after the other.
IsTotal(m, total) ==
  /\ total \in [0..Len(m) -> Nat] /\ total[0] = 0
  /\ \A k \in 1..Len(m) : total[k] = total[k - 1] + m[k].size

\* Bytes is the last of them.
LEMMA BytesIsTotal ==
  ASSUME NEW m \in Seq(Messages)
  PROVE  \E total : IsTotal(m, total) /\ Bytes(m) = total[Len(m)]
<1> DEFINE n == Len(m)
<1>1. n \in Nat /\ DOMAIN m = 1..n /\ \A k \in 1..n : m[k] \in Messages
  OBVIOUS
<1>2. \A k \in 1..n : m[k].size \in Nat
  BY <1>1 DEF Messages
<1>3. \E f : Sums(m, n, f)
  BY <1>1, SumsExist
<1> DEFINE f == CHOOSE g : Sums(m, n, g)
<1>4. Sums(m, n, f)
  BY <1>3
<1>5. Bytes(m) = f[1..n]
  BY <1>1 DEF Bytes, FoldLeft, MapThenFoldSet, Sums
<1> HIDE DEF f
<1>6. \A s \in SUBSET (1..n) :
        f[s] = IF s = {} THEN 0 ELSE f[s \ {Max(s)}] + m[Max(s)].size
  BY <1>4 DEF Sums
<1>7. f[1..0] = 0
  <2>1. 1..0 = {}
    OBVIOUS
  <2>2. QED BY <1>6, <2>1
<1>8. ASSUME NEW k \in 1..n PROVE f[1..k] = f[1..(k - 1)] + m[k].size
  <2>1. 1..k \in SUBSET (1..n) /\ 1..k # {} /\ k \in 1..k /\ k \in Nat
    BY <1>1
  <2>2. Max(1..k) \in 1..k /\ \A i \in 1..k : i <= Max(1..k)
    BY <2>1, LastPosition
  <2>3. Max(1..k) = k
    BY <2>1, <2>2
  <2>4. (1..k) \ {k} = 1..(k - 1)
    BY <2>1
  <2>5. QED BY <1>6, <2>1, <2>3, <2>4
<1> DEFINE total == [k \in 0..n |-> f[1..k]]
           Other == {k \in 0..n : f[1..k] \notin Nat}
<1>9. Other = {}
  <2>1. SUFFICES ASSUME Other # {} PROVE FALSE
    OBVIOUS
  <2>2. PICK k \in Other : \A l \in Other : k <= l
    <3>1. Other \in SUBSET Nat
      BY <1>1
    <3> HIDE DEF Other
    <3>2. QED BY <2>1, <3>1, LeastElement
  <2>3. CASE k = 0
    BY <1>7, <2>3
  <2>4. CASE k # 0
    <3>1. k \in 1..n /\ k - 1 \in 0..n /\ ~(k <= k - 1)
      BY <1>1, <2>4
    <3>2. f[1..(k - 1)] \in Nat
      BY <2>2, <3>1
    <3>3. f[1..k] \in Nat
      BY <1>2, <1>8, <3>1, <3>2
    <3>4. QED BY <3>3
  <2>5. QED BY <2>3, <2>4
<1>10. IsTotal(m, total)
  <2>1. total \in [0..n -> Nat]
    BY <1>9
  <2>2. total[0] = 0
    BY <1>1, <1>7
  <2>3. ASSUME NEW k \in 1..n PROVE total[k] = total[k - 1] + m[k].size
    <3>1. k \in 0..n /\ k - 1 \in 0..n
      BY <1>1
    <3>2. QED BY <1>8, <3>1
  <2>4. QED BY <2>1, <2>2, <2>3 DEF IsTotal
<1>11. total[n] = Bytes(m)
  BY <1>1, <1>5
<1>12. QED BY <1>10, <1>11

\* The sums of a part are differences of the sums of the whole.
LEMMA PartOfTotal ==
  ASSUME NEW m \in Seq(Messages), NEW total, IsTotal(m, total),
         NEW part \in Seq(Messages), NEW o \in Nat, o + Len(part) <= Len(m),
         \A k \in 1..Len(part) : part[k].size = m[o + k].size
  PROVE  Bytes(part) = total[o + Len(part)] - total[o]
<1> DEFINE n == Len(part)
<1>1. PICK own : IsTotal(part, own) /\ Bytes(part) = own[n]
  BY BytesIsTotal
<1>2. n \in Nat /\ Len(m) \in Nat
  OBVIOUS
<1>3. \A k \in 0..n : own[k] \in Nat
  BY <1>1 DEF IsTotal
<1>4. \A k \in 0..n : total[o + k] \in Nat
  <2>1. \A k \in 0..n : o + k \in 0..Len(m)
    BY <1>2
  <2>2. QED BY <2>1 DEF IsTotal
<1> DEFINE Other == {k \in 0..n : own[k] # total[o + k] - total[o]}
<1>5. Other = {}
  <2>1. SUFFICES ASSUME Other # {} PROVE FALSE
    OBVIOUS
  <2>2. PICK k \in Other : \A l \in Other : k <= l
    <3>1. Other \in SUBSET Nat
      BY <1>2
    <3> HIDE DEF Other
    <3>2. QED BY <2>1, <3>1, LeastElement
  <2>3. CASE k = 0
    <3>1. own[0] = 0 /\ total[o + 0] - total[o] = 0
      <4>1. 0 \in 0..n /\ o + 0 = o
        BY <1>2
      <4>2. total[o] \in Nat
        BY <1>4, <4>1
      <4>3. QED BY <1>1, <4>1, <4>2 DEF IsTotal
    <3>2. QED BY <2>3, <3>1
  <2>4. CASE k # 0
    <3>1. k \in 1..n /\ k - 1 \in 0..n /\ ~(k <= k - 1) /\ k \in 0..n /\ 0 \in 0..n
      BY <1>2, <2>4
    <3>2. own[k - 1] = total[o + (k - 1)] - total[o]
      BY <2>2, <3>1
    <3>3. own[k] = own[k - 1] + part[k].size
      BY <1>1, <3>1 DEF IsTotal
    <3>4. total[o + k] = total[(o + k) - 1] + m[o + k].size
      <4>1. o + k \in 1..Len(m)
        BY <1>2, <3>1
      <4>2. QED BY <4>1 DEF IsTotal
    <3>5. (o + k) - 1 = o + (k - 1)
      BY <1>2, <3>1
    <3>6. part[k].size = m[o + k].size /\ part[k].size \in Nat
      <4>1. part[k] \in Messages
        BY <3>1
      <4>2. QED BY <3>1, <4>1 DEF Messages
    <3>7. total[o + (k - 1)] \in Nat /\ total[o + 0] \in Nat /\ total[o + 0] = total[o]
      <4>1. o + 0 = o
        OBVIOUS
      <4>2. QED BY <1>4, <3>1, <4>1
    <3>8. own[k] = total[o + k] - total[o]
      BY <3>2, <3>3, <3>4, <3>5, <3>6, <3>7
    <3>9. QED BY <3>8
  <2>5. QED BY <2>3, <2>4
<1>6. n \in 0..n
  BY <1>2
<1>7. QED BY <1>1, <1>5, <1>6

\* A part of a sequence, and its bytes.
LEMMA PartBytes ==
  ASSUME NEW m \in Seq(Messages), NEW i \in 1..(Len(m) + 1), NEW j \in (i - 1)..Len(m)
  PROVE  /\ SubSeq(m, i, j) \in Seq(Messages)
         /\ Len(SubSeq(m, i, j)) = j - i + 1
         /\ \A k \in 1..(j - i + 1) : SubSeq(m, i, j)[k] = m[(i - 1) + k]
         /\ \A total : IsTotal(m, total) => Bytes(SubSeq(m, i, j)) = total[j] - total[i - 1]
<1>1. /\ Len(m) \in Nat /\ i \in Int /\ j \in Int /\ i - 1 \in Nat
      /\ \A k \in i..j : k \in 1..Len(m) /\ m[k] \in Messages
  OBVIOUS
<1>2. /\ SubSeq(m, i, j) \in Seq(Messages)
      /\ Len(SubSeq(m, i, j)) = IF i <= j THEN j - i + 1 ELSE 0
      /\ \A k \in 1..(j - i + 1) : SubSeq(m, i, j)[k] = m[i + k - 1]
  BY <1>1, SubSeqProperties
<1>3. Len(SubSeq(m, i, j)) = j - i + 1
  BY <1>1, <1>2
<1>4. \A k \in 1..(j - i + 1) : i + k - 1 = (i - 1) + k
  BY <1>1
<1>5. ASSUME NEW total, IsTotal(m, total)
      PROVE  Bytes(SubSeq(m, i, j)) = total[j] - total[i - 1]
  <2> DEFINE part == SubSeq(m, i, j)
  <2>1. /\ part \in Seq(Messages) /\ Len(part) = j - i + 1
        /\ \A k \in 1..(j - i + 1) : part[k] = m[(i - 1) + k]
    BY <1>2, <1>3, <1>4
  <2> HIDE DEF part
  <2>2. (i - 1) + Len(part) = j /\ (i - 1) + Len(part) <= Len(m)
    BY <1>1, <2>1
  <2>3. \A k \in 1..Len(part) : part[k].size = m[(i - 1) + k].size
    BY <2>1
  <2>4. Bytes(part) = total[(i - 1) + Len(part)] - total[i - 1]
    BY <1>1, <1>5, <2>1, <2>2, <2>3, PartOfTotal
  <2>5. QED BY <2>2, <2>4 DEF part
<1>6. QED BY <1>2, <1>3, <1>4, <1>5

\* Bytes are naturals.
LEMMA BytesType ==
  ASSUME NEW m \in Seq(Messages)
  PROVE  Bytes(m) \in Nat
<1>1. PICK total : IsTotal(m, total) /\ Bytes(m) = total[Len(m)]
  BY BytesIsTotal
<1>2. Len(m) \in 0..Len(m)
  OBVIOUS
<1>3. QED BY <1>1, <1>2 DEF IsTotal

\* The bytes from one message on are those up to another and those from there on.
LEMMA BytesSplit ==
  ASSUME NEW m \in Seq(Messages), NEW i \in 1..Len(m), NEW k \in i..(Len(m) + 1)
  PROVE  Bytes(SubSeq(m, i, Len(m)))
           = Bytes(SubSeq(m, i, k - 1)) + Bytes(SubSeq(m, k, Len(m)))
<1>1. PICK total : IsTotal(m, total) /\ Bytes(m) = total[Len(m)]
  BY BytesIsTotal
<1>2. /\ Len(m) \in Nat /\ i \in 1..(Len(m) + 1) /\ k \in 1..(Len(m) + 1)
      /\ Len(m) \in (i - 1)..Len(m) /\ k - 1 \in (i - 1)..Len(m) /\ Len(m) \in (k - 1)..Len(m)
      /\ i - 1 \in 0..Len(m) /\ k - 1 \in 0..Len(m) /\ Len(m) \in 0..Len(m)
  OBVIOUS
<1>3. /\ Bytes(SubSeq(m, i, Len(m))) = total[Len(m)] - total[i - 1]
      /\ Bytes(SubSeq(m, i, k - 1)) = total[k - 1] - total[i - 1]
      /\ Bytes(SubSeq(m, k, Len(m))) = total[Len(m)] - total[k - 1]
  BY <1>1, <1>2, PartBytes
<1>4. total[Len(m)] \in Nat /\ total[i - 1] \in Nat /\ total[k - 1] \in Nat
  BY <1>1, <1>2 DEF IsTotal
<1>5. QED BY <1>3, <1>4

\* Messages of the same sizes have the same bytes.
LEMMA BytesSame ==
  ASSUME NEW m \in Seq(Messages), NEW other \in Seq(Messages), Len(other) = Len(m),
         \A k \in 1..Len(m) : other[k].size = m[k].size
  PROVE  Bytes(other) = Bytes(m)
<1>1. PICK total : IsTotal(m, total) /\ Bytes(m) = total[Len(m)]
  BY BytesIsTotal
<1>2. 0 \in Nat /\ 0 + Len(other) = Len(m) /\ Len(m) \in Nat
  OBVIOUS
<1>3. \A k \in 1..Len(other) : other[k].size = m[0 + k].size
  OBVIOUS
<1>4. Bytes(other) = total[0 + Len(other)] - total[0]
  BY <1>1, <1>2, <1>3, PartOfTotal
<1>5. total[0] = 0 /\ total[Len(m)] \in Nat
  BY <1>1, <1>2 DEF IsTotal
<1>6. QED BY <1>1, <1>2, <1>4, <1>5
-----------------------------------------------------------------------------
(***************************************************************************)
(* The bytes of a window.                                                  *)
(***************************************************************************)

\* A message of the last window, the bytes recorded since it, and that it and all after
\* it are in the deque, as far from the clock as they are from now.
Recent(i) == passed[i].at >= elapsed - window
Since(i) == Bytes(SubSeq(passed, i, Len(passed)))
Matched(i) ==
  \A j \in i..Len(passed) :
    /\ j + Len(sent) - Len(passed) \in 1..Len(sent)
    /\ sent[j + Len(sent) - Len(passed)]
         = [at |-> passed[j].at + (clock - elapsed), size |-> passed[j].size]

\* k is the first message since the clock was last set: before it each time the clock
\* was set has cost a budget, and from it on the deque has what counts.
BandFrom(k) ==
  /\ \A i \in 1..(k - 1) : Recent(i) => Bytes(SubSeq(passed, i, k - 1)) <= jumps * Budget
  /\ \A i \in k..Len(passed) : Recent(i) => Matched(i) /\ Since(i) <= Budget

BandInv == kind = "bytes" => \E k \in 1..(Len(passed) + 1) : BandFrom(k)

\* A budget has room for a message behind less than the limit.
LEMMA BudgetFacts ==
  ASSUME ClockTypes
  PROVE  /\ Budget \in Nat /\ limit \in Nat \ {0}
         /\ \A size \in Sizes : size \in Nat /\ limit - 1 + size <= Budget
         /\ \A n \in Nat : /\ n * Budget \in Nat /\ (n + 1) * Budget = n * Budget + Budget
<1>1. Max(Sizes) \in Sizes /\ \A size \in Sizes : size <= Max(Sizes)
  BY SizesAssumption, MaxIsGreatest
<1>2. /\ limit \in Nat \ {0} /\ allowed \in Nat \ {0} /\ limit <= allowed
      /\ Sizes \subseteq Nat
  BY SizesAssumption DEF ClockTypes
<1> DEFINE most == Max(Sizes)
<1>3. most \in Nat /\ Budget = allowed - 1 + most
  BY <1>1, <1>2 DEF Budget
<1>4. \A size \in Sizes : size \in Nat /\ size <= most
  BY <1>1, <1>2
<1> HIDE DEF most
<1>5. Budget \in Nat /\ \A size \in Sizes : size \in Nat /\ limit - 1 + size <= Budget
  BY <1>2, <1>3, <1>4
<1>6. \A n \in Nat : n * Budget \in Nat /\ (n + 1) * Budget = n * Budget + Budget
  BY <1>5
<1>7. QED BY <1>2, <1>5, <1>6

\* What the window begins with.
LEMMA WindowBegins ==
  ASSUME sent \in Seq(Messages), NEW x \in 1..Len(sent), sent[x].at >= clock - window
  PROVE  \E first \in 1..x : InWindow = SubSeq(sent, first, Len(sent))
<1> DEFINE recent == {i \in 1..Len(sent) : sent[i].at >= clock - window}
<1>1. x \in recent /\ recent \in SUBSET Nat /\ Len(sent) \in Nat
  OBVIOUS
<1>2. \E i \in recent : \A l \in recent : i <= l
  BY <1>1, LeastElement
<1>3. Min(recent) \in recent /\ \A l \in recent : Min(recent) <= l
  <2> HIDE DEF recent
  <2>1. QED BY <1>2 DEF Min
<1>4. Min(recent) \in 1..x
  <2>1. Min(recent) \in 1..Len(sent) /\ Min(recent) <= x
    BY <1>1, <1>3
  <2>2. QED BY <2>1
<1>5. InWindow = SubSeq(sent, Min(recent), Len(sent))
  <2>1. recent # {}
    BY <1>1
  <2>2. QED BY <2>1 DEF InWindow
<1>6. QED BY <1>4, <1>5

\* The window keeps what was recorded in it, and counts it.
LEMMA WindowKeeps ==
  ASSUME ClockTypes, StateTypes, PassedInv,
         NEW i \in 1..Len(passed), Recent(i), Matched(i)
  PROVE  /\ InWindow \in Seq(Messages)
         /\ \A j \in i..Len(passed) :
              /\ j + Len(InWindow) - Len(passed) \in 1..Len(InWindow)
              /\ InWindow[j + Len(InWindow) - Len(passed)]
                   = sent[j + Len(sent) - Len(passed)]
         /\ Since(i) <= Bytes(InWindow)
<1> DEFINE n == Len(passed)
           l == Len(sent)
           x == i + l - n
<1>1. /\ n \in Nat /\ l \in Nat /\ i \in 1..n /\ sent \in Seq(Messages)
      /\ passed \in Seq(Messages) /\ clock \in Int /\ elapsed \in Int /\ window \in Nat
      /\ n \in i..n /\ i \in i..n
  BY DEF StateTypes, PassedInv, ClockTypes
<1>2. /\ x \in 1..l
      /\ sent[x] = [at |-> passed[i].at + (clock - elapsed), size |-> passed[i].size]
  BY <1>1 DEF Matched
<1>3. passed[i].at \in Int
  <2>1. passed[i] \in Messages
    BY <1>1
  <2>2. QED BY <2>1 DEF Messages
<1>4. sent[x].at >= clock - window
  <2>1. sent[x].at = passed[i].at + (clock - elapsed)
    BY <1>2
  <2>2. passed[i].at >= elapsed - window
    BY DEF Recent
  <2>3. QED BY <1>1, <1>3, <2>1, <2>2
<1>5. PICK first \in 1..x : InWindow = SubSeq(sent, first, l)
  BY <1>1, <1>2, <1>4, WindowBegins
<1>6. first \in 1..(l + 1) /\ l \in (first - 1)..l /\ first \in 1..l /\ x \in first..(l + 1)
  BY <1>1, <1>2
<1>7. /\ InWindow \in Seq(Messages) /\ Len(InWindow) = l - first + 1
      /\ \A k \in 1..(l - first + 1) : InWindow[k] = sent[(first - 1) + k]
  BY <1>1, <1>5, <1>6, PartBytes
<1>8. ASSUME NEW j \in i..n
      PROVE  /\ j + Len(InWindow) - n \in 1..Len(InWindow)
             /\ InWindow[j + Len(InWindow) - n] = sent[j + l - n]
  <2> DEFINE k == j + Len(InWindow) - n
  <2>1. k = j + (l - first + 1) - n /\ k \in 1..(l - first + 1) /\ (first - 1) + k = j + l - n
    BY <1>1, <1>2, <1>6, <1>7
  <2>2. QED BY <1>7, <2>1
<1>9. Since(i) = Bytes(SubSeq(sent, x, l))
  <2> DEFINE own == SubSeq(passed, i, n)
             part == SubSeq(sent, x, l)
  <2>1. i \in 1..(n + 1) /\ n \in (i - 1)..n /\ x \in 1..(l + 1) /\ l \in (x - 1)..l
    BY <1>1, <1>2
  <2>2. /\ own \in Seq(Messages) /\ Len(own) = n - i + 1
        /\ \A k \in 1..(n - i + 1) : own[k] = passed[(i - 1) + k]
    BY <1>1, <2>1, PartBytes
  <2>3. /\ part \in Seq(Messages) /\ Len(part) = l - x + 1
        /\ \A k \in 1..(l - x + 1) : part[k] = sent[(x - 1) + k]
    BY <1>1, <2>1, PartBytes
  <2> HIDE DEF own, part
  <2>4. l - x + 1 = n - i + 1
    BY <1>1
  <2>5. ASSUME NEW k \in 1..(n - i + 1) PROVE own[k].size = part[k].size
    <3>1. (i - 1) + k \in i..n /\ (x - 1) + k = ((i - 1) + k) + l - n
      BY <1>1
    <3>2. sent[((i - 1) + k) + l - n].size = passed[(i - 1) + k].size
      <4> DEFINE j == (i - 1) + k
      <4>1. j \in i..n
        BY <3>1
      <4> HIDE DEF j
      <4>2. sent[j + l - n] = [at |-> passed[j].at + (clock - elapsed), size |-> passed[j].size]
        BY <4>1 DEF Matched
      <4>3. sent[j + l - n].size = passed[j].size
        BY <4>2
      <4>4. QED BY <4>3 DEF j
    <3>3. part[k] = sent[(x - 1) + k] /\ own[k] = passed[(i - 1) + k]
      BY <2>2, <2>3, <2>4
    <3>4. QED BY <3>1, <3>2, <3>3
  <2>6. Bytes(own) = Bytes(part)
    BY <2>2, <2>3, <2>4, <2>5, BytesSame
  <2>7. QED BY <2>6 DEF Since, own, part
<1>10. Bytes(InWindow) = Bytes(SubSeq(sent, first, x - 1)) + Bytes(SubSeq(sent, x, l))
  BY <1>1, <1>5, <1>6, BytesSplit
<1>11. /\ Bytes(SubSeq(sent, first, x - 1)) \in Nat /\ Bytes(SubSeq(sent, x, l)) \in Nat
  <2>1. x - 1 \in (first - 1)..l /\ x \in 1..(l + 1) /\ l \in (x - 1)..l
    BY <1>1, <1>2, <1>6
  <2>2. SubSeq(sent, first, x - 1) \in Seq(Messages) /\ SubSeq(sent, x, l) \in Seq(Messages)
    BY <1>1, <1>6, <2>1, PartBytes
  <2>3. QED BY <2>2, BytesType
<1>12. Since(i) <= Bytes(InWindow)
  BY <1>9, <1>10, <1>11
<1>13. QED BY <1>7, <1>8, <1>12

\* What was recorded before a message more keeps its bytes.
LEMMA BytesStay ==
  ASSUME passed \in Seq(Messages), passed' \in Seq(Messages),
         Len(passed') = Len(passed) + 1,
         \A j \in 1..Len(passed) : passed'[j] = passed[j],
         NEW i \in 1..(Len(passed) + 1), NEW j \in (i - 1)..Len(passed)
  PROVE  Bytes(SubSeq(passed', i, j)) = Bytes(SubSeq(passed, i, j))
<1> DEFINE new == SubSeq(passed', i, j)
           old == SubSeq(passed, i, j)
<1>1. Len(passed) \in Nat /\ i \in 1..(Len(passed') + 1) /\ j \in (i - 1)..Len(passed')
  OBVIOUS
<1>2. /\ new \in Seq(Messages) /\ Len(new) = j - i + 1
      /\ \A k \in 1..(j - i + 1) : new[k] = passed'[(i - 1) + k]
  BY <1>1, PartBytes
<1>3. /\ old \in Seq(Messages) /\ Len(old) = j - i + 1
      /\ \A k \in 1..(j - i + 1) : old[k] = passed[(i - 1) + k]
  BY <1>1, PartBytes
<1>4. \A k \in 1..(j - i + 1) : (i - 1) + k \in 1..Len(passed)
  BY <1>1
<1> HIDE DEF new, old
<1>5. \A k \in 1..(j - i + 1) : new[k].size = old[k].size
  BY <1>2, <1>3, <1>4
<1>6. Bytes(new) = Bytes(old)
  BY <1>2, <1>3, <1>5, BytesSame
<1>7. QED BY <1>6 DEF new, old

\* No message after the last has no bytes.
LEMMA NoMoreBytes ==
  ASSUME NEW m \in Seq(Messages)
  PROVE  Bytes(SubSeq(m, Len(m) + 1, Len(m))) = 0
<1>1. PICK total : IsTotal(m, total)
  BY BytesIsTotal
<1>2. /\ Len(m) \in Nat /\ Len(m) + 1 \in 1..(Len(m) + 1) /\ Len(m) \in ((Len(m) + 1) - 1)..Len(m)
      /\ (Len(m) + 1) - 1 = Len(m) /\ Len(m) \in 0..Len(m)
  OBVIOUS
<1>3. Bytes(SubSeq(m, Len(m) + 1, Len(m))) = total[Len(m)] - total[(Len(m) + 1) - 1]
  BY <1>1, <1>2, PartBytes
<1>4. total[Len(m)] \in Nat
  BY <1>1, <1>2 DEF IsTotal
<1>5. QED BY <1>2, <1>3, <1>4

\* The last message alone has its own size.
LEMMA LastBytes ==
  ASSUME NEW m \in Seq(Messages), NEW n \in Nat, Len(m) = n + 1,
         NEW new \in Messages, m[n + 1] = new
  PROVE  Bytes(SubSeq(m, n + 1, n + 1)) = new.size
<1>1. PICK total : IsTotal(m, total)
  BY BytesIsTotal
<1>2. /\ n + 1 \in 1..(Len(m) + 1) /\ n + 1 \in ((n + 1) - 1)..Len(m)
      /\ n + 1 \in 1..Len(m) /\ n \in 0..Len(m) /\ (n + 1) - 1 = n /\ n + 1 \in 0..Len(m)
  OBVIOUS
<1>3. Bytes(SubSeq(m, n + 1, n + 1)) = total[n + 1] - total[(n + 1) - 1]
  BY <1>1, <1>2, PartBytes
<1>4. total[n + 1] = total[(n + 1) - 1] + new.size
  BY <1>1, <1>2 DEF IsTotal
<1>5. total[n] \in Nat /\ new.size \in Nat
  BY <1>1, <1>2 DEF IsTotal, Messages
<1>6. QED BY <1>2, <1>3, <1>4, <1>5

\* The bytes recorded since a message of the last window stay in as many budgets as
\* the clock was set, and one.
LEMMA BandwidthFromInv ==
  ASSUME ClockTypes, PassedInv, NEW k \in 1..(Len(passed) + 1), BandFrom(k),
         NEW i \in 1..Len(passed), Recent(i)
  PROVE  Since(i) <= (jumps + 1) * Budget
<1> DEFINE n == Len(passed)
           all == jumps * Budget
<1>1. /\ n \in Nat /\ i \in 1..n /\ k \in 1..(n + 1) /\ passed \in Seq(Messages)
      /\ jumps \in Nat
  BY ClockAssumption DEF PassedInv, ClockTypes
<1>2. all \in Nat /\ Budget \in Nat /\ (jumps + 1) * Budget = all + Budget
  BY <1>1, BudgetFacts
<1>3. CASE i >= k
  <2>1. i \in k..n
    BY <1>1, <1>3
  <2>2. Since(i) <= Budget
    BY <2>1 DEF BandFrom
  <2>3. Since(i) \in Nat
    <3>1. i \in 1..(n + 1) /\ n \in (i - 1)..n
      BY <1>1
    <3>2. SubSeq(passed, i, n) \in Seq(Messages)
      BY <1>1, <3>1, PartBytes
    <3>3. QED BY <3>2, BytesType DEF Since
  <2> HIDE DEF all
  <2>4. QED BY <1>2, <2>2, <2>3
<1>4. CASE i < k
  <2>1. i \in 1..(k - 1) /\ k \in i..(n + 1)
    BY <1>1, <1>4
  <2> DEFINE before == Bytes(SubSeq(passed, i, k - 1))
             after == Bytes(SubSeq(passed, k, n))
  <2>2. Since(i) = before + after
    BY <1>1, <2>1, BytesSplit DEF Since
  <2>3. before <= all
    BY <2>1 DEF BandFrom
  <2>4. before \in Nat
    <3>1. i \in 1..(n + 1) /\ k - 1 \in (i - 1)..n
      BY <1>1, <2>1
    <3>2. SubSeq(passed, i, k - 1) \in Seq(Messages)
      BY <1>1, <3>1, PartBytes
    <3>3. QED BY <3>2, BytesType
  <2>5. after \in Nat /\ after <= Budget
    <3>1. CASE k = n + 1
      <4>1. after = 0
        BY <1>1, <3>1, NoMoreBytes
      <4>2. QED BY <1>2, <4>1
    <3>2. CASE k \in 1..n
      <4>1. passed[i].at <= passed[k].at
        BY <1>1, <1>4, <3>2 DEF PassedInv
      <4>2. passed[i].at \in Int /\ passed[k].at \in Int
        <5>1. passed[i] \in Messages /\ passed[k] \in Messages
          BY <1>1, <3>2
        <5>2. QED BY <5>1 DEF Messages
      <4>3. elapsed \in Int /\ window \in Int /\ elapsed - window \in Int
        BY DEF ClockTypes
      <4>4. Recent(k)
        BY <4>1, <4>2, <4>3 DEF Recent
      <4>5. k \in k..n /\ k \in 1..(n + 1) /\ n \in (k - 1)..n
        BY <1>1, <3>2
      <4>6. after <= Budget
        BY <4>4, <4>5 DEF BandFrom, Since
      <4>7. SubSeq(passed, k, n) \in Seq(Messages)
        BY <1>1, <4>5, PartBytes
      <4>8. QED BY <4>6, <4>7, BytesType
    <3>3. QED BY <1>1, <3>1, <3>2
  <2> HIDE DEF before, after, all
  <2>6. QED BY <1>2, <2>2, <2>3, <2>4, <2>5
<1>5. QED BY <1>1, <1>3, <1>4

\* A recorded message keeps it: the window had room for one.
LEMMA BandPassed ==
  ASSUME ClockTypes, StateTypes, PassedInv, BandInv, NEW size \in Sizes, Record(size),
         kind = "bytes", BudgetLeft, UNCHANGED <<kind, window, allowed, clock, elapsed, jumps>>,
         sent' = Append(InWindow, [at |-> clock, size |-> size])
  PROVE  BandInv'
<1> DEFINE new == [at |-> elapsed, size |-> size]
           noted == [at |-> clock, size |-> size]
<1>1. PICK n \in Nat : n = Len(passed)
  BY DEF PassedInv
<1>2. PICK k \in 1..(n + 1) : BandFrom(k)
  BY <1>1 DEF BandInv
<1>3. /\ n = Len(passed) /\ n \in Nat /\ passed \in Seq(Messages) /\ sent \in Seq(Messages)
      /\ elapsed \in Int /\ clock \in Int /\ k \in Int /\ size \in Nat
  BY <1>1, BudgetFacts DEF PassedInv, StateTypes, ClockTypes
<1>b. Budget \in Nat /\ limit \in Nat \ {0} /\ limit - 1 + size <= Budget
  BY BudgetFacts
<1>4. passed' = Append(passed, new) /\ new \in Messages /\ noted \in Messages
  BY <1>3 DEF Record, Messages
<1>5. /\ passed' \in Seq(Messages) /\ Len(passed') = n + 1
      /\ \A j \in 1..n : passed'[j] = passed[j]
      /\ passed'[n + 1] = new
  BY <1>3, <1>4, AppendProperties
<1>6. InWindow \in Seq(Messages)
  BY <1>3, InWindowIsSent
<1>7. PICK w \in Nat : w = Len(InWindow)
  BY <1>6
<1>8. /\ w = Len(InWindow) /\ w \in Nat /\ sent' \in Seq(Messages) /\ Len(sent') = w + 1
      /\ \A j \in 1..w : sent'[j] = InWindow[j]
      /\ sent'[w + 1] = noted
  BY <1>4, <1>6, <1>7, AppendProperties
<1>9. clock' = clock /\ elapsed' = elapsed /\ jumps' = jumps /\ kind' = kind
  OBVIOUS
<1>10. Budget' = Budget
  BY DEF Budget
<1>11. \A i \in 1..n : Recent(i)' <=> Recent(i)
  BY <1>3, <1>5, <1>9 DEF Recent
<1>12. ASSUME NEW i \in 1..(k - 1), Recent(i)'
       PROVE  Bytes(SubSeq(passed', i, k - 1)) <= jumps * Budget
  <2>1. i \in 1..n /\ i \in 1..(n + 1) /\ k - 1 \in (i - 1)..n
    BY <1>2, <1>3
  <2>2. Bytes(SubSeq(passed, i, k - 1)) <= jumps * Budget
    BY <1>2, <1>11, <1>12, <2>1 DEF BandFrom
  <2>3. Bytes(SubSeq(passed', i, k - 1)) = Bytes(SubSeq(passed, i, k - 1))
    BY <1>3, <1>5, <2>1, BytesStay
  <2>4. QED BY <2>2, <2>3
<1>13. /\ (n + 1) + (w + 1) - (n + 1) = w + 1 /\ w + 1 \in 1..(w + 1)
       /\ noted = [at |-> passed'[n + 1].at + (clock - elapsed), size |-> passed'[n + 1].size]
  <2>1. elapsed + (clock - elapsed) = clock
    BY <1>3
  <2>2. passed'[n + 1].at = elapsed /\ passed'[n + 1].size = size
    BY <1>5
  <2>3. QED BY <1>3, <1>8, <2>1, <2>2
<1>14. ASSUME NEW i \in k..n, Recent(i)'
       PROVE  Matched(i)' /\ Since(i)' <= Budget
  <2>1. i \in 1..n /\ i \in Int /\ i \in 1..(n + 1) /\ n \in (i - 1)..n
    BY <1>2, <1>3
  <2>2. Recent(i) /\ Matched(i) /\ Since(i) <= Budget
    <3>1. Recent(i)
      BY <1>11, <1>14, <2>1
    <3>2. i \in k..Len(passed)
      BY <1>3
    <3>3. QED BY <1>2, <3>1, <3>2 DEF BandFrom
  <2>3. /\ \A j \in i..n : /\ j + w - n \in 1..w
                           /\ InWindow[j + w - n] = sent[j + Len(sent) - n]
        /\ Since(i) <= Bytes(InWindow)
    BY <1>3, <1>8, <2>1, <2>2, WindowKeeps
  <2>4. ASSUME NEW j \in i..(n + 1)
        PROVE  /\ j + (w + 1) - (n + 1) \in 1..(w + 1)
               /\ sent'[j + (w + 1) - (n + 1)]
                    = [at |-> passed'[j].at + (clock - elapsed), size |-> passed'[j].size]
    <3>1. CASE j = n + 1
      BY <1>8, <1>13, <3>1
    <3>2. CASE j \in i..n
      <4>1. j + (w + 1) - (n + 1) = j + w - n /\ j \in 1..n
        BY <1>3, <1>8, <2>1, <3>2
      <4>2. j + w - n \in 1..w /\ InWindow[j + w - n] = sent[j + Len(sent) - n]
        BY <2>3, <3>2
      <4>3. sent[j + Len(sent) - n]
              = [at |-> passed[j].at + (clock - elapsed), size |-> passed[j].size]
        BY <1>3, <2>2, <3>2 DEF Matched
      <4>4. passed'[j] = passed[j] /\ sent'[j + w - n] = InWindow[j + w - n]
        BY <1>5, <1>8, <4>1, <4>2
      <4>5. j + w - n \in 1..(w + 1)
        BY <1>8, <4>2
      <4>6. sent'[j + w - n]
              = [at |-> passed'[j].at + (clock - elapsed), size |-> passed'[j].size]
        BY <4>2, <4>3, <4>4
      <4>7. QED
        <5> DEFINE at == j + w - n
        <5> HIDE DEF at
        <5>1. j + (w + 1) - (n + 1) = at
          BY <4>1 DEF at
        <5>2. /\ at \in 1..(w + 1)
              /\ sent'[at]
                   = [at |-> passed'[j].at + (clock - elapsed), size |-> passed'[j].size]
          BY <4>5, <4>6 DEF at
        <5>3. QED BY <5>1, <5>2
    <3>3. j = n + 1 \/ j \in i..n
      <4>1. i \in Int /\ n \in Int /\ j \in i..(n + 1)
        BY <1>3, <2>1
      <4>2. QED BY <4>1
    <3>4. QED BY <3>1, <3>2, <3>3
  <2>5. Matched(i)'
    BY <1>5, <1>8, <1>9, <2>4 DEF Matched
  <2>6. Since(i)' = Since(i) + size
    <3> DEFINE part == SubSeq(passed, i, n)
               whole == SubSeq(passed', i, n + 1)
               last == SubSeq(passed', n + 1, n + 1)
    <3>1. i \in 1..(n + 1) /\ n + 1 \in i..((n + 1) + 1) /\ (n + 1) - 1 = n
      BY <1>3, <2>1
    <3>2. Bytes(whole) = Bytes(SubSeq(passed', i, (n + 1) - 1)) + Bytes(last)
      BY <1>5, <3>1, BytesSplit
    <3>3. Bytes(SubSeq(passed', i, n)) = Bytes(part)
      BY <1>3, <1>5, <2>1, BytesStay
    <3>4. Bytes(last) = new.size
      BY <1>3, <1>4, <1>5, LastBytes
    <3>5. Since(i) = Bytes(part) /\ Since(i)' = Bytes(whole)
      BY <1>3, <1>5 DEF Since
    <3>6. QED BY <3>1, <3>2, <3>3, <3>4, <3>5
  <2>7. Bytes(InWindow) < limit /\ Bytes(InWindow) \in Nat
    BY <1>6, BytesType DEF BudgetLeft
  <2>8. Since(i) \in Nat
    <3>1. SubSeq(passed, i, n) \in Seq(Messages)
      BY <1>3, <2>1, PartBytes
    <3>2. Bytes(SubSeq(passed, i, n)) \in Nat
      BY <3>1, BytesType
    <3>3. QED BY <1>3, <3>2 DEF Since
  <2>9. Since(i) <= limit - 1
    BY <2>3, <2>7, <2>8, BudgetFacts
  <2>10. Since(i) + size <= Budget
    BY <1>3, <1>b, <2>8, <2>9
  <2>11. QED BY <2>5, <2>6, <2>10
<1>15. Matched(n + 1)' /\ Since(n + 1)' <= Budget
  <2>1. \A j \in (n + 1)..(n + 1) : j = n + 1
    BY <1>3
  <2>2. Matched(n + 1)'
    BY <1>5, <1>8, <1>9, <1>13, <2>1 DEF Matched
  <2>3. Since(n + 1)' = new.size
    <3>1. Since(n + 1)' = Bytes(SubSeq(passed', n + 1, n + 1))
      BY <1>5 DEF Since
    <3>2. Bytes(SubSeq(passed', n + 1, n + 1)) = new.size
      BY <1>3, <1>4, <1>5, LastBytes
    <3>3. QED BY <3>1, <3>2
  <2>4. size <= Budget
    BY <1>3, <1>b
  <2>5. QED BY <2>2, <2>3, <2>4
<1>16. ASSUME NEW i \in k..(n + 1), Recent(i)'
       PROVE  Matched(i)' /\ Since(i)' <= Budget
  <2>1. i \in k..n \/ i = n + 1
    BY <1>3
  <2>2. QED BY <1>14, <1>15, <1>16, <2>1
<1>17. BandFrom(k)'
  BY <1>5, <1>9, <1>10, <1>12, <1>16 DEF BandFrom
<1>18. k \in 1..(Len(passed') + 1)
  BY <1>3, <1>5
<1>19. QED BY <1>17, <1>18 DEF BandInv

\* A dropped one leaves in the deque what is in the window.
LEMMA BandDropped ==
  ASSUME ClockTypes, StateTypes, PassedInv, BandInv,
         sent' = InWindow, UNCHANGED <<kind, window, allowed, passed, clock, elapsed, jumps>>
  PROVE  BandInv'
<1> SUFFICES ASSUME kind' = "bytes"
             PROVE  \E k \in 1..(Len(passed') + 1) : BandFrom(k)'
  BY DEF BandInv
<1>1. PICK k \in 1..(Len(passed) + 1) : BandFrom(k)
  BY DEF BandInv
<1>2. \A i : (Recent(i)' <=> Recent(i)) /\ Since(i)' = Since(i)
  BY DEF Recent, Since
<1>3. ASSUME NEW i \in k..Len(passed), Recent(i) PROVE Matched(i)'
  <2>1. i \in 1..Len(passed) /\ Matched(i)
    BY <1>1, <1>3 DEF BandFrom
  <2>2. \A j \in i..Len(passed) :
          /\ j + Len(InWindow) - Len(passed) \in 1..Len(InWindow)
          /\ InWindow[j + Len(InWindow) - Len(passed)] = sent[j + Len(sent) - Len(passed)]
    BY <1>3, <2>1, WindowKeeps
  <2>3. QED BY <2>1, <2>2 DEF Matched
<1>4. Budget' = Budget
  BY DEF Budget
<1>5. BandFrom(k)'
  BY <1>1, <1>2, <1>3, <1>4 DEF BandFrom
<1>6. QED BY <1>1, <1>5

\* When time passes the clock goes with it.
LEMMA BandTick ==
  ASSUME ClockTypes, PassedInv, BandInv, UNCHANGED <<kind, window, allowed, passed, sent, jumps>>,
         clock' = clock + 1, elapsed' = elapsed + 1
  PROVE  BandInv'
<1> SUFFICES ASSUME kind' = "bytes"
             PROVE  \E k \in 1..(Len(passed') + 1) : BandFrom(k)'
  BY DEF BandInv
<1>1. PICK k \in 1..(Len(passed) + 1) : BandFrom(k)
  BY DEF BandInv
<1>2. clock \in Int /\ elapsed \in Int /\ window \in Int /\ passed \in Seq(Messages)
  BY DEF ClockTypes, PassedInv
<1>3. (clock + 1) - (elapsed + 1) = clock - elapsed
  BY <1>2
<1>4. ASSUME NEW i \in 1..Len(passed), Recent(i)' PROVE Recent(i)
  <2>1. passed[i].at \in Int
    <3>1. passed[i] \in Messages
      BY <1>2
    <3>2. QED BY <3>1 DEF Messages
  <2>2. passed[i].at >= (elapsed + 1) - window
    BY <1>4 DEF Recent
  <2>3. QED BY <1>2, <2>1, <2>2 DEF Recent
<1>5. \A i : Since(i)' = Since(i) /\ (Matched(i) => Matched(i)')
  BY <1>3 DEF Since, Matched
<1>6. Budget' = Budget
  BY DEF Budget
<1>7. \A i \in 1..(k - 1) : i \in 1..Len(passed)
  BY <1>1, <1>2
<1>8. \A i \in k..Len(passed) : i \in 1..Len(passed)
  BY <1>1, <1>2
<1>9. BandFrom(k)'
  BY <1>1, <1>4, <1>5, <1>6, <1>7, <1>8 DEF BandFrom
<1>10. QED BY <1>1, <1>9

\* When the clock is set all that was recorded counts with what was before.
LEMMA BandJump ==
  ASSUME ClockTypes, PassedInv, BandInv, UNCHANGED <<kind, window, allowed, passed, elapsed>>,
         jumps' = jumps + 1
  PROVE  BandInv'
<1> DEFINE n == Len(passed)
<1> SUFFICES ASSUME kind' = "bytes"
             PROVE  \E k \in 1..(Len(passed') + 1) : BandFrom(k)'
  BY DEF BandInv
<1>1. PICK k \in 1..(n + 1) : BandFrom(k)
  BY DEF BandInv
<1>2. n \in Nat
  BY DEF PassedInv
<1>3. ASSUME NEW i \in 1..n, Recent(i)
      PROVE  Bytes(SubSeq(passed, i, n)) <= (jumps + 1) * Budget
  BY <1>1, <1>3, BandwidthFromInv DEF Since
<1>4. \A i : Recent(i)' <=> Recent(i)
  BY DEF Recent
<1>5. Budget' = Budget
  BY DEF Budget
<1>6. (n + 1) - 1 = n /\ (n + 1)..n = {} /\ n + 1 \in 1..(n + 1)
  BY <1>2
<1>7. BandFrom(n + 1)'
  BY <1>3, <1>4, <1>5, <1>6 DEF BandFrom
<1>8. QED BY <1>6, <1>7

\* More of the same is more.
LEMMA TimesMonotone ==
  \A n, a, b \in Nat : a <= b => n * a <= n * b /\ n * a \in Nat /\ n * b \in Nat
<1> SUFFICES ASSUME NEW n \in Nat, NEW a \in Nat, NEW b \in Nat, a <= b
             PROVE  n * a <= n * b /\ n * a \in Nat /\ n * b \in Nat
  OBVIOUS
<1>1. PICK d \in Nat : b = a + d
  BY b - a \in Nat
<1>2. n * b = n * a + n * d /\ n * d \in Nat /\ n * a \in Nat /\ n * b \in Nat
  BY <1>1
<1>3. QED BY <1>2

\* Another limit, or a shorter window, asks for no more.
LEMMA BandChanged ==
  ASSUME ClockTypes, ClockTypes', PassedInv, BandInv, kind = "bytes",
         UNCHANGED <<kind, passed, sent, clock, elapsed, jumps>>,
         window' <= window, allowed' >= allowed
  PROVE  BandInv'
<1>1. PICK k \in 1..(Len(passed) + 1) : BandFrom(k)
  BY DEF BandInv
<1>2. /\ elapsed \in Int /\ window \in Int /\ window' \in Int /\ jumps \in Nat
      /\ passed \in Seq(Messages) /\ Len(passed) \in Nat /\ k \in Int
  BY ClockAssumption DEF ClockTypes, PassedInv
<1>3. Budget \in Nat /\ Budget' \in Nat /\ Budget <= Budget'
  <2>1. Max(Sizes) \in Nat
    BY SizesAssumption, MaxIsGreatest
  <2>2. Budget = allowed - 1 + Max(Sizes) /\ Budget' = allowed' - 1 + Max(Sizes)
    BY DEF Budget
  <2>3. allowed \in Nat \ {0} /\ allowed' \in Nat \ {0}
    BY DEF ClockTypes
  <2>4. QED BY <2>1, <2>2, <2>3
<1>4. jumps * Budget <= jumps * Budget' /\ jumps * Budget \in Nat /\ jumps * Budget' \in Nat
  BY <1>2, <1>3, TimesMonotone
<1>5. ASSUME NEW i \in 1..Len(passed), Recent(i)' PROVE Recent(i)
  <2>1. passed[i].at \in Int
    <3>1. passed[i] \in Messages
      BY <1>2
    <3>2. QED BY <3>1 DEF Messages
  <2>2. passed[i].at >= elapsed - window'
    BY <1>5 DEF Recent
  <2>3. QED BY <1>2, <2>1, <2>2 DEF Recent
<1>6. \A i : Since(i)' = Since(i) /\ (Matched(i) => Matched(i)')
  BY DEF Since, Matched
<1>7. ASSUME NEW i \in 1..(k - 1), Recent(i)'
      PROVE  Bytes(SubSeq(passed, i, k - 1)) <= jumps * Budget'
  <2>1. i \in 1..Len(passed) /\ i \in 1..(Len(passed) + 1) /\ k - 1 \in (i - 1)..Len(passed)
    BY <1>2
  <2>2. Bytes(SubSeq(passed, i, k - 1)) <= jumps * Budget
    BY <1>1, <1>5, <1>7, <2>1 DEF BandFrom
  <2>3. SubSeq(passed, i, k - 1) \in Seq(Messages)
    BY <1>2, <2>1, PartBytes
  <2>4. Bytes(SubSeq(passed, i, k - 1)) \in Nat
    BY <2>3, BytesType
  <2>5. QED BY <1>4, <2>2, <2>4
<1>8. ASSUME NEW i \in k..Len(passed), Recent(i)'
      PROVE  Matched(i)' /\ Since(i)' <= Budget'
  <2>1. i \in 1..Len(passed) /\ i \in 1..(Len(passed) + 1) /\ Len(passed) \in (i - 1)..Len(passed)
    BY <1>1, <1>2
  <2>2. Matched(i) /\ Since(i) <= Budget
    BY <1>1, <1>5, <1>8, <2>1 DEF BandFrom
  <2>3. SubSeq(passed, i, Len(passed)) \in Seq(Messages)
    BY <1>2, <2>1, PartBytes
  <2>4. Since(i) \in Nat
    BY <2>3, BytesType DEF Since
  <2>5. QED BY <1>3, <1>6, <2>2, <2>4
<1>9. BandFrom(k)'
  BY <1>7, <1>8 DEF BandFrom
<1>10. QED BY <1>1, <1>9 DEF BandInv

\* A configuration begins anew.
LEMMA BandBegins ==
  ASSUME passed' = <<>>
  PROVE  BandInv'
<1>1. Len(passed') = 0 /\ 1 \in 1..(0 + 1) /\ 1..(1 - 1) = {} /\ 1..0 = {}
  OBVIOUS
<1>2. BandFrom(1)'
  BY <1>1 DEF BandFrom
<1>3. QED BY <1>1, <1>2 DEF BandInv

\* Every step keeps it.
LEMMA BandInvStep ==
  ClockTypes /\ StateTypes /\ PassedInv /\ BandInv /\ [Next]_vars => BandInv'
<1> SUFFICES ASSUME ClockTypes, StateTypes, PassedInv, BandInv, [Next]_vars
             PROVE  BandInv'
  OBVIOUS
<1> USE DEF vars, time, state, config, history
<1>1. CASE DropMessage
  <2>1. kind # "bytes" /\ UNCHANGED kind
    BY <1>1 DEF DropMessage
  <2>2. QED BY <2>1 DEF BandInv
<1>2. CASE DropBytes
  <2>1. sent' = InWindow /\ UNCHANGED <<kind, window, allowed, passed, clock, elapsed, jumps>>
    BY <1>2 DEF DropBytes
  <2>2. QED BY <2>1, BandDropped
<1>3. CASE DropFrequency
  <2>1. kind # "bytes" /\ UNCHANGED kind
    BY <1>3 DEF DropFrequency
  <2>2. QED BY <2>1 DEF BandInv
<1>4. CASE Tick
  <2>1. /\ UNCHANGED <<kind, window, allowed, passed, sent, jumps>>
        /\ clock' = clock + 1 /\ elapsed' = elapsed + 1
    BY <1>4 DEF Tick
  <2>2. QED BY <2>1, BandTick
<1>5. ASSUME NEW size \in Sizes, PassMessage(size) PROVE BandInv'
  <2>1. kind # "bytes" /\ UNCHANGED kind
    BY <1>5 DEF PassMessage
  <2>2. QED BY <2>1 DEF BandInv
<1>6. ASSUME NEW size \in Sizes, PassBytes(size) PROVE BandInv'
  <2>1. /\ Record(size) /\ kind = "bytes" /\ BudgetLeft
        /\ sent' = Append(InWindow, [at |-> clock, size |-> size])
        /\ UNCHANGED <<kind, window, allowed, clock, elapsed, jumps>>
    BY <1>6 DEF PassBytes
  <2>2. QED BY <2>1, BandPassed
<1>7. ASSUME NEW size \in Sizes, PassFrequency(size) PROVE BandInv'
  <2>1. kind # "bytes" /\ UNCHANGED kind
    BY <1>7 DEF PassFrequency
  <2>2. QED BY <2>1 DEF BandInv
<1>8. ASSUME NEW t \in Throttles, Configure(t) PROVE BandInv'
  <2>1. /\ UNCHANGED <<sent, clock, elapsed, jumps>>
        /\ kind' = t.kind /\ window' = t.window /\ passed' = Carried(t)
    BY <1>8 DEF Configure
  <2>2. CASE Carried(t) = <<>>
    BY <2>1, <2>2, BandBegins
  <2>3. CASE /\ t.kind = kind /\ kind = "bytes"
             /\ t.window <= window /\ Carried(t) = passed /\ passed # <<>>
    <3>1. allowed' = IF allowed > t.limit THEN allowed ELSE t.limit
      BY <1>8, <2>3 DEF Configure
    <3>2. allowed \in Int /\ t.limit \in Int
      BY ThrottlesAssumption DEF ThrottleConfig, Positive, ClockTypes
    <3>3. allowed' >= allowed
      BY <3>1, <3>2
    <3>4. ClockTypes'
      BY <1>8, ClockTypesStep DEF Next
    <3>5. QED BY <2>1, <2>3, <3>3, <3>4, BandChanged
  <2>4. CASE t.kind = kind /\ kind # "bytes"
    BY <2>1, <2>4 DEF BandInv
  <2>5. QED BY <2>2, <2>3, <2>4, WhatIsCarried
<1>9. ASSUME NEW j \in Jumps, SetClock(j) PROVE BandInv'
  <2>1. UNCHANGED <<kind, window, allowed, passed, elapsed>> /\ jumps' = jumps + 1
    BY <1>9 DEF SetClock
  <2>2. QED BY <2>1, BandJump
<1>10. CASE UNCHANGED vars
  <2>1. UNCHANGED <<kind, window, allowed, passed, sent, clock, elapsed, jumps>>
    BY <1>10
  <2>2. QED BY <2>1 DEF BandInv, BandFrom, Recent, Since, Matched, Budget
<1>11. CASE Unthrottle
  <2>1. passed' = <<>>
    BY <1>11 DEF Unthrottle
  <2>2. QED BY <2>1, BandBegins
<1>12. QED
  BY <1>1, <1>2, <1>3, <1>4, <1>5, <1>6, <1>7, <1>8, <1>9, <1>10, <1>11 DEF Next

\* A throttle by bandwidth keeps to its limit: since any message of the last window no
\* more than a message beyond the limit is recorded, and as much again each time the
\* clock was set: whatever the sizes of the messages, the limits and the windows.
THEOREM BandwidthAlwaysKept == Spec => []BandwidthKept
<1>1. Init => BandInv
  <2>1. Init => passed = <<>>
    BY DEF Init
  <2>2. passed = <<>> => BandFrom(1) /\ 1 \in 1..(Len(passed) + 1)
    <3>1. Len(<<>>) = 0 /\ 1 \in 1..(0 + 1) /\ 1..(1 - 1) = {} /\ 1..0 = {}
      OBVIOUS
    <3>2. QED BY <3>1 DEF BandFrom
  <2>3. QED BY <2>1, <2>2 DEF BandInv
<1>2. ThrottleInv /\ BandInv /\ [Next]_vars => BandInv'
  BY BandInvStep DEF ThrottleInv
<1>3. ThrottleInv /\ BandInv => BandwidthKept
  <2> SUFFICES ASSUME ThrottleInv, BandInv, kind = "bytes",
                      NEW i \in 1..Len(passed), Recent(i)
               PROVE  Since(i) <= (jumps + 1) * Budget
    BY DEF BandwidthKept, Recent, Since
  <2>1. PICK k \in 1..(Len(passed) + 1) : BandFrom(k)
    BY DEF BandInv
  <2>2. QED BY <2>1, BandwidthFromInv DEF ThrottleInv
<1>4. QED BY <1>1, <1>2, <1>3, ThrottleInvAlways, PTL DEF Spec
===============================================================================
