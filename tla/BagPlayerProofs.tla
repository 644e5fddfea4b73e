---------------------------- MODULE BagPlayerProofs ----------------------------
(***************************************************************************)
(* Proofs about the playback of a bag, for all bags with their messages in *)
(* order, all filters, rates and numbers of calls: the panel's state is    *)
(* true of the engine, every message is played once, and none too early.   *)
(***************************************************************************)
EXTENDS BagPlayerProperties, FiniteSetTheorems, SequenceTheorems, TLAPS

\* The types in three parts: the members that requests set, where the playback is,
\* and its history.
SettingTypes ==
  /\ state \in States /\ bag \in Bags \union {NoBag} /\ first \in BOOLEAN
  /\ rate \in Rates /\ looping \in BOOLEAN /\ activeFilter \in SUBSET Topics
  /\ clockEnabled \in BOOLEAN /\ clockPublisher \in BOOLEAN
  /\ publishers \in SUBSET Topics /\ disabledTopics \in SUBSET Topics
  /\ timer \in BOOLEAN /\ error \in BOOLEAN

PlaceTypes ==
  /\ reader \in [next : Nat, filter : SUBSET Topics]
  /\ pending \in Nat /\ position \in Nat /\ elapsed \in 0..Horizon
  /\ published \in -1..MaxPerTick /\ requests \in 0..MaxRequests

HistoryTypes ==
  /\ pass \in Seq(Nat) /\ passStart \in Nat
  /\ pace \in [base : Nat, played : 0..Horizon, timed : Nat]

\* There is a bag to read unless the player is idle, and a message that waits is one
\* of it.
BagInv ==
  /\ reader # NoReader \/ state # "idle" => bag \in Bags
  /\ pending # 0 => bag \in Bags /\ pending \in DOMAIN Messages[bag]
  /\ position <= Horizon

\* A tick is under way only while the bag plays, and the clock has its publisher
\* through a pause.
StateInv ==
  /\ PendingOnlyInPlayback /\ TimerMatchesState /\ LostBagIsReported
  /\ state \in {"playing", "paused"} /\ clockEnabled => clockPublisher
  /\ published # -1 => state = "playing"

\* The reader has the chosen filter and is past the beginning of the pass.
PassInv ==
  reader # NoReader =>
    /\ reader.filter = activeFilter
    /\ passStart <= reader.next
    /\ \A i, j \in DOMAIN pass : i # j => pass[i] # pass[j]
    /\ Range(pass) = Passed \ {pending}
    /\ pending # 0 => pending \in Passed

\* The bag is ahead of the clock by what the messages were early; the time since the
\* last message, which the next one may use, is playing time already.
Running == IF state = "playing" THEN elapsed * rate ELSE 0
PaceInv ==
  \/ pace.played = Horizon
  \/ (position - pace.base) + Running <= pace.played + pace.timed * MaxEarly
-----------------------------------------------------------------------------
(***************************************************************************)
(* Least and greatest elements, and sequences without repetition.          *)
(***************************************************************************)

\* A set of naturals has a least element.
LEMMA LeastElement ==
  ASSUME NEW S \in SUBSET Nat, S # {}
  PROVE  \E x \in S : \A y \in S : x <= y
<1>1. IsWellFoundedOn(OpToRel(<, Nat), Nat)
  BY NatLessThanWellFounded
<1>2. PICK x \in S : \A y \in S : <<y, x>> \notin OpToRel(<, Nat)
  <2>1. \E x \in S : \A y \in S : ~ (<<y, x>> \in OpToRel(<, Nat))
    BY <1>1, WFMin
  <2>2. QED BY <2>1
<1>3. ASSUME NEW y \in S PROVE x <= y
  <2>1. <<y, x>> \in Nat \X Nat
    OBVIOUS
  <2>2. ~ (y < x)
    BY <1>2, <2>1 DEF OpToRel
  <2>3. QED BY <2>2
<1>4. QED BY <1>3

HasGreatest(S) == \E x \in S : \A y \in S : y <= x

\* A finite set of naturals has a greatest one: a set without one, as small as
\* possible, would leave another when it loses an element.
LEMMA GreatestElement ==
  ASSUME NEW S \in SUBSET Nat, IsFiniteSet(S), S # {}
  PROVE  HasGreatest(S)
<1> DEFINE Without == {T \in FiniteSubsetsOf(S) : T # {} /\ ~HasGreatest(T)}
<1>1. SUFFICES ASSUME ~HasGreatest(S) PROVE FALSE
  OBVIOUS
<1>2. S \in Without
  BY <1>1 DEF FiniteSubsetsOf
<1>3. IsWellFoundedOn(StrictSubsetOrdering(S), FiniteSubsetsOf(S))
  BY FS_StrictSubsetOrderingWellFounded
<1>4. PICK T \in Without : \A U \in Without : <<U, T>> \notin StrictSubsetOrdering(S)
  <2>1. Without \subseteq FiniteSubsetsOf(S) /\ Without # {}
    BY <1>2
  <2> HIDE DEF Without
  <2>2. \E T \in Without : \A U \in Without : ~ (<<U, T>> \in StrictSubsetOrdering(S))
    BY <1>3, <2>1, WFMin
  <2>3. QED BY <2>2
<1>5. /\ T \in SUBSET S /\ IsFiniteSet(T) /\ ~HasGreatest(T) /\ T # {}
  BY DEF FiniteSubsetsOf
<1>6. PICK x : x \in T
  BY <1>5
<1>7. T \ {x} \in SUBSET S /\ IsFiniteSet(T \ {x}) /\ T \ {x} # T
  BY <1>5, <1>6, FS_RemoveElement
<1>8. T \ {x} \notin Without
  <2>1. <<T \ {x}, T>> \in StrictSubsetOrdering(S)
    BY <1>5, <1>7 DEF StrictSubsetOrdering
  <2>2. QED BY <1>4, <2>1
<1>9. CASE T \ {x} = {}
  BY <1>5, <1>6, <1>9 DEF HasGreatest
<1>10. CASE T \ {x} # {}
  <2>1. HasGreatest(T \ {x})
    BY <1>7, <1>8, <1>10 DEF FiniteSubsetsOf
  <2>2. PICK y \in T \ {x} : \A z \in T \ {x} : z <= y
    BY <2>1 DEF HasGreatest
  <2>3. CASE x <= y
    BY <1>5, <2>2, <2>3 DEF HasGreatest
  <2>4. CASE ~(x <= y)
    BY <1>5, <1>6, <2>2, <2>4 DEF HasGreatest
  <2>5. QED BY <2>3, <2>4
<1>11. QED BY <1>9, <1>10

Distinct(s) == \A i, j \in DOMAIN s : i # j => s[i] # s[j]

\* A new element keeps a sequence without repetition, and joins its range.
LEMMA AppendKeepsDistinct ==
  ASSUME NEW s \in Seq(Nat), NEW x \in Nat
  PROVE  /\ Append(s, x) \in Seq(Nat)
         /\ Range(Append(s, x)) = Range(s) \cup {x}
         /\ Distinct(s) /\ x \notin Range(s) => Distinct(Append(s, x))
<1>1. /\ Append(s, x) \in Seq(Nat) /\ Len(s) \in Nat /\ DOMAIN s = 1..Len(s)
      /\ DOMAIN Append(s, x) = 1..Len(s) + 1
  OBVIOUS
<1>2. /\ \A i \in 1..Len(s) : Append(s, x)[i] = s[i]
      /\ Append(s, x)[Len(s) + 1] = x
  BY AppendProperties
<1>3. Range(Append(s, x)) = Range(s) \cup {x}
  BY <1>1, <1>2 DEF Range
<1>4. ASSUME Distinct(s), x \notin Range(s) PROVE Distinct(Append(s, x))
  <2>1. \A i \in 1..Len(s) : s[i] # x
    BY <1>1, <1>4 DEF Range
  <2>2. QED BY <1>1, <1>2, <1>4, <2>1 DEF Distinct
<1>5. QED BY <1>1, <1>3, <1>4
-----------------------------------------------------------------------------
(***************************************************************************)
(* The bag and its reader.                                                 *)
(***************************************************************************)

\* The messages of a bag lie between its start and its end, in order.
LEMMA BagFacts ==
  ASSUME NEW b \in Bags
  PROVE  /\ Messages[b] \in Seq([time : Nat, topic : Topics])
         /\ DOMAIN Messages[b] \subseteq Nat \ {0} /\ IsFiniteSet(DOMAIN Messages[b])
         /\ \A i \in DOMAIN Messages[b] :
              Messages[b][i].time \in 0..Horizon /\ Messages[b][i].topic \in Topics
         /\ Messages[b] # <<>> => 1 \in DOMAIN Messages[b]
<1>1. /\ Messages[b] \in Seq([time : Nat, topic : Topics])
      /\ Len(Messages[b]) \in Nat /\ DOMAIN Messages[b] = 1..Len(Messages[b])
  <2>1. Messages[b] \in Seq([time : Nat, topic : Topics])
    BY MessagesAssumption
  <2>2. QED BY <2>1, LenProperties
<1>2. IsFiniteSet(1..Len(Messages[b]))
  BY <1>1, FS_Interval
<1>3. ASSUME NEW i \in DOMAIN Messages[b]
      PROVE  Messages[b][i].time \in 0..Horizon /\ Messages[b][i].topic \in Topics
  <2>1. Messages[b][i] \in [time : Nat, topic : Topics]
    BY <1>1, ElementOfSeq
  <2>2. Messages[b][i].time <= Horizon
    BY HorizonAssumption
  <2>3. QED BY <2>1, <2>2, BoundsAssumption
<1>4. Messages[b] # <<>> => 1 \in DOMAIN Messages[b]
  BY <1>1, EmptySeq
<1>5. QED BY <1>1, <1>2, <1>3, <1>4

\* The start of any bag, and of none.
LEMMA BagStartType == \A b \in Bags \union {NoBag} : BagStart(b) \in 0..Horizon
  BY BagFacts, BoundsAssumption DEF BagStart

\* No topic comes from elsewhere.
LEMMA BagTopicsType == \A b \in Bags : BagTopics(b) \subseteq Topics
  BY BagFacts DEF BagTopics

\* A reader begins at an index of at least 1, and at the bag's start with the first.
LEMMA SeekFacts ==
  ASSUME NEW b \in Bags, NEW t
  PROVE  /\ SeekIndex(b, t) \in Nat \ {0}
         /\ SeekIndex(b, BagStart(b)) = 1
<1>1. /\ IsFiniteSet({i \in DOMAIN Messages[b] : Messages[b][i].time < t})
      /\ Cardinality({i \in DOMAIN Messages[b] : Messages[b][i].time < t}) \in Nat
  BY BagFacts, FS_Subset, FS_CardinalityType
<1>2. {i \in DOMAIN Messages[b] : Messages[b][i].time < BagStart(b)} = {}
  <2>1. SUFFICES ASSUME NEW i \in DOMAIN Messages[b], Messages[b][i].time < BagStart(b)
                 PROVE  FALSE
    OBVIOUS
  <2>2. Messages[b] # <<>> /\ 1 \in DOMAIN Messages[b]
    BY <2>1, BagFacts
  <2>3. BagStart(b) = Messages[b][1].time
    BY <2>2, NoBagAssumption DEF BagStart
  <2>4. Messages[b][1].time <= Messages[b][i].time
    <3>1. i = 1 \/ 1 < i
      BY BagFacts
    <3>2. Messages[b][1].time \in Nat
      BY <2>2, BagFacts
    <3>3. QED BY <2>2, <3>1, <3>2, OrderAssumption
  <2>5. QED BY <2>1, <2>2, <2>3, <2>4, BagFacts
<1>3. Cardinality({}) = 0
  BY FS_EmptySet
<1>4. QED BY <1>1, <1>2, <1>3 DEF SeekIndex

\* What is left of a bag is of the bag, and the reader hands out the least of it.
LEMMA ReadNextFacts ==
  ASSUME bag \in Bags, Upcoming # {}
  PROVE  /\ ReadNext \in Upcoming /\ \A i \in Upcoming : ReadNext <= i
         /\ ReadNext \in DOMAIN Messages[bag] /\ ReadNext \in Nat \ {0}
<1>1. Upcoming \subseteq DOMAIN Messages[bag] /\ Upcoming \in SUBSET Nat
  BY BagFacts DEF Upcoming, Matching
<1>2. \E i \in Upcoming : \A j \in Upcoming : i <= j
  BY <1>1, LeastElement
<1>3. ReadNext \in Upcoming /\ \A i \in Upcoming : ReadNext <= i
  BY <1>2 DEF ReadNext
<1>4. QED BY <1>1, <1>3, BagFacts

\* A reader that goes on is one.
LEMMA ReadingFacts ==
  ASSUME reader \in [next : Nat, filter : SUBSET Topics], NEW n \in Nat \ {0}
  PROVE  /\ [reader EXCEPT !.next = n] \in [next : Nat, filter : SUBSET Topics]
         /\ [reader EXCEPT !.next = n].next = n
         /\ [reader EXCEPT !.next = n].filter = reader.filter
         /\ [reader EXCEPT !.next = n] # NoReader
  BY DEF NoReader

\* The message of an iteration is one of the bag.
LEMMA CandidateFacts ==
  ASSUME PlaceTypes, BagInv, Candidates # {}
  PROVE  /\ bag \in Bags /\ Candidate \in DOMAIN Messages[bag]
         /\ Candidate \in Nat \ {0} /\ At(Candidate) \in 0..Horizon
<1>1. bag \in Bags /\ Candidate \in DOMAIN Messages[bag]
  <2>1. CASE pending # 0
    BY <2>1 DEF BagInv, Candidate
  <2>2. CASE pending = 0
    <3>1. reader # NoReader /\ Upcoming # {} /\ Candidate = ReadNext
      BY <2>2 DEF Candidates, Candidate
    <3>2. QED BY <3>1, ReadNextFacts DEF BagInv
  <2>3. QED BY <2>1, <2>2
<1>2. QED BY <1>1, BagFacts DEF At

\* The reader after an iteration: the one before, or one message on.
LEMMA ReaderAfterFacts ==
  ASSUME PlaceTypes, BagInv, Candidates # {}
  PROVE  /\ ReaderAfter \in [next : Nat, filter : SUBSET Topics]
         /\ ReaderAfter = NoReader <=> reader = NoReader
         /\ ReaderAfter.filter = reader.filter
         /\ pending # 0 => ReaderAfter = reader
         /\ pending = 0 => /\ Candidate = ReadNext /\ Upcoming # {}
                           /\ ReaderAfter.next = ReadNext + 1 /\ reader # NoReader
<1>1. reader \in [next : Nat, filter : SUBSET Topics]
  BY DEF PlaceTypes
<1>2. CASE pending # 0
  BY <1>1, <1>2 DEF ReaderAfter
<1>3. CASE pending = 0
  <2>1. reader # NoReader /\ Upcoming # {} /\ Candidate = ReadNext
    BY <1>3 DEF Candidates, Candidate
  <2>2. ReadNext + 1 \in Nat \ {0}
    BY <2>1, ReadNextFacts DEF BagInv
  <2>3. ReaderAfter = [reader EXCEPT !.next = ReadNext + 1]
    BY <1>3 DEF ReaderAfter
  <2>4. QED BY <1>1, <1>3, <2>1, <2>2, <2>3, ReadingFacts
<1>4. QED BY <1>2, <1>3
-----------------------------------------------------------------------------
(***************************************************************************)
(* Every step keeps the types,                                             *)
(***************************************************************************)

\* of the settings,
LEMMA SettingTypesStep ==
  SettingTypes /\ PlaceTypes /\ BagInv /\ [Next]_vars => SettingTypes'
<1> SUFFICES ASSUME SettingTypes, PlaceTypes, BagInv, [Next]_vars PROVE SettingTypes'
  OBVIOUS
<1> USE DEF SettingTypes, States, playback, outputs, settings, Request, Release,
      DestroyPublishers
<1>1. CASE Stop BY <1>1 DEF Stop
<1>2. CASE LoadFails BY <1>2 DEF LoadFails
<1>3. CASE PlayUnloaded BY <1>3 DEF PlayUnloaded
<1>4. CASE PlayOn BY <1>4 DEF PlayOn
<1>5. CASE Pause BY <1>5 DEF Pause
<1>6. CASE Resume BY <1>6 DEF Resume
<1>7. CASE StepForward BY <1>7 DEF StepForward
<1>8. CASE SetLooping BY <1>8 DEF SetLooping
<1>9. CASE TickStarts BY <1>9 DEF TickStarts
<1>10. CASE PublishDue BY <1>10 DEF PublishDue
<1>11. CASE KeepPending BY <1>11 DEF KeepPending
<1>12. CASE Loop BY <1>12 DEF Loop, Reopen, ReopenFails
<1>13. CASE Finish BY <1>13 DEF Finish
<1>14. CASE LoseReader BY <1>14 DEF LoseReader
<1>15. CASE TickFull BY <1>15 DEF TickFull
<1>16. CASE TimePasses BY <1>16 DEF TimePasses
<1>17. ASSUME NEW b \in Bags, Load(b) PROVE SettingTypes'
  BY <1>17 DEF Load
<1>18. ASSUME NEW topics \in SUBSET Topics, PlayFromStart(topics) PROVE SettingTypes'
  <2>1. bag \in Bags
    BY <1>18 DEF PlayFromStart, BagInv
  <2>2. PublishersOf(topics) \in SUBSET Topics
    BY <2>1, BagTopicsType DEF PublishersOf
  <2>3. QED BY <1>18, <2>2 DEF PlayFromStart
<1>19. ASSUME NEW t \in 0..Horizon, Seek(t) PROVE SettingTypes'
  BY <1>19 DEF Seek, Reopen, ReopenFails
<1>20. ASSUME NEW r \in Rates, SetRate(r) PROVE SettingTypes'
  BY <1>20 DEF SetRate
<1>21. ASSUME NEW enabled \in BOOLEAN, SetClockEnabled(enabled) PROVE SettingTypes'
  BY <1>21 DEF SetClockEnabled
<1>22. ASSUME NEW t \in Topics, SetTopicEnabled(t) PROVE SettingTypes'
  BY <1>22 DEF SetTopicEnabled
<1>23. CASE UNCHANGED vars BY <1>23 DEF vars
<1>24. QED
  BY <1>1, <1>2, <1>3, <1>4, <1>5, <1>6, <1>7, <1>8, <1>9, <1>10, <1>11, <1>12,
     <1>13, <1>14, <1>15, <1>16, <1>17, <1>18, <1>19, <1>20, <1>21, <1>22,
     <1>23 DEF Next, User, Iterate

\* of the place,
LEMMA PlaceTypesStep ==
  SettingTypes /\ PlaceTypes /\ BagInv /\ [Next]_vars => PlaceTypes'
<1> SUFFICES ASSUME SettingTypes, PlaceTypes, BagInv, [Next]_vars PROVE PlaceTypes'
  OBVIOUS
<1>a. NoReader \in [next : Nat, filter : SUBSET Topics] /\ BagStart(bag) \in Nat
  BY BagStartType DEF NoReader, SettingTypes
<1> USE BoundsAssumption DEF PlaceTypes, playback, outputs, settings, Request, Release,
      Iterating
<1>1. CASE Stop BY <1>1, <1>a DEF Stop
<1>2. CASE LoadFails BY <1>2, <1>a DEF LoadFails
<1>3. CASE PlayUnloaded BY <1>3, <1>a DEF PlayUnloaded
<1>4. CASE PlayOn BY <1>4, <1>a DEF PlayOn
<1>5. CASE Pause BY <1>5, <1>a DEF Pause
<1>6. CASE Resume BY <1>6, <1>a DEF Resume
<1>7. CASE StepForward
  <2>1. bag \in Bags /\ Upcoming # {}
    BY <1>7 DEF StepForward, BagInv
  <2>2. ReadNext + 1 \in Nat \ {0} /\ At(ReadNext) \in Nat
    BY <2>1, ReadNextFacts, BagFacts DEF At
  <2>3. reader' \in [next : Nat, filter : SUBSET Topics]
    BY <1>7, <2>2, ReadingFacts DEF StepForward
  <2>4. QED BY <1>7, <2>2, <2>3 DEF StepForward
<1>8. CASE SetLooping BY <1>8, <1>a DEF SetLooping
<1>9. CASE TickStarts BY <1>9, <1>a DEF TickStarts
<1>10. CASE PublishDue
  <2>1. reader' \in [next : Nat, filter : SUBSET Topics] /\ position' \in Nat
    BY <1>10, CandidateFacts, ReaderAfterFacts DEF PublishDue
  <2>2. published' \in -1..MaxPerTick /\ elapsed' \in 0..Horizon /\ pending' \in Nat
    BY <1>10 DEF PublishDue
  <2>3. QED BY <1>10, <2>1, <2>2 DEF PublishDue
<1>11. CASE KeepPending
  <2>1. reader' \in [next : Nat, filter : SUBSET Topics] /\ pending' \in Nat
    BY <1>11, CandidateFacts, ReaderAfterFacts DEF KeepPending
  <2>2. QED BY <1>11, <2>1 DEF KeepPending
<1>12. CASE Loop
  <2>1. reader' \in [next : Nat, filter : SUBSET Topics]
    <3>1. bag \in Bags
      BY <1>12 DEF Loop, AtEnd, BagInv
    <3>2. [next |-> SeekIndex(bag, BagStart(bag)), filter |-> activeFilter] \in
            [next : Nat, filter : SUBSET Topics]
      BY <3>1, SeekFacts DEF SettingTypes
    <3>3. QED BY <1>12, <1>a, <3>2 DEF Loop, Reopen, ReopenFails
  <2>2. QED BY <1>12, <1>a, <2>1 DEF Loop
<1>13. CASE Finish BY <1>13, <1>a DEF Finish
<1>14. CASE LoseReader BY <1>14, <1>a DEF LoseReader
<1>15. CASE TickFull BY <1>15, <1>a DEF TickFull
<1>16. CASE TimePasses
  <2>1. elapsed' \in 0..Horizon
    BY <1>16 DEF TimePasses, Least
  <2>2. QED BY <1>16, <2>1 DEF TimePasses
<1>17. ASSUME NEW b \in Bags, Load(b) PROVE PlaceTypes'
  <2>1. reader' \in [next : Nat, filter : SUBSET Topics] /\ position' \in Nat
    BY <1>17, BagStartType DEF Load
  <2>2. QED BY <1>17, <2>1 DEF Load
<1>18. ASSUME NEW topics \in SUBSET Topics, PlayFromStart(topics) PROVE PlaceTypes'
  BY <1>18, <1>a DEF PlayFromStart
<1>19. ASSUME NEW t \in 0..Horizon, Seek(t) PROVE PlaceTypes'
  <2>1. reader' \in [next : Nat, filter : SUBSET Topics]
    <3>1. bag \in Bags
      BY <1>19 DEF Seek, BagInv
    <3>2. [next |-> SeekIndex(bag, t), filter |-> activeFilter] \in
            [next : Nat, filter : SUBSET Topics]
      BY <3>1, SeekFacts DEF SettingTypes
    <3>3. QED BY <1>19, <1>a, <3>2 DEF Seek, Reopen, ReopenFails
  <2>2. QED BY <1>19, <2>1 DEF Seek
<1>20. ASSUME NEW r \in Rates, SetRate(r) PROVE PlaceTypes'
  BY <1>20, <1>a DEF SetRate
<1>21. ASSUME NEW enabled \in BOOLEAN, SetClockEnabled(enabled) PROVE PlaceTypes'
  BY <1>21, <1>a DEF SetClockEnabled
<1>22. ASSUME NEW t \in Topics, SetTopicEnabled(t) PROVE PlaceTypes'
  BY <1>22, <1>a DEF SetTopicEnabled
<1>23. CASE UNCHANGED vars BY <1>23, <1>a DEF vars
<1>24. QED
  BY <1>1, <1>2, <1>3, <1>4, <1>5, <1>6, <1>7, <1>8, <1>9, <1>10, <1>11, <1>12,
     <1>13, <1>14, <1>15, <1>16, <1>17, <1>18, <1>19, <1>20, <1>21, <1>22,
     <1>23 DEF Next, User, Iterate

\* of the history,
LEMMA HistoryTypesStep ==
  /\ SettingTypes /\ PlaceTypes /\ HistoryTypes /\ BagInv /\ [Next]_vars
  => HistoryTypes'
<1> SUFFICES ASSUME SettingTypes, PlaceTypes, HistoryTypes, BagInv, [Next]_vars
             PROVE  HistoryTypes'
  OBVIOUS
<1>a. position' \in Nat /\ 0 \in 0..Horizon
  BY PlaceTypesStep, BoundsAssumption DEF PlaceTypes
<1>b. \A t \in Nat :
        BeginRun(t) => pace' \in [base : Nat, played : 0..Horizon, timed : Nat]
  BY <1>a DEF BeginRun
<1>c. \A i \in Nat : BeginPass(i) => pass' \in Seq(Nat) /\ passStart' \in Nat
  BY EmptySeq DEF BeginPass
<1> USE DEF HistoryTypes, history, playback, outputs, settings
<1>1. CASE Stop BY <1>1, <1>a, <1>b, <1>c DEF Stop
<1>2. CASE LoadFails BY <1>2, <1>a, <1>b, <1>c DEF LoadFails
<1>3. CASE PlayUnloaded BY <1>3, <1>a, <1>b, <1>c DEF PlayUnloaded
<1>4. CASE PlayOn BY <1>4, <1>a, <1>b, <1>c DEF PlayOn
<1>5. CASE Pause BY <1>5, <1>a, <1>b, <1>c DEF Pause
<1>6. CASE Resume BY <1>6, <1>a, <1>b, <1>c DEF Resume
<1>7. CASE StepForward
  <2>1. bag \in Bags /\ Upcoming # {}
    BY <1>7 DEF StepForward, BagInv
  <2>2. Append(pass, ReadNext) \in Seq(Nat)
    BY <2>1, ReadNextFacts, AppendKeepsDistinct
  <2>3. QED BY <1>7, <1>a, <1>b, <2>2 DEF StepForward
<1>8. CASE SetLooping BY <1>8, <1>a, <1>b, <1>c DEF SetLooping
<1>9. CASE TickStarts BY <1>9, <1>a, <1>b, <1>c DEF TickStarts
<1>10. CASE PublishDue
  <2>1. Append(pass, Candidate) \in Seq(Nat)
    BY <1>10, CandidateFacts, AppendKeepsDistinct DEF PublishDue
  <2>2. pace' \in [base : Nat, played : 0..Horizon, timed : Nat]
    <3>1. CASE first BY <1>10, <3>1, <1>a, <1>b DEF PublishDue
    <3>2. CASE ~first
      <4>1. pace' = [pace EXCEPT !.timed = pace.timed + 1]
        BY <1>10, <3>2 DEF PublishDue
      <4>2. QED BY <4>1
    <3>3. QED BY <3>1, <3>2
  <2>3. QED BY <1>10, <2>1, <2>2 DEF PublishDue
<1>11. CASE KeepPending BY <1>11, <1>a, <1>b, <1>c DEF KeepPending
<1>12. CASE Loop BY <1>12, <1>a, <1>b, <1>c DEF Loop
<1>13. CASE Finish BY <1>13, <1>a, <1>b, <1>c DEF Finish
<1>14. CASE LoseReader BY <1>14, <1>a, <1>b, <1>c DEF LoseReader
<1>15. CASE TickFull BY <1>15, <1>a, <1>b, <1>c DEF TickFull
<1>16. CASE TimePasses
  <2>1. (IF state = "playing" THEN Least(pace.played + rate, Horizon) ELSE pace.played)
          \in 0..Horizon
    BY RatesAssumption, BoundsAssumption DEF SettingTypes, Least
  <2>2. pace' \in [base : Nat, played : 0..Horizon, timed : Nat]
    BY <1>16, <2>1 DEF TimePasses
  <2>3. QED BY <1>16, <2>2 DEF TimePasses
<1>17. ASSUME NEW b \in Bags, Load(b) PROVE HistoryTypes'
  BY <1>17, <1>a, <1>b, <1>c DEF Load
<1>18. ASSUME NEW topics \in SUBSET Topics, PlayFromStart(topics) PROVE HistoryTypes'
  BY <1>18, <1>a, <1>b, <1>c DEF PlayFromStart
<1>19. ASSUME NEW t \in 0..Horizon, Seek(t) PROVE HistoryTypes'
  <2>1. bag \in Bags
    BY <1>19 DEF Seek, BagInv
  <2>2. SeekIndex(bag, t) \in Nat /\ t \in Nat
    BY <2>1, SeekFacts, BoundsAssumption
  <2>3. QED BY <1>19, <1>b, <1>c, <2>2 DEF Seek
<1>20. ASSUME NEW r \in Rates, SetRate(r) PROVE HistoryTypes'
  BY <1>20, <1>a, <1>b, <1>c DEF SetRate
<1>21. ASSUME NEW enabled \in BOOLEAN, SetClockEnabled(enabled) PROVE HistoryTypes'
  BY <1>21, <1>a, <1>b, <1>c DEF SetClockEnabled
<1>22. ASSUME NEW t \in Topics, SetTopicEnabled(t) PROVE HistoryTypes'
  BY <1>22, <1>a, <1>b, <1>c DEF SetTopicEnabled
<1>23. CASE UNCHANGED vars BY <1>23, <1>a, <1>b, <1>c DEF vars
<1>24. QED
  BY <1>1, <1>2, <1>3, <1>4, <1>5, <1>6, <1>7, <1>8, <1>9, <1>10, <1>11, <1>12,
     <1>13, <1>14, <1>15, <1>16, <1>17, <1>18, <1>19, <1>20, <1>21, <1>22,
     <1>23 DEF Next, User, Iterate

\* and what is known of the bag,
LEMMA BagInvStep ==
  SettingTypes /\ PlaceTypes /\ BagInv /\ [Next]_vars => BagInv'
<1> SUFFICES ASSUME SettingTypes, PlaceTypes, BagInv, [Next]_vars PROVE BagInv'
  OBVIOUS
<1>a. BagStart(bag) \in 0..Horizon
  BY BagStartType DEF SettingTypes
<1> USE DEF BagInv, AtEnd, history, playback, outputs, settings, Release, Request
<1>1. CASE Stop BY <1>1, <1>a DEF Stop
<1>2. CASE LoadFails BY <1>2, <1>a DEF LoadFails
<1>3. CASE PlayUnloaded BY <1>3, <1>a DEF PlayUnloaded
<1>4. CASE PlayOn BY <1>4, <1>a DEF PlayOn
<1>5. CASE Pause BY <1>5, <1>a DEF Pause
<1>6. CASE Resume BY <1>6, <1>a DEF Resume
<1>7. CASE StepForward
  <2>1. bag \in Bags /\ Upcoming # {}
    BY <1>7 DEF StepForward
  <2>2. At(ReadNext) \in 0..Horizon
    BY <2>1, ReadNextFacts, BagFacts DEF At
  <2>3. QED BY <1>7, <2>1, <2>2 DEF StepForward
<1>8. CASE SetLooping BY <1>8, <1>a DEF SetLooping
<1>9. CASE TickStarts BY <1>9, <1>a DEF TickStarts
<1>10. CASE PublishDue
  <2>1. bag \in Bags /\ At(Candidate) \in 0..Horizon
    BY <1>10, CandidateFacts DEF PublishDue
  <2>2. QED BY <1>10, <2>1 DEF PublishDue
<1>11. CASE KeepPending
  <2>1. bag \in Bags /\ Candidate \in DOMAIN Messages[bag]
    BY <1>11, CandidateFacts DEF KeepPending
  <2>2. QED BY <1>11, <2>1 DEF KeepPending
<1>12. CASE Loop BY <1>12, <1>a DEF Loop
<1>13. CASE Finish BY <1>13, <1>a DEF Finish
<1>14. CASE LoseReader BY <1>14, <1>a DEF LoseReader
<1>15. CASE TickFull BY <1>15, <1>a DEF TickFull
<1>16. CASE TimePasses BY <1>16, <1>a DEF TimePasses
<1>17. ASSUME NEW b \in Bags, Load(b) PROVE BagInv'
  <2>1. BagStart(b) \in 0..Horizon
    BY BagStartType
  <2>2. QED BY <1>17, <2>1 DEF Load
<1>18. ASSUME NEW topics \in SUBSET Topics, PlayFromStart(topics) PROVE BagInv'
  BY <1>18, <1>a DEF PlayFromStart
<1>19. ASSUME NEW t \in 0..Horizon, Seek(t) PROVE BagInv'
  BY <1>19, <1>a DEF Seek
<1>20. ASSUME NEW r \in Rates, SetRate(r) PROVE BagInv'
  BY <1>20, <1>a DEF SetRate
<1>21. ASSUME NEW enabled \in BOOLEAN, SetClockEnabled(enabled) PROVE BagInv'
  BY <1>21, <1>a DEF SetClockEnabled
<1>22. ASSUME NEW t \in Topics, SetTopicEnabled(t) PROVE BagInv'
  BY <1>22, <1>a DEF SetTopicEnabled
<1>23. CASE UNCHANGED vars BY <1>23, <1>a DEF vars
<1>24. QED
  BY <1>1, <1>2, <1>3, <1>4, <1>5, <1>6, <1>7, <1>8, <1>9, <1>10, <1>11, <1>12,
     <1>13, <1>14, <1>15, <1>16, <1>17, <1>18, <1>19, <1>20, <1>21, <1>22,
     <1>23 DEF Next, User, Iterate

\* and what the panel shows.
LEMMA StateInvStep ==
  SettingTypes /\ PlaceTypes /\ BagInv /\ StateInv /\ [Next]_vars => StateInv'
<1> SUFFICES ASSUME SettingTypes, PlaceTypes, BagInv, StateInv, [Next]_vars PROVE StateInv'
  OBVIOUS
<1>a. \A n \in Nat \ {0} : \A f : [next |-> n, filter |-> f] # NoReader
  BY DEF NoReader
<1> USE DEF StateInv, NodeMayBeMissing, PendingOnlyInPlayback, TimerMatchesState,
      LostBagIsReported, history, playback, outputs, settings, Release, DestroyPublishers,
      Request, SettingTypes, States
<1>1. CASE Stop BY <1>1, <1>a DEF Stop
<1>2. CASE LoadFails BY <1>2, <1>a DEF LoadFails
<1>3. CASE PlayUnloaded BY <1>3, <1>a DEF PlayUnloaded
<1>4. CASE PlayOn BY <1>4, <1>a DEF PlayOn
<1>5. CASE Pause BY <1>5, <1>a DEF Pause
<1>6. CASE Resume BY <1>6, <1>a DEF Resume
<1>7. CASE StepForward
  <2>1. bag \in Bags /\ Upcoming # {} /\ reader' = [reader EXCEPT !.next = ReadNext + 1]
    BY <1>7 DEF StepForward, BagInv
  <2>2. reader' # NoReader
    BY <2>1, ReadNextFacts, ReadingFacts DEF PlaceTypes
  <2>3. QED BY <1>7, <2>2 DEF StepForward
<1>8. CASE SetLooping BY <1>8, <1>a DEF SetLooping
<1>9. CASE TickStarts BY <1>9, <1>a DEF TickStarts
<1>10. CASE PublishDue
  <2>1. reader' = NoReader <=> reader = NoReader
    BY <1>10, ReaderAfterFacts DEF PublishDue
  <2>2. state = "playing"
    BY <1>10 DEF PublishDue, Iterating
  <2>3. QED BY <1>10, <2>1, <2>2 DEF PublishDue
<1>11. CASE KeepPending
  <2>1. reader' = NoReader <=> reader = NoReader
    BY <1>11, ReaderAfterFacts DEF KeepPending
  <2>2. state = "playing"
    BY <1>11 DEF KeepPending, Iterating
  <2>3. QED BY <1>11, <2>1, <2>2 DEF KeepPending
<1>12. CASE Loop
  <2>1. reader' = NoReader => error'
    <3>1. bag \in Bags
      BY <1>12 DEF Loop, AtEnd, BagInv
    <3>2. SeekIndex(bag, BagStart(bag)) \in Nat \ {0}
      BY <3>1, SeekFacts
    <3>3. QED BY <1>12, <1>a, <3>2 DEF Loop, Reopen, ReopenFails
  <2>2. state = "playing"
    BY <1>12 DEF Loop, AtEnd, Iterating
  <2>3. QED BY <1>12, <2>1, <2>2 DEF Loop
<1>13. CASE Finish
  <2>1. state = "playing" /\ pending = 0 /\ reader # NoReader
    BY <1>13 DEF Finish, AtEnd, Iterating
  <2>2. QED BY <1>13, <2>1 DEF Finish
<1>14. CASE LoseReader BY <1>14, <1>a DEF LoseReader
<1>15. CASE TickFull BY <1>15, <1>a DEF TickFull
<1>16. CASE TimePasses BY <1>16, <1>a DEF TimePasses
<1>17. ASSUME NEW b \in Bags, Load(b) PROVE StateInv'
  <2>1. reader' # NoReader
    BY <1>17, <1>a DEF Load
  <2>2. QED BY <1>17, <2>1 DEF Load
<1>18. ASSUME NEW topics \in SUBSET Topics, PlayFromStart(topics) PROVE StateInv'
  <2>1. reader' # NoReader
    BY <1>18, <1>a DEF PlayFromStart
  <2>2. QED BY <1>18, <2>1 DEF PlayFromStart
<1>19. ASSUME NEW t \in 0..Horizon, Seek(t) PROVE StateInv'
  <2>1. reader' = NoReader => error'
    <3>1. bag \in Bags
      BY <1>19 DEF Seek, BagInv
    <3>2. SeekIndex(bag, t) \in Nat \ {0}
      BY <3>1, SeekFacts
    <3>3. QED BY <1>19, <1>a, <3>2 DEF Seek, Reopen, ReopenFails
  <2>2. state # "idle"
    BY <1>19 DEF Seek
  <2>3. QED BY <1>19, <2>1, <2>2 DEF Seek
<1>20. ASSUME NEW r \in Rates, SetRate(r) PROVE StateInv'
  BY <1>20, <1>a DEF SetRate
<1>21. ASSUME NEW enabled \in BOOLEAN, SetClockEnabled(enabled) PROVE StateInv'
  BY <1>21, <1>a DEF SetClockEnabled
<1>22. ASSUME NEW t \in Topics, SetTopicEnabled(t) PROVE StateInv'
  BY <1>22, <1>a DEF SetTopicEnabled
<1>23. CASE UNCHANGED vars BY <1>23, <1>a DEF vars
<1>24. QED
  BY <1>1, <1>2, <1>3, <1>4, <1>5, <1>6, <1>7, <1>8, <1>9, <1>10, <1>11, <1>12,
     <1>13, <1>14, <1>15, <1>16, <1>17, <1>18, <1>19, <1>20, <1>21, <1>22,
     <1>23 DEF Next, User, Iterate
-----------------------------------------------------------------------------
(***************************************************************************)
(* No message is lost and none is played twice.                            *)
(***************************************************************************)

\* What was passed stays so unless the reader, the filter or the pass changes;
LEMMA PassedStays ==
  UNCHANGED <<bag, reader, activeFilter, passStart>> => Passed' = Passed
  BY DEF Passed, Matching

\* the reader's next message joins it;
LEMMA PassedGrows ==
  ASSUME bag \in Bags, reader.next \in Nat, passStart <= reader.next, passStart \in Nat,
         reader.filter = activeFilter, Upcoming # {}, reader'.next = ReadNext + 1,
         UNCHANGED <<bag, activeFilter, passStart>>
  PROVE  ReadNext \notin Passed /\ Passed' = Passed \union {ReadNext}
<1>1. /\ ReadNext \in Matching(bag, activeFilter) /\ reader.next <= ReadNext
      /\ ReadNext \in Nat
      /\ \A i \in Upcoming : ReadNext <= i
  BY ReadNextFacts DEF Upcoming
<1>2. \A i \in Matching(bag, activeFilter) : i \in Nat
  BY BagFacts DEF Matching
<1>3. ReadNext \notin Passed
  BY <1>1 DEF Passed
<1>4. Passed' = {i \in Matching(bag, activeFilter) : passStart <= i /\ i < ReadNext + 1}
  BY DEF Passed, Matching
<1>5. ASSUME NEW i \in Matching(bag, activeFilter)
      PROVE  (passStart <= i /\ i < ReadNext + 1) <=>
               (passStart <= i /\ i < reader.next) \/ i = ReadNext
  <2>1. i \in Nat
    BY <1>2
  <2>2. CASE i < reader.next
    BY <1>1, <2>1, <2>2
  <2>3. CASE ~(i < reader.next)
    <3>1. ReadNext <= i
      <4>1. i \in Upcoming
        BY <2>1, <2>3 DEF Upcoming
      <4>2. QED BY <1>1, <4>1
    <3>2. QED BY <1>1, <2>1, <2>3, <3>1
  <2>4. QED BY <2>2, <2>3
<1>6. QED BY <1>1, <1>3, <1>4, <1>5 DEF Passed

\* a new pass begins with nothing passed.
LEMMA PassBegins ==
  ASSUME NEW n \in Nat, bag' \in Bags, reader'.next = n, reader'.filter = activeFilter',
         pending' = 0, BeginPass(n)
  PROVE  PassInv'
<1>1. Passed' = {}
  <2>1. \A i \in Matching(bag, activeFilter)' : i \in Nat
    BY BagFacts DEF Matching
  <2>2. \A i \in Nat : ~(passStart' <= i /\ i < reader'.next)
    BY DEF BeginPass
  <2>3. QED BY <2>1, <2>2 DEF Passed
<1>2. pass' = <<>> /\ DOMAIN pass' = {} /\ Range(pass') = {} /\ passStart' = n
  BY DEF BeginPass, Range
<1>3. QED BY <1>1, <1>2 DEF PassInv

\* Every step keeps what is known of the pass.
LEMMA PassInvStep ==
  /\ SettingTypes /\ PlaceTypes /\ HistoryTypes /\ BagInv /\ StateInv /\ PassInv
  /\ [Next]_vars
  => PassInv'
<1> SUFFICES ASSUME SettingTypes, PlaceTypes, HistoryTypes, BagInv, StateInv, PassInv,
                    [Next]_vars
             PROVE  PassInv'
  OBVIOUS
<1>a. reader \in [next : Nat, filter : SUBSET Topics] /\ passStart \in Nat /\ pass \in Seq(Nat)
  BY DEF PlaceTypes, HistoryTypes
<1>b. UNCHANGED <<bag, reader, activeFilter, passStart, pass, pending>> => PassInv'
  BY PassedStays DEF PassInv
<1> USE DEF history, playback, outputs, settings, Request, Release
<1>1. CASE Stop
  BY <1>1 DEF Stop, PassInv
<1>2. CASE LoadFails
  BY <1>2 DEF LoadFails, PassInv
<1>3. CASE PlayUnloaded BY <1>3, <1>b DEF PlayUnloaded
<1>4. CASE PlayOn BY <1>4, <1>b DEF PlayOn
<1>5. CASE Pause BY <1>5, <1>b DEF Pause
<1>6. CASE Resume BY <1>6, <1>b DEF Resume
<1>7. CASE StepForward
  <2>1. bag \in Bags /\ Upcoming # {} /\ reader # NoReader
    BY <1>7 DEF StepForward, BagInv
  <2>2. ReadNext \in Nat \ {0} /\ ReadNext + 1 \in Nat \ {0}
    BY <2>1, ReadNextFacts
  <2>3. reader'.next = ReadNext + 1 /\ reader'.filter = reader.filter
    BY <1>7, <1>a, <2>2, ReadingFacts DEF StepForward
  <2>4. ReadNext \notin Passed /\ Passed' = Passed \union {ReadNext}
    BY <1>7, <1>a, <2>1, <2>3, PassedGrows DEF StepForward, PassInv
  <2>5. /\ Range(pass') = Range(pass) \union {ReadNext}
        /\ Distinct(pass) /\ ReadNext \notin Range(pass) => Distinct(pass')
    BY <1>7, <1>a, <2>2, AppendKeepsDistinct DEF StepForward
  <2>6. passStart' <= reader'.next
    BY <1>7, <1>a, <2>1, <2>2, <2>3, ReadNextFacts DEF StepForward, PassInv, Upcoming
  <2>7. QED BY <1>7, <2>1, <2>2, <2>3, <2>4, <2>5, <2>6 DEF StepForward, PassInv, Distinct
<1>8. CASE SetLooping BY <1>8, <1>b DEF SetLooping
<1>9. CASE TickStarts BY <1>9, <1>b DEF TickStarts
<1>10. CASE PublishDue
  <2>1. /\ bag \in Bags /\ Candidate \in Nat \ {0}
        /\ reader' = ReaderAfter /\ ReaderAfter.filter = reader.filter
        /\ pending # 0 => ReaderAfter = reader
        /\ pending = 0 => /\ Candidate = ReadNext /\ Upcoming # {} /\ reader # NoReader
                          /\ ReaderAfter.next = ReadNext + 1
        /\ ReaderAfter = NoReader <=> reader = NoReader
    BY <1>10, CandidateFacts, ReaderAfterFacts DEF PublishDue
  <2>2. /\ Range(pass') = Range(pass) \union {Candidate}
        /\ Distinct(pass) /\ Candidate \notin Range(pass) => Distinct(pass')
    BY <1>10, <1>a, <2>1, AppendKeepsDistinct DEF PublishDue
  <2>3. CASE pending # 0
    <3>1. Candidate = pending /\ reader' = reader /\ pending' = 0 /\ 0 \notin Passed
      BY <1>10, <2>1, <2>3, BagFacts DEF PublishDue, Candidate, Passed, Matching
    <3>2. Passed' = Passed
      BY <1>10, <3>1, PassedStays DEF PublishDue
    <3>3. QED BY <1>10, <2>2, <2>3, <3>1, <3>2 DEF PublishDue, PassInv, Distinct
  <2>4. CASE pending = 0
    <3>1. ReadNext \notin Passed /\ Passed' = Passed \union {ReadNext}
      BY <1>10, <1>a, <2>1, <2>4, PassedGrows DEF PublishDue, PassInv
    <3>2. passStart' <= reader'.next
      BY <1>10, <1>a, <2>1, <2>4, ReadNextFacts DEF PublishDue, PassInv, Upcoming
    <3>3. 0 \notin Passed'
      BY <2>1, <2>4, <3>1, BagFacts DEF Passed, Matching
    <3>4. QED BY <1>10, <2>1, <2>2, <2>4, <3>1, <3>2, <3>3 DEF PublishDue, PassInv, Distinct
  <2>5. QED BY <2>3, <2>4
<1>11. CASE KeepPending
  <2>1. /\ bag \in Bags /\ Candidate \in Nat \ {0} /\ pending' = Candidate
        /\ reader' = ReaderAfter /\ ReaderAfter.filter = reader.filter
        /\ pending # 0 => ReaderAfter = reader /\ Candidate = pending
        /\ pending = 0 => /\ Candidate = ReadNext /\ Upcoming # {} /\ reader # NoReader
                          /\ ReaderAfter.next = ReadNext + 1
    BY <1>11, CandidateFacts, ReaderAfterFacts DEF KeepPending, Candidate
  <2>2. CASE pending # 0
    BY <1>11, <1>b, <2>1, <2>2 DEF KeepPending
  <2>3. CASE pending = 0
    <3>1. ReadNext \notin Passed /\ Passed' = Passed \union {ReadNext}
      BY <1>11, <1>a, <2>1, <2>3, PassedGrows DEF KeepPending, PassInv
    <3>2. passStart' <= reader'.next
      BY <1>11, <1>a, <2>1, <2>3, ReadNextFacts DEF KeepPending, PassInv, Upcoming
    <3>3. 0 \notin Passed
      BY <2>1, BagFacts DEF Passed, Matching
    <3>4. QED BY <1>11, <2>1, <2>3, <3>1, <3>2, <3>3 DEF KeepPending, PassInv
  <2>4. QED BY <2>2, <2>3
<1>12. CASE Loop
  <2>1. CASE Reopen(BagStart(bag))
    <3>1. bag' \in Bags /\ SeekIndex(bag, BagStart(bag)) = 1
      BY <1>12, SeekFacts DEF Loop, AtEnd, BagInv
    <3>2. QED BY <1>12, <2>1, <3>1, PassBegins DEF Loop, Reopen, AtEnd
  <2>2. CASE ReopenFails
    BY <2>2 DEF ReopenFails, PassInv
  <2>3. QED BY <1>12, <2>1, <2>2 DEF Loop
<1>13. CASE Finish BY <1>13, <1>b DEF Finish
<1>14. CASE LoseReader BY <1>14, <1>b DEF LoseReader
<1>15. CASE TickFull BY <1>15, <1>b DEF TickFull
<1>16. CASE TimePasses BY <1>16, <1>b DEF TimePasses
<1>17. ASSUME NEW b \in Bags, Load(b) PROVE PassInv'
  BY <1>17, PassBegins DEF Load
<1>18. ASSUME NEW topics \in SUBSET Topics, PlayFromStart(topics) PROVE PassInv'
  <2>1. pending' = 0
    BY <1>18 DEF PlayFromStart, StateInv, PendingOnlyInPlayback
  <2>2. bag' \in Bags
    BY <1>18 DEF PlayFromStart, BagInv
  <2>3. QED BY <1>18, <2>1, <2>2, PassBegins DEF PlayFromStart
<1>19. ASSUME NEW t \in 0..Horizon, Seek(t) PROVE PassInv'
  <2>1. CASE Reopen(t)
    <3>1. bag' \in Bags /\ SeekIndex(bag, t) \in Nat
      BY <1>19, SeekFacts DEF Seek, BagInv
    <3>2. QED BY <1>19, <2>1, <3>1, PassBegins DEF Seek, Reopen
  <2>2. CASE ReopenFails
    BY <2>2 DEF ReopenFails, PassInv
  <2>3. QED BY <1>19, <2>1, <2>2 DEF Seek
<1>20. ASSUME NEW r \in Rates, SetRate(r) PROVE PassInv'
  BY <1>20, <1>b DEF SetRate
<1>21. ASSUME NEW enabled \in BOOLEAN, SetClockEnabled(enabled) PROVE PassInv'
  BY <1>21, <1>b DEF SetClockEnabled
<1>22. ASSUME NEW t \in Topics, SetTopicEnabled(t) PROVE PassInv'
  BY <1>22, <1>b DEF SetTopicEnabled
<1>23. CASE UNCHANGED vars BY <1>23, <1>b DEF vars
<1>24. QED
  BY <1>1, <1>2, <1>3, <1>4, <1>5, <1>6, <1>7, <1>8, <1>9, <1>10, <1>11, <1>12,
     <1>13, <1>14, <1>15, <1>16, <1>17, <1>18, <1>19, <1>20, <1>21, <1>22,
     <1>23 DEF Next, User, Iterate
-----------------------------------------------------------------------------
(***************************************************************************)
(* No message is played too early.                                         *)
(***************************************************************************)

\* What products of naturals do, for the provers take each of them to be new.
LEMMA Products ==
  \A a, b, c \in Nat :
    /\ a * b \in Nat /\ 0 * b = 0
    /\ (a + 1) * b = a * b + b
    /\ (a + b) * c = a * c + b * c
    /\ a <= b => a * c <= b * c
  OBVIOUS

\* No rate makes a message earlier than the greatest.
LEMMA RateFacts ==
  /\ MaxEarly \in Nat
  /\ \A r \in Rates : r \in Nat \ {0} /\ SmallGap * r <= MaxEarly
<1>1. Rates \in SUBSET Nat /\ IsFiniteSet(Rates) /\ Rates # {} /\ SmallGap \in Nat
  BY RatesAssumption, BoundsAssumption
<1>2. \E r \in Rates : \A s \in Rates : s <= r
  BY <1>1, GreatestElement DEF HasGreatest
<1> DEFINE greatest == CHOOSE r \in Rates : \A s \in Rates : s <= r
<1>3. greatest \in Rates /\ \A s \in Rates : s <= greatest
  BY <1>2
<1> HIDE DEF greatest
<1>4. SmallGap * greatest \in Nat /\ \A r \in Rates : SmallGap * r <= SmallGap * greatest
  <2>1. \A r \in Rates : r * SmallGap <= greatest * SmallGap
    BY <1>1, <1>3, Products
  <2>2. \A r \in Rates : r * SmallGap = SmallGap * r
    BY <1>1
  <2>3. greatest * SmallGap = SmallGap * greatest
    BY <1>1, <1>3
  <2>4. QED BY <1>1, <1>3, <2>1, <2>2, <2>3, Products
<1>5. MaxEarly = SmallGap * greatest
  BY DEF MaxEarly, greatest
<1>6. QED BY <1>4, <1>5, RatesAssumption

\* A run begins even with the clock.
LEMMA PaceBegins ==
  ASSUME position' \in Nat, BeginRun(position'), Running' = 0
  PROVE  PaceInv'
<1>1. pace'.base = position' /\ pace'.played = 0 /\ pace'.timed = 0
  BY DEF BeginRun
<1>2. pace'.timed * MaxEarly' = 0 /\ MaxEarly' = MaxEarly
  BY <1>1, RateFacts, Products DEF MaxEarly
<1>3. QED BY <1>1, <1>2 DEF PaceInv

\* Without a message a run stays as it is when less time is accounted for.
LEMMA PaceStays ==
  ASSUME HistoryTypes, position \in Nat, PaceInv, UNCHANGED <<position, pace>>,
         Running \in Nat, Running' \in Nat, Running' <= Running
  PROVE  PaceInv'
<1>1. MaxEarly' = MaxEarly
  BY DEF MaxEarly
<1>2. pace.timed * MaxEarly \in Nat /\ pace.base \in Nat /\ pace.played \in Int
  BY RateFacts, Products DEF HistoryTypes
<1>3. QED BY <1>1, <1>2 DEF PaceInv

\* Every step keeps the pace.
LEMMA PaceInvStep ==
  /\ SettingTypes /\ PlaceTypes /\ HistoryTypes /\ BagInv /\ StateInv /\ PaceInv
  /\ [Next]_vars
  => PaceInv'
<1> SUFFICES ASSUME SettingTypes, PlaceTypes, HistoryTypes, BagInv, StateInv, PaceInv,
                    [Next]_vars
             PROVE  PaceInv'
  OBVIOUS
<1>a. rate \in Nat /\ elapsed \in Nat /\ Running \in Nat /\ position \in Nat
  <2>1. rate \in Nat /\ elapsed \in Nat /\ position \in Nat
    BY RateFacts DEF SettingTypes, PlaceTypes
  <2>2. QED BY <2>1, Products DEF Running
<1>b. position' \in Nat
  BY PlaceTypesStep DEF PlaceTypes
<1>c. UNCHANGED <<state, elapsed, rate, position, pace>> => PaceInv'
  BY <1>a, PaceStays DEF Running
<1>d. /\ state' # "playing" => Running' = 0
      /\ elapsed' = 0 /\ rate' \in Nat => Running' = 0
  BY Products DEF Running
<1> USE DEF history, playback, outputs, settings, Request, Release
<1>1. CASE Stop BY <1>1, <1>a, <1>b, <1>c, <1>d, PaceBegins DEF Stop
<1>2. CASE LoadFails BY <1>2, <1>a, <1>b, <1>c, <1>d, PaceBegins DEF LoadFails
<1>3. CASE PlayUnloaded BY <1>3, <1>a, <1>b, <1>c, <1>d DEF PlayUnloaded
<1>4. CASE PlayOn BY <1>4, <1>a, <1>b, <1>c, <1>d, PaceStays DEF PlayOn
<1>5. CASE Pause BY <1>5, <1>a, <1>b, <1>c, <1>d, PaceStays DEF Pause
<1>6. CASE Resume BY <1>6, <1>a, <1>b, <1>c, <1>d, PaceStays DEF Resume
<1>7. CASE StepForward
  <2>1. state' # "playing" /\ BeginRun(position')
    BY <1>7 DEF StepForward
  <2>2. QED BY <2>1, <1>b, <1>d, PaceBegins
<1>8. CASE SetLooping BY <1>8, <1>a, <1>b, <1>c, <1>d DEF SetLooping
<1>9. CASE TickStarts BY <1>9, <1>a, <1>b, <1>c, <1>d DEF TickStarts
<1>10. CASE PublishDue
  <2>1. state = "playing" /\ state' = "playing" /\ elapsed' = 0 /\ rate' = rate
    BY <1>10 DEF PublishDue, Iterating, StateInv
  <2>2. Running = elapsed * rate /\ Running' = 0
    BY <2>1, <1>a, <1>d DEF Running
  <2>3. CASE first
    BY <1>10, <2>2, <2>3, <1>b, PaceBegins DEF PublishDue
  <2>4. CASE ~first
    <3>1. /\ position' = At(Candidate) /\ pace'.base = pace.base
          /\ pace'.played = pace.played /\ pace'.timed = pace.timed + 1
      BY <1>10, <2>4 DEF PublishDue, HistoryTypes
    <3>2. (pace.timed + 1) * MaxEarly = pace.timed * MaxEarly + MaxEarly
      BY RateFacts, Products DEF HistoryTypes
    <3>3. /\ MaxEarly' = MaxEarly /\ MaxEarly \in Nat /\ pace.timed * MaxEarly \in Nat
          /\ pace.base \in Nat /\ pace.played \in Nat
      BY RateFacts, Products, BoundsAssumption DEF MaxEarly, HistoryTypes
    <3>4. At(Candidate) - position <= Running + MaxEarly
      <4>1. (elapsed + SmallGap) * rate = elapsed * rate + SmallGap * rate
        BY <1>a, BoundsAssumption, Products
      <4>2. SmallGap * rate <= MaxEarly /\ SmallGap * rate \in Nat
        BY <1>a, RateFacts, BoundsAssumption, Products DEF SettingTypes
      <4>3. \/ At(Candidate) <= position
            \/ At(Candidate) - position <= elapsed * rate + SmallGap * rate
        BY <1>10, <2>4, <4>1 DEF PublishDue, Due
      <4>4. At(Candidate) \in Nat
        BY <1>10, CandidateFacts DEF PublishDue
      <4>5. QED BY <1>a, <2>2, <3>3, <4>2, <4>3, <4>4
    <3>5. QED
      BY <1>a, <1>b, <2>2, <3>1, <3>2, <3>3, <3>4 DEF PaceInv
  <2>5. QED BY <2>3, <2>4
<1>11. CASE KeepPending BY <1>11, <1>a, <1>b, <1>c, <1>d DEF KeepPending
<1>12. CASE Loop BY <1>12, <1>a, <1>b, <1>c, <1>d, PaceBegins DEF Loop
<1>13. CASE Finish BY <1>13, <1>a, <1>b, <1>c, <1>d, PaceStays DEF Finish
<1>14. CASE LoseReader BY <1>14, <1>a, <1>b, <1>c, <1>d, PaceStays DEF LoseReader
<1>15. CASE TickFull BY <1>15, <1>a, <1>b, <1>c, <1>d DEF TickFull
<1>16. CASE TimePasses
  <2>1. /\ pace'.base = pace.base /\ pace'.timed = pace.timed /\ position' = position
        /\ MaxEarly' = MaxEarly /\ state' = state /\ rate' = rate
        /\ pace'.played = IF state = "playing" THEN Least(pace.played + rate, Horizon)
                          ELSE pace.played
    BY <1>16 DEF TimePasses, HistoryTypes, MaxEarly
  <2>2. /\ MaxEarly \in Nat /\ pace.timed * MaxEarly \in Nat /\ pace.base \in Nat
        /\ pace.played \in Nat /\ pace.played <= Horizon /\ Horizon \in Nat
    BY RateFacts, Products, BoundsAssumption DEF HistoryTypes
  <2>3. CASE state # "playing"
    BY <2>1, <2>2, <2>3, <1>a, <1>d DEF PaceInv, Running
  <2>4. CASE state = "playing"
    <3>1. CASE pace.played + rate >= Horizon
      BY <2>1, <2>2, <2>4, <3>1, <1>a DEF PaceInv, Least
    <3>2. CASE ~(pace.played + rate >= Horizon)
      <4>1. pace'.played = pace.played + rate /\ pace.played # Horizon
        BY <2>1, <2>2, <2>4, <3>2, <1>a DEF Least
      <4>2. Running' <= Running + rate /\ Running' \in Nat
        <5>1. elapsed' \in Nat /\ elapsed' <= elapsed + 1
          BY <1>16, <1>a, BoundsAssumption DEF TimePasses, Least
        <5>2. elapsed' * rate <= (elapsed + 1) * rate /\ elapsed' * rate \in Nat
          <6>1. elapsed + 1 \in Nat /\ rate \in Nat
            BY <1>a
          <6>2. QED BY <5>1, <6>1, Products, Zenon
        <5>3. (elapsed + 1) * rate = elapsed * rate + rate
          BY <1>a, Products
        <5>4. QED BY <5>2, <5>3, <2>1, <2>4, <1>a DEF Running
      <4>3. QED BY <2>1, <2>2, <4>1, <4>2, <1>a DEF PaceInv
    <3>3. QED BY <3>1, <3>2
  <2>5. QED BY <2>3, <2>4
<1>17. ASSUME NEW b \in Bags, Load(b) PROVE PaceInv'
  BY <1>17, <1>a, <1>b, <1>c, <1>d, PaceBegins DEF Load
<1>18. ASSUME NEW topics \in SUBSET Topics, PlayFromStart(topics) PROVE PaceInv'
  BY <1>18, <1>a, <1>b, <1>c, <1>d, PaceBegins DEF PlayFromStart
<1>19. ASSUME NEW t \in 0..Horizon, Seek(t) PROVE PaceInv'
  BY <1>19, <1>a, <1>b, <1>c, <1>d, PaceBegins DEF Seek
<1>20. ASSUME NEW r \in Rates, SetRate(r) PROVE PaceInv'
  <2>1. rate' \in Nat
    BY <1>20, RateFacts DEF SetRate
  <2>2. Running' = 0
    BY <1>20, <2>1, <1>d DEF SetRate
  <2>3. QED BY <1>20, <2>2, <1>a, PaceStays DEF SetRate
<1>21. ASSUME NEW enabled \in BOOLEAN, SetClockEnabled(enabled) PROVE PaceInv'
  BY <1>21, <1>a, <1>b, <1>c, <1>d DEF SetClockEnabled
<1>22. ASSUME NEW t \in Topics, SetTopicEnabled(t) PROVE PaceInv'
  BY <1>22, <1>a, <1>b, <1>c, <1>d DEF SetTopicEnabled
<1>23. CASE UNCHANGED vars BY <1>23, <1>a, <1>b, <1>c, <1>d DEF vars
<1>24. QED
  BY <1>1, <1>2, <1>3, <1>4, <1>5, <1>6, <1>7, <1>8, <1>9, <1>10, <1>11, <1>12,
     <1>13, <1>14, <1>15, <1>16, <1>17, <1>18, <1>19, <1>20, <1>21, <1>22,
     <1>23 DEF Next, User, Iterate
-----------------------------------------------------------------------------
(***************************************************************************)
(* The inductive invariant and the theorems.                               *)
(***************************************************************************)

PlayerInv ==
  /\ SettingTypes /\ PlaceTypes /\ HistoryTypes /\ BagInv /\ StateInv /\ PassInv
  /\ PaceInv

\* The invariant holds of a new player,
LEMMA InitEstablishesPlayerInv == Init => PlayerInv
<1> SUFFICES ASSUME Init PROVE PlayerInv
  OBVIOUS
<1>1. SettingTypes
  BY DEF Init, SettingTypes, States
<1>2. PlaceTypes
  <2>1. /\ 0 \in 0..Horizon /\ 0 \in 0..MaxRequests /\ -1 \in -1..MaxPerTick
        /\ NoReader \in [next : Nat, filter : SUBSET Topics]
    BY BoundsAssumption DEF NoReader
  <2>2. QED BY <2>1 DEF Init, PlaceTypes
<1>3. HistoryTypes
  BY BoundsAssumption, EmptySeq DEF Init, HistoryTypes
<1>4. BagInv
  BY BoundsAssumption DEF Init, BagInv
<1>5. StateInv
  BY DEF Init, StateInv, PendingOnlyInPlayback, TimerMatchesState, LostBagIsReported
<1>6. PassInv
  BY DEF Init, PassInv
<1>7. PaceInv
  <2>1. pace.timed * MaxEarly = 0
    BY RateFacts, Products DEF Init
  <2>2. QED BY <2>1 DEF Init, PaceInv, Running
<1>8. QED BY <1>1, <1>2, <1>3, <1>4, <1>5, <1>6, <1>7 DEF PlayerInv

\* and is kept by every step.
LEMMA PlayerInvHolds == Spec => []PlayerInv
<1>1. PlayerInv /\ [Next]_vars => PlayerInv'
  BY SettingTypesStep, PlaceTypesStep, HistoryTypesStep, BagInvStep, StateInvStep,
     PassInvStep, PaceInvStep DEF PlayerInv
<1>2. QED BY InitEstablishesPlayerInv, <1>1, PTL DEF Spec

\* Whatever is called in whatever order, the panel shows what the engine does: the timer
\* runs exactly while it says "playing", nothing is left over from one playback to the
\* next, and a lost bag is reported (BagPlayerEngine).
THEOREM PanelAlwaysTrue == Spec => []StateIsTrue
<1>1. PlayerInv => StateIsTrue
  <2>1. SettingTypes /\ PlaceTypes /\ HistoryTypes => TypeOK
    BY DEF SettingTypes, PlaceTypes, HistoryTypes, TypeOK
  <2>2. StateInv => /\ PendingOnlyInPlayback /\ TimerMatchesState /\ LostBagIsReported
                    /\ ClockIsPublished
    BY DEF StateInv, ClockIsPublished
  <2>3. QED BY <2>1, <2>2 DEF PlayerInv, StateIsTrue
<1>2. QED BY <1>1, PlayerInvHolds, PTL

\* No message that passes the filter is lost and none is played twice, through any
\* order of pauses, steps, seeks, loops and reopenings (onPlaybackTick and
\* publishNextMessage share the reader and pendingMsg_).
THEOREM MessagesPlayedOnce == Spec => []EveryMessageOnce
<1>1. PlayerInv => EveryMessageOnce
  BY DEF PlayerInv, PassInv, EveryMessageOnce
<1>2. QED BY <1>1, PlayerInvHolds, PTL

\* The bag is never ahead of the clock by more than the small gap of each message, at any
\* rate and whatever is paused or changed (setRate and resume move the anchor).
THEOREM NeverTooEarly == Spec => []NeverEarly
<1>1. PlayerInv => NeverEarly
  <2> SUFFICES ASSUME PlayerInv PROVE NeverEarly
    OBVIOUS
  <2>1. /\ pace.timed * MaxEarly \in Nat /\ pace.base \in Nat /\ pace.played \in Nat
        /\ position \in Nat /\ position <= Horizon /\ Horizon \in Nat
    BY RateFacts, Products, BoundsAssumption
    DEF PlayerInv, HistoryTypes, PlaceTypes, BagInv
  <2>2. Running \in Nat
    <3>1. rate \in Nat /\ elapsed \in Nat
      BY RateFacts DEF PlayerInv, SettingTypes, PlaceTypes
    <3>2. QED BY <3>1, Products DEF Running
  <2>3. QED BY <2>1, <2>2 DEF PlayerInv, PaceInv, NeverEarly
<1>2. QED BY <1>1, PlayerInvHolds, PTL
===============================================================================
