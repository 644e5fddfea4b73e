------------------------------ MODULE BagPlayer ------------------------------
(***************************************************************************)
(* BagPlayerEngine (bag_player_engine.cpp): the playback of a bag from the *)
(* GUI thread, driven by a timer.  A reader hands out the messages of the  *)
(* bag; the timer publishes those that are due and keeps the one it has    *)
(* read too early in pendingMsg_.                                          *)
(*                                                                         *)
(* A tick of the timer is one call on the GUI thread, so no request runs   *)
(* between its iterations, only time passes.  Time has the unit of the     *)
(* bags' time stamps.  lastMsgBagTimeNs_ equals currentBagTimeNs_ whenever *)
(* the timer runs, so position stands for both.                            *)
(***************************************************************************)
EXTENDS Integers, Sequences, SequencesExt, FiniteSets

CONSTANTS
  Bags,         \* the bags on the disk
  Messages,     \* the messages of a bag in the order of their time stamps
  Topics,       \* the topics of the messages
  Rates,        \* the playback rates
  SmallGap,     \* a message is published this much too early (5 ms)
  MaxPerTick,   \* the messages of one tick (maxPerTick)
  Horizon,      \* bound: measured time spans end here, and no bag goes on longer
  MaxRequests,  \* bound: the requests of the user
  NoBag

ASSUME MessagesAssumption ==
  Messages \in [Bags -> Seq([time : Nat, topic : Topics])]
ASSUME OrderAssumption == \A b \in Bags : \A i, j \in DOMAIN Messages[b] :
  i < j => Messages[b][i].time <= Messages[b][j].time
ASSUME RatesAssumption ==
  Rates \subseteq Nat \ {0} /\ Rates # {} /\ IsFiniteSet(Rates)
ASSUME BoundsAssumption ==
  /\ SmallGap \in Nat /\ MaxPerTick \in Nat \ {0}
  /\ Horizon \in Nat /\ MaxRequests \in Nat
ASSUME NoBagAssumption == NoBag \notin Bags
ASSUME HorizonAssumption ==
  \A b \in Bags : \A i \in DOMAIN Messages[b] : Messages[b][i].time <= Horizon

VARIABLES
  state,           \* state_ (the state "loading" is over within load())
  bag,             \* bagPath_ and the metadata of the bag
  reader,          \* reader_: the next message and the filter
  pending,         \* pendingMsg_: its index, or 0
  first,           \* firstMessage_
  position,        \* currentBagTimeNs_
  elapsed,         \* the time since wallTimeAtLastMsg_
  rate,            \* rate_
  looping,         \* looping_
  activeFilter,    \* activeFilter_
  clockEnabled,    \* clockEnabled_
  clockPublisher,  \* whether clockPublisher_ exists
  publishers,      \* the topics in publishers_
  disabledTopics,  \* disabledTopics_
  timer,           \* whether playbackTimer_ is active
  error,           \* whether errorMessage_ says something
  published,       \* in a tick: the messages it has published; otherwise -1
  requests,        \* the requests so far
  pass,            \* history: the messages taken since the last seek
  passStart,       \* history: where that pass began
  pace             \* history: bag time, playing time and messages of a run

playback == <<reader, pending, first, position, elapsed, timer>>
outputs == <<publishers, clockPublisher>>
settings == <<rate, looping, clockEnabled, disabledTopics>>
history == <<pass, passStart, pace>>
vars == <<state, bag, playback, outputs, settings, activeFilter, error,
          published, requests, history>>

NoReader == [next |-> 0, filter |-> {}]
-----------------------------------------------------------------------------
(***************************************************************************)
(* The bag and its reader (rosbag2_cpp::Reader).                           *)
(***************************************************************************)

At(i) == Messages[bag][i].time
BagStart(b) == IF b = NoBag \/ Messages[b] = <<>> THEN 0 ELSE Messages[b][1].time
BagEnd(b) == IF b = NoBag \/ Messages[b] = <<>> THEN 0 ELSE Last(Messages[b]).time
BagTopics(b) == {Messages[b][i].topic : i \in DOMAIN Messages[b]}

\* The messages that pass a filter; an empty filter passes all of them.
Matching(b, filter) ==
  {i \in DOMAIN Messages[b] : filter = {} \/ Messages[b][i].topic \in filter}

\* seek(): the first message that is not before t.
SeekIndex(b, t) == 1 + Cardinality({i \in DOMAIN Messages[b] : Messages[b][i].time < t})

\* What the reader has left; read_next() returns the least of it.
Upcoming == {i \in Matching(bag, reader.filter) : i >= reader.next}
ReadNext == CHOOSE i \in Upcoming : \A j \in Upcoming : i <= j

Least(a, b) == IF a < b THEN a ELSE b

\* A pass begins at index i; a run begins at bag time t.
BeginPass(i) == pass' = <<>> /\ passStart' = i
BeginRun(t) == pace' = [base |-> t, played |-> 0, timed |-> 0]

Request == published = -1 /\ requests < MaxRequests /\ requests' = requests + 1

Init ==
  /\ state = "idle" /\ bag = NoBag /\ reader = NoReader
  /\ pending = 0 /\ first = TRUE /\ position = 0 /\ elapsed = 0
  /\ rate \in Rates /\ looping = FALSE /\ activeFilter = {}
  /\ clockEnabled = FALSE /\ clockPublisher = FALSE
  /\ publishers = {} /\ disabledTopics = {}
  /\ timer = FALSE /\ error = FALSE /\ published = -1 /\ requests = 0
  /\ pass = <<>> /\ passStart = 1 /\ pace = [base |-> 0, played |-> 0, timed |-> 0]
-----------------------------------------------------------------------------
(***************************************************************************)
(* Stop and load.                                                          *)
(***************************************************************************)

DestroyPublishers == publishers' = {} /\ clockPublisher' = FALSE

\* Fault: stop() keeps the message the timer has read.
ReleaseKeepsPending ==
  /\ timer' = FALSE /\ UNCHANGED pending /\ first' = TRUE
  /\ activeFilter' = {} /\ disabledTopics' = {}
  /\ DestroyPublishers

\* What stop() lets go of.
Release ==
  /\ timer' = FALSE /\ pending' = 0 /\ first' = TRUE
  /\ activeFilter' = {} /\ disabledTopics' = {}
  /\ DestroyPublishers

Stop ==
  /\ Request /\ Release
  /\ reader' = NoReader /\ position' = BagStart(bag) /\ state' = "idle"
  /\ BeginPass(1) /\ BeginRun(position')
  /\ UNCHANGED <<bag, elapsed, rate, looping, clockEnabled, error, published>>

\* The path is no directory, or the bag cannot be opened: bagPath_ stays.
LoadFails ==
  /\ Request /\ Release
  /\ reader' = NoReader /\ position' = BagStart(bag) /\ state' = "idle"
  /\ error' = TRUE
  /\ BeginPass(1) /\ BeginRun(position')
  /\ UNCHANGED <<bag, elapsed, rate, looping, clockEnabled, published>>

Load(b) ==
  /\ Request /\ Release
  /\ bag' = b /\ reader' = [next |-> 1, filter |-> {}]
  /\ position' = BagStart(b) /\ state' = "loaded" /\ error' = FALSE
  /\ BeginPass(1) /\ BeginRun(position')
  /\ UNCHANGED <<elapsed, rate, looping, clockEnabled, published>>
-----------------------------------------------------------------------------
(***************************************************************************)
(* Play, pause, resume, seek, step and the settings.                       *)
(***************************************************************************)

\* createPublishers(): one for every topic of the bag that the filter names, or
\* for all of them; one that cannot be made is left out, which is not modelled.
PublishersOf(topics) == {t \in BagTopics(bag) : topics = {} \/ t \in topics}

PlayUnloaded ==
  /\ Request /\ reader = NoReader
  /\ error' = TRUE
  /\ UNCHANGED <<state, bag, playback, outputs, settings, activeFilter,
                 published, history>>

\* From "loaded" or "finished": the filter, the publishers, and the start of
\* the bag, whatever was sought before.
PlayFromStart(topics) ==
  /\ Request /\ reader # NoReader /\ state \in {"loaded", "finished"}
  /\ activeFilter' = topics
  /\ reader' = [next |-> 1, filter |-> topics]
  /\ publishers' = PublishersOf(topics)
  /\ clockPublisher' = clockEnabled
  /\ position' = BagStart(bag) /\ first' = TRUE /\ elapsed' = 0
  /\ timer' = TRUE /\ state' = "playing"
  /\ BeginPass(1) /\ BeginRun(position')
  /\ UNCHANGED <<bag, pending, settings, error, published>>

\* From "paused" play() resumes, and makes the clock publisher.
PlayOn ==
  /\ Request /\ reader # NoReader /\ state = "paused"
  /\ clockPublisher' = (clockPublisher \/ clockEnabled)
  /\ elapsed' = 0 /\ timer' = TRUE /\ state' = "playing"
  /\ UNCHANGED <<bag, reader, pending, first, position, publishers, settings,
                 activeFilter, error, published, history>>

Pause ==
  /\ Request /\ state = "playing"
  /\ timer' = FALSE /\ state' = "paused"
  /\ UNCHANGED <<bag, reader, pending, first, position, elapsed, outputs,
                 settings, activeFilter, error, published, history>>

\* Fault: the timer is not started again.
ResumeNoTimer ==
  /\ Request /\ state = "paused"
  /\ elapsed' = 0 /\ state' = "playing"
  /\ UNCHANGED <<bag, reader, pending, first, position, timer, outputs,
                 settings, activeFilter, error, published, history>>

Resume ==
  /\ Request /\ state = "paused"
  /\ elapsed' = 0 /\ timer' = TRUE /\ state' = "playing"
  /\ UNCHANGED <<bag, reader, pending, first, position, outputs, settings,
                 activeFilter, error, published, history>>

\* Fault: the new reader has no filter.
ReopenUnfiltered(t) ==
  /\ reader' = [next |-> SeekIndex(bag, t), filter |-> {}]
  /\ UNCHANGED error

\* reopenAndSeek(): a new reader at time t with the active filter ...
Reopen(t) ==
  /\ reader' = [next |-> SeekIndex(bag, t), filter |-> activeFilter]
  /\ UNCHANGED error

\* ... or none, when the bag cannot be opened again.
ReopenFails == reader' = NoReader /\ error' = TRUE

Seek(t) ==
  /\ Request /\ ~(reader = NoReader /\ state = "idle")
  /\ t \in BagStart(bag)..BagEnd(bag)
  /\ pending' = 0
  /\ Reopen(t) \/ ReopenFails
  /\ position' = t /\ elapsed' = 0 /\ first' = TRUE
  /\ BeginPass(SeekIndex(bag, t)) /\ BeginRun(t)
  /\ UNCHANGED <<state, bag, timer, outputs, settings, activeFilter, published>>

\* publishNextMessage(): the message comes from the reader, not from pending.
StepForward ==
  /\ Request /\ state \in {"paused", "loaded"} /\ reader # NoReader
  /\ Upcoming # {}
  /\ reader' = [reader EXCEPT !.next = ReadNext + 1]
  /\ position' = At(ReadNext)
  /\ pass' = Append(pass, ReadNext) /\ BeginRun(position')
  /\ UNCHANGED <<state, bag, pending, first, elapsed, timer, outputs, settings,
                 activeFilter, error, published, passStart>>

\* Fault: the time since the last message counts at the new rate.
SetRateNoAnchor(r) ==
  /\ Request /\ r # rate
  /\ rate' = r
  /\ UNCHANGED <<state, bag, playback, outputs, looping, clockEnabled,
                 disabledTopics, activeFilter, error, published, history>>

\* The anchor moves to now, so that the new rate holds from here on.
SetRate(r) ==
  /\ Request /\ r # rate
  /\ rate' = r
  /\ elapsed' = IF state = "playing" THEN 0 ELSE elapsed
  /\ UNCHANGED <<state, bag, reader, pending, first, position, timer, outputs,
                 looping, clockEnabled, disabledTopics, activeFilter, error,
                 published, history>>

SetLooping ==
  /\ Request /\ looping' = ~looping
  /\ UNCHANGED <<state, bag, playback, outputs, rate, clockEnabled,
                 disabledTopics, activeFilter, error, published, history>>

\* ensureNode() makes the node with the first publishers, and nothing takes it
\* away: before the first playback it is missing, or there from a bag before.
NodeMayBeMissing == state \in {"idle", "loaded"}

\* Without a node there is nothing to make a publisher of.
SetClockEnabled(enabled) ==
  /\ Request /\ enabled # clockEnabled
  /\ clockEnabled' = enabled
  /\ \/ clockPublisher' = (clockPublisher \/ enabled)
     \/ NodeMayBeMissing /\ UNCHANGED clockPublisher
  /\ UNCHANGED <<state, bag, playback, publishers, rate, looping,
                 disabledTopics, activeFilter, error, published, history>>

SetTopicEnabled(t) ==
  /\ Request
  /\ disabledTopics' \in {disabledTopics \ {t}, disabledTopics \union {t}}
  /\ UNCHANGED <<state, bag, playback, outputs, rate, looping, clockEnabled,
                 activeFilter, error, published, history>>
-----------------------------------------------------------------------------
(***************************************************************************)
(* The timer (onPlaybackTick).                                             *)
(***************************************************************************)

\* Without a reader the tick returns at once.
TickStarts ==
  /\ published = -1 /\ timer /\ reader # NoReader
  /\ published' = 0
  /\ UNCHANGED <<state, bag, playback, outputs, settings, activeFilter, error,
                 requests, history>>

Iterating == published >= 0 /\ published < MaxPerTick

\* The message of this iteration: the pending one, or else the reader's next.
Candidates == IF pending # 0 THEN {pending} ELSE IF reader = NoReader THEN {} ELSE Upcoming
Candidate == IF pending # 0 THEN pending ELSE ReadNext
ReaderAfter ==
  IF pending # 0 THEN reader ELSE [reader EXCEPT !.next = ReadNext + 1]

\* The time to the message has passed, but for a small gap; a message from
\* before the anchor is always due.
Due(i) == first \/ At(i) <= position \/ At(i) - position <= (elapsed + SmallGap) * rate

\* The message is taken, and the anchor moves to it.
PublishDue ==
  /\ Iterating /\ Candidates # {} /\ Due(Candidate)
  /\ reader' = ReaderAfter /\ pending' = 0
  /\ position' = At(Candidate) /\ elapsed' = 0 /\ first' = FALSE
  /\ published' = published + 1
  /\ pass' = Append(pass, Candidate)
  /\ IF first THEN BeginRun(position')
     ELSE pace' = [pace EXCEPT !.timed = @ + 1]
  /\ UNCHANGED <<state, bag, timer, outputs, settings, activeFilter, error,
                 requests, passStart>>

\* The message is too early: it is kept, and the tick ends.
KeepPending ==
  /\ Iterating /\ Candidates # {} /\ ~Due(Candidate)
  /\ reader' = ReaderAfter /\ pending' = Candidate
  /\ published' = -1
  /\ UNCHANGED <<state, bag, first, position, elapsed, timer, outputs,
                 settings, activeFilter, error, requests, history>>

AtEnd == Iterating /\ pending = 0 /\ reader # NoReader /\ Upcoming = {}

Loop ==
  /\ AtEnd /\ looping
  /\ Reopen(BagStart(bag)) \/ ReopenFails
  /\ position' = BagStart(bag) /\ elapsed' = 0 /\ first' = TRUE
  /\ BeginPass(1) /\ BeginRun(position')
  /\ UNCHANGED <<state, bag, pending, timer, outputs, settings, activeFilter,
                 published, requests>>

Finish ==
  /\ AtEnd /\ ~looping
  /\ timer' = FALSE /\ state' = "finished" /\ published' = -1
  /\ UNCHANGED <<bag, reader, pending, first, position, elapsed, outputs,
                 settings, activeFilter, error, requests, history>>

\* The bag could not be opened again at its end.
LoseReader ==
  /\ Iterating /\ pending = 0 /\ reader = NoReader
  /\ timer' = FALSE /\ state' = "idle" /\ published' = -1
  /\ UNCHANGED <<bag, reader, pending, first, position, elapsed, outputs,
                 settings, activeFilter, error, requests, history>>

TickFull ==
  /\ published = MaxPerTick /\ published' = -1
  /\ UNCHANGED <<state, bag, playback, outputs, settings, activeFilter, error,
                 requests, history>>

Iterate == PublishDue \/ KeepPending \/ Loop \/ Finish \/ LoseReader \/ TickFull

\* Time passes; it plays while the state says so.
TimePasses ==
  /\ elapsed' = Least(elapsed + 1, Horizon)
  /\ pace' = [pace EXCEPT !.played =
                IF state = "playing" THEN Least(@ + rate, Horizon) ELSE @]
  /\ <<elapsed', pace'>> # <<elapsed, pace>>
  /\ UNCHANGED <<state, bag, reader, pending, first, position, timer, outputs,
                 settings, activeFilter, error, published, requests, pass, passStart>>
-----------------------------------------------------------------------------
User ==
  \/ Stop \/ LoadFails \/ PlayUnloaded \/ PlayOn \/ Pause \/ Resume
  \/ StepForward \/ SetLooping
  \/ \E b \in Bags : Load(b)
  \/ \E topics \in SUBSET Topics : PlayFromStart(topics)
  \/ \E t \in 0..Horizon : Seek(t)
  \/ \E r \in Rates : SetRate(r)
  \/ \E enabled \in BOOLEAN : SetClockEnabled(enabled)
  \/ \E t \in Topics : SetTopicEnabled(t)

Next == User \/ TickStarts \/ Iterate \/ TimePasses

Spec == Init /\ [][Next]_vars

\* The event loop runs the timer and returns from its handlers; time passes.
FairSpec ==
  Spec /\ WF_vars(TickStarts) /\ WF_vars(Iterate) /\ WF_vars(TimePasses)
===============================================================================
