------------------------- MODULE BagPlayerProperties -------------------------
(***************************************************************************)
(* What must hold of the playback of a bag.                                *)
(***************************************************************************)
EXTENDS BagPlayer

States == {"idle", "loaded", "playing", "paused", "finished"}

\* The types of the members of the engine.
TypeOK ==
  /\ state \in States /\ bag \in Bags \union {NoBag}
  /\ reader \in [next : Nat, filter : SUBSET Topics]
  /\ pending \in Nat /\ first \in BOOLEAN /\ position \in Nat
  /\ elapsed \in 0..Horizon /\ rate \in Rates /\ looping \in BOOLEAN
  /\ activeFilter \in SUBSET Topics
  /\ clockEnabled \in BOOLEAN /\ clockPublisher \in BOOLEAN
  /\ publishers \in SUBSET Topics /\ disabledTopics \in SUBSET Topics
  /\ timer \in BOOLEAN /\ error \in BOOLEAN
  /\ published \in -1..MaxPerTick /\ requests \in 0..MaxRequests
  /\ pass \in Seq(Nat) /\ passStart \in Nat
  /\ pace \in [base : Nat, played : 0..Horizon, timed : Nat]

\* The messages the reader has been past since the last seek.
Passed == {i \in Matching(bag, activeFilter) : passStart <= i /\ i < reader.next}

\* No message is lost and none is played twice: what was read since the last
\* seek, and passes the chosen filter, has been published, once, or waits in
\* pendingMsg_, through pauses, single steps, rate changes, loops and reopenings.
EveryMessageOnce ==
  reader # NoReader =>
    /\ \A i, j \in DOMAIN pass : i # j => pass[i] # pass[j]
    /\ Range(pass) = Passed \ {pending}
    /\ pending # 0 => pending \in Passed

\* A message waits in pendingMsg_ only during playback: a new pass, which does
\* not look at pendingMsg_, never begins with a message of the one before.
PendingOnlyInPlayback == pending # 0 => state \in {"playing", "paused"}

\* The timer runs exactly while the panel shows "playing"; a player that shows
\* "idle" has let go of its reader and of the message it kept.
TimerMatchesState ==
  /\ timer <=> state = "playing"
  /\ state = "idle" => reader = NoReader /\ pending = 0

\* A state that promises a bag has one that can be read, or the error is shown.
LostBagIsReported == state # "idle" /\ reader = NoReader => error

\* While a bag plays with the clock enabled there is somebody to publish it.
ClockIsPublished == state = "playing" /\ clockEnabled => clockPublisher

\* What the panel shows is true of the engine, after any sequence of calls.
StateIsTrue ==
  TypeOK /\ PendingOnlyInPlayback /\ TimerMatchesState /\ LostBagIsReported /\ ClockIsPublished

\* The bag never runs ahead of the clock by more than the small gap each
\* message may be early, whatever is paused, resumed or changed in between.
MaxEarly == SmallGap * CHOOSE r \in Rates : \A s \in Rates : s <= r
NeverEarly == position - pace.base <= pace.played + pace.timed * MaxEarly

\* A bag that plays reaches its end, unless it loops or cannot be read.
PlaybackEnds ==
  state = "playing" ~> (state # "playing" \/ looping \/ reader = NoReader)

\* A tick gives the GUI thread back, unless it loops over nothing.
TickReturns ==
  published # -1 /\ (looping => Matching(bag, reader.filter) # {}) ~> published = -1

\* The timer that plays a bag comes to the end of the bag, and each of its ticks to
\* its own (onPlaybackTick).
PlaybackProceeds == PlaybackEnds /\ TickReturns
===============================================================================
