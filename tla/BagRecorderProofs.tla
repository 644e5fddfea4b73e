--------------------------- MODULE BagRecorderProofs ---------------------------
(***************************************************************************)
(* Proofs about the GUI's own recorder, for every set of topics and any    *)
(* number of bags, messages and calls: the engine agrees with its writer,  *)
(* a pause or a stop lets one callback through at most, the counts add up  *)
(* to the total, and the total stays near the messages in the bag.         *)
(***************************************************************************)
EXTENDS BagRecorderProperties, FiniteSetTheorems, TLAPS
(***************************************************************************)
(* Sums over a finite set: MapThenSumSet adds up its elements in an order  *)
(* of its own, so a sum is followed through a change of one element only   *)
(* when any element may be taken first.                                    *)
(***************************************************************************)

\* A set of numbers has a least one.
LEMMA LeastElement ==
  ASSUME NEW S \in SUBSET Nat, S # {}
  PROVE  \E x \in S : \A y \in S : x <= y
<1>1. IsWellFoundedOn(OpToRel(<, Nat), Nat)
  BY NatLessThanWellFounded
<1>2. PICK x \in S : \A y \in S : <<y, x>> \notin OpToRel(<, Nat)
  <2>1. \E x \in S : \A y \in S : ~ (<<y, x>> \in OpToRel(<, Nat))
    BY <1>1, WFMin
  <2>2. QED BY <2>1
<1>3. ASSUME NEW y \in S PROVE x <= y
  <2>1. <<y, x>> \in Nat \X Nat
    OBVIOUS
  <2>2. ~ (y < x)
    BY <1>2, <2>1 DEF OpToRel
  <2>3. QED BY <2>2
<1>4. QED BY <1>3

\* The sum of f over S is taken one element at a time: g is the sum over every subset.
AnyOf(s) == CHOOSE x \in s : TRUE
Sums(f, S, g) ==
  g = [s \in SUBSET S |-> IF s = {} THEN 0 ELSE f[AnyOf(s)] + g[s \ {AnyOf(s)}]]
SumOf(f, S) == MapThenSumSet(LAMBDA t : f[t], S)

LEMMA SumIsChosen ==
  ASSUME NEW f, NEW S
  PROVE  SumOf(f, S) = (CHOOSE g : Sums(f, S, g))[S]
  BY DEF SumOf, MapThenSumSet, MapThenFoldSet, Sums, AnyOf

\* Such a function exists for a finite set: take it for the subsets of k elements at most,
\* for k from 0 on.
LEMMA SumsExist ==
  ASSUME NEW f, NEW S, IsFiniteSet(S)
  PROVE  \E g : Sums(f, S, g)
<1> DEFINE Up(k) == {s \in SUBSET S : Cardinality(s) <= k}
           Until(k, g) == g = [s \in Up(k) |-> IF s = {} THEN 0
                                 ELSE f[AnyOf(s)] + g[s \ {AnyOf(s)}]]
           Bad == {k \in Nat : \A g : ~Until(k, g)}
<1>1. ASSUME Bad # {} PROVE FALSE
  <2>1. PICK n \in Bad : \A k \in Bad : n <= k
    <3>1. Bad \subseteq Nat
      OBVIOUS
    <3> HIDE DEF Bad
    <3>2. QED BY <1>1, <3>1, LeastElement
  <2>2. CASE n = 0
    <3>1. \A s \in Up(0) : s = {}
      <4>1. ASSUME NEW s \in SUBSET S, Cardinality(s) <= 0 PROVE s = {}
        <5>1. IsFiniteSet(s) /\ Cardinality(s) \in Nat
          BY FS_Subset, FS_CardinalityType
        <5>2. Cardinality(s) = 0
          BY <4>1, <5>1
        <5>3. QED BY <5>1, <5>2, FS_EmptySet
      <4>2. QED BY <4>1
    <3>2. Until(0, [s \in Up(0) |-> 0])
      BY <3>1
    <3>3. QED BY <2>1, <2>2, <3>2
  <2>3. CASE n # 0
    <3>1. n - 1 \in Nat /\ n - 1 \notin Bad /\ n \in Nat
      <4>1. n \in Nat
        BY <2>1
      <4> HIDE DEF Bad
      <4>2. QED BY <2>1, <2>3, <4>1
    <3>2. PICK h : Until(n - 1, h)
      BY <3>1
    <3> DEFINE g == [s \in Up(n) |-> IF s = {} THEN 0
                       ELSE f[AnyOf(s)] + h[s \ {AnyOf(s)}]]
    <3>3. ASSUME NEW s \in Up(n), s # {}
          PROVE  s \ {AnyOf(s)} \in Up(n - 1) /\ s \ {AnyOf(s)} \in Up(n)
      <4>1. AnyOf(s) \in s
        BY <3>3 DEF AnyOf
      <4>2. IsFiniteSet(s) /\ Cardinality(s) \in Nat /\ Cardinality(s) <= n /\ s \subseteq S
        BY FS_Subset, FS_CardinalityType
      <4>3. Cardinality(s \ {AnyOf(s)}) = Cardinality(s) - 1
        BY <4>1, <4>2, FS_RemoveElement
      <4>4. Cardinality(s) - 1 <= n - 1 /\ Cardinality(s) - 1 <= n
        BY <4>2, <3>1
      <4>5. s \ {AnyOf(s)} \in SUBSET S
        BY <4>2
      <4>6. QED BY <4>3, <4>4, <4>5
    <3>4. ASSUME NEW u \in Up(n - 1), u \in Up(n) PROVE g[u] = h[u]
      BY <3>2, <3>4
    <3>5. ASSUME NEW s \in Up(n), s # {} PROVE g[s \ {AnyOf(s)}] = h[s \ {AnyOf(s)}]
      <4> HIDE DEF Up, g
      <4>1. QED BY <3>3, <3>4, <3>5
    <3>6. Until(n, g)
      <4> HIDE DEF Up
      <4>1. QED BY <3>5
    <3>7. QED BY <2>1, <3>6
  <2>4. QED BY <2>2, <2>3
<1>2. Cardinality(S) \in Nat
  BY FS_CardinalityType
<1>3. PICK g : Until(Cardinality(S), g)
  <2>1. Cardinality(S) \notin Bad
    BY <1>1
  <2>2. QED BY <1>2, <2>1
<1>4. Up(Cardinality(S)) = SUBSET S
  BY FS_Subset
<1>5. QED BY <1>3, <1>4 DEF Sums

\* One element of a set, and what is left.
LEMMA OneLess ==
  ASSUME NEW S, IsFiniteSet(S), NEW s \in SUBSET S, NEW x \in s
  PROVE  /\ Cardinality(s) \in Nat /\ Cardinality(s \ {x}) \in Nat
         /\ Cardinality(s \ {x}) < Cardinality(s)
         /\ s \ {x} \in SUBSET S
<1>1. IsFiniteSet(s)
  BY FS_Subset
<1>2. Cardinality(s) \in Nat /\ IsFiniteSet(s \ {x}) /\ Cardinality(s \ {x}) = Cardinality(s) - 1
  BY <1>1, FS_CardinalityType, FS_RemoveElement
<1>3. Cardinality(s \ {x}) \in Nat
  BY <1>2, FS_CardinalityType
<1>4. QED BY <1>2, <1>3

\* What it is for one subset.
LEMMA SumsUnfold ==
  ASSUME NEW f, NEW S, NEW g, Sums(f, S, g), NEW s \in SUBSET S
  PROVE  /\ s = {} => g[s] = 0
         /\ s # {} => AnyOf(s) \in s /\ g[s] = f[AnyOf(s)] + g[s \ {AnyOf(s)}]
<1>1. s # {} => AnyOf(s) \in s
  BY DEF AnyOf
<1>2. g[s] = IF s = {} THEN 0 ELSE f[AnyOf(s)] + g[s \ {AnyOf(s)}]
  BY DEF Sums
<1>3. QED BY <1>1, <1>2

\* Sums of numbers are numbers,
LEMMA SumsAreNumbers ==
  ASSUME NEW f, NEW S, IsFiniteSet(S), f \in [S -> Nat], NEW g, Sums(f, S, g)
  PROVE  \A s \in SUBSET S : g[s] \in Nat
<1> DEFINE Bad == {k \in Nat : \E s \in SUBSET S : Cardinality(s) = k /\ g[s] \notin Nat}
<1>1. ASSUME Bad # {} PROVE FALSE
  <2>1. PICK n \in Bad : \A k \in Bad : n <= k
    <3>1. Bad \subseteq Nat
      OBVIOUS
    <3> HIDE DEF Bad
    <3>2. QED BY <1>1, <3>1, LeastElement
  <2>2. PICK s \in SUBSET S : Cardinality(s) = n /\ g[s] \notin Nat
    BY <2>1
  <2>3. s # {} /\ AnyOf(s) \in s /\ g[s] = f[AnyOf(s)] + g[s \ {AnyOf(s)}]
    BY <2>2, SumsUnfold
  <2>4. g[s \ {AnyOf(s)}] \notin Nat
    <3>1. f[AnyOf(s)] \in Nat
      BY <2>3
    <3>2. QED BY <2>2, <2>3, <3>1
  <2> DEFINE rest == s \ {AnyOf(s)}
  <2>5. rest \in SUBSET S /\ Cardinality(rest) \in Nat /\ Cardinality(rest) < n
    BY <2>2, <2>3, OneLess
  <2>6. Cardinality(rest) \in Bad
    BY <2>4, <2>5
  <2>7. n \in Nat /\ n <= Cardinality(rest)
    BY <2>1, <2>6
  <2> HIDE DEF rest
  <2>8. QED BY <2>5, <2>7
<1>2. ASSUME NEW s \in SUBSET S, g[s] \notin Nat PROVE FALSE
  <2>1. Cardinality(s) \in Nat
    BY FS_Subset, FS_CardinalityType
  <2>2. QED BY <1>1, <1>2, <2>1
<1>3. QED BY <1>2

\* any element may be taken first,
LEMMA SumsSplit ==
  ASSUME NEW f, NEW S, IsFiniteSet(S), f \in [S -> Nat], NEW g, Sums(f, S, g)
  PROVE  \A s \in SUBSET S : \A y \in s : g[s] = f[y] + g[s \ {y}]
<1> DEFINE Bad == {k \in Nat : \E s \in SUBSET S :
                     Cardinality(s) = k /\ \E y \in s : g[s] # f[y] + g[s \ {y}]}
<1>1. ASSUME Bad # {} PROVE FALSE
  <2>1. PICK n \in Bad : \A k \in Bad : n <= k
    <3>1. Bad \subseteq Nat
      OBVIOUS
    <3> HIDE DEF Bad
    <3>2. QED BY <1>1, <3>1, LeastElement
  <2>2. PICK s \in SUBSET S : Cardinality(s) = n /\ \E y \in s : g[s] # f[y] + g[s \ {y}]
    BY <2>1
  <2>3. PICK y \in s : g[s] # f[y] + g[s \ {y}]
    BY <2>2
  <2> DEFINE x == AnyOf(s)
  <2>4. x \in s /\ g[s] = f[x] + g[s \ {x}]
    <3>1. s # {}
      BY <2>3
    <3>2. QED BY <3>1, SumsUnfold
  <2> HIDE DEF x
  <2>5. x # y
    BY <2>3, <2>4
  <2>6. ASSUME NEW a \in s, NEW b \in s, a # b
        PROVE  g[s \ {a}] = f[b] + g[(s \ {a}) \ {b}]
    <3>1. s \ {a} \in SUBSET S /\ Cardinality(s \ {a}) \in Nat /\ Cardinality(s \ {a}) < n
      BY <2>2, OneLess
    <3>2. Cardinality(s \ {a}) \notin Bad
      <4> DEFINE c == Cardinality(s \ {a})
      <4>1. c \in Bad => n <= c
        BY <2>1
      <4>2. n \in Nat /\ c \in Nat /\ c < n
        BY <2>1, <3>1
      <4> HIDE DEF c, Bad
      <4>3. c \notin Bad
        BY <4>1, <4>2
      <4>4. QED BY <4>3 DEF c
    <3>3. b \in s \ {a}
      BY <2>6
    <3>4. QED BY <3>1, <3>2, <3>3
  <2>7. g[s \ {x}] = f[y] + g[(s \ {x}) \ {y}] /\ g[s \ {y}] = f[x] + g[(s \ {y}) \ {x}]
    BY <2>4, <2>5, <2>6
  <2>8. (s \ {x}) \ {y} = (s \ {y}) \ {x} /\ (s \ {x}) \ {y} \in SUBSET S
    OBVIOUS
  <2> DEFINE rest == (s \ {x}) \ {y}
  <2>9. f[x] \in Nat /\ f[y] \in Nat /\ g[rest] \in Nat
    BY <2>4, <2>8, SumsAreNumbers
  <2> HIDE DEF rest
  <2>10. g[s] = f[x] + (f[y] + g[rest]) /\ g[s \ {y}] = f[x] + g[rest]
    BY <2>4, <2>7, <2>8 DEF rest
  <2>11. g[s] = f[y] + g[s \ {y}]
    BY <2>9, <2>10
  <2>12. QED BY <2>3, <2>11
<1>2. ASSUME NEW s \in SUBSET S, NEW y \in s, g[s] # f[y] + g[s \ {y}] PROVE FALSE
  <2>1. Cardinality(s) \in Nat
    BY FS_Subset, FS_CardinalityType
  <2>2. QED BY <1>1, <1>2, <2>1
<1>3. QED BY <1>2

\* and only the elements of the set matter.
LEMMA SumsAgree ==
  ASSUME NEW f, NEW S, IsFiniteSet(S), NEW g, Sums(f, S, g),
         NEW f2, NEW S2, NEW g2, Sums(f2, S2, g2),
         NEW s \in SUBSET (S \cap S2), \A x \in s : f2[x] = f[x]
  PROVE  g2[s] = g[s]
<1> DEFINE Bad == {k \in Nat : \E u \in SUBSET s : Cardinality(u) = k /\ g2[u] # g[u]}
<1>1. ASSUME Bad # {} PROVE FALSE
  <2>1. PICK n \in Bad : \A k \in Bad : n <= k
    <3>1. Bad \subseteq Nat
      OBVIOUS
    <3> HIDE DEF Bad
    <3>2. QED BY <1>1, <3>1, LeastElement
  <2>2. PICK u \in SUBSET s : Cardinality(u) = n /\ g2[u] # g[u]
    BY <2>1
  <2>3. u \in SUBSET S /\ u \in SUBSET S2
    OBVIOUS
  <2>4. /\ u = {} => g[u] = 0 /\ g2[u] = 0
        /\ u # {} => /\ AnyOf(u) \in u /\ g[u] = f[AnyOf(u)] + g[u \ {AnyOf(u)}]
                     /\ g2[u] = f2[AnyOf(u)] + g2[u \ {AnyOf(u)}]
    BY <2>3, SumsUnfold
  <2> DEFINE rest == u \ {AnyOf(u)}
  <2>5. u # {} /\ f2[AnyOf(u)] = f[AnyOf(u)] /\ g2[rest] # g[rest]
    BY <2>2, <2>4
  <2>6. rest \in SUBSET s /\ Cardinality(rest) \in Nat /\ Cardinality(rest) < n
    BY <2>2, <2>3, <2>4, <2>5, OneLess
  <2>7. Cardinality(rest) \in Bad
    BY <2>5, <2>6
  <2>8. n \in Nat /\ n <= Cardinality(rest)
    BY <2>1, <2>7
  <2> HIDE DEF rest
  <2>9. QED BY <2>6, <2>8
<1>2. Cardinality(s) \in Nat
  BY FS_Subset, FS_CardinalityType
<1>3. QED BY <1>1, <1>2

\* The sum over nothing is zero,
LEMMA SumOfNothing ==
  ASSUME NEW f
  PROVE  SumOf(f, {}) = 0
<1>1. Sums(f, {}, CHOOSE g : Sums(f, {}, g))
  BY FS_EmptySet, SumsExist
<1>2. QED BY <1>1, SumsUnfold, SumIsChosen

\* and it grows by what is added to one element, which need not have been there.
LEMMA SumGrows ==
  ASSUME NEW S, IsFiniteSet(S), NEW f \in [S -> Nat], NEW t, NEW d \in Nat,
         NEW f2 \in [S \cup {t} -> Nat],
         f2[t] = (IF t \in S THEN f[t] ELSE 0) + d,
         \A u \in S \ {t} : f2[u] = f[u]
  PROVE  SumOf(f2, S \cup {t}) = SumOf(f, S) + d
<1> DEFINE T == S \cup {t}
           g == CHOOSE h : Sums(f, S, h)
           g2 == CHOOSE h : Sums(f2, T, h)
<1>1. IsFiniteSet(T)
  BY FS_AddElement
<1>2. Sums(f, S, g) /\ Sums(f2, T, g2)
  BY <1>1, SumsExist
<1>3. SumOf(f, S) = g[S] /\ SumOf(f2, T) = g2[T]
  BY SumIsChosen
<1>4. T \ {t} = S \ {t} /\ S \ {t} \in SUBSET (S \cap T) /\ t \in T
  OBVIOUS
<1> HIDE DEF g, g2
<1>5. g2[T] = f2[t] + g2[S \ {t}]
  <2>1. f2 \in [T -> Nat]
    OBVIOUS
  <2> HIDE DEF T
  <2>2. QED BY <1>1, <1>2, <1>4, <2>1, SumsSplit
<1>6. g2[S \ {t}] = g[S \ {t}]
  BY <1>2, <1>4, SumsAgree
<1>7. g[S \ {t}] \in Nat
  BY <1>2, SumsAreNumbers
<1>8. CASE t \in S
  <2>1. g[S] = f[t] + g[S \ {t}] /\ f[t] \in Nat
    BY <1>2, <1>8, SumsSplit
  <2>2. QED BY <1>3, <1>5, <1>6, <1>7, <1>8, <2>1
<1>9. CASE t \notin S
  <2>1. S \ {t} = S
    BY <1>9
  <2>2. QED BY <1>3, <1>5, <1>6, <1>7, <1>9, <2>1
<1>10. QED BY <1>8, <1>9
-----------------------------------------------------------------------------

\* The types, with what they leave open: the writer's bag is the last one, or the next
\* while it is being opened, and subscriptions are made for the last one.
Types ==
  /\ TypeOK
  /\ Bag \in Nat
  /\ content \in [1..Bag -> Nat] /\ strays \in [1..Bag -> Nat]
  /\ writer \in {0, Bag, Bag + 1}
  /\ \A s \in subscriptions : s.bag = Bag

\* The same in five parts: the members the calls change, the counts, the mutex, the
\* callback, and the bags with their writer and the subscriptions.
CallTypes ==
  /\ engine \in Calls /\ toSubscribe \subseteq Topics
  /\ timer \in BOOLEAN /\ error \in BOOLEAN
  /\ state \in {"idle", "recording", "paused"}
  /\ paused \in BOOLEAN /\ stopping \in BOOLEAN
  /\ executor \in {"none", "spinning", "canceled"}

CountTypes ==
  /\ DOMAIN topicStats \subseteq Topics /\ total \in Nat
  /\ received \in 0..MaxMessages /\ requests \in 0..MaxRequests /\ late \in Nat

MutexTypes ==
  /\ writerMutex \in {"free", "gui", "callback"}
  /\ writerMutex = "gui" <=> engine \in {"closing", "closing for good"}
  /\ writerMutex = "callback" <=> callback.at \in {"writing", "dangling"}

CallbackTypes ==
  callback \in {NoCallback} \cup [at : Stages, topic : Topics, bag : 1..Bag]

BagTypes ==
  /\ Bag \in Nat /\ Opened = 1..Bag /\ Bag <= MaxBags
  /\ complete \subseteq Opened /\ broken \subseteq Opened
  /\ content \in [1..Bag -> Nat] /\ strays \in [1..Bag -> Nat]
  /\ writer \in {0, Bag, Bag + 1}
  /\ subscriptions \subseteq [topic : Topics, bag : 1..Bag]
  /\ \A s \in subscriptions : s.bag = Bag

\* The parts follow from the types,
LEMMA TypesParts ==
  Types => CallTypes /\ CountTypes /\ MutexTypes /\ CallbackTypes /\ BagTypes
  BY DEF CallTypes, CountTypes, MutexTypes, CallbackTypes, BagTypes, Types, TypeOK

\* What each call has done when the GUI thread is at one of its places.
CallInv ==
  /\ engine # "ready" => ~timer
  /\ engine \in {"gone", "opening", "resetting", "subscribing", "giving up"} =>
       state = "idle" /\ ~paused /\ ~stopping
  /\ engine \in {"stopping", "closing", "closed", "destroying", "closing for good"} =>
       state # "idle"
  /\ engine \notin {"ready", "subscribing"} => subscriptions = {}
  /\ engine = "gone" => callback = NoCallback
  /\ engine = "ready" =>
       /\ state # "idle" <=> subscriptions # {}
       /\ timer <=> state # "idle"
       /\ paused <=> state = "paused"
       /\ ~stopping

\* A bag is open while it is filled and while the calls that fill, stop or destroy are
\* at these places.
BagOpen ==
  \/ engine \in {"resetting", "subscribing", "stopping", "closing", "destroying",
                 "closing for good"}
  \/ engine = "ready" /\ state # "idle"

\* Only the last bag is ever open, and the writer is that of the open bag, or of one
\* that is to be opened, was closed to no end, or could not be closed.
Books ==
  /\ Opened \ Closed = IF BagOpen THEN {Bag} ELSE {}
  /\ BagOpen \/ engine = "giving up" => writer = Bag /\ Bag # 0
  /\ engine = "opening" => writer = Bag + 1 /\ Bag < MaxBags
  /\ engine \in {"ready", "joining"} /\ ~BagOpen => writer = 0 \/ writer \in broken
  /\ engine \in {"gone", "closed"} => writer = 0
  /\ engine = "joining" /\ state # "idle" => writer = 0

\* The callback is one of the last bag or was left by the bag before, and the one
\* that was left writes at most one message into the last bag.
CallbackInv ==
  /\ callback.at = "writing" => writer # 0
  /\ callback.at = "dangling" /\ writer = Bag => callback.bag < Bag
  /\ callback.at \in {"writing", "dangling"} /\ state # "idle" => BagOpen
  /\ callback # NoCallback /\ engine = "resetting" => callback.bag < Bag
  /\ callback # NoCallback /\ engine = "subscribing" =>
       callback.bag < Bag \/ subscriptions # {}
  /\ callback.at \in {"received", "passed", "writing"} /\ callback.bag < Bag =>
       strays[Bag] = 0
  /\ AtMostOneStray

\* A callback that passed the test of the flags is the only one that writes in a pause.
LateInv ==
  /\ PauseHolds
  /\ paused /\ callback.at \in {"passed", "writing"} => late = 0

\* How far the total may be from the bag, by the callback under way: own ones write
\* first and count then, one that was left counts without writing to the bag, and so
\* does one that finds the bag closed.
Ahead(low, high) == content[Bag] + low <= total /\ total <= content[Bag] + high

NearInv ==
  /\ Bag # 0
  /\ callback = NoCallback => Ahead(0, IF writer = Bag THEN 1 ELSE 2)
  /\ callback # NoCallback =>
       IF callback.bag < Bag THEN total = 0 /\ content[Bag] = 0
       ELSE IF callback.at = "counting" THEN Ahead(-1, IF writer = Bag THEN 0 ELSE 1)
       ELSE Ahead(0, 1)

\* There is nothing to compare before the first recording of an engine.
CountInv ==
  IF engine = "resetting" THEN content[Bag] = 0
  ELSE \/ /\ DOMAIN topicStats = {} /\ callback = NoCallback
          /\ writer = 0 \/ engine = "opening"
       \/ NearInv
-----------------------------------------------------------------------------
\* Bags are numbered from 1 as they are opened.
LEMMA SameBags == content' = content => Bag' = Bag /\ Opened' = Opened
  BY DEF Bag, Opened

\* A start opens the next bag, empty, and leaves the others as they are.
LEMMA NextBag ==
  ASSUME Types, Open
  PROVE  /\ Opened' = 1..Bag + 1 /\ Bag' = Bag + 1
         /\ content' \in [1..Bag + 1 -> Nat] /\ content'[Bag + 1] = 0
         /\ strays' \in [1..Bag + 1 -> Nat] /\ strays'[Bag + 1] = 0
         /\ \A b \in 1..Bag : strays'[b] = strays[b]
<1>1. Opened = 1..Bag /\ Bag \in Nat
  BY DEF Types, TypeOK
<1>2. DOMAIN content' = 1..Bag + 1
  BY DEF Open
<1>3. Cardinality(1..Bag + 1) = Bag + 1
  BY <1>1, FS_Interval
<1>4. Opened' = 1..Bag + 1 /\ Bag' = Bag + 1
  BY <1>2, <1>3 DEF Bag, Opened
<1>5. QED BY <1>1, <1>4 DEF Open, Types

\* A write adds one message to the last bag, as its own or as a stray.
LEMMA WriteKeepsBags ==
  ASSUME Types, Write
  PROVE  /\ Opened' = Opened /\ Bag' = Bag /\ writer = Bag
         /\ content' \in [1..Bag -> Nat] /\ strays' \in [1..Bag -> Nat]
         /\ IF callback.bag = Bag
            THEN content'[Bag] = content[Bag] + 1 /\ strays' = strays
            ELSE content' = content /\ strays' = [strays EXCEPT ![Bag] = @ + 1]
<1>1. writer = Bag /\ Bag \in 1..Bag
  <2>1. writer \in 1..Bag /\ Bag \in Nat /\ writer \in {0, Bag, Bag + 1}
    BY DEF Write, Types, TypeOK
  <2>2. QED BY <2>1
<1>2. DOMAIN content' = DOMAIN content
  BY DEF Write
<1>3. Opened' = Opened /\ Bag' = Bag
  BY <1>2 DEF Opened, Bag
<1>4. CASE callback.bag = Bag
  BY <1>1, <1>3, <1>4 DEF Write, Types
<1>5. CASE callback.bag # Bag
  <2>1. content' = content /\ strays' = [strays EXCEPT ![Bag] = @ + 1]
    BY <1>1, <1>5 DEF Write
  <2>2. content' \in [1..Bag -> Nat] /\ strays' \in [1..Bag -> Nat]
    BY <1>1, <2>1 DEF Types
  <2>3. QED BY <1>1, <1>3, <1>5, <2>1, <2>2
<1>6. QED BY <1>3, <1>4, <1>5

\* A callback belongs to one of the bags and moves from stage to stage.
LEMMA CallbackFacts ==
  ASSUME Types
  PROVE  /\ NoCallback.at = "none"
         /\ callback # NoCallback =>
              callback \in [at : Stages, topic : Topics, bag : 1..Bag]
         /\ callback # NoCallback => callback.bag \in 1..Bag /\ callback.at # "none"
<1>1. NoCallback.at = "none"
  BY DEF NoCallback
<1>2. callback \in {NoCallback} \cup [at : Stages, topic : Topics, bag : 1..Bag]
  BY DEF Types, TypeOK
<1>3. callback # NoCallback => callback \in [at : Stages, topic : Topics, bag : 1..Bag]
  BY <1>2
<1>4. QED BY <1>1, <1>3 DEF Stages

\* The numbers up to the next one,
LEMMA NextNumber ==
  ASSUME NEW n \in Nat
  PROVE  n + 1 \notin 1..n /\ 1..n + 1 = 1..n \cup {n + 1}
<1>1. ASSUME NEW b PROVE b \in 1..n + 1 <=> b \in 1..n \/ b = n + 1
  OBVIOUS
<1>2. QED BY <1>1

\* and what is below the last.
LEMMA BelowLast ==
  ASSUME NEW n \in Nat, NEW b \in 1..n
  PROVE  b < n + 1 /\ n # 0 /\ (b # n => b < n) /\ ~ (n < n)
  OBVIOUS

\* A callback whose writer is destroyed keeps its bag, and leaves write() only.
LEMMA CallbackOrphaned ==
  ASSUME Types, callback' = Orphaned
  PROVE  /\ callback # NoCallback => callback' # NoCallback /\ callback'.bag = callback.bag
         /\ callback = NoCallback => callback' = NoCallback
         /\ callback' \in {NoCallback} \cup [at : Stages, topic : Topics, bag : 1..Bag]
         /\ callback'.at = IF callback.at = "writing" THEN "dangling" ELSE callback.at
<1>1. callback \in {NoCallback} \cup [at : Stages, topic : Topics, bag : 1..Bag]
  BY DEF Types, TypeOK
<1>2. CASE callback.at = "writing"
  <2>1. callback \in [at : Stages, topic : Topics, bag : 1..Bag]
    BY <1>1, <1>2 DEF NoCallback
  <2>2. callback' = [callback EXCEPT !.at = "dangling"]
    BY <1>2 DEF Orphaned
  <2>3. /\ callback' \in [at : Stages, topic : Topics, bag : 1..Bag]
        /\ callback'.at = "dangling" /\ callback'.bag = callback.bag
    BY <2>1, <2>2 DEF Stages
  <2>4. callback # NoCallback /\ callback' # NoCallback
    BY <1>2, <2>3 DEF NoCallback
  <2>5. QED BY <1>2, <2>3, <2>4
<1>3. CASE callback.at # "writing"
  BY <1>1, <1>3 DEF Orphaned
<1>4. QED BY <1>2, <1>3

\* Every step preserves the types, part by part: those of the calls,
LEMMA CallTypesStep == Types /\ [Next]_vars => CallTypes'
<1> SUFFICES ASSUME CallTypes, [Next]_vars PROVE CallTypes'
  BY TypesParts
<1> USE DEF CallTypes, gui, flags, stats, disk, bounds, Calls, Request, EnsureNode, NoneSubscribed
<1>1. CASE Construct BY <1>1 DEF Construct
<1>2. CASE DiscoverTopics BY <1>2 DEF DiscoverTopics
<1>3. CASE StartRefused BY <1>3 DEF StartRefused
<1>4. CASE StartFails BY <1>4 DEF StartFails
<1>5. CASE Pause BY <1>5 DEF Pause
<1>6. CASE Resume BY <1>6 DEF Resume
<1>7. CASE SplitBag BY <1>7 DEF SplitBag
<1>8. CASE Stop BY <1>8 DEF Stop
<1>9. CASE Destroy BY <1>9 DEF Destroy
<1>10. CASE DestroyIdle BY <1>10 DEF DestroyIdle
<1>11. CASE ResetStats BY <1>11 DEF ResetStats
<1>12. CASE Record BY <1>12 DEF Record
<1>13. CASE GiveUp BY <1>13 DEF GiveUp
<1>14. CASE LockWriter BY <1>14 DEF LockWriter
<1>15. CASE CloseWriter BY <1>15 DEF CloseWriter
<1>16. CASE Stopped BY <1>16 DEF Stopped
<1>17. CASE CancelExecutor BY <1>17 DEF CancelExecutor
<1>18. CASE JoinExecutor BY <1>18 DEF JoinExecutor
<1>19. CASE TestFlags BY <1>19 DEF TestFlags
<1>20. CASE FindWriter BY <1>20 DEF FindWriter
<1>21. CASE Write BY <1>21 DEF Write
<1>22. CASE WriteFails BY <1>22 DEF WriteFails
<1>23. CASE Count BY <1>23 DEF Count
<1>24. ASSUME NEW topics \in SUBSET Topics, Start(topics) PROVE CallTypes'
  BY <1>24 DEF Start
<1>25. ASSUME NEW t \in Topics, Subscribe(t) PROVE CallTypes'
  BY <1>25 DEF Subscribe
<1>26. ASSUME NEW t \in Topics, SubscribeFails(t) PROVE CallTypes'
  BY <1>26 DEF SubscribeFails
<1>27. ASSUME NEW s \in subscriptions, Receive(s) PROVE CallTypes'
  BY <1>27 DEF Receive
<1>28. CASE UNCHANGED vars BY <1>28 DEF vars
<1>29. CASE Open BY <1>29 DEF Open
<1>30. CASE OpenFails BY <1>30 DEF OpenFails
<1>31. CASE DropWriter BY <1>31 DEF DropWriter
<1>32. CASE GiveUpThrows BY <1>32 DEF GiveUpThrows
<1>33. CASE GiveUpEnds BY <1>33 DEF GiveUpEnds, ProcessEnds
<1>34. CASE WriteLost BY <1>34 DEF WriteLost
<1>35. CASE WriteCrashes BY <1>35 DEF WriteCrashes, ProcessEnds
<1>36. QED
  BY <1>1, <1>2, <1>3, <1>4, <1>5, <1>6, <1>7, <1>8, <1>9, <1>10, <1>11, <1>12,
     <1>13, <1>14, <1>15, <1>16, <1>17, <1>18, <1>19, <1>20, <1>21, <1>22, <1>23,
     <1>24, <1>25, <1>26, <1>27, <1>28, <1>29, <1>30, <1>31, <1>32, <1>33, <1>34, <1>35
     DEF Next, User, Gui, Callback

\* of the counts,
LEMMA CountTypesStep == Types /\ [Next]_vars => CountTypes'
<1> SUFFICES ASSUME CountTypes, CallbackTypes, [Next]_vars PROVE CountTypes'
  BY TypesParts
<1>a. callback.at = "counting" => callback.topic \in Topics
  BY DEF CallbackTypes, NoCallback
<1> USE BoundsAssumption DEF CountTypes, gui, flags, stats, disk, bounds, Request,
      EnsureNode, NoneSubscribed, WithEntry
<1>1. CASE Construct BY <1>1 DEF Construct
<1>2. CASE DiscoverTopics BY <1>2 DEF DiscoverTopics
<1>3. CASE StartRefused BY <1>3 DEF StartRefused
<1>4. CASE StartFails BY <1>4 DEF StartFails
<1>5. CASE Pause BY <1>5 DEF Pause
<1>6. CASE Resume BY <1>6 DEF Resume
<1>7. CASE SplitBag BY <1>7 DEF SplitBag
<1>8. CASE Stop BY <1>8 DEF Stop
<1>9. CASE Destroy BY <1>9 DEF Destroy
<1>10. CASE DestroyIdle BY <1>10 DEF DestroyIdle
<1>11. CASE ResetStats BY <1>11 DEF ResetStats
<1>12. CASE Record BY <1>12 DEF Record
<1>13. CASE GiveUp BY <1>13 DEF GiveUp
<1>14. CASE LockWriter BY <1>14 DEF LockWriter
<1>15. CASE CloseWriter BY <1>15 DEF CloseWriter
<1>16. CASE Stopped BY <1>16 DEF Stopped
<1>17. CASE CancelExecutor BY <1>17 DEF CancelExecutor
<1>18. CASE JoinExecutor BY <1>18 DEF JoinExecutor
<1>19. CASE TestFlags BY <1>19 DEF TestFlags
<1>20. CASE FindWriter BY <1>20 DEF FindWriter
<1>21. CASE Write BY <1>21 DEF Write
<1>22. CASE WriteFails BY <1>22 DEF WriteFails
<1>23. CASE Count
  <2>1. DOMAIN topicStats' = DOMAIN topicStats \cup {callback.topic}
    BY <1>23 DEF Count
  <2>2. QED BY <1>23, <1>a, <2>1 DEF Count
<1>24. ASSUME NEW topics \in SUBSET Topics, Start(topics) PROVE CountTypes'
  BY <1>24 DEF Start
<1>25. ASSUME NEW t \in Topics, Subscribe(t) PROVE CountTypes'
  BY <1>25 DEF Subscribe
<1>26. ASSUME NEW t \in Topics, SubscribeFails(t) PROVE CountTypes'
  BY <1>26 DEF SubscribeFails
<1>27. ASSUME NEW s \in subscriptions, Receive(s) PROVE CountTypes'
  BY <1>27 DEF Receive
<1>28. CASE UNCHANGED vars BY <1>28 DEF vars
<1>29. CASE Open BY <1>29 DEF Open
<1>30. CASE OpenFails BY <1>30 DEF OpenFails
<1>31. CASE DropWriter BY <1>31 DEF DropWriter
<1>32. CASE GiveUpThrows BY <1>32 DEF GiveUpThrows
<1>33. CASE GiveUpEnds BY <1>33 DEF GiveUpEnds, ProcessEnds
<1>34. CASE WriteLost BY <1>34 DEF WriteLost
<1>35. CASE WriteCrashes BY <1>35 DEF WriteCrashes, ProcessEnds
<1>36. QED
  BY <1>1, <1>2, <1>3, <1>4, <1>5, <1>6, <1>7, <1>8, <1>9, <1>10, <1>11, <1>12,
     <1>13, <1>14, <1>15, <1>16, <1>17, <1>18, <1>19, <1>20, <1>21, <1>22, <1>23,
     <1>24, <1>25, <1>26, <1>27, <1>28, <1>29, <1>30, <1>31, <1>32, <1>33, <1>34, <1>35
     DEF Next, User, Gui, Callback

\* of the mutex,
LEMMA MutexTypesStep == Types /\ [Next]_vars => MutexTypes'
<1> SUFFICES ASSUME Types, MutexTypes, CallbackTypes, [Next]_vars PROVE MutexTypes'
  BY TypesParts
<1> USE DEF MutexTypes, CallbackTypes, gui, flags, stats, disk, bounds, Request,
      EnsureNode, NoneSubscribed, NoCallback
<1>1. CASE Construct \/ DiscoverTopics \/ StartRefused \/ StartFails \/ Pause \/ Resume \/
           SplitBag \/ Stop \/ Destroy \/ DestroyIdle \/ ResetStats \/ Record \/ Open \/
           GiveUp \/ GiveUpThrows \/ Stopped \/ CancelExecutor \/ JoinExecutor
  BY <1>1 DEF Construct, DiscoverTopics, StartRefused, StartFails, Pause, Resume,
              SplitBag, Stop, Destroy, DestroyIdle, ResetStats, Record, Open, GiveUp,
              GiveUpThrows, Stopped, CancelExecutor, JoinExecutor
<1>2. CASE LockWriter BY <1>2 DEF LockWriter
<1>3. CASE CloseWriter BY <1>3 DEF CloseWriter
<1>4. CASE TestFlags BY <1>4 DEF TestFlags
<1>5. CASE FindWriter BY <1>5 DEF FindWriter
<1>6. CASE Write BY <1>6 DEF Write
<1>7. CASE WriteFails BY <1>7 DEF WriteFails
<1>16. CASE WriteLost
  <2>1. callback \in [at : Stages, topic : Topics, bag : 1..Bag]
    <3> HIDE DEF CallbackTypes, NoCallback, MutexTypes
    <3>1. callback.at = "dangling"
      BY <1>16 DEF WriteLost
    <3>2. QED BY <3>1, CallbackFacts
  <2>2. callback' = [callback EXCEPT !.at = "counting"] /\ writerMutex' = "free"
        /\ engine' = engine
    BY <1>16 DEF WriteLost
  <2>3. callback'.at = "counting" /\ writerMutex # "gui"
    BY <1>16, <2>1, <2>2 DEF WriteLost
  <2> HIDE DEF CallbackTypes
  <2>4. QED BY <2>2, <2>3
<1>8. CASE Count BY <1>8 DEF Count
<1>9. ASSUME NEW topics \in SUBSET Topics, Start(topics) \/ OpenFails \/ DropWriter
      PROVE  MutexTypes'
  <2>1. callback'.at = IF callback.at = "writing" THEN "dangling" ELSE callback.at
    <3>1. callback' = Orphaned
      BY <1>9 DEF Start, OpenFails, DropWriter
    <3>2. QED BY <3>1, CallbackOrphaned
  <2>2. /\ writerMutex' = writerMutex
        /\ engine \notin {"closing", "closing for good"}
        /\ engine' \notin {"closing", "closing for good"}
    BY <1>9 DEF Start, OpenFails, DropWriter
  <2> HIDE DEF NoCallback, CallbackTypes
  <2>3. QED BY <2>1, <2>2
<1>10. ASSUME NEW t \in Topics, Subscribe(t) PROVE MutexTypes'
  BY <1>10 DEF Subscribe
<1>11. ASSUME NEW t \in Topics, SubscribeFails(t) PROVE MutexTypes'
  BY <1>11 DEF SubscribeFails
<1>12. ASSUME NEW s \in subscriptions, Receive(s) PROVE MutexTypes'
  BY <1>12 DEF Receive
<1>13. CASE GiveUpEnds \/ WriteCrashes
  <2>1. callback' = NoCallback /\ writerMutex' = "free" /\ engine' = "gone"
    BY <1>13 DEF GiveUpEnds, WriteCrashes, ProcessEnds
  <2>2. QED BY <2>1
<1>14. CASE UNCHANGED vars BY <1>14 DEF vars
<1>15. CASE OpenFails \/ DropWriter
  BY <1>9, <1>15
<1>17. QED
  BY <1>1, <1>2, <1>3, <1>4, <1>5, <1>6, <1>7, <1>8, <1>9, <1>10, <1>11, <1>12,
     <1>13, <1>14, <1>15, <1>16 DEF Next, User, Gui, Callback

\* of the callback,
LEMMA CallbackTypesStep == Types /\ [Next]_vars => CallbackTypes'
<1> SUFFICES ASSUME Types, [Next]_vars PROVE CallbackTypes'
  OBVIOUS
<1>a. content' = content => Bag' = Bag
  BY SameBags
<1>b. Bag \in Nat /\ CallbackTypes /\ BagTypes
  BY TypesParts DEF Types
<1>c. callback.at # "none" => callback \in [at : Stages, topic : Topics, bag : 1..Bag]
  BY <1>b DEF CallbackTypes, NoCallback
<1> USE DEF CallbackTypes, gui, flags, stats, disk, bounds, Request, EnsureNode,
      NoneSubscribed, Stages
<1>1. CASE Construct \/ DiscoverTopics \/ StartRefused \/ StartFails \/ Pause \/ Resume \/
           SplitBag \/ Stop \/ Destroy \/ DestroyIdle \/ ResetStats \/ Record \/ GiveUp \/
           GiveUpThrows \/ LockWriter \/ CloseWriter \/ Stopped \/ CancelExecutor \/
           JoinExecutor \/ WriteFails \/ Count
  BY <1>1, <1>a, <1>b DEF Construct, DiscoverTopics, StartRefused, StartFails, Pause,
                          Resume, SplitBag, Stop, Destroy, DestroyIdle, ResetStats,
                          Record, GiveUp, GiveUpThrows, LockWriter, CloseWriter, Stopped,
                          CancelExecutor, JoinExecutor, WriteFails, Count
<1>2. CASE TestFlags
  <2>1. callback \in [at : Stages, topic : Topics, bag : 1..Bag]
    BY <1>2, <1>b, <1>c DEF TestFlags
  <2>2. CASE callback' = callback \/ callback' = NoCallback
    BY <2>1, <2>2, <1>2, <1>a, <1>b DEF TestFlags
  <2>3. CASE callback' # callback /\ callback' # NoCallback
    <3>1. callback'.at \in Stages /\ callback' = [callback EXCEPT !.at = callback'.at]
      BY <2>1, <2>3, <1>2 DEF TestFlags
    <3>2. QED BY <2>1, <3>1, <1>2, <1>a, <1>b DEF TestFlags
  <2>4. QED BY <2>2, <2>3
<1>3. CASE FindWriter
  <2>1. callback \in [at : Stages, topic : Topics, bag : 1..Bag]
    BY <1>3, <1>b, <1>c DEF FindWriter
  <2>2. CASE callback' = callback \/ callback' = NoCallback
    BY <2>1, <2>2, <1>3, <1>a, <1>b DEF FindWriter
  <2>3. CASE callback' # callback /\ callback' # NoCallback
    <3>1. callback'.at \in Stages /\ callback' = [callback EXCEPT !.at = callback'.at]
      BY <2>1, <2>3, <1>3 DEF FindWriter
    <3>2. QED BY <2>1, <3>1, <1>3, <1>a, <1>b DEF FindWriter
  <2>4. QED BY <2>2, <2>3
<1>4. CASE Write
  <2>1. callback \in [at : Stages, topic : Topics, bag : 1..Bag]
    BY <1>4, <1>b, <1>c DEF Write
  <2>2. CASE callback' = callback \/ callback' = NoCallback
    BY <2>1, <2>2, <1>4, <1>a, <1>b DEF Write
  <2>3. CASE callback' # callback /\ callback' # NoCallback
    <3>1. callback'.at \in Stages /\ callback' = [callback EXCEPT !.at = callback'.at]
      BY <2>1, <2>3, <1>4 DEF Write
    <3>2. QED BY <2>1, <3>1, <1>4, <1>a, <1>b, WriteKeepsBags DEF Write
  <2>4. QED BY <2>2, <2>3
<1>5. ASSUME NEW topics \in SUBSET Topics, Start(topics) PROVE CallbackTypes'
  BY <1>5, <1>a, CallbackOrphaned DEF Start
<1>6. ASSUME NEW t \in Topics, Subscribe(t) PROVE CallbackTypes'
  BY <1>6, <1>a, <1>b DEF Subscribe
<1>7. ASSUME NEW t \in Topics, SubscribeFails(t) PROVE CallbackTypes'
  BY <1>7, <1>a, <1>b DEF SubscribeFails
<1>8. ASSUME NEW s \in subscriptions, Receive(s) PROVE CallbackTypes'
  BY <1>8, <1>a, <1>b DEF Receive, BagTypes
<1>9. CASE UNCHANGED vars BY <1>9, <1>a, <1>b DEF vars
<1>10. CASE OpenFails BY <1>10, <1>a, CallbackOrphaned DEF OpenFails
<1>11. CASE DropWriter BY <1>11, <1>a, CallbackOrphaned DEF DropWriter
<1>12. CASE Open
  <2>1. Bag' = Bag + 1
    BY <1>12, NextBag
  <2>2. 1..Bag \subseteq 1..Bag' /\ callback' = callback
    BY <1>12, <1>b, <2>1 DEF Open
  <2>3. QED BY <1>b, <2>2
<1>13. CASE WriteLost
  <2>1. callback \in [at : Stages, topic : Topics, bag : 1..Bag]
    BY <1>13, <1>b, <1>c DEF WriteLost
  <2>2. callback' = [callback EXCEPT !.at = "counting"]
    BY <1>13 DEF WriteLost
  <2>3. callback' \in [at : Stages, topic : Topics, bag : 1..Bag]
    BY <2>1, <2>2
  <2>4. QED BY <2>3, <1>13, <1>a DEF WriteLost
<1>14. CASE GiveUpEnds \/ WriteCrashes
  BY <1>14 DEF GiveUpEnds, WriteCrashes, ProcessEnds
<1>15. QED
  BY <1>1, <1>2, <1>3, <1>4, <1>5, <1>6, <1>7, <1>8, <1>9, <1>10, <1>11, <1>12,
     <1>13, <1>14 DEF Next, User, Gui, Callback

\* and of the bags.
LEMMA BagTypesStep == Types /\ CallInv /\ Books /\ [Next]_vars => BagTypes'
<1> SUFFICES ASSUME Types, CallInv, Books, [Next]_vars PROVE BagTypes'
  OBVIOUS
<1>a. content' = content => Bag' = Bag /\ Opened' = Opened
  BY SameBags
<1>b. BagTypes
  BY TypesParts
<1> USE DEF BagTypes, gui, flags, stats, disk, bounds, Request, EnsureNode, NoneSubscribed
<1>1. CASE Construct \/ DiscoverTopics \/ StartRefused \/ StartFails \/ Pause \/ Resume \/
           SplitBag \/ Stop \/ Destroy \/ DestroyIdle \/ ResetStats \/ Record \/ LockWriter \/
           Stopped \/ CancelExecutor \/ JoinExecutor \/ TestFlags \/ FindWriter \/ WriteFails \/
           Count \/ OpenFails \/ DropWriter \/ WriteLost
  BY <1>1, <1>a, <1>b DEF Construct, DiscoverTopics, StartRefused, StartFails, Pause,
                          Resume, SplitBag, Stop, Destroy, DestroyIdle, ResetStats,
                          Record, LockWriter, Stopped, CancelExecutor, JoinExecutor,
                          TestFlags, FindWriter, WriteFails, Count, OpenFails,
                          DropWriter, WriteLost
<1>2. CASE GiveUp \/ GiveUpThrows
  <2>1. writer \in Opened
    BY <1>2, <1>b DEF GiveUp, GiveUpThrows, Books, BagOpen
  <2>2. QED BY <1>2, <2>1, <1>a, <1>b DEF GiveUp, GiveUpThrows
<1>3. CASE CloseWriter
  <2>1. writer = Bag
    BY <1>3 DEF CloseWriter, Books, BagOpen
  <2>2. {writer} \ {0} \subseteq Opened
    BY <2>1, <1>b
  <2>3. complete' \subseteq Opened /\ broken' \subseteq Opened
    BY <1>3, <2>2, <1>b DEF CloseWriter
  <2>4. UNCHANGED <<content, strays, subscriptions>> /\ writer' = 0
    BY <1>3 DEF CloseWriter
  <2>5. QED BY <2>3, <2>4, <1>a, <1>b
<1>4. CASE Write
  BY <1>4, <1>b, WriteKeepsBags DEF Write
<1>5. ASSUME NEW topics \in SUBSET Topics, Start(topics) PROVE BagTypes'
  BY <1>5, <1>a, <1>b DEF Start
<1>6. ASSUME NEW t \in Topics, Subscribe(t) PROVE BagTypes'
  <2>1. Bag \in 1..Bag
    BY <1>6, <1>b DEF Subscribe, Books, BagOpen
  <2>2. QED BY <1>6, <2>1, <1>a, <1>b DEF Subscribe
<1>7. ASSUME NEW t \in Topics, SubscribeFails(t) PROVE BagTypes'
  BY <1>7, <1>a, <1>b DEF SubscribeFails
<1>8. ASSUME NEW s \in subscriptions, Receive(s) PROVE BagTypes'
  BY <1>8, <1>a, <1>b DEF Receive
<1>9. CASE UNCHANGED vars BY <1>9, <1>a, <1>b DEF vars
<1>10. CASE Open
  <2>1. /\ Bag' = Bag + 1 /\ Opened' = 1..Bag + 1
        /\ content' \in [1..Bag + 1 -> Nat] /\ strays' \in [1..Bag + 1 -> Nat]
    BY <1>10, NextBag
  <2>2. /\ complete' = complete /\ broken' = broken /\ writer' = Bag + 1
        /\ subscriptions' = {}
    BY <1>10 DEF Open, Books, CallInv
  <2>3. Bag + 1 <= MaxBags
    BY <1>10, <1>b, BoundsAssumption DEF Open, Books
  <2>4. QED BY <1>b, <2>1, <2>2, <2>3
<1>11. CASE GiveUpEnds \/ WriteCrashes
  BY <1>11, <1>a, <1>b DEF GiveUpEnds, WriteCrashes, ProcessEnds
<1>12. QED
  BY <1>1, <1>2, <1>3, <1>4, <1>5, <1>6, <1>7, <1>8, <1>9, <1>10,
     <1>11 DEF Next, User, Gui, Callback

\* The parts make up the types.
LEMMA PartsAreTypes ==
  CallTypes /\ CountTypes /\ MutexTypes /\ CallbackTypes /\ BagTypes => Types
<1>1. BagTypes => writer \in 0..Bag + 1 /\ subscriptions \subseteq [topic : Topics, bag : 1..Bag]
  BY DEF BagTypes
<1>2. CallTypes /\ CountTypes /\ MutexTypes /\ CallbackTypes /\ BagTypes => TypeOK
  BY <1>1 DEF CallTypes, CountTypes, MutexTypes, CallbackTypes, BagTypes, TypeOK
<1>3. QED BY <1>2 DEF BagTypes, Types

\* A step from a state that keeps the calls' places keeps all the types.
LEMMA TypesStep == Types /\ CallInv /\ Books /\ [Next]_vars => Types'
<1>1. Types /\ CallInv /\ Books /\ [Next]_vars =>
        CallTypes' /\ CountTypes' /\ MutexTypes' /\ CallbackTypes' /\ BagTypes'
  BY TypesParts, CallTypesStep, CountTypesStep, MutexTypesStep, CallbackTypesStep,
     BagTypesStep
<1>2. CallTypes' /\ CountTypes' /\ MutexTypes' /\ CallbackTypes' /\ BagTypes' => Types'
  BY PartsAreTypes, PTL
<1>3. QED BY <1>1, <1>2

\* Every step keeps what the calls have done when they are at their places.
LEMMA CallInvStep == Types /\ CallInv /\ [Next]_vars => CallInv'
<1> SUFFICES ASSUME CallTypes, MutexTypes, Bag \in Nat, CallInv, [Next]_vars
             PROVE  CallInv'
  BY TypesParts DEF Types
<1>c. engine = "gone" => callback.at = "none"
  BY DEF CallInv, NoCallback
<1> USE DEF CallInv, gui, flags, stats, disk, bounds, Request,
      EnsureNode, NoneSubscribed, NoCallback
<1>1. CASE Construct BY <1>1 DEF Construct
<1>2. CASE DiscoverTopics BY <1>2 DEF DiscoverTopics
<1>3. CASE StartRefused BY <1>3 DEF StartRefused
<1>4. CASE StartFails BY <1>4 DEF StartFails
<1>5. CASE Pause BY <1>5 DEF Pause
<1>6. CASE Resume BY <1>6 DEF Resume
<1>7. CASE SplitBag BY <1>7 DEF SplitBag
<1>8. CASE Stop BY <1>8 DEF Stop
<1>9. CASE Destroy BY <1>9 DEF Destroy
<1>10. CASE DestroyIdle BY <1>10 DEF DestroyIdle
<1>11. CASE ResetStats BY <1>11 DEF ResetStats
<1>12. CASE Record BY <1>12 DEF Record
<1>13. CASE GiveUp BY <1>13 DEF GiveUp
<1>14. CASE LockWriter BY <1>14 DEF LockWriter
<1>15. CASE CloseWriter BY <1>15 DEF CloseWriter
<1>16. CASE Stopped BY <1>16 DEF Stopped
<1>17. CASE CancelExecutor BY <1>17 DEF CancelExecutor
<1>18. CASE JoinExecutor BY <1>18 DEF JoinExecutor
<1>19. CASE TestFlags
  <2>1. engine # "gone"
    BY <1>19, <1>c DEF TestFlags
  <2>2. UNCHANGED <<engine, timer, state, paused, stopping, subscriptions>>
    BY <1>19 DEF TestFlags
  <2>3. QED BY <2>1, <2>2
<1>20. CASE FindWriter
  <2>1. engine # "gone"
    BY <1>20, <1>c DEF FindWriter
  <2>2. UNCHANGED <<engine, timer, state, paused, stopping, subscriptions>>
    BY <1>20 DEF FindWriter
  <2>3. QED BY <2>1, <2>2
<1>21. CASE Write
  <2>1. engine # "gone"
    BY <1>21, <1>c DEF Write
  <2>2. UNCHANGED <<engine, timer, state, paused, stopping, subscriptions>>
    BY <1>21 DEF Write
  <2>3. QED BY <2>1, <2>2
<1>22. CASE WriteFails BY <1>22 DEF WriteFails
<1>23. CASE Count BY <1>23 DEF Count
<1>24. ASSUME NEW topics \in SUBSET Topics, Start(topics) PROVE CallInv'
  BY <1>24 DEF Start
<1>25. ASSUME NEW t \in Topics, Subscribe(t) PROVE CallInv'
  BY <1>25 DEF Subscribe
<1>26. ASSUME NEW t \in Topics, SubscribeFails(t) PROVE CallInv'
  BY <1>26 DEF SubscribeFails
<1>27. ASSUME NEW s \in subscriptions, Receive(s) PROVE CallInv'
  BY <1>27 DEF Receive
<1>28. CASE UNCHANGED vars BY <1>28 DEF vars
<1>29. CASE Open BY <1>29 DEF Open
<1>30. CASE OpenFails BY <1>30 DEF OpenFails
<1>31. CASE DropWriter BY <1>31 DEF DropWriter
<1>32. CASE GiveUpThrows BY <1>32 DEF GiveUpThrows
<1>33. CASE GiveUpEnds BY <1>33 DEF GiveUpEnds, ProcessEnds
<1>34. CASE WriteLost
  <2>1. engine # "gone"
    BY <1>34, <1>c DEF WriteLost
  <2>2. UNCHANGED <<engine, timer, state, paused, stopping, subscriptions>>
    BY <1>34 DEF WriteLost
  <2>3. QED BY <2>1, <2>2
<1>35. CASE WriteCrashes BY <1>35 DEF WriteCrashes, ProcessEnds
<1>36. QED
  BY <1>1, <1>2, <1>3, <1>4, <1>5, <1>6, <1>7, <1>8, <1>9, <1>10, <1>11, <1>12,
     <1>13, <1>14, <1>15, <1>16, <1>17, <1>18, <1>19, <1>20, <1>21, <1>22, <1>23,
     <1>24, <1>25, <1>26, <1>27, <1>28, <1>29, <1>30, <1>31, <1>32, <1>33, <1>34, <1>35
     DEF Next, User, Gui, Callback

\* Every step keeps the books: a bag that is open becomes complete or broken, never
\* forgotten.
LEMMA BooksStep == Types /\ CallInv /\ Books /\ [Next]_vars => Books'
<1> SUFFICES ASSUME Types, CallInv, Books, [Next]_vars PROVE Books'
  OBVIOUS
<1>a. content' = content => Bag' = Bag /\ Opened' = Opened
  BY SameBags
<1>b. Bag \in Nat /\ Opened = 1..Bag
      /\ complete \subseteq Opened /\ broken \subseteq Opened /\ engine \in Calls
  BY DEF Types, TypeOK
<1> USE DEF Books, BagOpen, Closed, gui, flags, stats, disk, bounds, Request, EnsureNode,
      NoneSubscribed, Calls
<1>1. CASE Construct
  <2>1. state = "idle" /\ engine = "gone" /\ engine' = "ready"
    BY <1>1 DEF Construct, CallInv
  <2>2. UNCHANGED <<state, writer, complete, broken, content>>
    BY <1>1 DEF Construct
  <2>3. QED BY <2>1, <2>2, <1>a
<1>2. CASE DiscoverTopics BY <1>2, <1>a DEF DiscoverTopics
<1>3. CASE StartRefused BY <1>3, <1>a DEF StartRefused
<1>4. CASE StartFails BY <1>4, <1>a DEF StartFails
<1>5. CASE Pause BY <1>5, <1>a DEF Pause
<1>6. CASE Resume BY <1>6, <1>a DEF Resume
<1>7. CASE SplitBag BY <1>7, <1>a DEF SplitBag
<1>8. CASE Stop BY <1>8, <1>a DEF Stop
<1>9. CASE Destroy BY <1>9, <1>a DEF Destroy
<1>10. CASE DestroyIdle BY <1>10, <1>a DEF DestroyIdle
<1>11. CASE ResetStats BY <1>11, <1>a DEF ResetStats
<1>12. CASE Record BY <1>12, <1>a DEF Record
<1>13. CASE GiveUp BY <1>13, <1>a, <1>b DEF GiveUp
<1>14. CASE LockWriter BY <1>14, <1>a DEF LockWriter
<1>15. CASE CloseWriter
  <2>1. Opened \ (complete \cup broken) = {Bag} /\ writer = Bag /\ Bag # 0
    BY <1>15 DEF CloseWriter
  <2>2. Opened' \ (complete' \cup broken') = {} /\ writer' = 0
    BY <1>15, <2>1, <1>a DEF CloseWriter
  <2>3. engine' = IF engine = "closing" THEN "closed" ELSE "joining"
    BY <1>15 DEF CloseWriter
  <2>4. QED BY <2>2, <2>3
<1>16. CASE Stopped
  <2>1. state' = "idle" /\ engine = "closed" /\ engine' = "ready"
    BY <1>16 DEF Stopped
  <2>2. UNCHANGED <<writer, complete, broken, content>>
    BY <1>16 DEF Stopped
  <2>3. QED BY <2>1, <2>2, <1>a
<1>17. CASE CancelExecutor BY <1>17, <1>a DEF CancelExecutor
<1>18. CASE JoinExecutor BY <1>18, <1>a DEF JoinExecutor
<1>19. CASE TestFlags BY <1>19, <1>a DEF TestFlags
<1>20. CASE FindWriter BY <1>20, <1>a DEF FindWriter
<1>21. CASE Write
  <2>1. Opened' = Opened /\ Bag' = Bag
    BY <1>21, WriteKeepsBags
  <2>2. QED BY <1>21, <2>1 DEF Write
<1>22. CASE WriteFails BY <1>22, <1>a DEF WriteFails
<1>23. CASE Count BY <1>23, <1>a DEF Count
<1>24. ASSUME NEW topics \in SUBSET Topics, Start(topics) PROVE Books'
  BY <1>24, <1>a DEF Start
<1>25. ASSUME NEW t \in Topics, Subscribe(t) PROVE Books'
  BY <1>25, <1>a DEF Subscribe
<1>26. ASSUME NEW t \in Topics, SubscribeFails(t) PROVE Books'
  BY <1>26, <1>a DEF SubscribeFails
<1>27. ASSUME NEW s \in subscriptions, Receive(s) PROVE Books'
  BY <1>27, <1>a DEF Receive
<1>28. CASE UNCHANGED vars BY <1>28, <1>a DEF vars
<1>29. CASE Open
  <2>1. Opened' = 1..Bag + 1 /\ Bag' = Bag + 1
    BY <1>29, NextBag
  <2>2. Opened \ (complete \cup broken) = {} /\ writer = Bag + 1
    BY <1>29 DEF Open
  <2>3. /\ engine' = "resetting" /\ writer' = writer
        /\ complete' = complete /\ broken' = broken
    BY <1>29 DEF Open
  <2>4. Bag + 1 \notin complete \cup broken
    BY <1>b, NextNumber
  <2>5. Opened' \ (complete' \cup broken') = {Bag'}
    <3>1. Opened' = Opened \cup {Bag + 1}
      <4> HIDE DEF Books, BagOpen, Closed, Calls
      <4>1. QED BY <1>b, <2>1, NextNumber
    <3>2. QED BY <2>1, <2>2, <2>3, <2>4, <3>1
  <2>6. writer' = Bag' /\ Bag' # 0
    <3> HIDE DEF Books, BagOpen, Closed, Calls
    <3>1. QED BY <1>b, <2>1, <2>2, <2>3
  <2>7. QED BY <2>3, <2>5, <2>6
<1>30. CASE OpenFails BY <1>30, <1>a DEF OpenFails, CallInv
<1>31. CASE DropWriter BY <1>31, <1>a DEF DropWriter, CallInv
<1>32. CASE GiveUpThrows BY <1>32, <1>a, <1>b DEF GiveUpThrows, CallInv
<1>33. CASE GiveUpEnds BY <1>33, <1>a DEF GiveUpEnds, ProcessEnds
<1>34. CASE WriteLost BY <1>34, <1>a DEF WriteLost
<1>35. CASE WriteCrashes BY <1>35, <1>a DEF WriteCrashes, ProcessEnds
<1>36. QED
  BY <1>1, <1>2, <1>3, <1>4, <1>5, <1>6, <1>7, <1>8, <1>9, <1>10, <1>11, <1>12,
     <1>13, <1>14, <1>15, <1>16, <1>17, <1>18, <1>19, <1>20, <1>21, <1>22, <1>23,
     <1>24, <1>25, <1>26, <1>27, <1>28, <1>29, <1>30, <1>31, <1>32, <1>33, <1>34,
     <1>35 DEF Next, User, Gui, Callback
-----------------------------------------------------------------------------
\* A callback begins with a message of the last bag,
LEMMA CallbackBegins ==
  ASSUME Types, NEW s \in subscriptions, Receive(s)
  PROVE  callback' # NoCallback /\ callback'.bag = Bag /\ callback'.at = "received"
<1>1. callback' = [at |-> "received", topic |-> s.topic, bag |-> Bag]
  BY DEF Receive, Types
<1>2. QED BY <1>1, CallbackFacts

\* goes on only if neither flag is set,
LEMMA CallbackTests ==
  ASSUME Types, TestFlags
  PROVE  \/ callback' = NoCallback
         \/ /\ callback' # NoCallback /\ callback'.bag = callback.bag
            /\ callback'.at = "passed" /\ ~paused /\ ~stopping
<1>1. callback \in [at : Stages, topic : Topics, bag : 1..Bag]
  BY CallbackFacts DEF TestFlags
<1>2. CASE paused \/ stopping BY <1>2 DEF TestFlags
<1>3. CASE ~(paused \/ stopping)
  <2>1. callback' = [callback EXCEPT !.at = "passed"]
    BY <1>3 DEF TestFlags
  <2>2. callback'.at = "passed" /\ callback'.bag = callback.bag
    BY <1>1, <2>1
  <2>3. QED BY <1>3, <2>2, CallbackFacts
<1>4. QED BY <1>2, <1>3

\* writes only if there is a writer,
LEMMA CallbackFinds ==
  ASSUME Types, FindWriter
  PROVE  /\ callback' # NoCallback /\ callback'.bag = callback.bag
         /\ callback'.at = IF writer = 0 THEN "counting" ELSE "writing"
<1>1. callback \in [at : Stages, topic : Topics, bag : 1..Bag]
  BY CallbackFacts DEF FindWriter
<1>2. callback' = [callback EXCEPT !.at = IF writer = 0 THEN "counting" ELSE "writing"]
  BY DEF FindWriter
<1>3. /\ callback'.at = IF writer = 0 THEN "counting" ELSE "writing"
      /\ callback'.bag = callback.bag
  BY <1>1, <1>2
<1>4. QED BY <1>3, CallbackFacts

\* and counts when it has written.
LEMMA CallbackWrites ==
  ASSUME Types, Write
  PROVE  callback' # NoCallback /\ callback'.bag = callback.bag /\ callback'.at = "counting"
<1>1. callback \in [at : Stages, topic : Topics, bag : 1..Bag]
  BY CallbackFacts DEF Write
<1>2. callback' = [callback EXCEPT !.at = "counting"]
  BY DEF Write
<1>3. callback'.at = "counting" /\ callback'.bag = callback.bag
  BY <1>1, <1>2
<1>4. QED BY <1>3, CallbackFacts

\* Every step keeps what is known of the callback.
LEMMA CallbackInvStep ==
  Types /\ CallInv /\ Books /\ CallbackInv /\ [Next]_vars => CallbackInv'
<1> SUFFICES ASSUME Types, CallInv, Books, CallbackInv, [Next]_vars PROVE CallbackInv'
  OBVIOUS
<1>a. content' = content => Bag' = Bag /\ Opened' = Opened
  BY SameBags
<1>n. Bag \in Nat
  BY DEF Types
<1>b. Bag \in Nat /\ MutexTypes /\ CallTypes /\ Opened = 1..Bag
  BY TypesParts DEF Types, TypeOK
<1> USE DEF CallbackInv, BagOpen, AtMostOneStray, gui, flags, stats, disk,
      bounds, Request, EnsureNode, NoneSubscribed
<1>1. CASE Construct BY <1>1, <1>a, <1>b, CallbackFacts DEF Construct
<1>2. CASE DiscoverTopics BY <1>2, <1>a, <1>b, CallbackFacts DEF DiscoverTopics
<1>3. CASE StartRefused BY <1>3, <1>a, <1>b, CallbackFacts DEF StartRefused
<1>4. CASE StartFails BY <1>4, <1>a, <1>b, CallbackFacts DEF StartFails
<1>5. CASE Pause BY <1>5, <1>a, <1>b, CallbackFacts DEF Pause
<1>6. CASE Resume BY <1>6, <1>a, <1>b, CallbackFacts DEF Resume
<1>7. CASE SplitBag BY <1>7, <1>a, <1>b, CallbackFacts DEF SplitBag
<1>8. CASE Stop BY <1>8, <1>a, <1>b, CallbackFacts DEF Stop
<1>9. CASE Destroy BY <1>9, <1>a, <1>b, CallbackFacts DEF Destroy
<1>10. CASE DestroyIdle BY <1>10, <1>a, <1>b, CallbackFacts DEF DestroyIdle
<1>11. CASE ResetStats BY <1>11, <1>a, <1>b, CallbackFacts DEF ResetStats
<1>12. CASE Record BY <1>12, <1>a, <1>b, CallbackFacts DEF Record, CallInv
<1>13. CASE GiveUp BY <1>13, <1>a, <1>b, CallbackFacts DEF GiveUp, CallInv
<1>14. CASE LockWriter BY <1>14, <1>a, <1>b, CallbackFacts DEF LockWriter
<1>15. CASE CloseWriter
  BY <1>15, <1>a, <1>b, CallbackFacts DEF CloseWriter, MutexTypes
<1>16. CASE Stopped BY <1>16, <1>a, <1>b, CallbackFacts DEF Stopped
<1>17. CASE CancelExecutor BY <1>17, <1>a, <1>b, CallbackFacts DEF CancelExecutor
<1>18. CASE JoinExecutor BY <1>18, <1>a, <1>b, CallbackFacts DEF JoinExecutor
<1>19. CASE TestFlags BY <1>19, <1>a, <1>b, CallbackFacts, CallbackTests DEF TestFlags
<1>20. CASE FindWriter
  <2>1. state # "idle" /\ writer # 0 => BagOpen
    BY <1>b DEF Books, CallInv, CallTypes, Calls
  <2>2. /\ UNCHANGED <<engine, state, writer, subscriptions, strays>>
        /\ Bag' = Bag /\ Opened' = Opened
    BY <1>20, <1>a DEF FindWriter
  <2>3. callback # NoCallback /\ callback.at = "passed"
    BY <1>20, CallbackFacts DEF FindWriter
  <2>4. /\ callback' # NoCallback /\ callback'.bag = callback.bag
        /\ callback'.at = IF writer = 0 THEN "counting" ELSE "writing"
    BY <1>20, CallbackFinds
  <2>5. BagOpen' = BagOpen
    BY <2>2
  <2> HIDE DEF BagOpen
  <2>6. QED BY <2>1, <2>2, <2>3, <2>4, <2>5
<1>21. CASE Write
  <2>1. callback'.at = "counting" /\ callback'.bag = callback.bag
    BY <1>21, CallbackWrites
  <2>2. Opened' = 1..Bag /\ Bag' = Bag /\ writer = Bag
    BY <1>21, <1>b, WriteKeepsBags
  <2>3. \A b \in 1..Bag : strays'[b] <= 1
    <3>1. CASE callback.bag = Bag
      BY <1>21, <1>b, <2>2, <3>1, WriteKeepsBags
    <3>2. CASE callback.bag # Bag
      <4>1. strays' = [strays EXCEPT ![Bag] = @ + 1]
        BY <1>21, <3>2, WriteKeepsBags
      <4>2. strays[Bag] = 0
        <5>1. callback.bag \in 1..Bag /\ callback.at = "writing"
          BY <1>21, CallbackFacts DEF Write
        <5>2. callback.bag < Bag
          <6> HIDE DEF CallbackInv, BagOpen, AtMostOneStray
          <6>1. QED BY <1>n, <3>2, <5>1, BelowLast
        <5>3. QED BY <5>1, <5>2
      <4>3. strays \in [1..Bag -> Nat] /\ \A b \in 1..Bag : strays[b] <= 1
        BY <1>b DEF Types
      <4> HIDE DEF CallbackInv, BagOpen, AtMostOneStray
      <4>4. \A b \in 1..Bag : strays'[b] = IF b = Bag THEN 1 ELSE strays[b]
        BY <1>n, <4>1, <4>2, <4>3
      <4>5. QED BY <4>3, <4>4
    <3>3. QED BY <3>1, <3>2
  <2>4. callback # NoCallback
    BY <1>21, CallbackFacts DEF Write
  <2>5. engine' = engine /\ subscriptions' = subscriptions
    BY <1>21 DEF Write
  <2>6. QED BY <2>1, <2>2, <2>3, <2>4, <2>5
<1>22. CASE WriteFails BY <1>22, <1>a, <1>b, CallbackFacts DEF WriteFails
<1>23. CASE Count BY <1>23, <1>a, <1>b, CallbackFacts DEF Count
<1>24. ASSUME NEW topics \in SUBSET Topics, Start(topics) PROVE CallbackInv'
  <2>1. callback' = Orphaned /\ engine' = "opening" /\ state' = "idle"
    BY <1>24 DEF Start
  <2>2. /\ Bag' = Bag /\ AtMostOneStray' = AtMostOneStray /\ strays' = strays
        /\ writer' # 0 /\ writer' # Bag'
    BY <1>24, <1>a, <1>n DEF Start
  <2> HIDE DEF AtMostOneStray
  <2>3. QED BY <1>n, <2>1, <2>2, CallbackFacts, CallbackOrphaned
<1>25. ASSUME NEW t \in Topics, Subscribe(t) PROVE CallbackInv'
  BY <1>25, <1>a, <1>b, CallbackFacts DEF Subscribe
<1>26. ASSUME NEW t \in Topics, SubscribeFails(t) PROVE CallbackInv'
  BY <1>26, <1>a, <1>b, CallbackFacts DEF SubscribeFails
<1>27. ASSUME NEW s \in subscriptions, Receive(s) PROVE CallbackInv'
  <2>1. callback' # NoCallback /\ callback'.bag = Bag /\ callback'.at = "received"
    BY <1>27, CallbackBegins
  <2>2. /\ UNCHANGED <<engine, state, writer, subscriptions, strays>>
        /\ Bag' = Bag /\ AtMostOneStray' = AtMostOneStray
    BY <1>27, <1>a DEF Receive
  <2>3. engine \in {"ready", "subscribing"} /\ subscriptions # {}
    BY <1>27 DEF CallInv
  <2>4. ~ (Bag < Bag)
    <3> HIDE DEF CallbackInv, BagOpen, AtMostOneStray
    <3>1. QED BY <1>n
  <2> HIDE DEF AtMostOneStray
  <2>5. QED BY <2>1, <2>2, <2>3, <2>4
<1>28. CASE UNCHANGED vars BY <1>28, <1>a, <1>b, CallbackFacts DEF vars
<1>29. CASE Open
  <2>1. /\ Bag' = Bag + 1 /\ Opened' = 1..Bag + 1 /\ strays'[Bag + 1] = 0
        /\ \A b \in 1..Bag : strays'[b] = strays[b]
    BY <1>29, NextBag
  <2>2. /\ callback' = callback /\ writer' = writer /\ engine' = "resetting"
        /\ state' = "idle"
    BY <1>29 DEF Open, CallInv
  <2>3. \A b \in 1..Bag + 1 : strays'[b] <= 1
    <3>1. \A b \in 1..Bag : strays[b] <= 1
      BY <1>b
    <3> HIDE DEF CallbackInv, BagOpen, AtMostOneStray
    <3>2. \A b \in 1..Bag + 1 : b \in 1..Bag \/ b = Bag + 1
      BY <1>n, NextNumber
    <3>3. QED BY <2>1, <3>1, <3>2
  <2>4. callback # NoCallback => callback.bag < Bag + 1
    <3> HIDE DEF CallbackInv, BagOpen, AtMostOneStray
    <3>1. QED BY <1>n, CallbackFacts, BelowLast
  <2>5. writer # 0
    BY <1>29, <1>b DEF Open, Books
  <2>6. AtMostOneStray'
    BY <2>1, <2>3
  <2> HIDE DEF AtMostOneStray
  <2>7. QED BY <1>n, <2>1, <2>2, <2>4, <2>5, <2>6, CallbackFacts
<1>30. CASE OpenFails \/ DropWriter
  <2>1. callback' = Orphaned /\ engine' = "ready" /\ state' = "idle" /\ writer' = 0
    BY <1>30 DEF OpenFails, DropWriter, CallInv
  <2>2. Bag' = Bag /\ AtMostOneStray' = AtMostOneStray /\ strays' = strays
    BY <1>30, <1>a DEF OpenFails, DropWriter
  <2>3. callback # NoCallback => Bag # 0
    <3> HIDE DEF CallbackInv, BagOpen, AtMostOneStray
    <3>1. QED BY <1>n, CallbackFacts, BelowLast
  <2> HIDE DEF AtMostOneStray
  <2>4. QED BY <1>n, <2>1, <2>2, <2>3, CallbackFacts, CallbackOrphaned
<1>31. CASE GiveUpThrows
  BY <1>31, <1>a, <1>b, CallbackFacts DEF GiveUpThrows, CallInv
<1>32. CASE GiveUpEnds \/ WriteCrashes
  BY <1>32, <1>a, <1>b, CallbackFacts DEF GiveUpEnds, WriteCrashes, ProcessEnds
<1>33. CASE WriteLost
  <2>1. callback \in [at : Stages, topic : Topics, bag : 1..Bag]
    BY <1>33, CallbackFacts DEF WriteLost
  <2>2. callback' = [callback EXCEPT !.at = "counting"]
    BY <1>33 DEF WriteLost
  <2>3. callback'.at = "counting" /\ callback'.bag = callback.bag /\ callback # NoCallback
    BY <1>33, <2>1, <2>2, CallbackFacts DEF WriteLost
  <2>4. /\ UNCHANGED <<engine, state, writer, subscriptions, strays>>
        /\ Bag' = Bag /\ Opened' = Opened
    BY <1>33, <1>a DEF WriteLost
  <2>5. QED BY <1>b, <2>3, <2>4
<1>34. QED
  BY <1>1, <1>2, <1>3, <1>4, <1>5, <1>6, <1>7, <1>8, <1>9, <1>10, <1>11, <1>12,
     <1>13, <1>14, <1>15, <1>16, <1>17, <1>18, <1>19, <1>20, <1>21, <1>22, <1>23,
     <1>24, <1>25, <1>26, <1>27, <1>28, <1>29, <1>30, <1>31, <1>32, <1>33
     DEF Next, User, Gui, Callback

\* Every step keeps what is known of the messages written in a pause.
LEMMA LateInvStep == Types /\ LateInv /\ [Next]_vars => LateInv'
<1> SUFFICES ASSUME Types, LateInv, [Next]_vars PROVE LateInv'
  OBVIOUS
<1>a. late \in Nat
  BY DEF Types, TypeOK
<1> USE DEF LateInv, PauseHolds, gui, flags, stats, disk, bounds, Request,
      EnsureNode, NoneSubscribed
<1>1. CASE Construct BY <1>1, <1>a, CallbackFacts DEF Construct
<1>2. CASE DiscoverTopics BY <1>2, <1>a, CallbackFacts DEF DiscoverTopics
<1>3. CASE StartRefused BY <1>3, <1>a, CallbackFacts DEF StartRefused
<1>4. CASE StartFails BY <1>4, <1>a, CallbackFacts DEF StartFails
<1>5. CASE Pause BY <1>5, <1>a, CallbackFacts DEF Pause
<1>6. CASE Resume BY <1>6, <1>a, CallbackFacts DEF Resume
<1>7. CASE SplitBag BY <1>7, <1>a, CallbackFacts DEF SplitBag
<1>8. CASE Stop BY <1>8, <1>a, CallbackFacts DEF Stop
<1>9. CASE Destroy BY <1>9, <1>a, CallbackFacts DEF Destroy
<1>10. CASE DestroyIdle BY <1>10, <1>a, CallbackFacts DEF DestroyIdle
<1>11. CASE ResetStats BY <1>11, <1>a, CallbackFacts DEF ResetStats
<1>12. CASE Record BY <1>12, <1>a, CallbackFacts DEF Record
<1>13. CASE GiveUp BY <1>13, <1>a, CallbackFacts DEF GiveUp
<1>14. CASE LockWriter BY <1>14, <1>a, CallbackFacts DEF LockWriter
<1>15. CASE CloseWriter BY <1>15, <1>a, CallbackFacts DEF CloseWriter
<1>16. CASE Stopped BY <1>16, <1>a, CallbackFacts DEF Stopped
<1>17. CASE CancelExecutor BY <1>17, <1>a, CallbackFacts DEF CancelExecutor
<1>18. CASE JoinExecutor BY <1>18, <1>a, CallbackFacts DEF JoinExecutor
<1>19. CASE TestFlags BY <1>19, <1>a, CallbackFacts, CallbackTests DEF TestFlags
<1>20. CASE FindWriter BY <1>20, <1>a, CallbackFacts, CallbackFinds DEF FindWriter
<1>21. CASE Write BY <1>21, <1>a, CallbackFacts, CallbackWrites DEF Write
<1>22. CASE WriteFails BY <1>22, <1>a, CallbackFacts DEF WriteFails
<1>23. CASE Count BY <1>23, <1>a, CallbackFacts DEF Count
<1>24. ASSUME NEW topics \in SUBSET Topics, Start(topics) PROVE LateInv'
  BY <1>24, <1>a, CallbackFacts, CallbackOrphaned DEF Start
<1>25. ASSUME NEW t \in Topics, Subscribe(t) PROVE LateInv'
  BY <1>25, <1>a, CallbackFacts DEF Subscribe
<1>26. ASSUME NEW t \in Topics, SubscribeFails(t) PROVE LateInv'
  BY <1>26, <1>a, CallbackFacts DEF SubscribeFails
<1>27. ASSUME NEW s \in subscriptions, Receive(s) PROVE LateInv'
  BY <1>27, <1>a, CallbackFacts, CallbackBegins DEF Receive
<1>28. CASE UNCHANGED vars BY <1>28, <1>a, CallbackFacts DEF vars
<1>29. CASE Open BY <1>29, <1>a, CallbackFacts DEF Open
<1>30. CASE OpenFails BY <1>30, <1>a, CallbackFacts, CallbackOrphaned DEF OpenFails
<1>31. CASE DropWriter BY <1>31, <1>a, CallbackFacts, CallbackOrphaned DEF DropWriter
<1>32. CASE GiveUpThrows BY <1>32, <1>a, CallbackFacts DEF GiveUpThrows
<1>33. CASE GiveUpEnds BY <1>33, <1>a, CallbackFacts DEF GiveUpEnds, ProcessEnds
<1>34. CASE WriteLost BY <1>34, <1>a, CallbackFacts DEF WriteLost
<1>35. CASE WriteCrashes BY <1>35, <1>a, CallbackFacts DEF WriteCrashes, ProcessEnds
<1>36. QED
  BY <1>1, <1>2, <1>3, <1>4, <1>5, <1>6, <1>7, <1>8, <1>9, <1>10, <1>11, <1>12,
     <1>13, <1>14, <1>15, <1>16, <1>17, <1>18, <1>19, <1>20, <1>21, <1>22, <1>23,
     <1>24, <1>25, <1>26, <1>27, <1>28, <1>29, <1>30, <1>31, <1>32, <1>33, <1>34, <1>35
     DEF Next, User, Gui, Callback

\* Every step keeps the total near the messages of the bag.
LEMMA CountInvStep ==
  Types /\ CallInv /\ Books /\ CallbackInv /\ CountInv /\ [Next]_vars => CountInv'
<1> SUFFICES ASSUME Types, CallInv, Books, CallbackInv, CountInv, [Next]_vars
             PROVE  CountInv'
  OBVIOUS
<1>a. content' = content => Bag' = Bag
  BY SameBags
<1>b. Bag \in Nat /\ total \in Nat /\ (Bag # 0 => content[Bag] \in Nat)
  <2>1. Bag \in Nat /\ total \in Nat /\ content \in [1..Bag -> Nat]
    BY DEF Types, TypeOK
  <2>2. QED BY <2>1
<1> USE DEF CountInv, NearInv, Ahead, gui, flags, stats, disk, bounds, Request,
      EnsureNode, NoneSubscribed
<1>1. CASE Construct
  <2>1. DOMAIN topicStats' = {}
    BY <1>1 DEF Construct
  <2>2. callback' = NoCallback /\ engine' # "resetting" /\ engine = "gone"
    BY <1>1 DEF Construct, CallInv
  <2>3. writer' = 0
    BY <1>1, <2>2 DEF Construct, Books
  <2>4. QED BY <2>1, <2>2, <2>3
<1>2. CASE DiscoverTopics BY <1>2, <1>a, <1>b, CallbackFacts DEF DiscoverTopics
<1>3. CASE StartRefused BY <1>3, <1>a, <1>b, CallbackFacts DEF StartRefused
<1>4. CASE StartFails BY <1>4, <1>a, <1>b, CallbackFacts DEF StartFails
<1>5. CASE Pause BY <1>5, <1>a, <1>b, CallbackFacts DEF Pause
<1>6. CASE Resume BY <1>6, <1>a, <1>b, CallbackFacts DEF Resume
<1>7. CASE SplitBag BY <1>7, <1>a, <1>b, CallbackFacts DEF SplitBag
<1>8. CASE Stop BY <1>8, <1>a, <1>b, CallbackFacts DEF Stop
<1>9. CASE Destroy BY <1>9, <1>a, <1>b, CallbackFacts DEF Destroy
<1>10. CASE DestroyIdle BY <1>10, <1>a, <1>b, CallbackFacts DEF DestroyIdle
<1>11. CASE ResetStats
  <2>1. Bag' = Bag /\ writer' = Bag /\ Bag # 0 /\ content'[Bag] = 0 /\ total' = 0
    BY <1>11, <1>a DEF ResetStats, Books, BagOpen
  <2>2. callback' # NoCallback => callback'.bag < Bag
    BY <1>11 DEF ResetStats, CallbackInv
  <2>3. engine' # "resetting"
    BY <1>11 DEF ResetStats
  <2>4. QED BY <1>b, <2>1, <2>2, <2>3
<1>12. CASE Record BY <1>12, <1>a, <1>b, CallbackFacts DEF Record
<1>13. CASE GiveUp BY <1>13, <1>a, <1>b, CallbackFacts DEF GiveUp
<1>14. CASE LockWriter BY <1>14, <1>a, <1>b, CallbackFacts DEF LockWriter
<1>15. CASE CloseWriter
  <2>1. /\ writer' = 0 /\ engine \notin {"resetting", "opening"}
        /\ engine' # "resetting"
        /\ UNCHANGED <<callback, topicStats, total, content>> /\ Bag' = Bag
    BY <1>15, <1>a DEF CloseWriter
  <2>2. QED BY <2>1, <1>b
<1>16. CASE Stopped BY <1>16, <1>a, <1>b, CallbackFacts DEF Stopped
<1>17. CASE CancelExecutor BY <1>17, <1>a, <1>b, CallbackFacts DEF CancelExecutor
<1>18. CASE JoinExecutor BY <1>18, <1>a, <1>b, CallbackFacts DEF JoinExecutor
<1>19. CASE TestFlags BY <1>19, <1>a, <1>b, CallbackFacts, CallbackTests DEF TestFlags
<1>20. CASE FindWriter
  BY <1>20, <1>a, <1>b, CallbackFacts, CallbackFinds DEF FindWriter
<1>21. CASE Write
  <2>1. callback' # NoCallback /\ callback'.bag = callback.bag /\ callback'.at = "counting"
    BY <1>21, CallbackWrites
  <2>2. Bag' = Bag /\ writer = Bag
    BY <1>21, WriteKeepsBags
  <2>3. content'[Bag] = IF callback.bag = Bag THEN content[Bag] + 1 ELSE content[Bag]
    BY <1>21, WriteKeepsBags
  <2>4. callback # NoCallback /\ (engine = "resetting" => callback.bag < Bag)
    BY <1>21, CallbackFacts DEF Write, CallbackInv
  <2>5. engine' = engine /\ total' = total /\ writer' = writer
    BY <1>21 DEF Write
  <2>6. QED BY <1>21, <2>1, <2>2, <2>3, <2>4, <2>5, <1>b, CallbackFacts DEF Write
<1>22. CASE WriteFails BY <1>22, <1>a, <1>b, CallbackFacts DEF WriteFails
<1>23. CASE Count BY <1>23, <1>a, <1>b, CallbackFacts DEF Count
<1>24. ASSUME NEW topics \in SUBSET Topics, Start(topics) PROVE CountInv'
  <2>1. callback' = Orphaned /\ engine' = "opening" /\ writer' = Bag + 1 /\ Bag' = Bag
    BY <1>24, <1>a DEF Start
  <2>2. UNCHANGED <<topicStats, total, content>> /\ engine = "ready"
    BY <1>24 DEF Start
  <2>3. QED BY <1>b, <2>1, <2>2, CallbackFacts, CallbackOrphaned
<1>25. ASSUME NEW t \in Topics, Subscribe(t) PROVE CountInv'
  <2>1. NearInv
    BY <1>25 DEF Subscribe, Books, BagOpen
  <2>2. UNCHANGED <<callback, writer, total, content, engine>> /\ Bag' = Bag
    BY <1>25, <1>a DEF Subscribe
  <2>3. NearInv'
    BY <2>1, <2>2
  <2>4. engine # "resetting"
    BY <1>25 DEF Subscribe
  <2> HIDE DEF NearInv
  <2>5. QED BY <2>2, <2>3, <2>4
<1>26. ASSUME NEW t \in Topics, SubscribeFails(t) PROVE CountInv'
  <2>1. NearInv
    BY <1>26 DEF SubscribeFails, Books, BagOpen
  <2>2. UNCHANGED <<callback, writer, total, content, engine>> /\ Bag' = Bag
    BY <1>26, <1>a DEF SubscribeFails
  <2>3. NearInv'
    BY <2>1, <2>2
  <2>4. engine # "resetting"
    BY <1>26 DEF SubscribeFails
  <2> HIDE DEF NearInv
  <2>5. QED BY <2>2, <2>3, <2>4
<1>27. ASSUME NEW s \in subscriptions, Receive(s) PROVE CountInv'
  <2>1. Bag # 0 /\ writer = Bag /\ engine \notin {"resetting", "opening"}
    BY <1>27 DEF Receive, CallInv, Books, BagOpen
  <2>2. callback' # NoCallback /\ callback'.bag = Bag /\ callback'.at = "received"
    BY <1>27, CallbackBegins
  <2>3. QED BY <1>27, <2>1, <2>2, <1>a, <1>b DEF Receive
<1>28. CASE UNCHANGED vars BY <1>28, <1>a, <1>b, CallbackFacts DEF vars
<1>29. CASE Open
  <2>1. Bag' = Bag + 1 /\ content'[Bag + 1] = 0
    BY <1>29, NextBag
  <2>2. QED BY <1>29, <2>1 DEF Open
<1>30. CASE OpenFails \/ DropWriter
  <2>1. callback' = Orphaned /\ engine' = "ready" /\ writer' = 0 /\ Bag' = Bag
    BY <1>30, <1>a DEF OpenFails, DropWriter
  <2>2. UNCHANGED <<topicStats, total, content>> /\ engine # "resetting"
    BY <1>30 DEF OpenFails, DropWriter
  <2>3. QED BY <1>b, <2>1, <2>2, CallbackFacts, CallbackOrphaned
<1>31. CASE GiveUpThrows BY <1>31, <1>a, <1>b, CallbackFacts DEF GiveUpThrows
<1>32. CASE GiveUpEnds \/ WriteCrashes
  <2>1. DOMAIN topicStats' = {}
    BY <1>32 DEF GiveUpEnds, WriteCrashes, ProcessEnds
  <2>2. callback' = NoCallback /\ writer' = 0 /\ engine' = "gone"
    BY <1>32 DEF GiveUpEnds, WriteCrashes, ProcessEnds
  <2>3. QED BY <2>1, <2>2
<1>33. CASE WriteLost
  <2>1. callback \in [at : Stages, topic : Topics, bag : 1..Bag]
    BY <1>33, CallbackFacts DEF WriteLost
  <2>2. callback' = [callback EXCEPT !.at = "counting"]
    BY <1>33 DEF WriteLost
  <2>3. /\ callback'.at = "counting" /\ callback'.bag = callback.bag
        /\ callback # NoCallback /\ callback.at = "dangling"
    BY <1>33, <2>1, <2>2, CallbackFacts DEF WriteLost
  <2>4. callback' # NoCallback
    BY <2>3, CallbackFacts
  <2>5. UNCHANGED <<engine, writer, total, content, topicStats, state>> /\ Bag' = Bag
    BY <1>33, <1>a DEF WriteLost
  <2>6. writer = Bag /\ Bag # 0 => callback.bag < Bag
    BY <2>3 DEF CallbackInv
  <2>7. QED BY <1>b, <2>1, <2>3, <2>4, <2>5, <2>6
<1>34. QED
  BY <1>1, <1>2, <1>3, <1>4, <1>5, <1>6, <1>7, <1>8, <1>9, <1>10, <1>11, <1>12,
     <1>13, <1>14, <1>15, <1>16, <1>17, <1>18, <1>19, <1>20, <1>21, <1>22, <1>23,
     <1>24, <1>25, <1>26, <1>27, <1>28, <1>29, <1>30, <1>31, <1>32, <1>33
     DEF Next, User, Gui, Callback

\* The statistics, as far as the sum goes: a number for each topic of a finite set, and
\* the total of all of them.
SumInv ==
  /\ topicStats \in [DOMAIN topicStats -> Nat]
  /\ total = SumOf(topicStats, DOMAIN topicStats)

\* Without topics there is nothing to add up.
LEMMA NoTopics == topicStats = <<>> /\ total = 0 => SumInv
<1> SUFFICES ASSUME topicStats = <<>>, total = 0 PROVE SumInv
  OBVIOUS
<1>1. DOMAIN topicStats = {}
  OBVIOUS
<1>2. topicStats \in [{} -> Nat]
  OBVIOUS
<1>3. QED BY <1>1, <1>2, SumOfNothing DEF SumInv

\* A new entry counts nothing.
LEMMA EntryCountsNothing ==
  ASSUME Types, SumInv, NEW t \in Topics, topicStats' = WithEntry(t), total' = total
  PROVE  SumInv'
<1> DEFINE S == DOMAIN topicStats
<1>1. IsFiniteSet(S) /\ total \in Nat
  BY TopicsAssumption, FS_Subset DEF Types, TypeOK
<1>2. /\ topicStats' \in [S \cup {t} -> Nat] /\ DOMAIN topicStats' = S \cup {t}
      /\ topicStats'[t] = (IF t \in S THEN topicStats[t] ELSE 0) + 0
      /\ \A u \in S \ {t} : topicStats'[u] = topicStats[u]
  BY DEF WithEntry, SumInv
<1>3. topicStats \in [S -> Nat]
  BY DEF SumInv
<1> HIDE DEF S
<1>4. SumOf(topicStats', S \cup {t}) = SumOf(topicStats, S) + 0
  BY <1>1, <1>2, <1>3, SumGrows
<1>5. total = SumOf(topicStats, S)
  BY DEF S, SumInv
<1>6. QED BY <1>1, <1>2, <1>4, <1>5 DEF SumInv

\* Whatever is counted for a topic is counted in the total.
LEMMA CountedForBoth == Types /\ SumInv /\ Count => SumInv'
<1> SUFFICES ASSUME Types, SumInv, Count PROVE SumInv'
  OBVIOUS
<1> DEFINE S == DOMAIN topicStats
           t == callback.topic
<1>1. IsFiniteSet(S) /\ total \in Nat
  BY TopicsAssumption, FS_Subset DEF Types, TypeOK
<1>2. /\ topicStats' \in [S \cup {t} -> Nat] /\ DOMAIN topicStats' = S \cup {t}
      /\ topicStats'[t] = (IF t \in S THEN topicStats[t] ELSE 0) + 1
      /\ \A u \in S \ {t} : topicStats'[u] = topicStats[u]
  BY DEF Count, WithEntry, SumInv
<1>3. topicStats \in [S -> Nat] /\ total = SumOf(topicStats, S) /\ total' = total + 1
  BY DEF SumInv, Count
<1> HIDE DEF S, t
<1>4. SumOf(topicStats', S \cup {t}) = SumOf(topicStats, S) + 1
  BY <1>1, <1>2, <1>3, SumGrows
<1>5. QED BY <1>2, <1>3, <1>4 DEF SumInv

\* Every step keeps the total the sum of its topics.
LEMMA SumInvStep == Types /\ SumInv /\ [Next]_vars => SumInv'
<1> SUFFICES ASSUME Types, SumInv, [Next]_vars PROVE SumInv'
  OBVIOUS
<1>1. UNCHANGED stats => SumInv'
  BY DEF SumInv, stats
<1>2. CASE Construct \/ ResetStats \/ GiveUpEnds \/ WriteCrashes
  <2>1. topicStats' = <<>> /\ total' = 0
    BY <1>2 DEF Construct, ResetStats, GiveUpEnds, WriteCrashes, ProcessEnds
  <2>2. (topicStats = <<>> /\ total = 0 => SumInv)'
    BY NoTopics, PTL
  <2>3. QED BY <2>1, <2>2
<1>3. ASSUME NEW t \in Topics, Subscribe(t) \/ SubscribeFails(t) PROVE SumInv'
  <2>1. total' = total /\ (topicStats' = WithEntry(t) \/ topicStats' = topicStats)
    BY <1>3 DEF Subscribe, SubscribeFails
  <2>2. CASE topicStats' = WithEntry(t)
    BY <2>1, <2>2, EntryCountsNothing
  <2>3. CASE topicStats' = topicStats
    BY <2>1, <2>3, <1>1 DEF stats
  <2>4. QED BY <2>1, <2>2, <2>3
<1>4. CASE Count
  BY <1>4, CountedForBoth
<1>5. ASSUME NEW topics \in SUBSET Topics, Start(topics) PROVE UNCHANGED stats
  BY <1>5 DEF Start
<1>6. CASE DiscoverTopics \/ StartRefused \/ StartFails \/ Pause \/ Resume \/ SplitBag \/
           Stop \/ Destroy \/ DestroyIdle
  BY <1>1, <1>6 DEF DiscoverTopics, StartRefused, StartFails, Pause, Resume, SplitBag,
                    Stop, Destroy, DestroyIdle
<1>7. CASE Record \/ GiveUp \/ LockWriter \/ CloseWriter \/ Stopped \/ CancelExecutor \/
           JoinExecutor
  BY <1>1, <1>7 DEF Record, GiveUp, LockWriter, CloseWriter, Stopped, CancelExecutor,
                    JoinExecutor
<1>8. CASE TestFlags \/ FindWriter \/ Write \/ WriteFails \/ WriteLost \/ Open \/ OpenFails \/
           DropWriter \/ GiveUpThrows
  BY <1>1, <1>8 DEF TestFlags, FindWriter, Write, WriteFails, WriteLost, Open, OpenFails,
                    DropWriter, GiveUpThrows
<1>9. ASSUME NEW s \in subscriptions, Receive(s) PROVE UNCHANGED stats
  BY <1>9 DEF Receive
<1>10. CASE UNCHANGED vars
  BY <1>1, <1>10 DEF vars, stats
<1>11. QED
  BY <1>1, <1>2, <1>3, <1>4, <1>5, <1>6, <1>7, <1>8, <1>9,
     <1>10 DEF Next, User, Gui, Callback
-----------------------------------------------------------------------------
\* Together they are an inductive invariant: the bounds on the messages that slip
\* through follow only with the place of the call, the stage of the callback and
\* the bag it was made for.
RecorderInv ==
  Types /\ CallInv /\ Books /\ CallbackInv /\ LateInv /\ CountInv /\ SumInv

\* It holds before there is an engine,
LEMMA InitEstablishesRecorderInv == Init => RecorderInv
<1> SUFFICES ASSUME Init PROVE RecorderInv
  OBVIOUS
<1>1. Opened = {} /\ Bag = 0
  BY FS_EmptySet DEF Init, Opened, Bag
<1>2. Types
  <2>1. CallTypes
    BY DEF Init, CallTypes, Calls
  <2>2. CountTypes
    BY BoundsAssumption DEF Init, CountTypes
  <2>3. MutexTypes
    BY DEF Init, MutexTypes, NoCallback
  <2>4. CallbackTypes
    BY DEF Init, CallbackTypes
  <2>5. BagTypes
    <3>1. content \in [1..Bag -> Nat] /\ strays \in [1..Bag -> Nat]
      BY <1>1 DEF Init
    <3>2. QED BY <1>1, <3>1, BoundsAssumption DEF Init, BagTypes
  <2>6. QED BY <2>1, <2>2, <2>3, <2>4, <2>5, PartsAreTypes
<1>3. CallInv /\ Books /\ LateInv
  BY <1>1 DEF Init, CallInv, Books, BagOpen, Closed, LateInv, PauseHolds
<1>4. CallbackInv
  BY <1>1 DEF Init, CallbackInv, AtMostOneStray, NoCallback
<1>5. CountInv
  BY DEF Init, CountInv
<1>6. SumInv
  BY NoTopics DEF Init
<1>7. QED BY <1>2, <1>3, <1>4, <1>5, <1>6 DEF RecorderInv

\* and is kept by every step.
LEMMA RecorderInvHolds == Spec => []RecorderInv
<1>1. RecorderInv /\ [Next]_vars => RecorderInv'
  BY TypesStep, CallInvStep, BooksStep, CallbackInvStep, LateInvStep, CountInvStep,
     SumInvStep DEF RecorderInv
<1>2. QED BY InitEstablishesRecorderInv, <1>1, PTL DEF Spec

\* Between two calls the writer is that of the state the panel shows.
LEMMA BooksMatchState == RecorderInv => WriterMatchesState
<1> SUFFICES ASSUME RecorderInv, engine = "ready"
             PROVE  WriterMatchesState
  BY DEF WriterMatchesState
<1>1. Books /\ CallInv
  BY DEF RecorderInv
<1>2. BagOpen <=> state # "idle"
  BY DEF BagOpen
<1>3. Opened \ Closed = IF state = "idle" THEN {} ELSE {writer}
  BY <1>1, <1>2 DEF Books
<1>4. state = "idle" => writer = 0 \/ writer \in broken
  BY <1>1, <1>2 DEF Books
<1>5. QED BY <1>1, <1>3, <1>4 DEF CallInv, WriterMatchesState

\* A callback in write() has a writer, and an open bag if there is a recording.
LEMMA CallbackHasBag == RecorderInv => WritesOnlyOpenBag
<1> SUFFICES ASSUME RecorderInv PROVE WritesOnlyOpenBag
  OBVIOUS
<1>1. Books /\ CallbackInv
  BY DEF RecorderInv
<1>2. BagOpen => writer = Bag /\ writer \notin Closed
  BY <1>1 DEF Books
<1>3. QED BY <1>1, <1>2 DEF CallbackInv, WritesOnlyOpenBag

\* Whatever fails on the way, also the opening and the closing of a bag without the mutex,
\* the engine and its writer agree between two calls, no bag is left open, and during a
\* recording neither stop nor destructor takes the bag from under a callback
\* (BagRecorderEngine::startRecording, stopRecording and the callbacks).
THEOREM WriterAlwaysMatches == Spec => []EngineMatchesWriter
<1>1. RecorderInv => TypeOK
  BY DEF RecorderInv, Types
<1>2. RecorderInv => EngineMatchesWriter
  BY <1>1, BooksMatchState, CallbackHasBag DEF EngineMatchesWriter
<1>3. QED BY <1>2, RecorderInvHolds, PTL

\* At most one message is written after the user has paused, and at most one of the bag
\* before goes into a new bag (the flags are tested before writerMutex_ is taken).
THEOREM OneLateAtMost == Spec => []OneCallbackLate
<1>1. RecorderInv => OneCallbackLate
  BY DEF RecorderInv, LateInv, CallbackInv, OneCallbackLate
<1>2. QED BY <1>1, RecorderInvHolds, PTL

\* The total stays within one below and two above the messages of the bag.
LEMMA TotalStaysNear == RecorderInv => TotalNearBag
<1> SUFFICES ASSUME RecorderInv, DOMAIN topicStats # {}, engine # "resetting"
             PROVE  content[Bag] - 1 <= total /\ total <= content[Bag] + 2
  BY DEF TotalNearBag
<1>1. NearInv
  BY DEF RecorderInv, CountInv
<1>2. total \in Nat /\ content[Bag] \in Nat
  <2>1. Bag \in Nat /\ total \in Nat /\ content \in [1..Bag -> Nat]
    BY DEF RecorderInv, Types, TypeOK
  <2>2. QED BY <1>1, <2>1 DEF NearInv
<1>3. QED BY <1>1, <1>2 DEF NearInv, Ahead

\* The counts the panel shows add up to its total, and the total stays within one below
\* and two above the messages of the bag, however often a callback is caught between
\* writing and counting (BagRecorderEngine::writeMessage counts after it has written).
THEOREM CountsStayNear == Spec => []CountsNearBag
<1>1. RecorderInv => TotalIsSum
  BY DEF RecorderInv, SumInv, SumOf, TotalIsSum
<1>2. RecorderInv => CountsNearBag
  BY <1>1, TotalStaysNear DEF CountsNearBag
<1>3. QED BY <1>2, RecorderInvHolds, PTL
================================================================================
