------------------------ MODULE RecordingStatusProofs ------------------------
(***************************************************************************)
(* Proofs about what is shown of a recording while it runs.                *)
(*                                                                         *)
(* The table of the terminal UI: for all topics, names and sizes, window   *)
(* widths and messages, the rows that are drawn fit their columns and the  *)
(* columns the window, the order of the rows is one that std::sort can     *)
(* work with, and no exception but the known ones ends the process.        *)
(*                                                                         *)
(* The list of files: for every bound on splits and wakeups, and for a     *)
(* recorder that is used once as for one that is used again, it is in      *)
(* order, and ends with the open file once the event thread has caught up. *)
(***************************************************************************)
EXTENDS SplitEventsProperties, TopicTableProperties, SequenceTheorems, FiniteSetTheorems,
        TLAPS

-----------------------------------------------------------------------------
(***************************************************************************)
(* Sets of numbers, and sums of sequences.                                 *)
(***************************************************************************)

\* A set of natural numbers has a least element.
LEMMA LeastElement ==
  ASSUME NEW S \in SUBSET Nat, S # {}
  PROVE  \E x \in S : \A y \in S : x <= y
<1>1. IsWellFoundedOn(OpToRel(<, Nat), Nat)
  BY NatLessThanWellFounded
<1>2. PICK x \in S : \A y \in S : <<y, x>> \notin OpToRel(<, Nat)
  <2>1. \E x \in S : \A y \in S : ~ (<<y, x>> \in OpToRel(<, Nat))
    BY <1>1, WFMin
  <2>2. QED BY <2>1
<1>3. ASSUME NEW y \in S PROVE x <= y
  <2>1. <<y, x>> \in Nat \X Nat
    OBVIOUS
  <2>2. ~ (y < x)
    BY <1>2, <2>1 DEF OpToRel
  <2>3. QED BY <2>2
<1>4. QED BY <1>3

\* A finite set of integers has a largest element, and Max names it.
LEMMA LargestElement ==
  ASSUME NEW S \in SUBSET Int, IsFiniteSet(S), S # {}
  PROVE  Max(S) \in S /\ \A y \in S : y <= Max(S)
<1> DEFINE HasMax(T) == \E x \in T : \A y \in T : x >= y
           Sizes == {n \in Nat : \E T \in SUBSET Int :
                       IsFiniteSet(T) /\ T # {} /\ Cardinality(T) = n /\ ~HasMax(T)}
<1>1. HasMax(S)
  <2>1. SUFFICES ASSUME ~HasMax(S) PROVE FALSE
    OBVIOUS
  <2>2. Cardinality(S) \in Sizes
    BY <2>1, FS_CardinalityType
  <2>3. PICK n \in Sizes : \A m \in Sizes : n <= m
    <3>1. Sizes \in SUBSET Nat /\ Sizes # {}
      BY <2>2
    <3> HIDE DEF Sizes
    <3>2. QED BY <3>1, LeastElement
  <2>4. PICK T \in SUBSET Int :
          IsFiniteSet(T) /\ T # {} /\ Cardinality(T) = n /\ ~HasMax(T)
    BY <2>3
  <2>5. PICK x \in T : TRUE
    BY <2>4
  <2> DEFINE U == T \ {x}
  <2>6. IsFiniteSet(U) /\ Cardinality(U) = n - 1 /\ U \in SUBSET Int
    BY <2>4, <2>5, FS_RemoveElement
  <2>7. HasMax(U)
    <3>1. U # {}
      BY <2>4, <2>5
    <3>2. Cardinality(U) \in Nat
      BY <2>6, FS_CardinalityType
    <3>3. Cardinality(U) \notin Sizes
      <4>1. n \in Nat
        OBVIOUS
      <4> HIDE DEF Sizes
      <4>2. QED BY <2>3, <2>6, <4>1
    <3> HIDE DEF U, HasMax
    <3>4. QED BY <2>6, <3>1, <3>2, <3>3
  <2>8. PICK u \in U : \A y \in U : u >= y
    BY <2>7
  <2>9. CASE x >= u
    <3>1. \A y \in T : x >= y
      BY <2>5, <2>8, <2>9
    <3>2. QED BY <2>4, <2>5, <3>1
  <2>10. CASE ~ (x >= u)
    <3>1. \A y \in T : u >= y
      BY <2>5, <2>8, <2>10
    <3>2. QED BY <2>4, <2>8, <3>1
  <2>11. QED BY <2>9, <2>10
<1>2. Max(S) \in S /\ \A y \in S : Max(S) >= y
  BY <1>1 DEF Max
<1>3. QED BY <1>2

\* What a function takes the elements of a finite set to is a finite set.
LEMMA ImageFinite ==
  ASSUME NEW S, IsFiniteSet(S), NEW f \in [S -> Int]
  PROVE  IsFiniteSet({f[x] : x \in S})
<1> DEFINE T == {f[x] : x \in S}
<1>1. f \in Surjection(S, T)
  BY DEF Surjection
<1>2. QED BY <1>1, FS_Surjection

\* The largest of a least value and those a function gives to a finite set.
LEMMA MaxOverSet ==
  ASSUME NEW S, IsFiniteSet(S), NEW f \in [S -> Nat], NEW least \in Nat
  PROVE  /\ Max({least} \cup {f[x] : x \in S}) \in Nat
         /\ Max({least} \cup {f[x] : x \in S}) >= least
         /\ \A y \in S : Max({least} \cup {f[x] : x \in S}) >= f[y]
<1> DEFINE T == {f[x] : x \in S}
           U == {least} \cup T
<1>1. U \in SUBSET Nat /\ U \in SUBSET Int /\ U # {}
  OBVIOUS
<1>2. IsFiniteSet(U)
  <2>1. f \in [S -> Int]
    OBVIOUS
  <2>2. IsFiniteSet(T)
    BY <2>1, ImageFinite
  <2>3. IsFiniteSet(T \cup {least})
    BY <2>2, FS_AddElement
  <2>4. T \cup {least} = U
    OBVIOUS
  <2>5. QED BY <2>3, <2>4
<1>3. least \in U /\ \A x \in S : f[x] \in U
  OBVIOUS
<1> HIDE DEF T, U
<1>4. Max(U) \in U /\ \A y \in U : y <= Max(U)
  BY <1>1, <1>2, LargestElement
<1>5. Max(U) \in Nat /\ least <= Max(U) /\ \A x \in S : f[x] <= Max(U)
  BY <1>1, <1>3, <1>4
<1>6. QED
  <2>1. \A x \in S : f[x] \in Nat
    OBVIOUS
  <2>2. QED BY <1>5, <2>1 DEF U, T

\* The larger and the smaller of two integers.
LEMMA OfTwo ==
  ASSUME NEW a \in Int, NEW b \in Int
  PROVE  /\ Max({a, b}) = IF a >= b THEN a ELSE b
         /\ Min({a, b}) = IF a <= b THEN a ELSE b
<1>1. \E x \in {a, b} : \A y \in {a, b} : x >= y
  OBVIOUS
<1>2. Max({a, b}) \in {a, b} /\ Max({a, b}) >= a /\ Max({a, b}) >= b
  BY <1>1 DEF Max
<1>3. \E x \in {a, b} : \A y \in {a, b} : x <= y
  OBVIOUS
<1>4. Min({a, b}) \in {a, b} /\ Min({a, b}) <= a /\ Min({a, b}) <= b
  BY <1>3 DEF Min
<1>5. QED BY <1>2, <1>4
-----------------------------------------------------------------------------
\* The sums of a sequence of n numbers from its start, as the fold makes them.
Sums(s, n, f) ==
  f = [p \in SUBSET (1..n) |-> IF p = {} THEN 0 ELSE f[p \ {Max(p)}] + s[Max(p)]]

\* Sets of positions have a last one.
LEMMA LastPosition ==
  ASSUME NEW n \in Nat, NEW p \in SUBSET (1..n), p # {}
  PROVE  Max(p) \in p /\ \A i \in p : i <= Max(p)
<1>1. IsFiniteSet(1..n)
  BY FS_Interval
<1>2. IsFiniteSet(p)
  BY <1>1, FS_Subset
<1>3. p \in SUBSET Int
  OBVIOUS
<1>4. QED BY <1>2, <1>3, LargestElement

\* There are such sums: one number more is added to those before it.
LEMMA SumsExist ==
  ASSUME NEW s, NEW n \in Nat
  PROVE  \E f : Sums(s, n, f)
<1> DEFINE Without == {l \in Nat : ~ \E f : Sums(s, l, f)}
<1>1. SUFFICES ASSUME n \in Without PROVE FALSE
  OBVIOUS
<1>2. PICK l \in Without : \A k \in Without : l <= k
  <2>1. Without \in SUBSET Nat /\ Without # {}
    BY <1>1
  <2> HIDE DEF Without
  <2>2. QED BY <2>1, LeastElement
<1>3. l \in Nat /\ ~ \E f : Sums(s, l, f)
  OBVIOUS
<1>4. CASE l = 0
  <2>1. SUBSET (1..l) = {{}}
    BY <1>4
  <2>2. Sums(s, l, [p \in SUBSET (1..l) |-> 0])
    BY <2>1 DEF Sums
  <2>3. QED BY <1>3, <2>2
<1>5. CASE l # 0
  <2>1. l - 1 \in Nat /\ l - 1 \notin Without
    BY <1>2, <1>3, <1>5
  <2>2. PICK f : Sums(s, l - 1, f)
    BY <2>1
  <2> DEFINE g == [p \in SUBSET (1..l) |-> IF l \in p THEN f[p \ {l}] + s[l] ELSE f[p]]
             h == [p \in SUBSET (1..l) |->
                     IF p = {} THEN 0 ELSE g[p \ {Max(p)}] + s[Max(p)]]
  <2>3. \A p \in SUBSET (1..l) : l \notin p => p \in SUBSET (1..(l - 1))
    BY <1>3, <1>5
  <2>4. \A p \in SUBSET (1..(l - 1)) :
          f[p] = IF p = {} THEN 0 ELSE f[p \ {Max(p)}] + s[Max(p)]
    BY <2>2 DEF Sums
  <2>5. ASSUME NEW p \in SUBSET (1..l) PROVE g[p] = h[p]
    <3>1. CASE p = {}
      <4>1. l \notin p /\ p \in SUBSET (1..(l - 1))
        BY <3>1
      <4>2. f[p] = 0
        BY <2>4, <3>1, <4>1
      <4>3. QED BY <3>1, <4>1, <4>2
    <3>2. CASE l \in p
      <4>1. Max(p) \in p /\ \A i \in p : i <= Max(p)
        BY <1>3, <3>2, LastPosition
      <4>2. Max(p) = l
        <5>1. Max(p) \in 1..l /\ l <= Max(p)
          BY <3>2, <4>1
        <5>2. QED BY <1>3, <5>1
      <4>3. p \ {l} \in SUBSET (1..l) /\ l \notin p \ {l}
        OBVIOUS
      <4>4. g[p \ {l}] = f[p \ {l}]
        BY <4>3
      <4>5. g[p] = f[p \ {l}] + s[l]
        BY <3>2
      <4>6. h[p] = g[p \ {l}] + s[l]
        BY <3>2, <4>2
      <4>7. QED BY <4>4, <4>5, <4>6
    <3>3. CASE p # {} /\ l \notin p
      <4>1. p \in SUBSET (1..(l - 1))
        BY <2>3, <3>3
      <4>2. p \ {Max(p)} \in SUBSET (1..l) /\ l \notin p \ {Max(p)}
        BY <3>3
      <4>3. f[p] = f[p \ {Max(p)}] + s[Max(p)]
        BY <2>4, <3>3, <4>1
      <4>4. g[p] = f[p] /\ g[p \ {Max(p)}] = f[p \ {Max(p)}]
        BY <3>3, <4>2
      <4>5. h[p] = g[p \ {Max(p)}] + s[Max(p)]
        BY <3>3
      <4>6. QED BY <4>3, <4>4, <4>5
    <3>4. QED BY <3>1, <3>2, <3>3
  <2>6. g = h
    <3> HIDE DEF g, h
    <3>1. DOMAIN g = SUBSET (1..l) /\ g = [p \in SUBSET (1..l) |-> g[p]]
      BY DEF g
    <3>2. h = [p \in SUBSET (1..l) |-> h[p]]
      BY DEF h
    <3>3. QED BY <2>5, <3>1, <3>2
  <2>7. Sums(s, l, g)
    BY <2>6 DEF Sums
  <2>8. QED BY <1>3, <2>7
<1>6. QED BY <1>4, <1>5

\* The sum of a sequence is made number by number.
LEMMA SumStepwise ==
  ASSUME NEW s \in Seq(Int)
  PROVE  \E p \in [0..Len(s) -> Int] :
           /\ p[0] = 0
           /\ \A k \in 1..Len(s) : p[k] = p[k - 1] + s[k]
           /\ FoldLeft(+, 0, s) = p[Len(s)]
<1> DEFINE n == Len(s)
<1>1. n \in Nat /\ DOMAIN s = 1..n /\ \A k \in 1..n : s[k] \in Int
  OBVIOUS
<1>2. \E f : Sums(s, n, f)
  BY <1>1, SumsExist
<1> DEFINE f == CHOOSE g : Sums(s, n, g)
           sum == FoldLeft(+, 0, s)
<1>3. Sums(s, n, f)
  BY <1>2
<1>4. sum = f[1..n]
  BY <1>1 DEF FoldLeft, MapThenFoldSet, Sums
<1> HIDE DEF f, n, sum
<1>5. \A p \in SUBSET (1..n) :
        f[p] = IF p = {} THEN 0 ELSE f[p \ {Max(p)}] + s[Max(p)]
  BY <1>3 DEF Sums
<1>6. f[1..0] = 0
  <2>1. 1..0 = {}
    OBVIOUS
  <2>2. QED BY <1>5, <2>1
<1>7. ASSUME NEW k \in 1..n PROVE f[1..k] = f[1..(k - 1)] + s[k]
  <2>1. 1..k \in SUBSET (1..n) /\ 1..k # {} /\ k \in 1..k /\ k \in Nat
    BY <1>1
  <2>2. Max(1..k) \in 1..k /\ \A i \in 1..k : i <= Max(1..k)
    BY <2>1, LastPosition
  <2>3. Max(1..k) = k
    BY <2>1, <2>2
  <2>4. (1..k) \ {k} = 1..(k - 1)
    BY <2>1
  <2>5. QED BY <1>5, <2>1, <2>3, <2>4
<1> DEFINE Other == {k \in 0..n : f[1..k] \notin Int}
<1>8. Other = {}
  <2>1. SUFFICES ASSUME Other # {} PROVE FALSE
    OBVIOUS
  <2>2. PICK k \in Other : \A l \in Other : k <= l
    <3>1. Other \in SUBSET Nat
      BY <1>1
    <3> HIDE DEF Other
    <3>2. QED BY <2>1, <3>1, LeastElement
  <2>3. CASE k = 0
    BY <1>6, <2>3
  <2>4. CASE k # 0
    <3>1. k \in 1..n /\ k - 1 \in 0..n /\ ~(k <= k - 1)
      BY <1>1, <2>4
    <3>2. f[1..(k - 1)] \in Int
      BY <2>2, <3>1
    <3>3. f[1..k] \in Int
      BY <1>1, <1>7, <3>1, <3>2
    <3>4. QED BY <3>3
  <2>5. QED BY <2>3, <2>4
<1> DEFINE p == [k \in 0..n |-> f[1..k]]
<1>9. p \in [0..n -> Int]
  BY <1>8
<1>10. p[0] = 0
  BY <1>1, <1>6
<1>11. \A k \in 1..n : p[k] = p[k - 1] + s[k]
  <2>1. ASSUME NEW k \in 1..n PROVE p[k] = p[k - 1] + s[k]
    <3>1. k \in 0..n /\ k - 1 \in 0..n
      BY <1>1
    <3>2. p[k] = f[1..k] /\ p[k - 1] = f[1..(k - 1)]
      BY <3>1
    <3>3. QED BY <1>7, <3>2
  <2>2. QED BY <2>1
<1>12. p[n] = sum
  BY <1>1, <1>4
<1> HIDE DEF p
<1>13. QED BY <1>9, <1>10, <1>11, <1>12 DEF n, sum

-----------------------------------------------------------------------------
(***************************************************************************)
(* The width of a table, and the length of a number.                       *)
(***************************************************************************)

\* Intervals take time.
LEMMA SumPositive ==
  ASSUME NEW s \in Seq(Nat \ {0}), s # <<>>
  PROVE  FoldLeft(+, 0, s) \in Nat \ {0}
<1> DEFINE n == Len(s)
<1>1. n \in Nat \ {0} /\ \A k \in 1..n : s[k] \in Nat \ {0}
  OBVIOUS
<1>2. s \in Seq(Int)
  <2>1. \A k \in 1..Len(s) : s[k] \in Int
    BY <1>1
  <2>2. QED BY <2>1
<1> DEFINE sum == FoldLeft(+, 0, s)
<1>3. PICK p \in [0..n -> Int] :
        p[0] = 0 /\ (\A k \in 1..n : p[k] = p[k - 1] + s[k]) /\ sum = p[n]
  BY <1>2, SumStepwise
<1> HIDE DEF n, sum
<1> DEFINE Other == {k \in 1..n : ~ (p[k] > 0)}
<1>4. Other = {}
  <2>1. SUFFICES ASSUME Other # {} PROVE FALSE
    OBVIOUS
  <2>2. PICK k \in Other : \A l \in Other : k <= l
    <3>1. Other \in SUBSET Nat
      BY <1>1
    <3> HIDE DEF Other
    <3>2. QED BY <2>1, <3>1, LeastElement
  <2>3. k \in 1..n /\ ~ (p[k] > 0) /\ s[k] \in Nat \ {0} /\ p[k] = p[k - 1] + s[k]
    BY <1>1, <1>3
  <2>4. CASE k = 1
    <3>1. k - 1 = 0
      BY <2>4
    <3>2. p[k] = 0 + s[k]
      BY <1>3, <2>3, <3>1
    <3>3. QED BY <2>3, <3>2
  <2>5. CASE k # 1
    <3>1. k - 1 \in 1..n /\ ~ (k <= k - 1) /\ k - 1 \in 0..n
      BY <1>1, <2>3, <2>5
    <3>2. p[k - 1] > 0
      BY <2>2, <3>1
    <3>3. QED BY <2>3, <3>1, <3>2
  <2>6. QED BY <2>4, <2>5
<1>5. n \in 1..n /\ n \in 0..n
  BY <1>1
<1>6. p[n] > 0 /\ p[n] \in Int
  BY <1>4, <1>5
<1>7. sum \in Nat \ {0}
  BY <1>3, <1>6
<1>8. QED BY <1>7 DEF sum

\* n columns, of which the last has one gap less and the margins take three.
LEMMA ColumnGaps ==
  ASSUME NEW n \in 1..8, NEW a \in Int
  PROVE  a + (IF n > 0 THEN 3 * (n - 1) ELSE 0) + 3 = a + 3 * n
OBVIOUS

\* What the first columns take, separators and margins included.
LEMMA FirstColumns ==
  ASSUME NEW w \in [1..8 -> Int], NEW n \in 1..8
  PROVE  \E p \in [0..n -> Int] :
           /\ p[0] = 0
           /\ \A k \in 1..n : p[k] = p[k - 1] + w[k]
           /\ TableWidth(w, n) = p[n] + 3 * n
<1> DEFINE s == SubSeq(w, 1, n)
<1>1. \A i \in 1..n : w[i] \in Int
  OBVIOUS
<1>2. s \in Seq(Int) /\ Len(s) = n /\ \A k \in 1..n : s[k] = w[k]
  BY <1>1, SubSeqProperties
<1> DEFINE sum == FoldLeft(+, 0, s)
<1>a. TableWidth(w, n) = sum + (IF n > 0 THEN 3 * (n - 1) ELSE 0) + 3
  BY DEF TableWidth
<1> HIDE DEF s
<1>3. PICK p \in [0..n -> Int] :
        p[0] = 0 /\ (\A k \in 1..n : p[k] = p[k - 1] + s[k]) /\ sum = p[n]
  BY <1>2, SumStepwise
<1> HIDE DEF sum
<1>4. TableWidth(w, n) = p[n] + (IF n > 0 THEN 3 * (n - 1) ELSE 0) + 3
  BY <1>3, <1>a
<1>5. p[n] \in Int
  OBVIOUS
<1>6. TableWidth(w, n) = p[n] + 3 * n
  BY <1>4, <1>5, ColumnGaps, Zenon
<1>7. QED BY <1>2, <1>3, <1>6

\* The width of a table of each number of columns.
LEMMA TableWidths ==
  ASSUME NEW w \in [1..8 -> Int]
  PROVE  /\ TableWidth(w, 1) = w[1] + 3
         /\ TableWidth(w, 2) = w[1] + w[2] + 6
         /\ TableWidth(w, 3) = w[1] + w[2] + w[3] + 9
         /\ TableWidth(w, 4) = w[1] + w[2] + w[3] + w[4] + 12
         /\ TableWidth(w, 5) = w[1] + w[2] + w[3] + w[4] + w[5] + 15
         /\ TableWidth(w, 6) = w[1] + w[2] + w[3] + w[4] + w[5] + w[6] + 18
         /\ TableWidth(w, 7) = w[1] + w[2] + w[3] + w[4] + w[5] + w[6] + w[7] + 21
         /\ TableWidth(w, 8) = w[1] + w[2] + w[3] + w[4] + w[5] + w[6] + w[7] + w[8] + 24
<1>0. \A k \in 1..8 : w[k] \in Int
  OBVIOUS
<1>1. TableWidth(w, 1) = w[1] + 3
  <2>1. PICK p \in [0..1 -> Int] :
          /\ p[0] = 0
          /\ \A k \in 1..1 : p[k] = p[k - 1] + w[k]
          /\ TableWidth(w, 1) = p[1] + 3 * 1
    BY FirstColumns
  <2>2. QED BY <1>0, <2>1
<1>2. TableWidth(w, 2) = w[1] + w[2] + 6
  <2>1. PICK p \in [0..2 -> Int] :
          /\ p[0] = 0
          /\ \A k \in 1..2 : p[k] = p[k - 1] + w[k]
          /\ TableWidth(w, 2) = p[2] + 3 * 2
    BY FirstColumns
  <2>2. QED BY <1>0, <2>1
<1>3. TableWidth(w, 3) = w[1] + w[2] + w[3] + 9
  <2>1. PICK p \in [0..3 -> Int] :
          /\ p[0] = 0
          /\ \A k \in 1..3 : p[k] = p[k - 1] + w[k]
          /\ TableWidth(w, 3) = p[3] + 3 * 3
    BY FirstColumns
  <2>2. QED BY <1>0, <2>1
<1>4. TableWidth(w, 4) = w[1] + w[2] + w[3] + w[4] + 12
  <2>1. PICK p \in [0..4 -> Int] :
          /\ p[0] = 0
          /\ \A k \in 1..4 : p[k] = p[k - 1] + w[k]
          /\ TableWidth(w, 4) = p[4] + 3 * 4
    BY FirstColumns
  <2>2. QED BY <1>0, <2>1
<1>5. TableWidth(w, 5) = w[1] + w[2] + w[3] + w[4] + w[5] + 15
  <2>1. PICK p \in [0..5 -> Int] :
          /\ p[0] = 0
          /\ \A k \in 1..5 : p[k] = p[k - 1] + w[k]
          /\ TableWidth(w, 5) = p[5] + 3 * 5
    BY FirstColumns
  <2>2. QED BY <1>0, <2>1
<1>6. TableWidth(w, 6) = w[1] + w[2] + w[3] + w[4] + w[5] + w[6] + 18
  <2>1. PICK p \in [0..6 -> Int] :
          /\ p[0] = 0
          /\ \A k \in 1..6 : p[k] = p[k - 1] + w[k]
          /\ TableWidth(w, 6) = p[6] + 3 * 6
    BY FirstColumns
  <2>2. QED BY <1>0, <2>1
<1>7. TableWidth(w, 7) = w[1] + w[2] + w[3] + w[4] + w[5] + w[6] + w[7] + 21
  <2>1. PICK p \in [0..7 -> Int] :
          /\ p[0] = 0
          /\ \A k \in 1..7 : p[k] = p[k - 1] + w[k]
          /\ TableWidth(w, 7) = p[7] + 3 * 7
    BY FirstColumns
  <2>2. QED BY <1>0, <2>1
<1>8. TableWidth(w, 8) = w[1] + w[2] + w[3] + w[4] + w[5] + w[6] + w[7] + w[8] + 24
  <2>1. PICK p \in [0..8 -> Int] :
          /\ p[0] = 0
          /\ \A k \in 1..8 : p[k] = p[k - 1] + w[k]
          /\ TableWidth(w, 8) = p[8] + 3 * 8
    BY FirstColumns
  <2>2. QED BY <1>0, <2>1
<1>9. QED BY <1>1, <1>2, <1>3, <1>4, <1>5, <1>6, <1>7, <1>8

\* The columns that are as wide as their cells.
Measured == {2, 3, 4, 5, 7, 8}

\* A table whose first and sixth column are wider is wider by as much.
LEMMA WiderTable ==
  ASSUME NEW w \in [1..8 -> Int], NEW v \in [1..8 -> Int], NEW n \in 1..8,
         \A i \in Measured : v[i] = w[i]
  PROVE  /\ TableWidth(w, n) \in Int /\ TableWidth(v, n) \in Int
         /\ TableWidth(v, n) = TableWidth(w, n) + (v[1] - w[1])
                                 + (IF n > 5 THEN v[6] - w[6] ELSE 0)
<1>1. \A k \in 1..8 : w[k] \in Int /\ v[k] \in Int
  OBVIOUS
<1>2. v[2] = w[2] /\ v[3] = w[3] /\ v[4] = w[4] /\ v[5] = w[5] /\ v[7] = w[7]
      /\ v[8] = w[8]
  BY DEF Measured
<1>3. CASE n = 1 BY <1>1, <1>2, <1>3, TableWidths
<1>4. CASE n = 2 BY <1>1, <1>2, <1>4, TableWidths
<1>5. CASE n = 3 BY <1>1, <1>2, <1>5, TableWidths
<1>6. CASE n = 4 BY <1>1, <1>2, <1>6, TableWidths
<1>7. CASE n = 5 BY <1>1, <1>2, <1>7, TableWidths
<1>8. CASE n = 6 BY <1>1, <1>2, <1>8, TableWidths
<1>9. CASE n = 7 BY <1>1, <1>2, <1>9, TableWidths
<1>10. CASE n = 8 BY <1>1, <1>2, <1>10, TableWidths
<1>11. QED BY <1>3, <1>4, <1>5, <1>6, <1>7, <1>8, <1>9, <1>10
-----------------------------------------------------------------------------
\* The numbers of digits up to n.
Lengths(n, f) == f = [i \in 0..n |-> IF i < 10 THEN 1 ELSE 1 + f[i \div 10]]

\* A number without its last digit.
LEMMA Tenth ==
  ASSUME NEW n \in Nat, ~ (n < 10)
  PROVE  n \div 10 \in Nat /\ n \div 10 < n
OBVIOUS

\* There are such numbers: those up to n and that of n + 1.
LEMMA LengthsExist == \A n \in Nat : \E f : Lengths(n, f)
<1> DEFINE Without == {l \in Nat : ~ \E f : Lengths(l, f)}
<1>1. SUFFICES ASSUME Without # {} PROVE FALSE
  OBVIOUS
<1>2. PICK l \in Without : \A k \in Without : l <= k
  <2>1. Without \in SUBSET Nat /\ Without # {}
    BY <1>1
  <2> HIDE DEF Without
  <2>2. QED BY <2>1, LeastElement
<1>3. l \in Nat /\ ~ \E f : Lengths(l, f)
  OBVIOUS
<1>4. CASE l = 0
  <2>1. \A i \in 0..l : i < 10
    BY <1>4
  <2>2. Lengths(l, [i \in 0..l |-> 1])
    BY <2>1 DEF Lengths
  <2>3. QED BY <1>3, <2>2
<1>5. CASE l # 0
  <2>1. l - 1 \in Nat /\ l - 1 \notin Without
    BY <1>2, <1>3, <1>5
  <2>2. PICK f : Lengths(l - 1, f)
    BY <2>1
  <2> DEFINE g == [i \in 0..l |-> IF i < 10 THEN 1 ELSE 1 + f[i \div 10]]
             h == [i \in 0..l |-> IF i < 10 THEN 1 ELSE 1 + g[i \div 10]]
  <2>3. \A i \in 0..(l - 1) : f[i] = IF i < 10 THEN 1 ELSE 1 + f[i \div 10]
    BY <2>2 DEF Lengths
  <2>4. \A i \in 0..(l - 1) : i \in 0..l
    BY <1>3
  <2>5. \A i \in 0..(l - 1) : g[i] = f[i]
    BY <2>3, <2>4
  <2>6. ASSUME NEW i \in 0..l PROVE g[i] = h[i]
    <3>1. CASE i < 10 BY <3>1
    <3>2. CASE ~ (i < 10)
      <4>1. i \in Nat /\ i <= l
        BY <1>3
      <4>2. i \div 10 \in Nat /\ i \div 10 < i
        BY <3>2, <4>1, Tenth
      <4> DEFINE j == i \div 10
      <4>3. j \in Nat /\ j < i
        BY <4>2
      <4> HIDE DEF j
      <4>4. j \in 0..(l - 1)
        BY <1>3, <4>1, <4>3
      <4>5. g[j] = f[j]
        BY <2>5, <4>4
      <4>6. QED BY <3>2, <4>5 DEF j
    <3>3. QED BY <3>1, <3>2
  <2>7. g = h
    <3> HIDE DEF g, h
    <3>1. g = [i \in 0..l |-> g[i]] /\ h = [i \in 0..l |-> h[i]]
      BY DEF g, h
    <3>2. QED BY <2>6, <3>1
  <2>8. Lengths(l, g)
    BY <2>7 DEF Lengths
  <2>9. QED BY <1>3, <2>8
<1>6. QED BY <1>4, <1>5

\* They agree wherever both are defined.
LEMMA LengthsUnique ==
  ASSUME NEW m \in Nat, NEW n \in Nat, NEW f, NEW g, Lengths(m, f), Lengths(n, g)
  PROVE  \A i \in 0..m \cap 0..n : f[i] = g[i]
<1> DEFINE Other == {i \in 0..m \cap 0..n : f[i] # g[i]}
<1>1. SUFFICES ASSUME Other # {} PROVE FALSE
  OBVIOUS
<1>2. PICK i \in Other : \A k \in Other : i <= k
  <2>1. Other \in SUBSET Nat /\ Other # {}
    BY <1>1
  <2> HIDE DEF Other
  <2>2. QED BY <2>1, LeastElement
<1>3. i \in 0..m /\ i \in 0..n /\ f[i] # g[i] /\ i \in Nat
  OBVIOUS
<1>4. /\ f[i] = IF i < 10 THEN 1 ELSE 1 + f[i \div 10]
      /\ g[i] = IF i < 10 THEN 1 ELSE 1 + g[i \div 10]
  <2>1. \A k \in 0..m : f[k] = IF k < 10 THEN 1 ELSE 1 + f[k \div 10]
    BY DEF Lengths
  <2>2. \A k \in 0..n : g[k] = IF k < 10 THEN 1 ELSE 1 + g[k \div 10]
    BY DEF Lengths
  <2>3. QED BY <1>3, <2>1, <2>2
<1>5. ~ (i < 10)
  BY <1>3, <1>4
<1> DEFINE j == i \div 10
<1>6. j \in Nat /\ j < i
  BY <1>3, <1>5, Tenth
<1>7. f[j] # g[j]
  BY <1>3, <1>4, <1>5
<1> HIDE DEF j
<1>8. j \in 0..m /\ j \in 0..n /\ ~ (i <= j)
  BY <1>3, <1>6
<1>9. QED BY <1>2, <1>7, <1>8

\* The digits of a number are one more than those of its tenth.
LEMMA DigitsStep ==
  \A n \in Nat : Digits[n] = IF n < 10 THEN 1 ELSE 1 + Digits[n \div 10]
<1> DEFINE Some(n) == CHOOSE f : Lengths(n, f)
           D == [n \in Nat |-> Some(n)[n]]
           E == [n \in Nat |-> IF n < 10 THEN 1 ELSE 1 + D[n \div 10]]
<1>1. \A n \in Nat : Lengths(n, Some(n))
  BY LengthsExist
<1>2. ASSUME NEW n \in Nat PROVE D[n] = E[n]
  <2> DEFINE f == Some(n)
  <2>1. Lengths(n, f)
    BY <1>1
  <2>2. D[n] = f[n]
    OBVIOUS
  <2> HIDE DEF f
  <2>3. n \in 0..n
    OBVIOUS
  <2>4. f[n] = IF n < 10 THEN 1 ELSE 1 + f[n \div 10]
    BY <2>1, <2>3 DEF Lengths
  <2>5. CASE n < 10
    BY <2>2, <2>4, <2>5
  <2>6. CASE ~ (n < 10)
    <3> DEFINE m == n \div 10
               g == Some(m)
    <3>1. m \in Nat /\ m < n
      BY <2>6, Tenth
    <3>2. Lengths(m, g)
      BY <1>1, <3>1
    <3>3. D[m] = g[m]
      BY <3>1
    <3>4. E[n] = 1 + D[m]
      BY <2>6
    <3>5. f[n] = 1 + f[m]
      BY <2>4, <2>6
    <3> HIDE DEF m, g, D, E, Some
    <3>6. m \in 0..m \cap 0..n
      BY <3>1
    <3>7. f[m] = g[m]
      BY <2>1, <3>1, <3>2, <3>6, LengthsUnique
    <3>8. QED BY <2>2, <3>3, <3>4, <3>5, <3>7
  <2>7. QED BY <2>5, <2>6
<1>3. D = E
  <2> HIDE DEF D, E
  <2>1. D = [n \in Nat |-> D[n]] /\ E = [n \in Nat |-> E[n]]
    BY DEF D, E
  <2>2. QED BY <1>2, <2>1
<1>4. D = [n \in Nat |-> IF n < 10 THEN 1 ELSE 1 + D[n \div 10]]
  BY <1>3
<1> HIDE DEF D, E, Some
<1>5. Digits = [n \in Nat |-> IF n < 10 THEN 1 ELSE 1 + Digits[n \div 10]]
  BY <1>4 DEF Digits
<1>6. QED BY <1>5

\* A number has a digit at least, and 0 has one.
LEMMA DigitsType ==
  Digits[0] = 1 /\ \A n \in Nat : Digits[n] \in Nat \ {0}
<1>1. Digits[0] = 1
  BY DigitsStep
<1> DEFINE Other == {n \in Nat : Digits[n] \notin Nat \ {0}}
<1>2. Other = {}
  <2>1. SUFFICES ASSUME Other # {} PROVE FALSE
    OBVIOUS
  <2>2. PICK n \in Other : \A k \in Other : n <= k
    <3>1. Other \in SUBSET Nat
      OBVIOUS
    <3> HIDE DEF Other
    <3>2. QED BY <2>1, <3>1, LeastElement
  <2>3. n \in Nat /\ Digits[n] \notin Nat \ {0}
    OBVIOUS
  <2>4. ~ (n < 10)
    BY <2>3, DigitsStep
  <2> DEFINE m == n \div 10
  <2>5. m \in Nat /\ m < n
    BY <2>3, <2>4, Tenth
  <2>6. Digits[n] = 1 + Digits[m]
    BY <2>3, <2>4, DigitsStep
  <2> HIDE DEF m
  <2>7. Digits[m] \in Nat \ {0}
    <3>1. ~ (n <= m)
      BY <2>3, <2>5
    <3>2. QED BY <2>2, <2>5, <3>1
  <2>8. QED BY <2>3, <2>6, <2>7
<1>3. QED BY <1>1, <1>2

-----------------------------------------------------------------------------
(***************************************************************************)
(* Statistics, texts, and the order of the topics.                         *)
(***************************************************************************)

\* What the recorder keeps of a topic.
Statistics ==
  [count : Nat, intervals : Seq(Nat \ {0}), age : 0..Stale,
   type : {"none", "known", "unknown"}]

\* After the second message there is an interval to take the mean of.
HasIntervals(info) == info.count >= 2 => info.intervals # <<>>

\* The recorder has finitely many topics, each with its statistics.
StatisticsKept ==
  /\ IsFiniteSet(DOMAIN topics_info) /\ DOMAIN topics_info \subseteq Topics
  /\ topics_info = [t \in DOMAIN topics_info |-> topics_info[t]]
  /\ \A t \in DOMAIN topics_info :
       topics_info[t] \in Statistics /\ HasIntervals(topics_info[t])

\* The fields of a topic's statistics.
LEMMA StatisticsFields ==
  ASSUME NEW info \in Statistics
  PROVE  /\ info.count \in Nat /\ info.intervals \in Seq(Nat \ {0})
         /\ info.age \in 0..2 /\ info.type \in {"none", "known", "unknown"}
BY DEF Statistics, Stale

\* What a number times another, or divided by one, is.
LEMMA Products ==
  ASSUME NEW m \in Nat, NEW n \in Nat, NEW d \in Nat \ {0}
  PROVE  m * n \in Nat /\ m \div d \in Nat
OBVIOUS

\* A rate is a number, and that of a stale topic is 0.
LEMMA RateType ==
  ASSUME NEW info \in Statistics, HasIntervals(info)
  PROVE  /\ MeanFrequency(info) \in Nat
         /\ info.age = Stale => MeanFrequency(info) = 0
<1>1. CASE IsStale(info)
  <2>1. MeanFrequency(info) = 0
    BY <1>1, Zenon DEF MeanFrequency
  <2>2. QED BY <2>1
<1>2. CASE ~IsStale(info)
  <2> DEFINE sum == FoldLeft(+, 0, info.intervals)
             length == Len(info.intervals)
  <2>1. info.count >= 2 /\ info.age # Stale
    BY <1>2, StatisticsFields DEF IsStale
  <2>2. info.intervals \in Seq(Nat \ {0}) /\ info.intervals # <<>>
    BY <2>1, StatisticsFields DEF HasIntervals
  <2>3. sum \in Nat \ {0}
    BY <2>2, SumPositive
  <2>4. length \in Nat
    BY <2>2
  <2>5. MeanFrequency(info) = (1000 * 1000 * length) \div sum
    BY <1>2 DEF MeanFrequency
  <2> HIDE DEF sum, length
  <2>6. MeanFrequency(info) \in Nat
    BY <2>3, <2>4, <2>5, Products
  <2>7. QED BY <2>1, <2>6
<1>3. QED BY <1>1, <1>2

\* What the table shows of a topic is made of numbers.
LEMMA TopicNumbers ==
  ASSUME StatisticsKept, NEW t \in DOMAIN topics_info
  PROVE  /\ t \in Topics /\ topics_info[t].count \in Nat
         /\ MeanFrequency(topics_info[t]) \in Nat
         /\ Bandwidth(t) \in Nat /\ Size(t) \in Nat /\ Publishers(t) \in Nat
<1>1. t \in Topics /\ topics_info[t] \in Statistics /\ HasIntervals(topics_info[t])
  BY DEF StatisticsKept
<1> DEFINE count == topics_info[t].count
           rate == MeanFrequency(topics_info[t])
<1>2. count \in Nat /\ rate \in Nat /\ Bytes[t] \in Nat
  BY <1>1, StatisticsFields, RateType, TextAssumption
<1>3. Size(t) = count * Bytes[t] /\ Bandwidth(t) = (rate * Bytes[t]) \div 1000
  BY DEF Size, Bandwidth
<1>4. Publishers(t) \in Nat
  BY DEF Publishers
<1> HIDE DEF count, rate
<1>5. Size(t) \in Nat
  BY <1>2, <1>3, Products
<1>6. rate * Bytes[t] \in Nat
  BY <1>2, Products
<1>7. Bandwidth(t) \in Nat
  BY <1>3, <1>6, Products
<1>8. QED BY <1>1, <1>2, <1>4, <1>5, <1>7 DEF count, rate

\* The names, types and policies of the rows.
LEMMA TopicTexts ==
  ASSUME StatisticsKept, NEW t \in DOMAIN topics_info
  PROVE  /\ Name[t].length \in Nat /\ Name[t].tail \in Nat /\ Name[t].rank \in Nat
         /\ TypeText(t).length \in Nat /\ TypeText(t).tail \in Nat
         /\ TypeText(t).rank \in Nat
         /\ Qos(t).length \in Nat /\ Qos(t).rank \in Nat
<1>1. t \in Topics
  BY DEF StatisticsKept
<1>2. Name[t] \in Text /\ Type[t] \in Text
  BY <1>1, TextAssumption
<1>3. TypeText(t) \in Text
  BY <1>2 DEF TypeText, Text
<1>4. Qos(t) \in [length : Nat, rank : Nat]
  BY DEF Qos
<1>5. QED BY <1>2, <1>3, <1>4 DEF Text
-----------------------------------------------------------------------------
\* Up or down.
First(desc, j, k) == IF desc THEN j > k ELSE j < k
\* The lexicographic order of three numbers, the first up or down, the second down.
Lexicographic(desc, j, k, m, n, p, q) ==
  IF j = k THEN m > n \/ (m = n /\ p < q) ELSE First(desc, j, k)

\* It is irreflexive.
LEMMA LexicographicStrict ==
  ASSUME NEW desc, NEW j \in Int, NEW m \in Int, NEW p \in Int
  PROVE  ~Lexicographic(desc, j, j, m, m, p, p)
BY DEF Lexicographic, First

\* It is total, and one way only, where the third numbers tell elements apart.
LEMMA LexicographicTotal ==
  ASSUME NEW desc, NEW j \in Int, NEW k \in Int, NEW m \in Int, NEW n \in Int,
         NEW p \in Int, NEW q \in Int, p # q
  PROVE  /\ Lexicographic(desc, j, k, m, n, p, q) => ~Lexicographic(desc, k, j, n, m, q, p)
         /\ ~Lexicographic(desc, k, j, n, m, q, p) => Lexicographic(desc, j, k, m, n, p, q)
<1>1. CASE desc BY <1>1 DEF Lexicographic, First
<1>2. CASE ~desc BY <1>2 DEF Lexicographic, First
<1>3. QED BY <1>1, <1>2

\* It is transitive.
LEMMA LexicographicTransitive ==
  ASSUME NEW desc, NEW j \in Int, NEW k \in Int, NEW l \in Int, NEW m \in Int, NEW n \in Int,
         NEW o \in Int, NEW p \in Int, NEW q \in Int, NEW r \in Int,
         Lexicographic(desc, j, k, m, n, p, q), Lexicographic(desc, k, l, n, o, q, r)
  PROVE  Lexicographic(desc, j, l, m, o, p, r)
<1>1. CASE desc BY <1>1 DEF Lexicographic, First
<1>2. CASE ~desc BY <1>2 DEF Lexicographic, First
<1>3. QED BY <1>1, <1>2

\* By whatever column, the keys are numbers.
LEMMA KeyType ==
  ASSUME StatisticsKept, sort_column \in 1..8, NEW t \in DOMAIN topics_info
  PROVE  Key(t) \in Int
<1>1. CASE sort_column = 1 BY <1>1, TopicTexts DEF Key
<1>2. CASE sort_column = 2 BY <1>2, TopicNumbers DEF Key
<1>3. CASE sort_column = 3 BY <1>3, TopicNumbers DEF Key
<1>4. CASE sort_column = 4 BY <1>4, TopicNumbers DEF Key
<1>5. CASE sort_column = 5 BY <1>5, TopicNumbers DEF Key
<1>6. CASE sort_column = 6 BY <1>6, TopicTexts DEF Key
<1>7. CASE sort_column = 7 BY <1>7, TopicNumbers DEF Key
<1>8. CASE sort_column = 8 BY <1>8, TopicTexts DEF Key
<1>9. QED BY <1>1, <1>2, <1>3, <1>4, <1>5, <1>6, <1>7, <1>8

\* The comparison std::sort is given is lexicographic.
LEMMA BeforeLexicographic ==
  ASSUME NEW a, NEW b
  PROVE  Before(a, b) = Lexicographic(sort_desc, Key(a), Key(b), Size(a), Size(b),
                                      Name[a].rank, Name[b].rank)
BY Zenon DEF Before, BeforeByDefault, Lexicographic, First

\* The order of sortTopics is strict and total at any moment.
LEMMA StrictOrder ==
  StatisticsKept /\ sort_column \in 1..8 => OrderIsStrict
<1> SUFFICES ASSUME StatisticsKept, sort_column \in 1..8,
                    NEW a \in DOMAIN topics_info, NEW b \in DOMAIN topics_info
             PROVE  /\ a # b => (Before(a, b) <=> ~Before(b, a))
                    /\ ~Before(a, a)
                    /\ \A c \in DOMAIN topics_info :
                         Before(a, b) /\ Before(b, c) => Before(a, c)
  BY DEF OrderIsStrict
<1> DEFINE Numbers(t) == Key(t) \in Int /\ Size(t) \in Int /\ Name[t].rank \in Int
<1>1. \A t \in DOMAIN topics_info : Numbers(t)
  <2>1. ASSUME NEW t \in DOMAIN topics_info PROVE Numbers(t)
    <3>1. Key(t) \in Int
      BY KeyType
    <3>2. Size(t) \in Nat /\ Name[t].rank \in Nat
      BY TopicNumbers, TopicTexts
    <3>3. QED BY <3>1, <3>2
  <2>2. QED BY <2>1
<1>2. a # b => Name[a].rank # Name[b].rank
  BY TextAssumption DEF StatisticsKept
<1>3. a # b => (Before(a, b) <=> ~Before(b, a))
  <2>1. Numbers(a) /\ Numbers(b)
    BY <1>1
  <2>2. SUFFICES ASSUME a # b PROVE Before(a, b) <=> ~Before(b, a)
    OBVIOUS
  <2>3. Name[a].rank # Name[b].rank
    BY <1>2, <2>2
  <2> DEFINE j == Key(a)
             k == Key(b)
             m == Size(a)
             n == Size(b)
             p == Name[a].rank
             q == Name[b].rank
  <2>4. j \in Int /\ k \in Int /\ m \in Int /\ n \in Int /\ p \in Int /\ q \in Int
        /\ p # q
    BY <2>1, <2>3, Zenon
  <2>5. /\ Before(a, b) = Lexicographic(sort_desc, j, k, m, n, p, q)
        /\ Before(b, a) = Lexicographic(sort_desc, k, j, n, m, q, p)
    BY BeforeLexicographic, Zenon
  <2> HIDE DEF j, k, m, n, p, q
  <2>6. /\ Lexicographic(sort_desc, j, k, m, n, p, q)
             => ~Lexicographic(sort_desc, k, j, n, m, q, p)
        /\ ~Lexicographic(sort_desc, k, j, n, m, q, p)
             => Lexicographic(sort_desc, j, k, m, n, p, q)
    BY <2>4, LexicographicTotal, Zenon
  <2>7. QED BY <2>5, <2>6, Zenon
<1>4. ~Before(a, a)
  <2>1. Numbers(a)
    BY <1>1
  <2>2. QED BY <2>1, BeforeLexicographic, LexicographicStrict, Zenon
<1>5. ASSUME NEW c \in DOMAIN topics_info, Before(a, b), Before(b, c)
      PROVE  Before(a, c)
  <2>1. Numbers(a) /\ Numbers(b) /\ Numbers(c)
    BY <1>1
  <2>2. QED BY <1>5, <2>1, BeforeLexicographic, LexicographicTransitive, Zenon
<1>6. QED BY <1>3, <1>4, <1>5
-----------------------------------------------------------------------------
\* A number with one decimal has three characters at least, as 0 has.
LEMMA DecimalType ==
  ASSUME NEW n \in Nat, NEW unit \in Nat \ {0}
  PROVE  /\ OneDecimal(n, unit) \in Nat /\ OneDecimal(n, unit) >= 3
         /\ OneDecimal(0, unit) = 3
<1>1. (20 * n + unit) \div (20 * unit) \in Nat /\ (20 * 0 + unit) \div (20 * unit) = 0
  OBVIOUS
<1> DEFINE whole == (20 * n + unit) \div (20 * unit)
<1>2. OneDecimal(n, unit) = Digits[whole] + 2 /\ OneDecimal(0, unit) = Digits[0] + 2
  BY <1>1 DEF OneDecimal
<1>3. whole \in Nat
  BY <1>1
<1> HIDE DEF whole
<1>4. Digits[whole] \in Nat \ {0} /\ Digits[0] = 1
  BY <1>3, DigitsType
<1>5. QED BY <1>2, <1>4

\* The units of rates, bandwidths and sizes.
Units == {1, 1000, 1000 * 1000, 1000 * 1000 * 1000,
          1024, 1024 * 1024, 1024 * 1024 * 1024, 1024 * 1024 * 1024 * 1024}

\* In each of them a number has three characters at least.
LEMMA InUnits ==
  ASSUME NEW n \in Nat, NEW unit \in Units
  PROVE  /\ OneDecimal(n, unit) \in Nat /\ OneDecimal(n, unit) >= 3
         /\ OneDecimal(0, unit) = 3
<1>1. unit \in Nat \ {0}
  BY DEF Units
<1>2. QED BY <1>1, DecimalType

\* The shortest rate is that of a stale topic.
LEMMA ZeroRateShortest ==
  ASSUME NEW n \in Nat
  PROVE  RateToString(n) \in Nat /\ RateToString(0) <= RateToString(n)
<1> DEFINE k == 1000
           m == 1000 * 1000
           g == 1000 * 1000 * 1000
<1>1. k \in Units /\ m \in Units /\ g \in Units /\ 0 < m /\ m \in Nat /\ g \in Nat
  BY DEF Units
<1>2. \A i \in Nat :
        RateToString(i) = IF i < m THEN OneDecimal(i, k) + 3
                          ELSE 4 + IF i < g THEN OneDecimal(i, m) ELSE OneDecimal(i, g)
  BY DEF RateToString
<1> HIDE DEF k, m, g
<1>3. RateToString(0) = 6
  BY <1>1, <1>2, InUnits
<1>4. \A unit \in Units : OneDecimal(n, unit) \in Nat /\ OneDecimal(n, unit) >= 3
  BY InUnits
<1>5. RateToString(n) \in Nat /\ RateToString(n) >= 6
  BY <1>1, <1>2, <1>4
<1>6. QED BY <1>3, <1>5

\* The shortest bandwidth is that of a stale topic.
LEMMA ZeroBandwidthShortest ==
  ASSUME NEW n \in Nat
  PROVE  BandwidthToString(n) \in Nat /\ BandwidthToString(0) <= BandwidthToString(n)
<1> DEFINE k == 1000
           m == 1000 * 1000
           g == 1000 * 1000 * 1000
<1>1. 1 \in Units /\ k \in Units /\ m \in Units /\ g \in Units
      /\ 0 < k /\ k \in Nat /\ m \in Nat /\ g \in Nat
  BY DEF Units
<1>2. \A i \in Nat :
        BandwidthToString(i) =
          IF i < k THEN OneDecimal(i, 1) + 4
          ELSE 5 + IF i < m THEN OneDecimal(i, k)
                   ELSE IF i < g THEN OneDecimal(i, m) ELSE OneDecimal(i, g)
  BY DEF BandwidthToString
<1> HIDE DEF k, m, g
<1>3. BandwidthToString(0) = 7
  BY <1>1, <1>2, InUnits
<1>4. \A unit \in Units : OneDecimal(n, unit) \in Nat /\ OneDecimal(n, unit) >= 3
  BY InUnits
<1>5. BandwidthToString(n) \in Nat /\ BandwidthToString(n) >= 7
  BY <1>1, <1>2, <1>4
<1>6. QED BY <1>3, <1>5

\* Sizes have a length.
LEMMA MemoryType ==
  ASSUME NEW n \in Nat
  PROVE  FormatMemory(n) \in Nat
<1>1. \A unit \in Units : OneDecimal(n, unit) \in Nat
  BY InUnits
<1>2. /\ OneDecimal(n, 1) \in Nat /\ OneDecimal(n, 1024) \in Nat
      /\ OneDecimal(n, 1024 * 1024) \in Nat
      /\ OneDecimal(n, 1024 * 1024 * 1024) \in Nat
      /\ OneDecimal(n, 1024 * 1024 * 1024 * 1024) \in Nat
  <2>1. 1 \in Units /\ 1024 \in Units /\ 1024 * 1024 \in Units
        /\ 1024 * 1024 * 1024 \in Units /\ 1024 * 1024 * 1024 * 1024 \in Units
    BY DEF Units
  <2> HIDE DEF Units
  <2>2. OneDecimal(n, 1) \in Nat /\ OneDecimal(n, 1024) \in Nat
    BY <1>1, <2>1
  <2>3. OneDecimal(n, 1024 * 1024) \in Nat /\ OneDecimal(n, 1024 * 1024 * 1024) \in Nat
    BY <1>1, <2>1
  <2>4. OneDecimal(n, 1024 * 1024 * 1024 * 1024) \in Nat
    BY <1>1, <2>1
  <2>5. QED BY <2>2, <2>3, <2>4
<1>3. QED BY <1>2 DEF FormatMemory

\* The cells of a row have lengths.
LEMMA CellType ==
  ASSUME StatisticsKept, NEW t \in DOMAIN topics_info, NEW c \in Measured
  PROVE  Cell(t, c) \in Nat
<1> USE TopicNumbers
<1>1. CASE c = 2
  BY <1>1, DigitsType DEF Cell
<1>2. CASE c = 3
  BY <1>2, ZeroRateShortest DEF Cell
<1>3. CASE c = 4
  BY <1>3, ZeroBandwidthShortest DEF Cell
<1>4. CASE c = 5
  BY <1>4, MemoryType DEF Cell
<1>5. CASE c = 7
  BY <1>5, DigitsType DEF Cell
<1>6. CASE c = 8
  BY <1>6, TopicTexts DEF Cell
<1>7. QED BY <1>1, <1>2, <1>3, <1>4, <1>5, <1>6 DEF Measured

-----------------------------------------------------------------------------
(***************************************************************************)
(* The widths of the columns.                                              *)
(***************************************************************************)

\* The least widths of the columns are those of their labels.
LEMMA LabelWidths ==
  /\ Labels \in [1..8 -> Nat] /\ Labels[1] = 5 /\ Labels[6] = 4
  /\ \A i \in Measured : Labels[i] \in Nat
  /\ Labels[2] = 4 /\ Labels[3] = 4 /\ Labels[4] = 9 /\ Labels[5] = 4
BY DEF Labels, Measured

\* A copy of the map has finitely many topics.
LEMMA CopyFinite ==
  ASSUME StatisticsKept, NEW copied \in SUBSET DOMAIN topics_info
  PROVE  IsFiniteSet(copied)
BY FS_Subset DEF StatisticsKept

\* The longest name and type are no shorter than their labels.
LEMMA LongestTexts ==
  ASSUME StatisticsKept, NEW copied \in SUBSET DOMAIN topics_info
  PROVE  /\ LongestName(copied) \in Nat /\ LongestName(copied) >= 5
         /\ LongestType(copied) \in Nat /\ LongestType(copied) >= 4
<1> DEFINE name == [t \in copied |-> Name[t].length]
           type == [t \in copied |-> TypeText(t).length]
<1>1. name \in [copied -> Nat] /\ type \in [copied -> Nat]
  BY TopicTexts
<1>2. {Name[t].length : t \in copied} = {name[t] : t \in copied}
  OBVIOUS
<1>3. {TypeText(t).length : t \in copied} = {type[t] : t \in copied}
  OBVIOUS
<1> HIDE DEF name, type
<1>4. Max({5} \cup {name[t] : t \in copied}) \in Nat
      /\ Max({5} \cup {name[t] : t \in copied}) >= 5
  BY <1>1, CopyFinite, MaxOverSet
<1>5. Max({4} \cup {type[t] : t \in copied}) \in Nat
      /\ Max({4} \cup {type[t] : t \in copied}) >= 4
  BY <1>1, CopyFinite, MaxOverSet
<1>6. LongestName(copied) = Max({5} \cup {name[t] : t \in copied})
  BY <1>2, LabelWidths DEF LongestName
<1>7. LongestType(copied) = Max({4} \cup {type[t] : t \in copied})
  BY <1>3, LabelWidths DEF LongestType
<1>8. QED BY <1>4, <1>5, <1>6, <1>7

\* A column that is as wide as its cells.
LEMMA LongestCell ==
  ASSUME StatisticsKept, NEW copied \in SUBSET DOMAIN topics_info, NEW c \in Measured
  PROVE  /\ Max({Labels[c]} \cup {Cell(t, c) : t \in copied}) \in Nat
         /\ Max({Labels[c]} \cup {Cell(t, c) : t \in copied}) >= Labels[c]
         /\ \A t \in copied : Max({Labels[c]} \cup {Cell(s, c) : s \in copied}) >= Cell(t, c)
<1> DEFINE cell == [t \in copied |-> Cell(t, c)]
           label == Labels[c]
<1>1. cell \in [copied -> Nat] /\ label \in Nat
  BY CellType, LabelWidths
<1>2. {Cell(t, c) : t \in copied} = {cell[t] : t \in copied}
      /\ \A t \in copied : cell[t] = Cell(t, c)
  OBVIOUS
<1> HIDE DEF cell, label
<1>3. Max({label} \cup {cell[t] : t \in copied}) \in Nat
      /\ Max({label} \cup {cell[t] : t \in copied}) >= label
      /\ \A t \in copied : Max({label} \cup {cell[s] : s \in copied}) >= cell[t]
  BY <1>1, CopyFinite, MaxOverSet
<1>4. QED BY <1>2, <1>3 DEF label

\* The capped widths of names and types.
LEMMA Capped ==
  ASSUME NEW w \in Nat, NEW name \in Nat, name >= 5, NEW type \in Nat, type >= 4
  PROVE  /\ Min({(3 * w) \div 10, name}) \in Nat
         /\ w >= 10 => Min({(3 * w) \div 10, name}) >= 3
         /\ Min({(2 * w) \div 10, type}) \in Nat
         /\ w >= 15 => Min({(2 * w) \div 10, type}) >= 3
<1> DEFINE a == (3 * w) \div 10
           b == (2 * w) \div 10
<1>1. a \in Nat /\ (w >= 10 => a >= 3) /\ b \in Nat /\ (w >= 15 => b >= 3)
  OBVIOUS
<1> HIDE DEF a, b
<1>2. /\ Min({a, name}) = IF a <= name THEN a ELSE name
      /\ Min({b, type}) = IF b <= type THEN b ELSE type
  BY <1>1, OfTwo
<1>3. Min({a, name}) \in Nat /\ (w >= 10 => Min({a, name}) >= 3)
  BY <1>1, <1>2
<1>4. Min({b, type}) \in Nat /\ (w >= 15 => Min({b, type}) >= 3)
  BY <1>1, <1>2
<1>5. QED BY <1>3, <1>4 DEF a, b

\* What adjustColumnWidths asks for: room for every cell, and for three dots in the
\* names and types unless the window is too narrow.
LEMMA WantedWidths ==
  ASSUME StatisticsKept, width \in Nat, NEW copied \in SUBSET DOMAIN topics_info
  PROVE  /\ Wanted(copied) \in [1..8 -> Nat]
         /\ width >= 10 => Wanted(copied)[1] >= 3
         /\ width >= 15 => Wanted(copied)[6] >= 3
         /\ \A c \in Measured : Wanted(copied)[c] >= Labels[c]
         /\ \A t \in copied, c \in Measured : Wanted(copied)[c] >= Cell(t, c)
<1>1. CASE copied = {}
  <2>1. \A i \in 1..8 : Wanted(copied)[i] = Labels[i]
    BY <1>1 DEF Wanted
  <2>2. Wanted(copied) = [i \in 1..8 |-> Labels[i]]
    BY <1>1 DEF Wanted
  <2>3. Wanted(copied) \in [1..8 -> Nat]
    BY <2>2, LabelWidths
  <2>4. \A c \in Measured : Wanted(copied)[c] >= Labels[c]
    <3>1. \A c \in Measured : c \in 1..8
      BY DEF Measured
    <3>2. \A c \in Measured : Wanted(copied)[c] = Labels[c] /\ Labels[c] \in Nat
      BY <2>1, <3>1, LabelWidths
    <3>3. QED BY <3>2
  <2>5. QED BY <1>1, <2>1, <2>3, <2>4, LabelWidths
<1>2. CASE copied # {}
  <2> DEFINE name == Min({TopicsMax, LongestName(copied)})
             type == Min({TypeMax, LongestType(copied)})
             widest(c) == Max({Labels[c]} \cup {Cell(t, c) : t \in copied})
  <2>1. /\ name \in Nat /\ (width >= 10 => name >= 3)
        /\ type \in Nat /\ (width >= 15 => type >= 3)
    BY Capped, LongestTexts DEF TopicsMax, TypeMax
  <2>2. \A c \in Measured : widest(c) \in Nat /\ widest(c) >= Labels[c]
                         /\ \A t \in copied : widest(c) >= Cell(t, c)
    BY LongestCell
  <2>3. Wanted(copied) = [i \in 1..8 |-> IF i = 1 THEN name
                                         ELSE IF i = 6 THEN type ELSE widest(i)]
    BY <1>2, Zenon DEF Wanted
  <2> HIDE DEF name, type, widest
  <2>4. \A i \in 1..8 : i = 1 \/ i = 6 \/ i \in Measured
    BY DEF Measured
  <2>5. \A c \in Measured : c \in 1..8 /\ c # 1 /\ c # 6
    BY DEF Measured
  <2>6. Wanted(copied) \in [1..8 -> Nat]
    BY <2>1, <2>2, <2>3, <2>4
  <2>7. Wanted(copied)[1] = name /\ Wanted(copied)[6] = type
    BY <2>3
  <2>8. \A c \in Measured : Wanted(copied)[c] = widest(c)
    BY <2>3, <2>5
  <2>9. QED BY <2>1, <2>2, <2>6, <2>7, <2>8
<1>3. QED BY <1>1, <1>2

\* The columns that are left fit the window.
LEMMA HeadersFit ==
  ASSUME NEW w \in [1..8 -> Nat]
  PROVE  /\ Headers(w) \in 0..8
         /\ Headers(w) > 0 => TableWidth(w, Headers(w)) <= Inner
<1> DEFINE S == {0} \cup {n \in 1..8 : TableWidth(w, n) <= Inner}
<1>1. S \in SUBSET (0..8) /\ S # {}
  OBVIOUS
<1>2. IsFiniteSet(S)
  <2>1. IsFiniteSet(0..8)
    <3>1. 0 \in Int /\ 8 \in Int
      OBVIOUS
    <3>2. QED BY <3>1, FS_Interval, Zenon
  <2> HIDE DEF S
  <2>2. QED BY <1>1, <2>1, FS_Subset
<1>3. S \in SUBSET Int
  BY <1>1
<1>4. Max(S) \in S
  <2> HIDE DEF S
  <2>1. QED BY <1>1, <1>2, <1>3, LargestElement
<1>5. Headers(w) = Max(S)
  BY DEF Headers
<1>6. QED BY <1>1, <1>4, <1>5

\* There is a sixth column only where the types have room for three dots.
LEMMA SixColumns ==
  ASSUME NEW w \in [1..8 -> Nat], NEW n \in 6..8, TableWidth(w, n) <= Inner,
         width \in Nat, \A c \in Measured : w[c] >= Labels[c]
  PROVE  width >= 15
<1>1. \A i \in 1..8 : w[i] \in Nat
  OBVIOUS
<1>2. w[2] >= 4 /\ w[3] >= 4 /\ w[4] >= 9 /\ w[5] >= 4
  BY LabelWidths DEF Measured
<1>3. w \in [1..8 -> Int]
  OBVIOUS
<1>4. w[1] \in Nat /\ w[6] \in Nat /\ w[7] \in Nat /\ w[8] \in Nat
  BY <1>1
<1>5. w[2] \in Nat /\ w[3] \in Nat /\ w[4] \in Nat /\ w[5] \in Nat
  BY <1>1
<1>6. TableWidth(w, n) <= width - 2
  BY DEF Inner
<1>7. CASE n = 6 BY <1>2, <1>3, <1>4, <1>5, <1>6, <1>7, TableWidths
<1>8. CASE n = 7 BY <1>2, <1>3, <1>4, <1>5, <1>6, <1>8, TableWidths
<1>9. CASE n = 8 BY <1>2, <1>3, <1>4, <1>5, <1>6, <1>9, TableWidths
<1>10. QED BY <1>7, <1>8, <1>9

\* growUpTo gives no more than the budget.
LEMMA GrownWithin ==
  ASSUME NEW have \in Int, NEW longest \in Int, NEW budget \in Nat
  PROVE  \E g \in 0..budget : Grown(have, longest, budget) = have + g
<1> DEFINE needed == longest - have
           m == Min({needed, budget})
           g == Max({0, m})
<1>1. m = IF needed <= budget THEN needed ELSE budget
  <2>1. needed \in Int /\ budget \in Int
    OBVIOUS
  <2> HIDE DEF needed
  <2>2. QED BY <2>1, OfTwo
<1>2. m \in Int /\ m <= budget
  BY <1>1
<1>3. Grown(have, longest, budget) = have + g
  BY DEF Grown
<1> HIDE DEF m
<1>4. g = IF 0 >= m THEN 0 ELSE m
  BY <1>2, OfTwo
<1> HIDE DEF g
<1>5. g \in 0..budget
  BY <1>2, <1>4
<1>6. QED BY <1>3, <1>5

\* distributeRemainingWidth only widens names and types, and the table still fits.
LEMMA Distributed ==
  ASSUME NEW w \in [1..8 -> Nat], NEW n \in 0..8, NEW name \in Nat, NEW type \in Nat,
         width \in Nat, n > 0 => TableWidth(w, n) <= Inner
  PROVE  LET v == DistributeRemaining(w, n, name, type)
         IN  /\ v \in [1..8 -> Nat] /\ \A c \in Measured : v[c] = w[c]
             /\ v[1] >= w[1] /\ v[6] >= w[6]
             /\ n > 0 => TableWidth(v, n) <= Inner
<1> DEFINE room == Max({0, Inner - TableWidth(w, n)})
           needsType == n > 5 /\ w[6] < type
           budget == IF needsType THEN (room * 3) \div 5 ELSE room
           first == IF n = 0 THEN w[1] ELSE Grown(w[1], name, budget)
           second == IF ~needsType THEN w[6]
                     ELSE Grown(w[6], type, room - (first - w[1]))
           v == [w EXCEPT ![1] = first, ![6] = second]
<1>1. DistributeRemaining(w, n, name, type) = v
  BY DEF DistributeRemaining
<1>2. Inner \in Int /\ w[1] \in Nat /\ w[6] \in Nat
  BY DEF Inner
<1>3. CASE n = 0
  <2>1. first = w[1] /\ second = w[6]
    BY <1>3
  <2> HIDE DEF first, second
  <2>2. v \in [1..8 -> Nat] /\ v[1] = w[1] /\ v[6] = w[6]
    BY <1>2, <2>1
  <2>3. \A c \in Measured : v[c] = w[c]
    BY DEF Measured
  <2> HIDE DEF v
  <2>4. QED BY <1>1, <1>2, <1>3, <2>2, <2>3
<1>4. CASE n # 0
  <2>1. n \in 1..8 /\ TableWidth(w, n) <= Inner
    BY <1>4
  <2>2. TableWidth(w, n) \in Int
    <3>1. w \in [1..8 -> Int]
      OBVIOUS
    <3>2. QED BY <2>1, <3>1, WiderTable
  <2>3. room \in Nat /\ room = Inner - TableWidth(w, n)
    <3> DEFINE left == Inner - TableWidth(w, n)
    <3>1. left \in Int /\ left >= 0
      BY <1>2, <2>1, <2>2
    <3> HIDE DEF left
    <3>2. Max({0, left}) = IF 0 >= left THEN 0 ELSE left
      BY <3>1, OfTwo
    <3>3. Max({0, left}) = left
      BY <3>1, <3>2
    <3>4. QED BY <3>1, <3>3 DEF left
  <2> HIDE DEF room
  <2>4. budget \in 0..room
    <3>1. (room * 3) \div 5 \in 0..room
      BY <2>3
    <3>2. QED BY <2>3, <3>1
  <2>5. PICK g \in 0..room : first = w[1] + g
    <3> HIDE DEF budget
    <3>1. budget \in Nat /\ budget <= room /\ w[1] \in Int /\ name \in Int
      BY <1>2, <2>3, <2>4
    <3>2. PICK g \in 0..budget : Grown(w[1], name, budget) = w[1] + g
      BY <3>1, GrownWithin
    <3>3. g \in 0..room
      BY <2>3, <3>1
    <3>4. first = w[1] + g
      BY <1>4, <3>2
    <3>5. QED BY <3>3, <3>4
  <2> HIDE DEF first, budget
  <2>6. first - w[1] = g /\ room - g \in Nat /\ g \in Nat
    BY <1>2, <2>3, <2>5
  <2>7. PICK h \in 0..(room - g) : second = w[6] + h /\ (n <= 5 => h = 0)
    <3>1. CASE needsType
      <4> DEFINE left == room - g
      <4>0. left \in Nat /\ w[6] \in Int /\ type \in Int
        BY <1>2, <2>6
      <4> HIDE DEF left
      <4>1. PICK h \in 0..left : Grown(w[6], type, left) = w[6] + h
        BY <4>0, GrownWithin
      <4>2. second = w[6] + h
        BY <2>6, <3>1, <4>1 DEF left
      <4>3. ~ (n <= 5)
        BY <3>1
      <4>4. QED BY <4>2, <4>3 DEF left
    <3>2. CASE ~needsType
      <4>1. second = w[6] + 0
        BY <1>2, <3>2
      <4>2. 0 \in 0..(room - g)
        BY <2>6
      <4>3. QED BY <4>1, <4>2
    <3>3. QED BY <3>1, <3>2
  <2> HIDE DEF second, needsType
  <2>8. h \in Nat /\ g + h <= room
    BY <2>3, <2>6, <2>7
  <2>9. first \in Nat /\ second \in Nat
    BY <1>2, <2>5, <2>6, <2>7, <2>8
  <2>10. v \in [1..8 -> Nat] /\ v[1] = first /\ v[6] = second
    BY <2>9
  <2>11. \A c \in Measured : v[c] = w[c]
    BY DEF Measured
  <2> HIDE DEF v
  <2>12. TableWidth(v, n) = TableWidth(w, n) + g + (IF n > 5 THEN h ELSE 0)
    <3>1. w \in [1..8 -> Int] /\ v \in [1..8 -> Int]
      BY <2>10
    <3>2. TableWidth(v, n) = TableWidth(w, n) + (v[1] - w[1])
                               + (IF n > 5 THEN v[6] - w[6] ELSE 0)
      BY <2>1, <2>11, <3>1, WiderTable
    <3>3. v[1] - w[1] = g /\ v[6] - w[6] = h
      BY <1>2, <2>5, <2>6, <2>7, <2>8, <2>10
    <3>4. QED BY <3>2, <3>3
  <2>13. TableWidth(v, n) <= Inner
    BY <1>2, <2>2, <2>3, <2>6, <2>8, <2>12
  <2>14. v[1] >= w[1] /\ v[6] >= w[6]
    BY <1>2, <2>5, <2>6, <2>7, <2>8, <2>10
  <2>15. QED BY <1>1, <2>10, <2>11, <2>13, <2>14
<1>5. QED BY <1>3, <1>4

-----------------------------------------------------------------------------
(***************************************************************************)
(* The invariant of the table, and what the steps do to one topic.         *)
(***************************************************************************)

\* While rows are drawn they are of topics the recorder has, their cells fit, and
\* names and types have room for three dots unless the window is too narrow.
RowsMeasured ==
  ui = "drawing" =>
    /\ rows \in Seq(DOMAIN topics_info)
    /\ width >= 10 => columns[1] >= 3
    /\ width >= 15 => columns[6] >= 3
    /\ headers > 5 => columns[6] >= 3
    /\ headers > 0 => TableWidth(columns, headers) <= Inner
    /\ \A i \in DOMAIN rows, c \in Measured : columns[c] >= Cell(rows[i], c)

\* The inductive invariant.
TableInv == TableTypeOK /\ StatisticsKept /\ RowsMeasured

\* The statistics of one topic.
TopicKept(t, info) ==
  /\ info \in Statistics /\ HasIntervals(info)
  /\ info.count \in 0..MaxMessages[t]
  /\ Len(info.intervals) < Max({1, info.count})

\* The types of the rest.
StateOK ==
  /\ recorder \in BOOLEAN /\ there \in BOOLEAN /\ sort_desc \in BOOLEAN
  /\ raced \in BOOLEAN /\ graph \subseteq Topics /\ width \in Windows
  /\ sort_column \in 1..8 /\ headers \in 0..8 /\ requests \in 0..MaxRequests
  /\ ui \in {"idle", "copying", "drawing", "gone"}
  /\ live \subseteq drawn /\ drawn \subseteq Topics
  /\ columns \in [1..8 -> Nat]

\* The statistics, topic by topic.
MapKept ==
  /\ IsFiniteSet(DOMAIN topics_info) /\ DOMAIN topics_info \subseteq Topics
  /\ topics_info = [t \in DOMAIN topics_info |-> topics_info[t]]
  /\ \A t \in DOMAIN topics_info : TopicKept(t, topics_info[t])

\* The parts of the invariant.
LEMMA InvParts == TableInv <=> StateOK /\ MapKept /\ RowsMeasured
<1>1. TableInv => StateOK
  BY DEF TableInv, TableTypeOK, StateOK
<1>2. TableInv => MapKept
  BY DEF TableInv, TableTypeOK, StatisticsKept, MapKept, TopicKept
<1>3. TableInv => RowsMeasured
  BY DEF TableInv
<1>4. MapKept => StatisticsKept
  BY DEF MapKept, StatisticsKept, TopicKept
<1>5. RowsMeasured => (ui = "drawing" => ToSet(rows) \subseteq DOMAIN topics_info)
  BY DEF RowsMeasured, ToSet
<1>6. MapKept => \A t \in DOMAIN topics_info :
                   /\ topics_info[t].count \in 0..MaxMessages[t]
                   /\ topics_info[t].age \in 0..Stale
                   /\ Len(topics_info[t].intervals) < Max({1, topics_info[t].count})
  <2> SUFFICES ASSUME MapKept, NEW t \in DOMAIN topics_info
               PROVE  /\ topics_info[t].count \in 0..MaxMessages[t]
                      /\ topics_info[t].age \in 0..Stale
                      /\ Len(topics_info[t].intervals) < Max({1, topics_info[t].count})
    OBVIOUS
  <2>1. TopicKept(t, topics_info[t])
    BY DEF MapKept
  <2>2. topics_info[t].age \in 0..Stale
    BY <2>1 DEF TopicKept, Statistics
  <2>3. QED BY <2>1, <2>2 DEF TopicKept
<1>7. StateOK /\ MapKept /\ RowsMeasured => TableInv
  <2> SUFFICES ASSUME StateOK, MapKept, RowsMeasured PROVE TableInv
    OBVIOUS
  <2>1. TableTypeOK
    BY <1>5, <1>6, Zenon DEF StateOK, TableTypeOK
  <2>2. QED BY <1>4, <2>1 DEF TableInv
<1>8. QED BY <1>1, <1>2, <1>3, <1>7, Zenon
-----------------------------------------------------------------------------
\* A topic of which no message has come.
LEMMA NoStatisticsKept ==
  ASSUME NEW t \in Topics
  PROVE  TopicKept(t, NoStatistics)
<1>1. MaxMessages[t] \in Nat
  BY BoundAssumption
<1>2. <<>> \in Seq(Nat \ {0}) /\ Len(<<>>) = 0
  BY EmptySeq
<1>3. NoStatistics \in Statistics
  BY <1>2 DEF NoStatistics, Statistics, Stale
<1>4. NoStatistics.count = 0 /\ NoStatistics.intervals = <<>>
  BY DEF NoStatistics
<1>5. Max({1, 0}) = 1
  BY OfTwo
<1>6. QED BY <1>1, <1>2, <1>3, <1>4, <1>5 DEF TopicKept, HasIntervals

\* The publishers are looked up.
LEMMA PublishedKept ==
  ASSUME NEW t \in Topics, NEW info, TopicKept(t, info), NEW known
  PROVE  TopicKept(t, Published(info, known))
<1> DEFINE new == Published(info, known)
<1>1. info \in Statistics
  BY DEF TopicKept
<1>2. new.count = info.count /\ new.intervals = info.intervals
  BY <1>1 DEF Published, Statistics
<1>3. new \in Statistics
  BY <1>1 DEF Published, Statistics
<1> HIDE DEF new
<1>4. TopicKept(t, new)
  BY <1>2, <1>3 DEF TopicKept, HasIntervals
<1>5. QED BY <1>4 DEF new

\* Two seconds pass for a topic.
Aged(info) == [info EXCEPT !.age = Min({Stale, @ + 1})]

\* Only the age changes, and stops at the one that is stale.
LEMMA AgedFields ==
  ASSUME NEW info \in Statistics
  PROVE  /\ Aged(info) \in Statistics
         /\ Aged(info).count = info.count /\ Aged(info).intervals = info.intervals
         /\ Aged(info).type = info.type
         /\ Aged(info).age = IF info.age = Stale THEN Stale ELSE info.age + 1
<1> DEFINE age == Min({Stale, info.age + 1})
<1>1. info.age \in 0..2
  BY StatisticsFields
<1>2. age = IF 2 <= info.age + 1 THEN 2 ELSE info.age + 1
  <2> DEFINE next == info.age + 1
  <2>1. next \in Int
    BY <1>1
  <2> HIDE DEF next
  <2>2. Min({2, next}) = IF 2 <= next THEN 2 ELSE next
    BY <2>1, OfTwo
  <2>3. QED BY <2>2 DEF Stale, next
<1>3. age \in 0..2 /\ age = IF info.age = 2 THEN 2 ELSE info.age + 1
  BY <1>1, <1>2
<1> HIDE DEF age
<1>4. Aged(info) = [info EXCEPT !.age = age]
  BY DEF Aged, age
<1>5. QED BY <1>3, <1>4 DEF Statistics, Stale

\* ... and the statistics are kept.
LEMMA AgedKept ==
  ASSUME NEW t \in Topics, NEW info, TopicKept(t, info)
  PROVE  TopicKept(t, Aged(info))
<1>1. info \in Statistics
  BY DEF TopicKept
<1>2. /\ Aged(info) \in Statistics
      /\ Aged(info).count = info.count /\ Aged(info).intervals = info.intervals
  BY <1>1, AgedFields
<1>3. QED BY <1>2 DEF TopicKept, HasIntervals

\* A rolling mean keeps the last intervals, as many as its window has.
LEMMA RollingKept ==
  ASSUME NEW s \in Seq(Nat \ {0}), NEW i \in Nat \ {0}
  PROVE  /\ Rolling(Append(s, i)) \in Seq(Nat \ {0})
         /\ Len(Rolling(Append(s, i))) \in 1..(Len(s) + 1)
<1> DEFINE a == Append(s, i)
           n == Len(a)
           m == Min({Window, n})
<1>1. a \in Seq(Nat \ {0}) /\ n = Len(s) + 1 /\ Len(s) \in Nat
  BY AppendProperties
<1>2. n \in Nat \ {0} /\ \A k \in 1..n : a[k] \in Nat \ {0}
  BY <1>1
<1>3. Rolling(a) = SubSeq(a, 1 + n - m, n)
  BY DEF Rolling
<1> HIDE DEF a, n
<1>4. m = IF Window <= n THEN Window ELSE n
  <2>1. Window \in Int /\ n \in Int
    BY <1>2, BoundAssumption
  <2>2. QED BY <2>1, OfTwo
<1>5. m \in 1..n
  BY <1>2, <1>4, BoundAssumption
<1> HIDE DEF m
<1> DEFINE from == 1 + n - m
<1>6. from \in 1..n /\ n - from + 1 = m /\ from <= n
  BY <1>2, <1>5
<1> HIDE DEF from
<1>7. \A k \in from..n : a[k] \in Nat \ {0}
  BY <1>2, <1>6
<1>8. from \in Int /\ n \in Int
  BY <1>2, <1>6
<1>9. SubSeq(a, from, n) \in Seq(Nat \ {0}) /\ Len(SubSeq(a, from, n)) = m
  BY <1>6, <1>7, <1>8, SubSeqProperties
<1>10. Rolling(a) \in Seq(Nat \ {0}) /\ Len(Rolling(a)) \in 1..(Len(s) + 1)
  <2>1. Rolling(a) \in Seq(Nat \ {0}) /\ Len(Rolling(a)) = m
    BY <1>3, <1>9 DEF from
  <2>2. m \in 1..(Len(s) + 1)
    BY <1>1, <1>5 DEF n
  <2>3. QED BY <2>1, <2>2
<1>11. QED BY <1>10 DEF a

\* The intervals after a message.
Intervals(info) ==
  IF info.count = 0 THEN info.intervals
  ELSE Rolling(Append(info.intervals, Interval(info.age)))

\* The fields that a message changes.
LEMMA UpdatedFields ==
  ASSUME NEW info \in Statistics, Intervals(info) \in Seq(Nat \ {0})
  PROVE  /\ Updated(info) \in Statistics
         /\ Updated(info).count = info.count + 1
         /\ Updated(info).intervals = Intervals(info)
<1> DEFINE n == info.count + 1
           a == 0
           s == Intervals(info)
<1>1. n \in Nat /\ a \in 0..2
  BY StatisticsFields
<1>2. Updated(info) = [info EXCEPT !.count = n, !.age = a, !.intervals = s]
  BY DEF Updated, Intervals
<1>3. s \in Seq(Nat \ {0})
  OBVIOUS
<1> HIDE DEF n, a, s
<1>4. Updated(info) \in Statistics
  BY <1>1, <1>2, <1>3 DEF Statistics, Stale
<1>5. Updated(info).count = n
  BY <1>2 DEF Statistics
<1>6. Updated(info).intervals = s
  BY <1>2 DEF Statistics
<1>7. QED BY <1>4, <1>5, <1>6 DEF n, s

\* A message has come.
LEMMA UpdatedKept ==
  ASSUME NEW t \in Topics, NEW info, TopicKept(t, info), info.count < MaxMessages[t]
  PROVE  TopicKept(t, Updated(info))
<1> DEFINE old == info.intervals
           kept == Rolling(Append(old, Interval(info.age)))
           count == info.count
           intervals == Intervals(info)
<1>1. info \in Statistics /\ count \in 0..MaxMessages[t] /\ Len(old) < Max({1, count})
  BY DEF TopicKept
<1>2. count \in Nat /\ old \in Seq(Nat \ {0}) /\ info.age \in 0..2
  BY <1>1, StatisticsFields
<1>3. Interval(info.age) \in Nat \ {0}
  BY <1>2 DEF Interval
<1>4. kept \in Seq(Nat \ {0}) /\ Len(kept) \in 1..(Len(old) + 1)
  BY <1>2, <1>3, RollingKept
<1>5. intervals = IF count = 0 THEN old ELSE kept
  BY DEF Intervals
<1> HIDE DEF kept, old, intervals
<1>6. intervals \in Seq(Nat \ {0})
  BY <1>2, <1>4, <1>5
<1>7. Len(intervals) < count + 1 /\ (count # 0 => intervals # <<>>)
  <2>1. Max({1, count}) = IF 1 >= count THEN 1 ELSE count
    BY <1>2, OfTwo
  <2>2. Len(old) \in Nat
    BY <1>2
  <2>3. CASE count = 0
    BY <1>1, <1>5, <2>1, <2>2, <2>3
  <2>4. CASE count # 0
    <3>1. Len(old) < count
      BY <1>1, <1>2, <2>1, <2>2, <2>4
    <3>2. Len(kept) < count + 1 /\ kept # <<>>
      BY <1>2, <1>4, <2>2, <3>1
    <3>3. QED BY <1>5, <2>4, <3>2
  <2>5. QED BY <2>3, <2>4
<1> DEFINE new == Updated(info)
<1>8. new \in Statistics /\ new.count = count + 1 /\ new.intervals = intervals
  BY <1>1, <1>6, UpdatedFields DEF intervals
<1> HIDE DEF new
<1>9. Max({1, count + 1}) = count + 1
  <2> DEFINE next == count + 1
  <2>1. next \in Int /\ next >= 1
    BY <1>2
  <2> HIDE DEF next
  <2>2. Max({1, next}) = IF 1 >= next THEN 1 ELSE next
    BY <2>1, OfTwo
  <2>3. QED BY <2>1, <2>2 DEF next
<1>10. count + 1 \in 0..MaxMessages[t]
  <2>1. MaxMessages[t] \in Nat
    BY BoundAssumption
  <2>2. QED BY <1>2, <2>1
<1>11. HasIntervals(new)
  BY <1>2, <1>7, <1>8 DEF HasIntervals
<1>12. TopicKept(t, new)
  BY <1>7, <1>8, <1>9, <1>10, <1>11 DEF TopicKept
<1>13. QED BY <1>12 DEF new

-----------------------------------------------------------------------------
(***************************************************************************)
(* The steps of the table.                                                 *)
(***************************************************************************)

\* A map of kept statistics.
LEMMA MapMade ==
  ASSUME NEW D \in SUBSET Topics, IsFiniteSet(D),
         DOMAIN topics_info' = D, topics_info' = [t \in D |-> topics_info'[t]],
         \A t \in D : TopicKept(t, topics_info'[t])
  PROVE  MapKept'
BY DEF MapKept

\* The recorder has no topics.
LEMMA NoTopics ==
  ASSUME topics_info' = <<>>
  PROVE  MapKept'
<1>1. DOMAIN topics_info' = {} /\ topics_info' = [t \in {} |-> topics_info'[t]]
  OBVIOUS
<1>2. IsFiniteSet({}) /\ {} \in SUBSET Topics
  BY FS_EmptySet
<1>3. \A t \in {} : TopicKept(t, topics_info'[t])
  OBVIOUS
<1>4. QED BY <1>1, <1>2, <1>3, MapMade

\* The rows are of the topics that were copied.
LEMMA RowsCopied ==
  ASSUME NEW copied, IsFiniteSet(copied), NEW s \in Orders(copied)
  PROVE  s \in Seq(copied)
<1>1. Cardinality(copied) \in Nat
  BY FS_CardinalityType
<1>2. s \in [1..Cardinality(copied) -> copied]
  BY DEF Orders, SetToSeqs
<1>3. QED BY <1>1, <1>2, SeqDef

\* The widths adjustColumnWidths leaves hold the cells and fit the window.
LEMMA LayoutFits ==
  StateOK /\ MapKept /\ Layout =>
    headers' \in 0..8 /\ columns' \in [1..8 -> Nat] /\ RowsMeasured'
<1> SUFFICES ASSUME StateOK, MapKept, Layout
             PROVE  headers' \in 0..8 /\ columns' \in [1..8 -> Nat] /\ RowsMeasured'
  OBVIOUS
<1>1. StatisticsKept /\ width \in Nat
  BY BoundAssumption DEF StateOK, MapKept, StatisticsKept, TopicKept
<1>2. PICK copied \in SUBSET DOMAIN topics_info :
        /\ rows' \in Orders(copied)
        /\ headers' = Headers(Wanted(copied))
        /\ columns' = DistributeRemaining(Wanted(copied), headers', LongestName(copied),
                                          LongestType(copied))
  BY DEF Layout
<1>3. UNCHANGED <<topics_info, width>>
  BY DEF Layout
<1> DEFINE w == Wanted(copied)
           n == Headers(w)
           name == LongestName(copied)
           type == LongestType(copied)
           v == DistributeRemaining(w, n, name, type)
<1>4. /\ w \in [1..8 -> Nat]
      /\ width >= 10 => w[1] >= 3
      /\ width >= 15 => w[6] >= 3
      /\ \A c \in Measured : w[c] >= Labels[c]
      /\ \A t \in copied, c \in Measured : w[c] >= Cell(t, c)
  BY <1>1, WantedWidths
<1>5. name \in Nat /\ type \in Nat
  BY <1>1, LongestTexts
<1>6. headers' = n /\ columns' = v
  BY <1>2
<1> HIDE DEF w, name, type
<1>7. n \in 0..8 /\ (n > 0 => TableWidth(w, n) <= Inner)
  BY <1>4, HeadersFit
<1> HIDE DEF n
<1>8. /\ v \in [1..8 -> Nat] /\ \A c \in Measured : v[c] = w[c]
      /\ v[1] >= w[1] /\ v[6] >= w[6]
      /\ n > 0 => TableWidth(v, n) <= Inner
  BY <1>1, <1>4, <1>5, <1>7, Distributed
<1> HIDE DEF v
<1>9. w[1] \in Nat /\ w[6] \in Nat /\ v[1] \in Nat /\ v[6] \in Nat
  BY <1>4, <1>8
<1>10. (width >= 10 => v[1] >= 3) /\ (width >= 15 => v[6] >= 3)
  BY <1>1, <1>4, <1>8, <1>9
<1>11. n > 5 => v[6] >= 3
  <2>1. ASSUME n > 5 PROVE width >= 15
    <3>1. n \in 6..8 /\ TableWidth(w, n) <= Inner
      BY <1>7, <2>1
    <3>2. QED BY <1>1, <1>4, <3>1, SixColumns
  <2>2. QED BY <1>10, <2>1
<1>12. rows' \in Seq(copied)
  BY <1>1, <1>2, CopyFinite, RowsCopied
<1>13. rows' \in Seq(DOMAIN topics_info) /\ \A i \in DOMAIN rows' : rows'[i] \in copied
  BY <1>12
<1>14. \A i \in DOMAIN rows', c \in Measured : v[c] >= Cell(rows'[i], c)
  BY <1>4, <1>8, <1>13
<1>15. \A t \in copied, c \in Measured : Cell(t, c)' = Cell(t, c)
  BY <1>3 DEF Cell, Bandwidth, Size, Publishers, Qos
<1>16. \A i \in DOMAIN rows', c \in Measured : v[c] >= Cell(rows[i], c)'
  <2> SUFFICES ASSUME NEW i \in DOMAIN rows', NEW c \in Measured
               PROVE  v[c] >= Cell(rows[i], c)'
    OBVIOUS
  <2>1. Cell(rows[i], c)' = Cell(rows'[i], c)
    BY <1>3 DEF Cell, Bandwidth, Size, Publishers, Qos
  <2>2. QED BY <1>14, <2>1
<1>17. TableWidth(columns, headers)' = TableWidth(v, n) /\ Inner' = Inner
  <2>1. TableWidth(columns, headers)' = TableWidth(v, n)
    BY <1>6
  <2>2. Inner' = Inner
    BY <1>3 DEF Inner
  <2>3. QED BY <2>1, <2>2
<1>18. RowsMeasured'
  BY <1>3, <1>6, <1>8, <1>10, <1>11, <1>13, <1>16, <1>17 DEF RowsMeasured
<1>19. QED BY <1>6, <1>7, <1>8, <1>18

\* Every step keeps the types of the state.
LEMMA StateStep == StateOK /\ MapKept /\ RowsMeasured /\ [TableNext]_tableVars => StateOK'
<1> SUFFICES ASSUME StateOK, MapKept, RowsMeasured, [TableNext]_tableVars PROVE StateOK'
  OBVIOUS
<1> USE BoundAssumption DEF StateOK, table, screen, sorting
<1>1. CASE GeneralInfoThrows
  BY <1>1 DEF GeneralInfoThrows
<1>2. CASE UpdateUI
  BY <1>2 DEF UpdateUI
<1>3. CASE DrawNothing
  BY <1>3 DEF DrawNothing
<1>4. CASE Layout
  <2>1. headers' \in 0..8 /\ columns' \in [1..8 -> Nat]
    BY <1>4, LayoutFits
  <2>2. QED BY <1>4, <2>1 DEF Layout
<1>5. CASE DrawThrows
  BY <1>5 DEF DrawThrows
<1>6. CASE Draw
  <2>1. ToSet(rows) \subseteq Topics
    BY <1>6 DEF Draw, RowsMeasured, MapKept, ToSet
  <2>2. Labels \in [1..8 -> Nat]
    BY LabelWidths
  <2>3. drawn' = ToSet(rows) /\ live' \subseteq drawn'
    BY <1>6 DEF Draw
  <2>4. /\ ui' = "idle" /\ columns' = Labels /\ headers' = 0
        /\ UNCHANGED <<recorder, there, graph, width, sort_column, sort_desc, raced,
                       requests>>
    BY <1>6 DEF Draw
  <2>5. QED BY <2>1, <2>2, <2>3, <2>4
<1>7. ASSUME NEW k \in Keys, PressKey(k) PROVE StateOK'
  BY <1>7 DEF PressKey
<1>8. ASSUME NEW t \in Topics, Receive(t), ui' \in {"idle", "gone"} PROVE StateOK'
  BY <1>8 DEF Receive
<1>9. ASSUME NEW t \in Topics, Subscribe(t) PROVE StateOK'
  BY <1>9 DEF Subscribe
<1>10. ASSUME NEW t \in Topics, Advertise(t) PROVE StateOK'
  BY <1>10 DEF Advertise
<1>11. ASSUME NEW t \in Topics, Withdraw(t) PROVE StateOK'
  BY <1>11 DEF Withdraw
<1>12. CASE StartRecording
  BY <1>12 DEF StartRecording
<1>13. CASE StartFails
  BY <1>13 DEF StartFails
<1>14. CASE StopRecording
  BY <1>14 DEF StopRecording
<1>15. CASE Tick
  BY <1>15 DEF Tick
<1>16. CASE RemoveDirectory
  BY <1>16 DEF RemoveDirectory
<1>17. ASSUME NEW w \in Windows, Resize(w) PROVE StateOK'
  BY <1>17 DEF Resize
<1>18. CASE UNCHANGED tableVars
  BY <1>18 DEF tableVars
<1>19. QED
  BY <1>1, <1>2, <1>3, <1>4, <1>5, <1>6, <1>7, <1>8, <1>9, <1>10, <1>11, <1>12, <1>13,
     <1>14, <1>15, <1>16, <1>17, <1>18
     DEF TableNext, Refresh, Written, WriteThrows

\* Every step keeps the statistics.
LEMMA MapStep == StateOK /\ MapKept /\ [TableNext]_tableVars => MapKept'
<1> SUFFICES ASSUME StateOK, MapKept, [TableNext]_tableVars PROVE MapKept'
  OBVIOUS
<1> DEFINE D == DOMAIN topics_info
<1>0. /\ IsFiniteSet(D) /\ D \in SUBSET Topics
      /\ topics_info = [s \in D |-> topics_info[s]]
      /\ \A s \in D : TopicKept(s, topics_info[s])
  BY DEF MapKept
<1>a. ASSUME UNCHANGED topics_info PROVE MapKept'
  BY <1>a DEF MapKept
<1>1. CASE GeneralInfoThrows
  BY <1>a, <1>1 DEF GeneralInfoThrows
<1>2. CASE UpdateUI
  <2>1. /\ DOMAIN topics_info' = D
        /\ \A s \in D : topics_info'[s] = Published(topics_info[s], s \in graph)
        /\ topics_info' = [s \in D |-> topics_info'[s]]
    BY <1>2 DEF UpdateUI
  <2>2. ASSUME NEW t \in D PROVE TopicKept(t, topics_info'[t])
    <3>1. t \in Topics /\ TopicKept(t, topics_info[t])
      BY <1>0
    <3>2. TopicKept(t, Published(topics_info[t], t \in graph))
      BY <3>1, PublishedKept
    <3>3. QED BY <2>1, <3>2
  <2>3. \A s \in D : TopicKept(s, topics_info'[s])
    BY <2>2
  <2>4. QED BY <1>0, <2>1, <2>3, MapMade
<1>3. CASE DrawNothing
  BY <1>a, <1>3 DEF DrawNothing
<1>4. CASE Layout
  BY <1>a, <1>4 DEF Layout
<1>5. CASE DrawThrows
  BY <1>a, <1>5 DEF DrawThrows
<1>6. CASE Draw
  BY <1>a, <1>6 DEF Draw
<1>7. ASSUME NEW k \in Keys, PressKey(k) PROVE MapKept'
  BY <1>a, <1>7 DEF PressKey
<1>8. ASSUME NEW t \in Topics, Receive(t) PROVE MapKept'
  <2>1. t \in D /\ topics_info' = [topics_info EXCEPT ![t] = Updated(@)]
        /\ topics_info[t].count < MaxMessages[t]
    BY <1>8 DEF Receive
  <2>2. /\ DOMAIN topics_info' = D
        /\ topics_info' = [s \in D |-> topics_info'[s]]
        /\ topics_info'[t] = Updated(topics_info[t])
        /\ \A s \in D : s # t => topics_info'[s] = topics_info[s]
    BY <1>0, <2>1
  <2>3. TopicKept(t, Updated(topics_info[t]))
    BY <1>0, <2>1, UpdatedKept
  <2>4. \A s \in D : TopicKept(s, topics_info'[s])
    BY <1>0, <2>2, <2>3
  <2>5. QED BY <1>0, <2>2, <2>4, MapMade
<1>9. ASSUME NEW t \in Topics, Subscribe(t) PROVE MapKept'
  <2> DEFINE E == D \cup {t}
  <2>1. topics_info' = [s \in E |-> IF s = t THEN NoStatistics ELSE topics_info[s]]
    BY <1>9 DEF Subscribe
  <2>2. IsFiniteSet(E) /\ E \in SUBSET Topics
    BY <1>0, FS_AddElement
  <2>3. TopicKept(t, NoStatistics)
    BY NoStatisticsKept
  <2>4. \A s \in E : TopicKept(s, topics_info'[s])
    BY <1>0, <2>1, <2>3
  <2>5. DOMAIN topics_info' = E /\ topics_info' = [s \in E |-> topics_info'[s]]
    BY <2>1
  <2> HIDE DEF E
  <2>6. QED BY <2>2, <2>4, <2>5, MapMade
<1>10. ASSUME NEW t \in Topics, Advertise(t) PROVE MapKept'
  BY <1>a, <1>10 DEF Advertise
<1>11. ASSUME NEW t \in Topics, Withdraw(t) PROVE MapKept'
  BY <1>a, <1>11 DEF Withdraw
<1>12. CASE StartRecording
  <2>1. topics_info' = [t \in Requested |-> NoStatistics]
    BY <1>12 DEF StartRecording
  <2>2. /\ DOMAIN topics_info' = Requested
        /\ topics_info' = [s \in Requested |-> topics_info'[s]]
        /\ \A s \in Requested : topics_info'[s] = NoStatistics
    BY <2>1
  <2>3. \A t \in Requested : t \in Topics /\ TopicKept(t, NoStatistics)
    BY BoundAssumption, NoStatisticsKept
  <2>4. \A t \in Requested : TopicKept(t, topics_info'[t])
    BY <2>2, <2>3
  <2>5. IsFiniteSet(Requested) /\ Requested \in SUBSET Topics
    BY BoundAssumption
  <2>6. QED BY <2>2, <2>4, <2>5, MapMade
<1>13. CASE StartFails
  BY <1>13, NoTopics DEF StartFails
<1>14. CASE StopRecording
  BY <1>14, NoTopics DEF StopRecording
<1>15. CASE Tick
  <2>1. /\ DOMAIN topics_info' = D
        /\ \A s \in D : topics_info'[s] = Aged(topics_info[s])
        /\ topics_info' = [s \in D |-> topics_info'[s]]
    BY <1>15 DEF Tick, Aged
  <2>2. ASSUME NEW t \in D PROVE TopicKept(t, topics_info'[t])
    <3>1. t \in Topics /\ TopicKept(t, topics_info[t])
      BY <1>0
    <3>2. TopicKept(t, Aged(topics_info[t]))
      BY <3>1, AgedKept
    <3>3. QED BY <2>1, <3>2
  <2>3. \A s \in D : TopicKept(s, topics_info'[s])
    BY <2>2
  <2>4. QED BY <1>0, <2>1, <2>3, MapMade
<1>16. CASE RemoveDirectory
  BY <1>a, <1>16 DEF RemoveDirectory
<1>17. ASSUME NEW w \in Windows, Resize(w) PROVE MapKept'
  BY <1>a, <1>17 DEF Resize
<1>18. CASE UNCHANGED tableVars
  BY <1>a, <1>18 DEF tableVars
<1>19. QED
  BY <1>1, <1>2, <1>3, <1>4, <1>5, <1>6, <1>7, <1>8, <1>9, <1>10, <1>11, <1>12, <1>13,
     <1>14, <1>15, <1>16, <1>17, <1>18
     DEF TableNext, Refresh, Written, WriteThrows

\* What the mean is made of.
MeanOf(s) == (1000 * 1000 * Len(s)) \div FoldLeft(+, 0, s)

\* A rate that is not stale is the mean of the intervals.
LEMMA MeanOfIntervals ==
  ASSUME NEW info
  PROVE  /\ IsStale(info) => MeanFrequency(info) = 0
         /\ ~IsStale(info) => MeanFrequency(info) = MeanOf(info.intervals)
<1>1. CASE IsStale(info)
  BY <1>1 DEF MeanFrequency
<1>2. CASE ~IsStale(info)
  BY <1>2 DEF MeanFrequency, MeanOf
<1>3. QED BY <1>1, <1>2

\* As time passes a rate stays as it is or becomes 0.
LEMMA AgedRate ==
  ASSUME NEW info \in Statistics, HasIntervals(info)
  PROVE  MeanFrequency(Aged(info)) \in {0, MeanFrequency(info)}
<1> DEFINE new == Aged(info)
<1>1. /\ new \in Statistics /\ new.count = info.count /\ new.intervals = info.intervals
      /\ new.age = IF info.age = Stale THEN Stale ELSE info.age + 1
  BY AgedFields
<1> HIDE DEF new
<1>2. CASE new.age = Stale
  <2>1. HasIntervals(new)
    BY <1>1 DEF HasIntervals
  <2>2. QED BY <1>1, <1>2, <2>1, RateType DEF new
<1>3. CASE new.age # Stale
  <2>1. info.age # Stale
    BY <1>1, <1>3
  <2>2. IsStale(new) <=> IsStale(info)
    BY <1>1, <1>3, <2>1 DEF IsStale
  <2>3. MeanFrequency(new) = MeanFrequency(info)
    <3>1. new.intervals = info.intervals
      BY <1>1
    <3>2. CASE IsStale(info)
      BY <2>2, <3>2, MeanOfIntervals, Zenon
    <3>3. CASE ~IsStale(info)
      <4>1. MeanFrequency(new) = MeanOf(new.intervals)
        BY <2>2, <3>3, MeanOfIntervals, Zenon
      <4>2. MeanFrequency(info) = MeanOf(info.intervals)
        BY <3>3, MeanOfIntervals, Zenon
      <4>3. QED BY <3>1, <4>1, <4>2, Zenon
    <3>4. QED BY <3>2, <3>3, Zenon
  <2>4. QED BY <2>3 DEF new
<1>4. QED BY <1>2, <1>3

\* A bandwidth is 0 where the rate is.
LEMMA BandwidthOf ==
  ASSUME NEW b \in Nat
  PROVE  (0 * b) \div 1000 = 0
OBVIOUS

\* As time passes no cell grows.
LEMMA AgedCell ==
  ASSUME StatisticsKept, NEW t \in DOMAIN topics_info,
         topics_info'[t] = Aged(topics_info[t]), NEW c \in Measured
  PROVE  Cell(t, c)' \in Nat /\ Cell(t, c)' <= Cell(t, c)
<1> DEFINE info == topics_info[t]
           new == topics_info'[t]
           rate == MeanFrequency(info)
           newRate == MeanFrequency(new)
<1>1. info \in Statistics /\ HasIntervals(info) /\ t \in Topics
  BY DEF StatisticsKept
<1>2. /\ new.count = info.count /\ new.intervals = info.intervals
      /\ new.type = info.type
  BY <1>1, AgedFields
<1>3. newRate \in {0, rate} /\ rate \in Nat /\ Bytes[t] \in Nat
  BY <1>1, AgedRate, RateType, TextAssumption
<1>4. Cell(t, c) \in Nat
  BY CellType
<1>5. CASE c = 2
  <2>1. Cell(t, c)' = Cell(t, c)
    BY <1>2, <1>5 DEF Cell
  <2>2. QED BY <1>4, <2>1
<1>6. CASE c = 3
  <2>1. Cell(t, c)' = RateToString(newRate) /\ Cell(t, c) = RateToString(rate)
    BY <1>6 DEF Cell
  <2> HIDE DEF rate, newRate
  <2>2. CASE newRate = rate
    BY <1>4, <2>1, <2>2
  <2>3. CASE newRate = 0
    <3>1. RateToString(0) <= RateToString(rate) /\ RateToString(0) \in Nat
      BY <1>3, ZeroRateShortest
    <3>2. QED BY <2>1, <2>3, <3>1
  <2>4. QED BY <1>3, <2>2, <2>3
<1>7. CASE c = 4
  <2> DEFINE bandwidth == (rate * Bytes[t]) \div 1000
             newBandwidth == (newRate * Bytes[t]) \div 1000
  <2>1. /\ Cell(t, c)' = BandwidthToString(newBandwidth)
        /\ Cell(t, c) = BandwidthToString(bandwidth)
    BY <1>7 DEF Cell, Bandwidth
  <2> HIDE DEF rate, newRate
  <2>2. bandwidth \in Nat
    <3>1. rate * Bytes[t] \in Nat
      BY <1>3, Products
    <3>2. QED BY <3>1, Products
  <2>3. newBandwidth \in {0, bandwidth}
    <3>1. CASE newRate = rate BY <3>1
    <3>2. CASE newRate = 0 BY <1>3, <3>2, BandwidthOf
    <3>3. QED BY <1>3, <3>1, <3>2
  <2> HIDE DEF bandwidth, newBandwidth
  <2>4. CASE newBandwidth = bandwidth
    BY <1>4, <2>1, <2>4
  <2>5. CASE newBandwidth = 0
    <3>1. /\ BandwidthToString(0) <= BandwidthToString(bandwidth)
          /\ BandwidthToString(0) \in Nat
      BY <2>2, ZeroBandwidthShortest
    <3>2. QED BY <2>1, <2>5, <3>1
  <2>6. QED BY <2>3, <2>4, <2>5
<1>8. CASE c = 5
  <2>1. Cell(t, c)' = Cell(t, c)
    BY <1>2, <1>8 DEF Cell, Size
  <2>2. QED BY <1>4, <2>1
<1>9. CASE c = 7
  <2>1. Cell(t, c)' = Cell(t, c)
    BY <1>2, <1>9 DEF Cell, Publishers
  <2>2. QED BY <1>4, <2>1
<1>10. CASE c = 8
  <2>1. Cell(t, c)' = Cell(t, c)
    BY <1>2, <1>10 DEF Cell, Qos
  <2>2. QED BY <1>4, <2>1
<1>11. QED BY <1>5, <1>6, <1>7, <1>8, <1>9, <1>10 DEF Measured

\* The rows stay measured as long as no cell of theirs grows.
LEMMA RowsStay ==
  ASSUME StateOK, MapKept, RowsMeasured, UNCHANGED <<ui, rows, columns, headers, width>>,
         DOMAIN topics_info \subseteq DOMAIN topics_info',
         \A t \in DOMAIN topics_info, c \in Measured :
           Cell(t, c)' \in Nat /\ Cell(t, c)' <= Cell(t, c)
  PROVE  RowsMeasured'
<1> SUFFICES ASSUME ui' = "drawing" PROVE RowsMeasured'
  BY DEF RowsMeasured
<1>1. ui = "drawing"
  OBVIOUS
<1>2. rows \in Seq(DOMAIN topics_info) /\ rows' \in Seq(DOMAIN topics_info')
  BY <1>1, SeqMonotonic DEF RowsMeasured
<1>3. TableWidth(columns, headers)' = TableWidth(columns, headers) /\ Inner' = Inner
  <2>1. TableWidth(columns, headers)' = TableWidth(columns, headers)
    OBVIOUS
  <2>2. Inner' = Inner
    BY DEF Inner
  <2>3. QED BY <2>1, <2>2
<1>4. ASSUME NEW i \in DOMAIN rows', NEW c \in Measured
      PROVE  columns'[c] >= Cell(rows[i], c)'
  <2>1. PICK t \in DOMAIN topics_info : t = rows[i]
    BY <1>2
  <2>2. columns[c] \in Nat /\ columns[c] >= Cell(t, c)
    <3>1. columns[c] \in Nat
      BY DEF StateOK, Measured
    <3>2. columns[c] >= Cell(rows[i], c)
      BY <1>1 DEF RowsMeasured
    <3>3. QED BY <2>1, <3>1, <3>2
  <2>3. Cell(t, c) \in Nat
    <3>1. StatisticsKept
      BY DEF MapKept, StatisticsKept, TopicKept
    <3>2. QED BY <3>1, CellType
  <2>4. Cell(t, c)' \in Nat /\ Cell(t, c)' <= Cell(t, c)
    OBVIOUS
  <2>5. Cell(rows[i], c)' = Cell(t, c)'
    BY <2>1 DEF Cell, Bandwidth, Size, Publishers, Qos
  <2>6. columns'[c] >= Cell(t, c)'
    BY <2>2, <2>3, <2>4
  <2>7. QED BY <2>5, <2>6
<1>5. QED BY <1>1, <1>2, <1>3, <1>4 DEF RowsMeasured

\* Every step keeps the rows measured: a message or a look at the publishers comes
\* only when they are no longer drawn.
LEMMA RowsStep == StateOK /\ MapKept /\ RowsMeasured /\ [TableNext]_tableVars => RowsMeasured'
<1> SUFFICES ASSUME StateOK, MapKept, RowsMeasured, [TableNext]_tableVars
             PROVE  RowsMeasured'
  OBVIOUS
<1> USE DEF table, screen, sorting
<1>a. ASSUME ui' # "drawing" PROVE RowsMeasured'
  BY <1>a DEF RowsMeasured
<1>b. StatisticsKept
  BY DEF MapKept, StatisticsKept, TopicKept
<1>c. ASSUME UNCHANGED <<ui, rows, columns, headers, width>>,
             DOMAIN topics_info \subseteq DOMAIN topics_info',
             \A t \in DOMAIN topics_info : topics_info'[t] = topics_info[t]
      PROVE  RowsMeasured'
  <2>1. ASSUME NEW t \in DOMAIN topics_info, NEW c \in Measured
        PROVE  Cell(t, c)' \in Nat /\ Cell(t, c)' <= Cell(t, c)
    <3>1. topics_info'[t] = topics_info[t]
      BY <1>c
    <3>2. Cell(t, c)' = Cell(t, c)
      BY <3>1 DEF Cell, Bandwidth, Size, Publishers, Qos
    <3>3. Cell(t, c) \in Nat
      BY <1>b, CellType
    <3>4. QED BY <3>2, <3>3
  <2>2. QED BY <1>c, <2>1, RowsStay
<1>1. CASE GeneralInfoThrows
  BY <1>a, <1>1 DEF GeneralInfoThrows
<1>2. CASE UpdateUI
  BY <1>a, <1>2 DEF UpdateUI
<1>3. CASE DrawNothing
  BY <1>a, <1>3 DEF DrawNothing
<1>4. CASE Layout
  BY <1>4, LayoutFits
<1>5. CASE DrawThrows
  BY <1>a, <1>5 DEF DrawThrows
<1>6. CASE Draw
  BY <1>a, <1>6 DEF Draw
<1>7. ASSUME NEW k \in Keys, PressKey(k) PROVE RowsMeasured'
  BY <1>a, <1>7 DEF PressKey
<1>8. ASSUME NEW t \in Topics, Receive(t), ui' \in {"idle", "gone"} PROVE RowsMeasured'
  BY <1>a, <1>8
<1>9. ASSUME NEW t \in Topics, Subscribe(t) PROVE RowsMeasured'
  BY <1>c, <1>9 DEF Subscribe
<1>10. ASSUME NEW t \in Topics, Advertise(t) PROVE RowsMeasured'
  BY <1>c, <1>10 DEF Advertise
<1>11. ASSUME NEW t \in Topics, Withdraw(t) PROVE RowsMeasured'
  BY <1>c, <1>11 DEF Withdraw
<1>12. CASE StartRecording
  BY <1>a, <1>12 DEF StartRecording
<1>13. CASE StartFails
  BY <1>a, <1>13 DEF StartFails
<1>14. CASE StopRecording
  BY <1>a, <1>14 DEF StopRecording
<1>15. CASE Tick
  <2>1. /\ UNCHANGED <<ui, rows, columns, headers, width>>
        /\ DOMAIN topics_info' = DOMAIN topics_info
        /\ \A t \in DOMAIN topics_info : topics_info'[t] = Aged(topics_info[t])
    BY <1>15 DEF Tick, Aged
  <2>2. \A t \in DOMAIN topics_info, c \in Measured :
          Cell(t, c)' \in Nat /\ Cell(t, c)' <= Cell(t, c)
    BY <1>b, <2>1, AgedCell
  <2>3. QED BY <2>1, <2>2, RowsStay
<1>16. CASE RemoveDirectory
  BY <1>c, <1>16 DEF RemoveDirectory
<1>17. ASSUME NEW w \in Windows, Resize(w) PROVE RowsMeasured'
  BY <1>a, <1>17 DEF Resize
<1>18. CASE UNCHANGED tableVars
  BY <1>c, <1>18 DEF tableVars
<1>19. QED
  BY <1>1, <1>2, <1>3, <1>4, <1>5, <1>6, <1>7, <1>8, <1>9, <1>10, <1>11, <1>12, <1>13,
     <1>14, <1>15, <1>16, <1>17, <1>18
     DEF TableNext, Refresh, Written, WriteThrows

-----------------------------------------------------------------------------
(***************************************************************************)
(* The theorems about the table.                                           *)
(***************************************************************************)

\* The table is empty at first.
LEMMA TableStarts == TableInit => StateOK /\ MapKept /\ RowsMeasured
<1> SUFFICES ASSUME TableInit PROVE StateOK /\ MapKept /\ RowsMeasured
  OBVIOUS
<1>1. StateOK
  <2>1. columns \in [1..8 -> Nat]
    BY LabelWidths DEF TableInit
  <2>2. /\ recorder \in BOOLEAN /\ there \in BOOLEAN /\ sort_desc \in BOOLEAN
        /\ raced \in BOOLEAN /\ graph \subseteq Topics /\ width \in Windows
        /\ live \subseteq drawn /\ drawn \subseteq Topics
    BY DEF TableInit
  <2>3. /\ sort_column \in 1..8 /\ headers \in 0..8 /\ requests \in 0..MaxRequests
        /\ ui \in {"idle", "copying", "drawing", "gone"}
    BY BoundAssumption DEF TableInit
  <2>4. QED BY <2>1, <2>2, <2>3 DEF StateOK
<1>2. MapKept
  <2>1. /\ DOMAIN topics_info = Requested
        /\ topics_info = [s \in Requested |-> topics_info[s]]
        /\ \A s \in Requested : topics_info[s] = NoStatistics
    BY DEF TableInit
  <2>2. \A s \in Requested : s \in Topics /\ TopicKept(s, NoStatistics)
    BY BoundAssumption, NoStatisticsKept
  <2>3. QED BY <2>1, <2>2, BoundAssumption DEF MapKept
<1>3. RowsMeasured
  BY DEF TableInit, RowsMeasured
<1>4. QED BY <1>1, <1>2, <1>3

\* In every state the statistics are kept, and the rows that are drawn measured.
LEMMA TableInvariant == TableSpec => []TableInv
<1>1. TableInit => TableInv
  BY TableStarts, InvParts
<1>2. TableInv /\ [TableNext]_tableVars => TableInv'
  <2> SUFFICES ASSUME TableInv, [TableNext]_tableVars PROVE TableInv'
    OBVIOUS
  <2>1. StateOK /\ MapKept /\ RowsMeasured
    BY InvParts
  <2>2. StateOK' /\ MapKept' /\ RowsMeasured'
    BY <2>1, StateStep, MapStep, RowsStep
  <2>3. QED BY <2>2, InvParts, PTL
<1>3. QED BY <1>1, <1>2, PTL DEF TableSpec

\* A text that is clipped fits a width that has room for three dots.
LEMMA ClippedFits ==
  ASSUME NEW s, s.length \in Nat, NEW max \in Nat, max >= 3
  PROVE  max >= ClipString(s, max) /\ ~Throws(s, max)
BY DEF ClipString, Throws

\* Measured rows fit.
LEMMA MeasuredFits == TableInv => CellsFit
<1> SUFFICES ASSUME TableInv, ui = "drawing", width >= 10, headers > 0
             PROVE  /\ TableWidth(columns, headers) <= Inner
                    /\ \A i \in DOMAIN rows, c \in 1..headers :
                         LET t == rows[i]
                         IN columns[c] >=
                              IF c = 1 THEN ClipString(Name[t], columns[1])
                              ELSE IF c = 6 THEN ClipString(TypeText(t), columns[6])
                              ELSE Cell(t, c)
  BY DEF CellsFit
<1>1. StateOK /\ MapKept /\ RowsMeasured /\ StatisticsKept
  BY InvParts DEF TableInv
<1>2. headers \in 0..8 /\ columns[1] \in Nat /\ columns[6] \in Nat
  BY <1>1 DEF StateOK
<1>3. TableWidth(columns, headers) <= Inner
  BY <1>1 DEF RowsMeasured
<1>4. ASSUME NEW i \in DOMAIN rows, NEW c \in 1..headers
      PROVE  columns[c] >= IF c = 1 THEN ClipString(Name[rows[i]], columns[1])
                           ELSE IF c = 6 THEN ClipString(TypeText(rows[i]), columns[6])
                           ELSE Cell(rows[i], c)
  <2>1. rows[i] \in DOMAIN topics_info
    BY <1>1 DEF RowsMeasured
  <2>2. Name[rows[i]].length \in Nat /\ TypeText(rows[i]).length \in Nat
    BY <1>1, <2>1, TopicTexts
  <2>3. CASE c = 1
    <3>1. columns[1] >= 3
      BY <1>1 DEF RowsMeasured
    <3>2. QED BY <1>2, <2>2, <2>3, <3>1, ClippedFits, Zenon
  <2>4. CASE c = 6
    <3>1. headers > 5
      BY <1>2, <2>4
    <3>2. columns[6] >= 3
      BY <1>1, <3>1 DEF RowsMeasured
    <3>3. columns[6] >= ClipString(TypeText(rows[i]), columns[6])
      BY <1>2, <2>2, <3>2, ClippedFits
    <3>4. QED BY <2>4, <3>3
  <2>5. CASE c \notin {1, 6}
    <3>1. c \in Measured
      BY <1>2, <2>5 DEF Measured
    <3>2. columns[c] >= Cell(rows[i], c)
      BY <1>1, <3>1 DEF RowsMeasured
    <3>3. QED BY <2>5, <3>2
  <2>6. QED BY <2>3, <2>4, <2>5
<1>5. QED BY <1>3, <1>4, Zenon

\* Rows, order and widths agree with each other when they are drawn, although the
\* statistics went on changing since they were computed (updateUI).
THEOREM TableAlwaysSound == TableSpec => []TableIsSound
<1>1. TableInv => OrderIsStrict
  <2>1. TableInv => StatisticsKept /\ sort_column \in 1..8
    BY InvParts DEF TableInv, StateOK
  <2>2. QED BY <2>1, StrictOrder
<1>2. TableInv => TableIsSound
  BY <1>1, MeasuredFits DEF TableInv, TableIsSound
<1>3. QED BY <1>2, TableInvariant, PTL

\* In a window of 15 columns every row can be drawn.
LEMMA WideWindowsDraw == TableInv /\ DrawThrows => width < 15
<1> SUFFICES ASSUME TableInv, DrawThrows, ~(width < 15) PROVE FALSE
  OBVIOUS
<1>1. StateOK /\ MapKept /\ RowsMeasured /\ StatisticsKept /\ ui = "drawing"
  BY InvParts DEF TableInv, DrawThrows
<1>2. width \in Nat /\ columns[1] \in Nat /\ columns[6] \in Nat
  BY <1>1, BoundAssumption DEF StateOK
<1>3. width >= 10 /\ width >= 15
  BY <1>2
<1>4. columns[1] >= 3 /\ columns[6] >= 3
  BY <1>1, <1>3 DEF RowsMeasured
<1>5. PICK i \in DOMAIN rows : RowThrows(rows[i])
  BY DEF DrawThrows
<1>6. rows[i] \in DOMAIN topics_info
  BY <1>1 DEF RowsMeasured
<1>7. Name[rows[i]].length \in Nat /\ TypeText(rows[i]).length \in Nat
  BY <1>1, <1>6, TopicTexts
<1>8. ~Throws(Name[rows[i]], columns[1]) /\ ~Throws(TypeText(rows[i]), columns[6])
  BY <1>2, <1>4, <1>7, ClippedFits
<1>9. QED BY <1>5, <1>8 DEF RowThrows

\* An exception ends the process only in a terminal of less than 15 columns, where
\* the bag directory is gone, or when a message cannot be written (updateUI,
\* updateGeneralInfo and clipString).
THEOREM DiesOnlyOfKnownCauses == TableSpec => DiesOnlyOf
<1> DEFINE Known == ui # "gone" /\ ui' = "gone" =>
                      \/ width < 15
                      \/ recorder /\ ~there
                      \/ \E t \in Topics : WriteThrows(t)
<1>1. TableInv /\ [TableNext]_tableVars => [Known]_tableVars
  <2> SUFFICES ASSUME TableInv, [TableNext]_tableVars, ui # "gone", ui' = "gone"
               PROVE  \/ width < 15
                      \/ recorder /\ ~there
                      \/ \E t \in Topics : WriteThrows(t)
    OBVIOUS
  <2>1. CASE GeneralInfoThrows
    BY <2>1 DEF GeneralInfoThrows
  <2>2. CASE DrawThrows
    BY <2>2, WideWindowsDraw
  <2>3. ASSUME NEW t \in Topics, WriteThrows(t) PROVE \E s \in Topics : WriteThrows(s)
    BY <2>3
  <2>4. ~(UpdateUI \/ DrawNothing \/ Layout \/ Draw)
    BY DEF UpdateUI, DrawNothing, Layout, Draw
  <2>5. ASSUME NEW k \in Keys PROVE ~PressKey(k)
    BY DEF PressKey
  <2>6. ASSUME NEW t \in Topics
        PROVE  ~(Written(t) \/ Subscribe(t) \/ Advertise(t) \/ Withdraw(t))
    BY DEF Written, Subscribe, Advertise, Withdraw
  <2>7. ~(StartRecording \/ StartFails \/ StopRecording \/ Tick \/ RemoveDirectory)
    BY DEF StartRecording, StartFails, StopRecording, Tick, RemoveDirectory
  <2>8. ASSUME NEW w \in Windows PROVE ~Resize(w)
    BY DEF Resize
  <2>9. ~UNCHANGED tableVars
    BY DEF tableVars
  <2>10. QED
    BY <2>1, <2>2, <2>3, <2>4, <2>5, <2>6, <2>7, <2>8, <2>9 DEF TableNext, Refresh
<1>2. QED BY <1>1, TableInvariant, PTL DEF TableSpec, DiesOnlyOf

-----------------------------------------------------------------------------
(***************************************************************************)
(* The list of files (SplitEvents).                                        *)
(***************************************************************************)

\* A recorder has files and events only once it has had an event thread.
ThreadExists ==
  /\ ~in_recording => thread = "none" /\ executor = "idle"
  /\ executor \in {"notify_exit", "join"} => should_exit
  /\ thread = "none" => executor \notin {"callback", "notify"}
  /\ thread = "none" /\ ~should_exit => written = 0
  /\ thread # "none" => written > 0
  /\ written = 0 => ~occurred /\ files = <<>>
  /\ written > 0 => files # <<>>

\* The last file listed.
LastListed == files[Len(files)]

\* The event thread may still take an event: it has not been told to exit, or has
\* not looked yet.
MayTake == should_exit => thread \notin {"none", "check", "exited"}

\* It is the open one, unless an event is pending, in the slot or on its way there;
\* the list is in order.  The event a thread may take is newer than all in the
\* list; that of a thread that is gone may be older, where record() has come after.
Pending ==
  /\ FilesInOrder
  /\ written > 0 =>
       /\ \A i \in 1..Len(files) : files[i] <= LastListed
       /\ LastListed <= written
       /\ executor = "callback" => LastListed < written
       /\ ~occurred /\ executor # "callback" => LastListed = written
       /\ occurred /\ MayTake => LastListed < slot
       /\ occurred /\ MayTake /\ executor = "callback" => slot < written
       /\ occurred /\ MayTake /\ executor # "callback" => slot = written

\* The inductive invariant of the list of files.
IInv == TypeOK /\ ThreadExists /\ Pending

\* The lists a step assigns.
LEMMA Lists ==
  /\ 0 \in 0..MaxFiles
  /\ <<>> \in Seq(0..MaxFiles)
  /\ \A s \in Seq(0..MaxFiles), n \in 0..MaxFiles :
       Append(s, n) \in Seq(0..MaxFiles) /\ Append(s, n) # <<>>
<1>1. 0 \in 0..MaxFiles
  BY FilesAssumption
<1>2. <<>> \in Seq(0..MaxFiles)
  BY EmptySeq
<1>3. \A s \in Seq(0..MaxFiles), n \in 0..MaxFiles :
        Append(s, n) \in Seq(0..MaxFiles) /\ Append(s, n) # <<>>
  BY AppendProperties
<1>4. QED BY <1>1, <1>2, <1>3

\* Every step preserves the types and the owner of the mutex.
LEMMA TypeOKStep == IInv /\ [Next]_vars => TypeOK'
<1> SUFFICES ASSUME IInv, [Next]_vars PROVE TypeOK'
  OBVIOUS
<1> USE FilesAssumption, WakeupsAssumption DEF IInv, TypeOK
<1>1. CASE Record
  <2>1. written + 1 \in 0..MaxFiles
    BY <1>1 DEF Record
  <2>2. files' \in Seq(0..MaxFiles)
    BY <1>1, <2>1, Lists DEF Record
  <2>3. thread = "none"
    BY <1>1 DEF Record, MayRecord, ThreadExists
  <2>4. QED BY <1>1, <2>1, <2>2, <2>3 DEF Record
<1>2. CASE RecordFails BY <1>2 DEF RecordFails
<1>3. CASE Split BY <1>3 DEF Split
<1>4. CASE Stop BY <1>4 DEF Stop
<1>5. CASE Callback BY <1>5 DEF Callback
<1>6. CASE Notify BY <1>6 DEF Notify, Woken
<1>7. CASE SetExit BY <1>7 DEF SetExit
<1>8. CASE NotifyExit BY <1>8 DEF NotifyExit, Woken
<1>9. CASE Join BY <1>9 DEF Join
<1>10. CASE CheckExit BY <1>10 DEF CheckExit
<1>11. CASE Lock BY <1>11 DEF Lock
<1>12. CASE Test BY <1>12 DEF Test
<1>13. CASE Sleep BY <1>13 DEF Sleep
<1>14. CASE SpuriousWakeup BY <1>14 DEF SpuriousWakeup
<1>15. CASE Process BY <1>15, Lists DEF Process
<1>16. CASE Unlock BY <1>16 DEF Unlock
<1>17. CASE Destroy
  <2>1. files' \in Seq(0..MaxFiles)
    BY <1>17, Lists DEF Destroy
  <2>2. written' \in 0..MaxFiles /\ slot' \in 0..MaxFiles
    BY <1>17 DEF Destroy
  <2>3. wakeups' \in 0..MaxWakeups
    BY <1>17 DEF Destroy
  <2>4. thread = "none"
    BY <1>17 DEF Destroy, Stopped, ThreadExists
  <2>5. QED BY <1>17, <2>1, <2>2, <2>3, <2>4 DEF Destroy
<1>18. CASE UNCHANGED vars BY <1>18 DEF vars
<1>19. QED
  BY <1>1, <1>2, <1>3, <1>4, <1>5, <1>6, <1>7, <1>8, <1>9, <1>10, <1>11, <1>12,
     <1>13, <1>14, <1>15, <1>16, <1>17, <1>18 DEF Next, Handler, ThreadStep

\* Every step preserves what is known of a recorder without an event thread.
LEMMA ThreadExistsStep == IInv /\ [Next]_vars => ThreadExists'
<1> SUFFICES ASSUME IInv, [Next]_vars PROVE ThreadExists'
  OBVIOUS
<1> USE DEF IInv, TypeOK, ThreadExists
<1>1. CASE Record
  <2>1. Append(files, written + 1) # <<>>
    OBVIOUS
  <2>2. QED BY <1>1, <2>1 DEF Record, MayRecord
<1>2. CASE RecordFails BY <1>2 DEF RecordFails, MayRecord
<1>3. CASE Split BY <1>3 DEF Split
<1>4. CASE Stop BY <1>4 DEF Stop
<1>5. CASE Callback BY <1>5 DEF Callback
<1>6. CASE Notify BY <1>6 DEF Notify, Woken
<1>7. CASE SetExit BY <1>7 DEF SetExit
<1>8. CASE NotifyExit BY <1>8 DEF NotifyExit, Woken
<1>9. CASE Join BY <1>9 DEF Join
<1>10. CASE CheckExit BY <1>10 DEF CheckExit
<1>11. CASE Lock BY <1>11 DEF Lock
<1>12. CASE Test BY <1>12 DEF Test
<1>13. CASE Sleep BY <1>13 DEF Sleep
<1>14. CASE SpuriousWakeup BY <1>14 DEF SpuriousWakeup
<1>15. CASE Process
  <2>1. Append(files, slot) # <<>>
    OBVIOUS
  <2>2. QED BY <1>15, <2>1 DEF Process
<1>16. CASE Unlock BY <1>16 DEF Unlock
<1>17. CASE Destroy BY <1>17 DEF Destroy, Stopped
<1>18. CASE UNCHANGED vars BY <1>18 DEF vars
<1>19. QED
  BY <1>1, <1>2, <1>3, <1>4, <1>5, <1>6, <1>7, <1>8, <1>9, <1>10, <1>11, <1>12,
     <1>13, <1>14, <1>15, <1>16, <1>17, <1>18 DEF Next, Handler, ThreadStep

\* A file newer than all in the list keeps it in order and becomes its last.
LEMMA NewerFile ==
  ASSUME NEW s \in Seq(Nat), NEW n \in Nat,
         \A i, j \in 1..Len(s) : i < j => s[i] < s[j],
         \A i \in 1..Len(s) : s[i] < n
  PROVE  LET t == Append(s, n)
         IN  /\ t # <<>> /\ t[Len(t)] = n
             /\ \A i, j \in 1..Len(t) : i < j => t[i] < t[j]
             /\ \A i \in 1..Len(t) : t[i] <= n
<1> DEFINE t == Append(s, n)
           k == Len(s)
<1>1. k \in Nat /\ Len(t) = k + 1 /\ t[k + 1] = n /\ \A i \in 1..k : t[i] = s[i]
  OBVIOUS
<1>2. \A i \in 1..k : s[i] \in Nat
  OBVIOUS
<1> HIDE DEF t, k
<1>3. ASSUME NEW i \in 1..(k + 1) PROVE t[i] <= n
  BY <1>1, <1>2 DEF k
<1>4. ASSUME NEW i \in 1..(k + 1), NEW j \in 1..(k + 1), i < j
      PROVE  t[i] < t[j]
  <2>1. i \in 1..k
    BY <1>1, <1>4
  <2>2. CASE j = k + 1 BY <1>1, <2>1, <2>2 DEF k
  <2>3. CASE j \in 1..k BY <1>1, <1>4, <2>1, <2>3 DEF k
  <2>4. QED BY <1>1, <2>2, <2>3
<1>5. t # <<>> /\ t[Len(t)] = n
  <2>1. t # <<>>
    BY DEF t
  <2>2. QED BY <1>1, <2>1
<1>6. QED BY <1>1, <1>3, <1>4, <1>5 DEF t

\* Every step preserves the relation between the list, the slot and the writer:
\* the callback overwrites an older event, never a newer one, and the event
\* thread lists a file newer than all it has listed.
LEMMA PendingStep == IInv /\ [Next]_vars => Pending'
<1> SUFFICES ASSUME IInv, [Next]_vars PROVE Pending'
  OBVIOUS
<1> USE FilesAssumption
    DEF IInv, TypeOK, ThreadExists, Pending, FilesInOrder, LastListed, MayTake
<1>1. CASE Record
  <2>1. \A i \in 1..Len(files) : files[i] < written + 1
    <3>1. CASE written = 0 BY <3>1
    <3>2. CASE written > 0 BY <3>2
    <3>3. QED BY <3>1, <3>2
  <2>2. files \in Seq(Nat) /\ written + 1 \in Nat
    OBVIOUS
  <2>3. FilesInOrder
    OBVIOUS
  <2>4. /\ files' # <<>> /\ files'[Len(files')] = written + 1
        /\ \A i, j \in 1..Len(files') : i < j => files'[i] < files'[j]
        /\ \A i \in 1..Len(files') : files'[i] <= written + 1
    <3> HIDE DEF IInv, TypeOK, ThreadExists, Pending, LastListed, MayTake
    <3>1. files' = Append(files, written + 1)
      BY <1>1 DEF Record
    <3>2. QED BY <2>1, <2>2, <2>3, <3>1, NewerFile DEF FilesInOrder
  <2>5. occurred => should_exit
    BY <1>1 DEF Record, MayRecord
  <2>6. /\ written' = written + 1 /\ executor' = "idle" /\ thread' = "check"
        /\ should_exit' = should_exit /\ occurred' = occurred
    BY <1>1 DEF Record, MayRecord
  <2> HIDE DEF IInv, TypeOK, ThreadExists
  <2>7. QED BY <2>2, <2>4, <2>5, <2>6
<1>2. CASE RecordFails BY <1>2 DEF RecordFails, MayRecord
<1>3. CASE Split BY <1>3 DEF Split
<1>4. CASE Stop BY <1>4 DEF Stop
<1>5. CASE Callback BY <1>5 DEF Callback
<1>6. CASE Notify BY <1>6 DEF Notify, Woken
<1>7. CASE SetExit BY <1>7 DEF SetExit
<1>8. CASE NotifyExit BY <1>8 DEF NotifyExit, Woken
<1>9. CASE Join BY <1>9 DEF Join
<1>10. CASE CheckExit BY <1>10 DEF CheckExit
<1>11. CASE Lock BY <1>11 DEF Lock
<1>12. CASE Test BY <1>12 DEF Test
<1>13. CASE Sleep BY <1>13 DEF Sleep
<1>14. CASE SpuriousWakeup BY <1>14 DEF SpuriousWakeup
<1>15. CASE Process
  <2>1. CASE ~occurred BY <1>15, <2>1 DEF Process
  <2>2. CASE occurred
    <3>1. written > 0 /\ MayTake
      BY <1>15 DEF Process
    <3>2. /\ files \in Seq(Nat) /\ slot \in Nat /\ written \in Nat
          /\ FilesInOrder
          /\ \A i \in 1..Len(files) : files[i] < slot
      <4>1. \A i \in 1..Len(files) : files[i] \in Nat
        OBVIOUS
      <4>2. files[Len(files)] \in Nat
        BY <3>1
      <4>3. QED BY <2>2, <3>1, <4>1, <4>2
    <3>3. /\ executor = "callback" => slot < written
          /\ executor # "callback" => slot = written
      BY <2>2, <3>1
    <3>4. /\ executor' = executor /\ written' = written /\ ~occurred'
          /\ files' = Append(files, slot)
      BY <1>15, <2>2 DEF Process
    <3> HIDE DEF IInv, TypeOK, ThreadExists, Pending, LastListed, MayTake
    <3>5. /\ files' # <<>> /\ files'[Len(files')] = slot
          /\ \A i, j \in 1..Len(files') : i < j => files'[i] < files'[j]
          /\ \A i \in 1..Len(files') : files'[i] <= slot
      BY <3>2, <3>4, NewerFile DEF FilesInOrder
    <3>6. QED BY <3>2, <3>3, <3>4, <3>5 DEF Pending, FilesInOrder, LastListed
  <2>3. QED BY <2>1, <2>2
<1>16. CASE Unlock BY <1>16 DEF Unlock
<1>17. CASE Destroy BY <1>17 DEF Destroy
<1>18. CASE UNCHANGED vars BY <1>18 DEF vars
<1>19. QED
  BY <1>1, <1>2, <1>3, <1>4, <1>5, <1>6, <1>7, <1>8, <1>9, <1>10, <1>11, <1>12,
     <1>13, <1>14, <1>15, <1>16, <1>17, <1>18 DEF Next, Handler, ThreadStep

\* The three parts together are inductive.
LEMMA SplitsInvariant == Spec => []IInv
<1>1. Init => IInv
  <2> SUFFICES ASSUME Init PROVE IInv
    OBVIOUS
  <2>1. TypeOK
    <3>1. 0 \in 0..MaxFiles /\ 0 \in 0..MaxWakeups
      BY FilesAssumption, WakeupsAssumption
    <3>2. files \in Seq(0..MaxFiles)
      BY Lists DEF Init
    <3>3. QED BY <3>1, <3>2 DEF Init, TypeOK
  <2>2. ThreadExists
    BY DEF Init, ThreadExists
  <2>3. Pending
    BY DEF Init, Pending, FilesInOrder
  <2>4. QED BY <2>1, <2>2, <2>3 DEF IInv
<1>2. IInv /\ [Next]_vars => IInv'
  BY TypeOKStep, ThreadExistsStep, PendingStep DEF IInv
<1>3. QED BY <1>1, <1>2, PTL DEF Spec

\* The types hold, and the mutex is held exactly while the event thread is
\* between its wait and the end of the loop body.
THEOREM TypeCorrect == Spec => []TypeOK
<1>1. IInv => TypeOK BY DEF IInv
<1>2. QED BY <1>1, SplitsInvariant, PTL

\* The list of files never names a file twice and keeps their order.
THEOREM FilesAlwaysInOrder == Spec => []FilesInOrder
<1>1. IInv => FilesInOrder BY DEF IInv, Pending
<1>2. QED BY <1>1, SplitsInvariant, PTL

\* Once the event thread has caught up, the open file is the last in the list.
THEOREM LastFileAlwaysListed == Spec => []LastFileListed
<1>1. IInv => LastFileListed
  BY DEF IInv, Pending, LastListed, ThreadExists, LastFileListed, CaughtUp
<1>2. QED BY <1>1, SplitsInvariant, PTL
===============================================================================
