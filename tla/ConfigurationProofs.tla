------------------------- MODULE ConfigurationProofs -------------------------
(***************************************************************************)
(* Proofs about the configuration of a recorder, for every argument list,  *)
(* file, preset, document and override file.  Last, that the parser takes  *)
(* the argument lists that can be read and no others.                      *)
(***************************************************************************)
EXTENDS ConfigurationProperties, SequenceTheorems, FiniteSetTheorems, TLAPS

\* What a member may hold, and what the throttles of a node are.
Held == Value \cup {"resolved"}
OverridesKey == "topic_qos_profile_overrides_path"

\* The overrides a member names have been loaded once.
PathLoads(path) == path # "none" => ~OverridesFail(path)

\* Options as every part of the program has them.
IsWhole(o) ==
  /\ o = [members |-> o.members, throttles |-> o.throttles]
  /\ o.members \in [Fields -> Held]
  /\ o.throttles \in [DOMAIN o.throttles -> ThrottleConfig]
  /\ PathLoads(o.members[OverridesKey])
-----------------------------------------------------------------------------
(***************************************************************************)
(* Keys and values.                                                        *)
(***************************************************************************)

\* The places of the keys that are spoken of by name.
LEMMA KeysKnown ==
  /\ Fields \subseteq Keys /\ Written \subseteq Fields
  /\ {"output", "custom_data", "max_bag_size", OverridesKey} \subseteq Fields
  /\ OverridesKey \in RecordKeys \cap OnlyAtRecord /\ RecordKeys \subseteq Fields
  /\ OverridesKey \notin ResetWhenAbsent \cup Written
  /\ "output" \notin RecordKeys \cup ResetWhenAbsent /\ "custom_data" \notin RecordKeys
  /\ "output" \in WrittenAlways
  /\ "max_bag_size_gb" \notin Fields /\ "config" \notin Fields
BY DEF Fields, Keys, StorageKeys, RecordKeys, CustomKeys, Written, WrittenAlways,
       WrittenIfSet, OverridesKey, OnlyAtRecord, ResetWhenAbsent

\* Values are not the words for other things.
LEMMA ValuesKnown ==
  /\ "none" \in Value /\ "one" \in Value /\ "text" \in Value /\ "" \notin Value
  /\ "resolved" \notin Value /\ "malformed" \notin Held
BY DEF Value, Held

\* A throttle that is accepted is one a document may have.
LEMMA ConfigIsNode == ThrottleConfig \subseteq ThrottleNode
BY DEF ThrottleConfig, ThrottleNode

\* A function over another takes its values from both.
LEMMA OverType ==
  ASSUME NEW S, NEW f, NEW g, f \in [DOMAIN f -> S], g \in [DOMAIN g -> S]
  PROVE  /\ Over(f, g) \in [DOMAIN Over(f, g) -> S]
         /\ DOMAIN Over(f, g) = DOMAIN f \cup DOMAIN g
         /\ \A x \in DOMAIN f : Over(f, g)[x] = f[x]
         /\ \A x \in DOMAIN g \ DOMAIN f : Over(f, g)[x] = g[x]
BY DEF Over

\* Over itself, and over nothing, a function is itself.
LEMMA OverItself ==
  ASSUME NEW S, NEW f, f \in [DOMAIN f -> S]
  PROVE  Over(f, f) = f /\ Over(f, <<>>) = f
<1>1. DOMAIN <<>> = {}
  OBVIOUS
<1>2. f = [x \in DOMAIN f |-> f[x]]
  OBVIOUS
<1>3. Over(f, f) = [x \in DOMAIN f |-> f[x]]
  BY DEF Over
<1>4. Over(f, <<>>) = [x \in DOMAIN f |-> f[x]]
  BY <1>1 DEF Over
<1>5. QED BY <1>2, <1>3, <1>4

\* Nothing set is a configuration.
LEMMA NoOptionsWhole == IsWhole(NoOptions) /\ NoOptions.members[OverridesKey] = "none"
<1> DEFINE m == [f \in Fields |-> Default(f)]
<1>1. /\ NoOptions = [members |-> m, throttles |-> NoThrottle]
      /\ NoOptions.members = m /\ NoOptions.throttles = NoThrottle
  BY DEF NoOptions
<1>2. \A f : Default(f) \in Value
  BY DEF Default, Value
<1>3. m \in [Fields -> Held]
  BY <1>2 DEF Held
<1>4. Default(OverridesKey) = "none"
  BY DEF Default, OverridesKey
<1>5. m[OverridesKey] = "none"
  BY <1>4, KeysKnown
<1>6. NoThrottle \in [DOMAIN NoThrottle -> ThrottleConfig]
  BY DEF NoThrottle
<1> HIDE DEF m
<1>7. QED BY <1>1, <1>3, <1>5, <1>6 DEF IsWhole, PathLoads

\* A document that is not rejected has what its members may hold.
LEMMA AcceptedDocument ==
  ASSUME NEW doc, IsDocument(doc), ~Rejected(doc)
  PROVE  /\ DOMAIN doc.nodes \subseteq Keys
         /\ \A k \in DOMAIN doc.nodes : doc.nodes[k] \in Held
         /\ doc.throttles \in [DOMAIN doc.throttles -> ThrottleConfig]
         /\ OverridesKey \in DOMAIN doc.nodes => ~OverridesFail(doc.nodes[OverridesKey])
BY DEF IsDocument, Rejected, Held, OverridesKey

\* What parseYamlNode leaves in the options is a configuration again, and has the values
\* of the document.
LEMMA ParsedWhole ==
  ASSUME NEW doc, IsDocument(doc), ~Rejected(doc), NEW o, IsWhole(o)
  PROVE  /\ IsWhole(Parsed(doc, o))
         /\ Agrees(Parsed(doc, o), doc)
<1> DEFINE m == [f \in Fields |-> Member(doc, o.members[f], f)]
           th == Over(doc.throttles, o.throttles)
<1>1. /\ Parsed(doc, o) = [members |-> m, throttles |-> th]
      /\ Parsed(doc, o).members = m /\ Parsed(doc, o).throttles = th
  BY DEF Parsed
<1>2. /\ DOMAIN doc.nodes \subseteq Keys
      /\ \A k \in DOMAIN doc.nodes : doc.nodes[k] \in Held
      /\ doc.throttles \in [DOMAIN doc.throttles -> ThrottleConfig]
      /\ OverridesKey \in DOMAIN doc.nodes => ~OverridesFail(doc.nodes[OverridesKey])
  BY AcceptedDocument
<1>3. /\ o.members \in [Fields -> Held]
      /\ o.throttles \in [DOMAIN o.throttles -> ThrottleConfig]
      /\ PathLoads(o.members[OverridesKey])
  BY DEF IsWhole
<1>4. \A f \in Fields : Member(doc, o.members[f], f) \in Held
  BY <1>2, <1>3, ValuesKnown DEF Member, Held
<1>5. m \in [Fields -> Held]
  BY <1>4
<1>6. /\ th \in [DOMAIN th -> ThrottleConfig]
      /\ \A t \in DOMAIN doc.throttles : th[t] = doc.throttles[t]
  <2> DEFINE f == doc.throttles
             g == o.throttles
  <2>1. f \in [DOMAIN f -> ThrottleConfig] /\ g \in [DOMAIN g -> ThrottleConfig]
    BY <1>2, <1>3
  <2> HIDE DEF f, g
  <2>2. /\ Over(f, g) \in [DOMAIN Over(f, g) -> ThrottleConfig]
        /\ \A x \in DOMAIN f : Over(f, g)[x] = f[x]
    BY <2>1 DEF Over
  <2>3. QED BY <2>2 DEF f, g
<1>7. m[OverridesKey] = Member(doc, o.members[OverridesKey], OverridesKey)
  BY KeysKnown
<1>8. PathLoads(m[OverridesKey])
  <2>1. OverridesKey \notin ResetWhenAbsent /\ OverridesKey # "max_bag_size"
    BY KeysKnown DEF OverridesKey
  <2>2. CASE OverridesKey \in DOMAIN doc.nodes
    BY <1>2, <1>7, <2>2 DEF Member, PathLoads
  <2>3. CASE OverridesKey \notin DOMAIN doc.nodes
    BY <1>3, <1>7, <2>1, <2>3 DEF Member
  <2>4. QED BY <2>2, <2>3
<1>9. \A k \in DOMAIN doc.nodes \ {"max_bag_size_gb"} : k \in Fields /\ m[k] = doc.nodes[k]
  BY <1>2 DEF Keys, Member
<1> HIDE DEF m, th
<1>10. IsWhole(Parsed(doc, o))
  BY <1>1, <1>5, <1>6, <1>8 DEF IsWhole
<1>11. Agrees(Parsed(doc, o), doc)
  BY <1>1, <1>6, <1>9 DEF Agrees
<1>12. QED BY <1>10, <1>11

\* One other member makes another configuration.
LEMMA SetMember ==
  ASSUME NEW o, IsWhole(o), NEW k \in Fields \ {OverridesKey}, NEW v \in Held
  PROVE  /\ IsWhole([o EXCEPT !.members[k] = v])
         /\ [o EXCEPT !.members[k] = v].members = [o.members EXCEPT ![k] = v]
         /\ [o EXCEPT !.members[k] = v].members[k] = v
         /\ \A f \in Fields \ {k} : [o EXCEPT !.members[k] = v].members[f] = o.members[f]
         /\ [o EXCEPT !.members[k] = v].throttles = o.throttles
<1> DEFINE m == [o.members EXCEPT ![k] = v]
           new == [o EXCEPT !.members[k] = v]
<1>1. /\ o.members \in [Fields -> Held]
      /\ o.throttles \in [DOMAIN o.throttles -> ThrottleConfig]
      /\ PathLoads(o.members[OverridesKey])
      /\ o = [members |-> o.members, throttles |-> o.throttles]
  BY DEF IsWhole
<1>2. new = [members |-> m, throttles |-> o.throttles]
  BY <1>1
<1>3. new.members = m /\ new.throttles = o.throttles
  BY <1>2
<1>4. /\ m \in [Fields -> Held] /\ m[k] = v
      /\ \A f \in Fields \ {k} : m[f] = o.members[f]
  BY <1>1
<1>5. m[OverridesKey] = o.members[OverridesKey]
  BY <1>4, KeysKnown
<1> HIDE DEF m, new
<1>6. IsWhole(new)
  BY <1>1, <1>2, <1>3, <1>4, <1>5 DEF IsWhole
<1>7. QED BY <1>3, <1>4, <1>6 DEF m, new
-----------------------------------------------------------------------------
(***************************************************************************)
(* The command line.                                                       *)
(***************************************************************************)

\* A parse at any of its arguments.
ParseType ==
  [taking : Options \cup {""}, missing : Int, onlyWords : BOOLEAN,
   results : [Options -> Seq(Value)], extras : Nat, broken : BOOLEAN]

\* Its parts.
LEMMA ParseParts ==
  ASSUME NEW parse \in ParseType
  PROVE  /\ parse.taking \in Options \cup {""} /\ parse.missing \in Int
         /\ parse.onlyWords \in BOOLEAN /\ parse.results \in [Options -> Seq(Value)]
         /\ parse.extras \in Nat /\ parse.broken \in BOOLEAN
         /\ parse = [taking |-> parse.taking, missing |-> parse.missing,
                     onlyWords |-> parse.onlyWords, results |-> parse.results,
                     extras |-> parse.extras, broken |-> parse.broken]
BY DEF ParseType

\* It begins with nothing.
LEMMA StartType == Start \in ParseType
<1>1. <<>> \in Seq(Value)
  BY EmptySeq
<1>2. QED BY <1>1 DEF Start, ParseType

\* An option gets a value more.
LEMMA ResultAdded ==
  ASSUME NEW parse \in ParseType, NEW o, NEW text \in Value
  PROVE  AddResult(parse, o, text) \in ParseType
<1> DEFINE r == parse.results
           new == [r EXCEPT ![o] = Append(r[o], text)]
<1>1. r \in [Options -> Seq(Value)]
  BY DEF ParseType
<1>2. new \in [Options -> Seq(Value)]
  <2>1. ASSUME NEW q \in Options PROVE new[q] \in Seq(Value)
    <3>1. r[q] \in Seq(Value)
      BY <1>1
    <3>2. Append(r[q], text) \in Seq(Value)
      BY <3>1, AppendProperties
    <3>3. new[q] = IF q = o THEN Append(r[o], text) ELSE r[q]
      BY <1>1
    <3>4. QED BY <3>1, <3>2, <3>3
  <2>2. new = [q \in Options |-> new[q]]
    BY <1>1
  <2> HIDE DEF new
  <2>3. QED BY <2>1, <2>2
<1>3. AddResult(parse, o, text) = [parse EXCEPT !.results = new]
  BY DEF AddResult
<1> HIDE DEF new, r
<1>4. QED BY <1>2, <1>3 DEF ParseType

\* What an argument is made of.
LEMMA ArgumentParts ==
  ASSUME NEW arg \in Argument
  PROVE  /\ Text(arg) \in Value
         /\ ~IsWord(arg) /\ ~IsMark(arg) =>
              /\ arg.option \in Options \cup {"unknown"}
              /\ arg.value \in {""} \cup Value
BY ValuesKnown DEF Argument, Text, IsWord, IsMark

\* A turn that is over.
LEMMA ClosedType ==
  ASSUME NEW parse \in ParseType
  PROVE  Close(parse) \in ParseType
<1>1. ASSUME NEW taking \in Options \cup {""}, NEW missing \in Int, NEW broken \in BOOLEAN
      PROVE  [parse EXCEPT !.taking = taking, !.missing = missing, !.broken = broken]
               \in ParseType
  BY DEF ParseType
<1>2. (parse.broken \/ Partial(parse)) \in BOOLEAN
  OBVIOUS
<1>3. "" \in Options \cup {""} /\ 0 \in Int
  OBVIOUS
<1>4. [parse EXCEPT !.taking = "", !.missing = 0, !.broken = parse.broken \/ Partial(parse)]
        \in ParseType
  BY <1>1, <1>2, <1>3, Zenon
<1>5. QED BY <1>4, Zenon DEF Close

\* An argument that is left over.
LEMMA LeftOverType ==
  ASSUME NEW parse \in ParseType
  PROVE  LeftOver(parse) \in ParseType
<1>1. parse.extras + 1 \in Nat
  <2>1. parse.extras \in Nat
    BY ParseParts
  <2>2. QED BY <2>1
<1>2. LeftOver(parse) = [parse EXCEPT !.extras = parse.extras + 1]
  BY DEF LeftOver
<1>3. QED BY <1>1, <1>2 DEF ParseType

\* An argument that names an option.
LEMMA OptionRead ==
  ASSUME NEW parse \in ParseType, NEW arg \in Argument, ~IsWord(arg), ~IsMark(arg)
  PROVE  ReadOption(parse, arg) \in ParseType
<1>1. arg.option \in Options \cup {"unknown"} /\ arg.value \in {""} \cup Value
  BY ArgumentParts
<1>2. CASE arg.option = "unknown"
  BY <1>2, LeftOverType DEF ReadOption
<1>3. CASE arg.option # "unknown" /\ arg.option \in FlagOptions
  <2>1. FlagValue(arg) \in Value
    BY <1>1, ValuesKnown DEF FlagValue
  <2>2. AddResult(parse, arg.option, FlagValue(arg)) \in ParseType
    BY <2>1, ResultAdded
  <2>3. ReadFlag(parse, arg) \in ParseType
    BY <2>2, LeftOverType DEF ReadFlag
  <2>4. QED BY <1>3, <2>3 DEF ReadOption
<1>4. CASE arg.option \in Options /\ arg.option \notin FlagOptions /\ arg.option # "unknown"
  <2>1. ReadGlued(parse, arg) \in ParseType
    BY <1>1, ResultAdded DEF ReadGlued
  <2>2. AtLeast(arg.option) \in Int
    BY DEF AtLeast
  <2>3. ReadOption(parse, arg) =
          [ReadGlued(parse, arg) EXCEPT
             !.taking = IF arg.value # "" /\ ~Unbounded(arg.option) THEN "" ELSE arg.option,
             !.missing = AtLeast(arg.option) - (IF arg.value # "" THEN 1 ELSE 0)]
    BY <1>4 DEF ReadOption
  <2> DEFINE read == ReadGlued(parse, arg)
             taking == IF arg.value # "" /\ ~Unbounded(arg.option) THEN "" ELSE arg.option
             missing == AtLeast(arg.option) - (IF arg.value # "" THEN 1 ELSE 0)
  <2>4. taking \in Options \cup {""} /\ missing \in Int
    <3>1. taking \in Options \cup {""}
      BY <1>4
    <3>2. \A n \in Int : n - 0 \in Int /\ n - 1 \in Int
      OBVIOUS
    <3>3. missing \in Int
      BY <2>2, <3>2
    <3>4. QED BY <3>1, <3>3
  <2>5. read \in ParseType
    BY <2>1
  <2> HIDE DEF read, taking, missing
  <2>6. [read EXCEPT !.taking = taking, !.missing = missing] \in ParseType
    BY <2>4, <2>5 DEF ParseType
  <2>7. QED BY <2>3, <2>6 DEF read, taking, missing
<1>5. QED BY <1>1, <1>2, <1>3, <1>4

\* Every argument is read to a parse.
LEMMA ArgumentRead ==
  ASSUME NEW parse \in ParseType, NEW arg \in Argument
  PROVE  ReadArgument(parse, arg) \in ParseType
<1>1. Text(arg) \in Value
  BY ArgumentParts
<1>2. AddResult(parse, parse.taking, Text(arg)) \in ParseType
  BY <1>1, ResultAdded
<1>3. TakeMinimum(parse, arg) \in ParseType
  <2> DEFINE read == AddResult(parse, parse.taking, Text(arg))
  <2>1. read \in ParseType
    BY <1>2
  <2>2. TakeMinimum(parse, arg) = Close(read)
        \/ TakeMinimum(parse, arg) = [read EXCEPT !.missing = read.missing - 1]
    BY DEF TakeMinimum
  <2> HIDE DEF read
  <2>3. [read EXCEPT !.missing = read.missing - 1] \in ParseType
    <3>1. read.missing - 1 \in Int
      <4>1. read.missing \in Int
        BY <2>1, ParseParts
      <4>2. QED BY <4>1
    <3> DEFINE missing == read.missing - 1
    <3> HIDE DEF missing
    <3>2. missing \in Int
      BY <3>1 DEF missing
    <3>3. [read EXCEPT !.missing = missing] \in ParseType
      BY <2>1, <3>2 DEF ParseType
    <3>4. QED BY <3>3 DEF missing
  <2>4. QED BY <2>1, <2>2, <2>3, ClosedType
<1>4. TakeOptional(parse, arg) \in ParseType
  BY <1>2, ClosedType DEF TakeOptional
<1>5. ReadPositional(parse) \in ParseType
  BY LeftOverType DEF ReadPositional
<1>6. [parse EXCEPT !.onlyWords = TRUE] \in ParseType
  BY DEF ParseType
<1>7. ~IsWord(arg) /\ ~IsMark(arg) => ReadOption(Close(parse), arg) \in ParseType
  BY ClosedType, OptionRead
<1>8. QED BY <1>3, <1>4, <1>5, <1>6, <1>7 DEF ReadArgument

\* The parses of the first arguments, as the fold of Read makes them.
Parses(a, n, f) ==
  f = [s \in SUBSET (1..n) |->
         IF s = {} THEN Start ELSE ReadArgument(f[s \ {Max(s)}], a[Max(s)])]

\* A set of positions has a least one.
LEMMA LeastElement ==
  ASSUME NEW S \in SUBSET Nat, S # {}
  PROVE  \E x \in S : \A y \in S : x <= y
<1>1. IsWellFoundedOn(OpToRel(<, Nat), Nat)
  BY NatLessThanWellFounded
<1>2. PICK x \in S : \A y \in S : <<y, x>> \notin OpToRel(<, Nat)
  <2>1. \E x \in S : \A y \in S : ~ (<<y, x>> \in OpToRel(<, Nat))
    BY <1>1, WFMin
  <2>2. QED BY <2>1
<1>3. ASSUME NEW y \in S PROVE x <= y
  <2>1. <<y, x>> \in Nat \X Nat
    OBVIOUS
  <2>2. ~ (y < x)
    BY <1>2, <2>1 DEF OpToRel
  <2>3. QED BY <2>2
<1>4. QED BY <1>3

\* Sets of positions have a last one.
LEMMA LastPosition ==
  ASSUME NEW n \in Nat, NEW s \in SUBSET (1..n), s # {}
  PROVE  Max(s) \in s /\ \A i \in s : i <= Max(s)
<1> DEFINE back == {n - i : i \in s}
<1>1. back \in SUBSET Nat /\ back # {}
  <2>1. \A i \in 1..n : n - i \in Nat
    OBVIOUS
  <2>2. \A i \in s : n - i \in Nat
    BY <2>1
  <2>3. PICK i \in s : TRUE
    OBVIOUS
  <2>4. n - i \in back
    OBVIOUS
  <2>5. QED BY <2>2, <2>4
<1>2. PICK l \in back : \A k \in back : l <= k
  <2> HIDE DEF back
  <2>1. QED BY <1>1, LeastElement
<1>3. PICK i \in s : l = n - i
  OBVIOUS
<1>4. \A j \in s : i >= j
  <2>1. ASSUME NEW j \in s PROVE i >= j
    <3>1. n - i <= n - j
      BY <1>2, <1>3
    <3>2. i \in Nat /\ j \in Nat
      OBVIOUS
    <3>3. QED BY <3>1, <3>2
  <2>2. QED BY <2>1
<1>5. Max(s) \in s /\ \A j \in s : Max(s) >= j
  BY <1>4 DEF Max
<1>6. \A j \in s : j \in Nat
  OBVIOUS
<1>7. QED BY <1>5, <1>6

\* There are such parses: one argument more is read after those before it.
LEMMA ParsesExist ==
  ASSUME NEW a, NEW n \in Nat
  PROVE  \E f : Parses(a, n, f)
<1> DEFINE Without == {l \in Nat : ~ \E f : Parses(a, l, f)}
<1>1. SUFFICES ASSUME n \in Without PROVE FALSE
  OBVIOUS
<1>2. PICK l \in Without : \A k \in Without : l <= k
  <2>1. Without \in SUBSET Nat /\ Without # {}
    BY <1>1
  <2> HIDE DEF Without
  <2>2. QED BY <2>1, LeastElement
<1>3. l \in Nat /\ ~ \E f : Parses(a, l, f)
  OBVIOUS
<1>4. CASE l = 0
  <2>1. SUBSET (1..l) = {{}}
    BY <1>4
  <2>2. Parses(a, l, [s \in SUBSET (1..l) |-> Start])
    BY <2>1 DEF Parses
  <2>3. QED BY <1>3, <2>2
<1>5. CASE l # 0
  <2>1. l - 1 \in Nat /\ l - 1 \notin Without
    BY <1>2, <1>3, <1>5
  <2>2. PICK f : Parses(a, l - 1, f)
    BY <2>1
  <2> DEFINE g == [s \in SUBSET (1..l) |->
                     IF l \in s THEN ReadArgument(f[s \ {l}], a[l]) ELSE f[s]]
             h == [s \in SUBSET (1..l) |->
                     IF s = {} THEN Start
                     ELSE ReadArgument(g[s \ {Max(s)}], a[Max(s)])]
  <2>3. \A s \in SUBSET (1..l) : l \notin s => s \in SUBSET (1..(l - 1))
    BY <1>3, <1>5
  <2>4. \A s \in SUBSET (1..(l - 1)) :
          f[s] = IF s = {} THEN Start ELSE ReadArgument(f[s \ {Max(s)}], a[Max(s)])
    BY <2>2 DEF Parses
  <2>5. ASSUME NEW s \in SUBSET (1..l) PROVE g[s] = h[s]
    <3>1. CASE s = {}
      <4>1. l \notin s /\ s \in SUBSET (1..(l - 1))
        BY <3>1
      <4>2. f[s] = Start
        BY <2>4, <3>1, <4>1
      <4>3. QED BY <3>1, <4>1, <4>2
    <3>2. CASE l \in s
      <4>1. Max(s) \in s /\ \A i \in s : i <= Max(s)
        BY <1>3, <3>2, LastPosition
      <4>2. Max(s) = l
        <5>1. Max(s) \in 1..l /\ l <= Max(s)
          BY <3>2, <4>1
        <5>2. QED BY <1>3, <5>1
      <4>3. s \ {l} \in SUBSET (1..l) /\ l \notin s \ {l}
        OBVIOUS
      <4>4. g[s \ {l}] = f[s \ {l}]
        BY <4>3
      <4>5. g[s] = ReadArgument(f[s \ {l}], a[l])
        BY <3>2
      <4>6. h[s] = ReadArgument(g[s \ {l}], a[l])
        BY <3>2, <4>2
      <4>7. QED BY <4>4, <4>5, <4>6
    <3>3. CASE s # {} /\ l \notin s
      <4>1. s \in SUBSET (1..(l - 1))
        BY <2>3, <3>3
      <4>2. s \ {Max(s)} \in SUBSET (1..l) /\ l \notin s \ {Max(s)}
        BY <3>3
      <4>3. f[s] = ReadArgument(f[s \ {Max(s)}], a[Max(s)])
        BY <2>4, <3>3, <4>1
      <4>4. g[s] = f[s] /\ g[s \ {Max(s)}] = f[s \ {Max(s)}]
        BY <3>3, <4>2
      <4>5. QED BY <3>3, <4>3, <4>4
    <3>4. QED BY <3>1, <3>2, <3>3
  <2>6. g = h
    <3> HIDE DEF g, h
    <3>1. DOMAIN g = SUBSET (1..l) /\ g = [s \in SUBSET (1..l) |-> g[s]]
      BY DEF g
    <3>2. h = [s \in SUBSET (1..l) |-> h[s]]
      BY DEF h
    <3>3. QED BY <2>5, <3>1, <3>2
  <2>7. Parses(a, l, g)
    BY <2>6 DEF Parses
  <2>8. QED BY <1>3, <2>7
<1>6. QED BY <1>4, <1>5

\* A parse is made argument by argument.
LEMMA ReadStepwise ==
  ASSUME NEW a \in Seq(Argument)
  PROVE  \E p \in [0..Len(a) -> ParseType] :
           /\ p[0] = Start
           /\ \A k \in 1..Len(a) : p[k] = ReadArgument(p[k - 1], a[k])
           /\ Read(a) = [Close(p[Len(a)]) EXCEPT
                           !.broken = Close(p[Len(a)]).broken \/ p[Len(a)].missing > 0]
<1> DEFINE n == Len(a)
<1>1. n \in Nat /\ DOMAIN a = 1..n /\ \A k \in 1..n : a[k] \in Argument
  OBVIOUS
<1>2. \E f : Parses(a, n, f)
  BY <1>1, ParsesExist
<1> DEFINE f == CHOOSE g : Parses(a, n, g)
           last == FoldLeft(ReadArgument, Start, a)
<1>3. Parses(a, n, f)
  BY <1>2
<1>4. last = f[1..n]
  BY <1>1 DEF FoldLeft, MapThenFoldSet, Parses
<1> HIDE DEF f, n
<1>5. \A s \in SUBSET (1..n) :
        f[s] = IF s = {} THEN Start ELSE ReadArgument(f[s \ {Max(s)}], a[Max(s)])
  BY <1>3 DEF Parses
<1>6. f[1..0] = Start
  <2>1. 1..0 = {}
    OBVIOUS
  <2>2. QED BY <1>5, <2>1
<1>7. ASSUME NEW k \in 1..n PROVE f[1..k] = ReadArgument(f[1..(k - 1)], a[k])
  <2>1. 1..k \in SUBSET (1..n) /\ 1..k # {} /\ k \in 1..k /\ k \in Nat
    BY <1>1
  <2>2. Max(1..k) \in 1..k /\ \A i \in 1..k : i <= Max(1..k)
    BY <2>1, LastPosition
  <2>3. Max(1..k) = k
    BY <2>1, <2>2
  <2>4. (1..k) \ {k} = 1..(k - 1)
    BY <2>1
  <2>5. QED BY <1>5, <2>1, <2>3, <2>4
<1> DEFINE Other == {k \in 0..n : f[1..k] \notin ParseType}
<1>8. Other = {}
  <2>1. SUFFICES ASSUME Other # {} PROVE FALSE
    OBVIOUS
  <2>2. PICK k \in Other : \A l \in Other : k <= l
    <3>1. Other \in SUBSET Nat
      BY <1>1
    <3> HIDE DEF Other
    <3>2. QED BY <2>1, <3>1, LeastElement
  <2>3. CASE k = 0
    BY <1>6, <2>3, StartType
  <2>4. CASE k # 0
    <3>1. k \in 1..n /\ k - 1 \in 0..n /\ ~(k <= k - 1)
      BY <1>1, <2>4
    <3>2. f[1..(k - 1)] \in ParseType
      BY <2>2, <3>1
    <3>3. f[1..k] \in ParseType
      BY <1>1, <1>7, <3>1, <3>2, ArgumentRead
    <3>4. QED BY <3>3
  <2>5. QED BY <2>3, <2>4
<1> DEFINE p == [k \in 0..n |-> f[1..k]]
<1>9. p \in [0..n -> ParseType]
  BY <1>8
<1>10. p[0] = Start
  BY <1>1, <1>6
<1>11. \A k \in 1..n : p[k] = ReadArgument(p[k - 1], a[k])
  <2>1. ASSUME NEW k \in 1..n PROVE p[k] = ReadArgument(p[k - 1], a[k])
    <3>1. k \in 0..n /\ k - 1 \in 0..n
      BY <1>1
    <3>2. p[k] = f[1..k] /\ p[k - 1] = f[1..(k - 1)]
      BY <3>1
    <3>3. QED BY <1>7, <3>2
  <2>2. QED BY <2>1
<1>12. p[n] = last
  BY <1>1, <1>4
<1>13. Read(a) = [Close(last) EXCEPT !.broken = Close(last).broken \/ last.missing > 0]
  BY DEF Read
<1> HIDE DEF last, p
<1>14. Read(a) = [Close(p[n]) EXCEPT !.broken = Close(p[n]).broken \/ p[n].missing > 0]
  BY <1>12, <1>13
<1>15. QED BY <1>9, <1>10, <1>11, <1>14 DEF n

\* The arguments are read to a parse, whatever they are.
LEMMA ReadType ==
  ASSUME NEW a \in Seq(Argument)
  PROVE  Read(a) \in ParseType
<1>1. PICK p \in [0..Len(a) -> ParseType] :
        Read(a) = [Close(p[Len(a)]) EXCEPT
                    !.broken = Close(p[Len(a)]).broken \/ p[Len(a)].missing > 0]
  BY ReadStepwise
<1> DEFINE last == p[Len(a)]
<1>2. last \in ParseType
  BY <1>1
<1> HIDE DEF last
<1>3. ASSUME NEW parse \in ParseType, NEW broken \in BOOLEAN
      PROVE  [parse EXCEPT !.broken = broken] \in ParseType
  BY DEF ParseType
<1>4. (Close(last).broken \/ last.missing > 0) \in BOOLEAN
  OBVIOUS
<1>5. Close(last) \in ParseType
  BY <1>2, ClosedType
<1>6. Read(a) = [Close(last) EXCEPT !.broken = Close(last).broken \/ last.missing > 0]
  BY <1>1 DEF last
<1>7. QED BY <1>3, <1>4, <1>5, <1>6, Zenon

\* The values of an option that is there.
LEMMA GivenType ==
  ASSUME NEW parse \in ParseType, NEW o \in Options, Count(parse, o) > 0
  PROVE  Given(parse, o) \in Value /\ parse.results[o][1] \in Value
<1>1. parse.results[o] \in Seq(Value)
  BY ParseParts
<1>2. parse.results[o][1] \in Value
  BY <1>1 DEF Count
<1>3. QED BY <1>2, ValuesKnown DEF Given
-----------------------------------------------------------------------------
(***************************************************************************)
(* Starting.                                                               *)
(***************************************************************************)

\* What may be in a file, and the document a call works on.
MayBeFile(doc) == doc = NoFile \/ IsDocument(doc)
Applicable == {""} \cup {n \in Names : Present(n)}
Named(preset) == IF preset = "" THEN editor ELSE files[preset]

\* Documents and files.
DocumentsInv ==
  /\ args \in Seq(Argument)
  /\ files = [n \in Names |-> files[n]] /\ \A n \in Names : MayBeFile(files[n])
  /\ store = [n \in NewNames |-> store[n]] /\ \A n \in NewNames : MayBeFile(store[n])
  /\ IsDocument(editor)

\* The empty word names nothing, and the names are among the values.
LEMMA NamesKnown ==
  /\ "" \notin Names /\ Names \subseteq Value /\ NewNames \subseteq Names
  /\ DOMAIN InitialFiles \subseteq Names
BY FileAssumption, ValuesKnown DEF Names

\* A text is no missing file.
LEMMA EmptyIsDocument == IsDocument(EmptyDocument)
BY FileAssumption

\* What is counted is there, or not.
LEMMA CountsKnown ==
  ASSUME NEW n \in Nat
  PROVE  (n > 0 => 1 \in 1..n) /\ (~(n > 0) => n = 0)
OBVIOUS

\* A command line that is accepted names a file that is there, or none.
LEMMA ConfigPathNamed ==
  ASSUME DocumentsInv, Accepts, ConfigPath # ""
  PROVE  /\ ConfigPath \in Names /\ files[ConfigPath] # NoFile
         /\ IsDocument(files[ConfigPath])
         /\ \A o \in Options \ {"config"} : Count(Parse, o) = 0
<1> DEFINE here == {n \in Names : files[n] # NoFile}
<1>1. Parse \in ParseType
  BY ReadType DEF DocumentsInv, Parse
<1>2. Count(Parse, "config") > 0 /\ ConfigPath = Given(Parse, "config")
  BY DEF ConfigPath
<1>3. ~ValueRejected(Parse, here) /\ ~Excluded(Parse)
  BY DEF Accepts, Outcome
<1>4. "config" \in Options /\ "config" \in FileOptions
      /\ "config" \notin ChoiceOptions /\ "config" \notin FlagOptions
  BY DEF Options, FileOptions, ChoiceOptions, FlagOptions
<1>5. \A o \in Options : Parse.results[o] \in Seq(Value)
  BY <1>1, ParseParts
<1>6. ASSUME NEW o \in Options
       PROVE  /\ Count(Parse, o) \in Nat
              /\ DOMAIN Parse.results[o] = 1..Count(Parse, o)
  <2>1. Parse.results[o] \in Seq(Value)
    BY <1>5
  <2>2. QED BY <2>1, LenProperties DEF Count
<1> HIDE DEF here
<1>7. Validated("config", Parse.results["config"], here)
  BY <1>2, <1>3, <1>4 DEF ValueRejected, Accepted
<1>8. \A i \in DOMAIN Parse.results["config"] : Parse.results["config"][i] \in here
  BY <1>4, <1>7 DEF Validated
<1>9. 1 \in DOMAIN Parse.results["config"]
  <2>1. /\ Count(Parse, "config") \in Nat
        /\ DOMAIN Parse.results["config"] = 1..Count(Parse, "config")
    BY <1>4, <1>6
  <2>2. Count(Parse, "config") > 0 => 1 \in 1..Count(Parse, "config")
    BY <2>1, CountsKnown
  <2>3. QED BY <1>2, <2>1, <2>2, Zenon
<1>10. ConfigPath \in here
  BY <1>2, <1>4, <1>8, <1>9 DEF Given
<1>11. ConfigPath \in Names /\ files[ConfigPath] # NoFile
  BY <1>10 DEF here
<1>12. ASSUME NEW o \in Options \ {"config"} PROVE Count(Parse, o) = 0
  <2>1. ~(Count(Parse, o) > 0)
    BY <1>2, <1>3, <1>4 DEF Excluded, Excludes
  <2>2. Count(Parse, o) \in Nat
    BY <1>6
  <2>3. QED BY <2>1, <2>2, CountsKnown
<1>13. QED BY <1>11, <1>12 DEF DocumentsInv, MayBeFile

\* The options of a command line are a configuration.
LEMMA CommandLineWhole ==
  ASSUME DocumentsInv, ~CliOverridesFail
  PROVE  IsWhole(CommandLineOptions)
<1> DEFINE m == CommandLineMembers(Parse)
<1>1. Parse \in ParseType
  BY ReadType DEF DocumentsInv, Parse
<1>2. \A o \in Options : Count(Parse, o) > 0 => Given(Parse, o) \in Held
  BY <1>1, GivenType DEF Held
<1>3. "max_bag_size_gb" \in Options /\ OverridesKey \in Options
  BY DEF Options, NumberOptions, FileOptions, OverridesKey
<1>4. \A f : Default(f) \in Held
  BY DEF Default, Held, Value
<1>5. "one" \in Held /\ "resolved" \in Held
  BY ValuesKnown DEF Held
<1>6. m \in [Fields -> Held]
  BY <1>2, <1>3, <1>4, <1>5 DEF CommandLineMembers
<1>7. m[OverridesKey] = IF Count(Parse, OverridesKey) > 0 THEN Given(Parse, OverridesKey)
                        ELSE Default(OverridesKey)
  BY <1>3, KeysKnown DEF CommandLineMembers, OverridesKey
<1>8. Default(OverridesKey) = "none"
  BY DEF Default, OverridesKey
<1>9. PathLoads(m[OverridesKey])
  BY <1>7, <1>8 DEF PathLoads, CliOverridesFail, OverridesKey
<1>10. NoThrottle \in [DOMAIN NoThrottle -> ThrottleConfig]
  BY DEF NoThrottle
<1>11. CommandLineOptions = [members |-> m, throttles |-> NoThrottle]
  BY DEF CommandLineOptions
<1> HIDE DEF m
<1>12. QED BY <1>6, <1>9, <1>10, <1>11 DEF IsWhole

\* A process starts with a configuration, and with a file that is all there is of it.
LEMMA StartWhole ==
  ASSUME DocumentsInv, Accepts, ~FileRejected
  PROVE  /\ IsWhole(StartOptions)
         /\ ConfigPath # "" =>
              /\ Agrees(StartOptions, files[ConfigPath])
              /\ StartOptions.throttles = files[ConfigPath].throttles
              /\ \A f \in Fields \ {"output"} :
                   StartOptions.members[f] = Member(files[ConfigPath], Default(f), f)
<1>1. IsWhole(CommandLineOptions)
  BY CommandLineWhole DEF FileRejected
<1>2. CASE ConfigPath = ""
  BY <1>1, <1>2 DEF StartOptions
<1>3. CASE ConfigPath # ""
  <2> DEFINE doc == files[ConfigPath]
             m == CommandLineMembers(Parse)
  <2>1. IsDocument(doc) /\ ~Rejected(doc)
    BY <1>3, ConfigPathNamed DEF FileRejected
  <2>2. StartOptions = Parsed(doc, CommandLineOptions)
    BY <1>3 DEF StartOptions
  <2>3. \A o \in Options \ {"config"} : Count(Parse, o) = 0
    BY <1>3, ConfigPathNamed
  <2>4. {"all", "max_bag_size_gb"} \subseteq Options \ {"config"} /\ "config" \notin Fields
    BY KeysKnown DEF Options, FlagOptions, NumberOptions
  <2>5. \A f \in Fields \ {"output"} : m[f] = Default(f)
    <3>1. ~(Count(Parse, "all") > 0) /\ ~(Count(Parse, "max_bag_size_gb") > 0)
      BY <2>3, <2>4
    <3>2. \A f \in Fields : f \in Options => ~(Count(Parse, f) > 0)
      BY <2>3, <2>4
    <3>3. QED BY <3>1, <3>2 DEF CommandLineMembers
  <2>6. CommandLineOptions.members = m /\ CommandLineOptions.throttles = <<>>
    BY DEF CommandLineOptions, NoThrottle
  <2> HIDE DEF doc, m
  <2>7. /\ Parsed(doc, CommandLineOptions).throttles = Over(doc.throttles, <<>>)
        /\ \A f \in Fields :
             Parsed(doc, CommandLineOptions).members[f] = Member(doc, m[f], f)
    BY <2>6 DEF Parsed
  <2>8. doc.throttles \in [DOMAIN doc.throttles -> ThrottleNode]
    BY <2>1 DEF IsDocument
  <2>9. Over(doc.throttles, <<>>) = doc.throttles
    BY <2>8, OverItself
  <2>10. IsWhole(StartOptions) /\ Agrees(StartOptions, doc)
    BY <1>1, <2>1, <2>2, ParsedWhole
  <2>11. \A f \in Fields \ {"output"} : StartOptions.members[f] = Member(doc, Default(f), f)
    BY <2>2, <2>5, <2>7
  <2>12. QED BY <2>2, <2>7, <2>9, <2>10, <2>11 DEF doc
<1>4. QED BY <1>2, <1>3
-----------------------------------------------------------------------------
(***************************************************************************)
(* The steps.                                                              *)
(***************************************************************************)

\* The variables of the node.
NodeTypes ==
  /\ up \in BOOLEAN /\ recording \in BOOLEAN
  /\ IsWhole(options) /\ IsWhole(running)
  /\ raw \in Held
  /\ config_path \in {""} \cup Names
  /\ preset_names \subseteq Names /\ active_preset \in {""} \cup Names
  /\ requests \in 0..MaxRequests

\* A recorder that is at work, and one that is not.
RunningInv == RecorderFollowsConfig /\ (~recording => running = NoOptions)

\* What a step is: the node starts, ends, records or not, takes a configuration, or
\* none of it.
LEMMA StepCases ==
  ASSUME [QosNext]_allVars
  PROVE  \/ Boot /\ Recorded
         \/ StartRecording /\ Recorded
         \/ StopRecording /\ Destroyed
         \/ Shutdown /\ Destroyed
         \/ \E preset \in Applicable, restart \in BOOLEAN :
              Apply(Named(preset), preset, restart) /\ Applied(Named(preset), restart)
         \/ /\ UNCHANGED nodeVars
            /\ UNCHANGED qosVars \/ Warn \/ Subscribe \/ GraphChanges
<1> DEFINE Taken == \E preset \in Applicable, restart \in BOOLEAN :
             Apply(Named(preset), preset, restart) /\ Applied(Named(preset), restart)
           Still == /\ UNCHANGED nodeVars
                    /\ UNCHANGED qosVars \/ Warn \/ Subscribe \/ GraphChanges
<1>1. ASSUME NEW preset \in Applicable, NEW restart \in BOOLEAN,
             Apply(Named(preset), preset, restart) \/ ApplyRejected(Named(preset)),
             Applied(Named(preset), restart)
      PROVE  Taken \/ Still
  BY <1>1 DEF ApplyRejected, Applied
<1>2. ASSUME NEW restart \in BOOLEAN, ApplyEditor(restart), Applied(editor, restart)
      PROVE  Taken \/ Still
  <2>1. "" \in Applicable /\ Named("") = editor
    BY DEF Applicable, Named
  <2> HIDE DEF Taken, Still
  <2>2. QED BY <1>1, <1>2, <2>1 DEF ApplyEditor
<1>3. ASSUME NEW restart \in BOOLEAN, NEW n \in Names, ApplyPreset(n, restart),
             Applied(files[n], restart)
      PROVE  Taken \/ Still
  <2>1. n \in Applicable /\ Named(n) = files[n]
    BY <1>3, NamesKnown DEF Applicable, Named, ApplyPreset
  <2> HIDE DEF Taken, Still
  <2>2. QED BY <1>1, <1>3, <2>1 DEF ApplyPreset
<1>4. Elsewhere => UNCHANGED nodeVars
  BY DEF Elsewhere, Exit, GetConfig, GetPresetConfig, SaveConfig, Edit, SavePreset,
         LoadPreset, RemovePreset
<1>5. UNCHANGED allVars => Still
  BY DEF allVars, vars
<1>6. (Warn \/ Subscribe) /\ UNCHANGED vars => Still
  BY DEF vars
<1>7. GraphChanges /\ UNCHANGED vars => Still
  BY DEF vars
<1>8. Elsewhere /\ UNCHANGED qosVars => Still
  BY <1>4
<1> HIDE DEF Taken, Still
<1>9. \/ (Boot \/ StartRecording) /\ Recorded
      \/ (StopRecording \/ Shutdown) /\ Destroyed
      \/ Taken
      \/ Still
  BY <1>2, <1>3, <1>5, <1>6, <1>7, <1>8 DEF QosNext
<1>10. QED BY <1>9, Zenon DEF Taken, Still

\* What is applied is a document.
LEMMA NamedIsDocument ==
  ASSUME DocumentsInv, NEW preset \in Applicable
  PROVE  IsDocument(Named(preset)) /\ preset \in {""} \cup Names
BY NamesKnown DEF DocumentsInv, Applicable, Named, MayBeFile, Present

\* What handleGetConfig serves.
LEMMA ServedDocument ==
  ASSUME IsWhole(options), raw \in Held
  PROVE  /\ IsDocument(Served) /\ ~Rejected(Served)
         /\ Served.throttles = options.throttles
         /\ DOMAIN Served.nodes \subseteq Written
         /\ \A k \in Written \ {"output"} :
              IF k \in DOMAIN Served.nodes THEN Served.nodes[k] = options.members[k]
              ELSE options.members[k] = "none"
         /\ "output" \in DOMAIN Served.nodes
         /\ raw # "none" => Served.nodes["output"] = raw
<1> DEFINE out == IF raw = "none" THEN options.members["output"] ELSE raw
           w == [options.members EXCEPT !["output"] = out]
           ks == {k \in Written : k \in WrittenAlways \/ w[k] # "none"}
<1>1. options.members \in [Fields -> Held]
      /\ options.throttles \in [DOMAIN options.throttles -> ThrottleConfig]
  BY DEF IsWhole
<1>2. /\ Served.nodes = [k \in ks |-> w[k]]
      /\ Served.throttles = options.throttles
  BY DEF Served, Serialized, Restrict
<1>3. out \in Held /\ (raw # "none" => out = raw)
  BY <1>1, KeysKnown
<1> HIDE DEF out
<1>4. w \in [Fields -> Held] /\ w["output"] = out
      /\ \A k \in Fields \ {"output"} : w[k] = options.members[k]
  BY <1>1, <1>3, KeysKnown
<1>5. "output" \in ks /\ ks \subseteq Written /\ Written \subseteq Fields
  BY KeysKnown DEF Written
<1>6. \A k \in Written \ ks : w[k] = "none"
  OBVIOUS
<1> HIDE DEF w, ks
<1>7. DOMAIN Served.nodes = ks /\ \A k \in ks : Served.nodes[k] = w[k] /\ w[k] \in Held
  BY <1>2, <1>4, <1>5
<1>8. options.throttles \in [DOMAIN options.throttles -> ThrottleNode]
  BY <1>1, ConfigIsNode
<1>9. IsDocument(Served)
  <2>1. DOMAIN Served.nodes \subseteq Keys
    BY <1>5, <1>7, KeysKnown
  <2>2. Served.nodes \in [DOMAIN Served.nodes -> Value \cup {"resolved", "malformed"}]
    BY <1>2, <1>7 DEF Held
  <2>3. QED BY <1>2, <1>8, <2>1, <2>2 DEF IsDocument
<1>10. ~Rejected(Served)
  <2>1. "max_bag_size_gb" \notin ks /\ OverridesKey \notin ks
    BY <1>5, KeysKnown
  <2>2. \A k \in ks : Served.nodes[k] # "malformed"
    BY <1>7, ValuesKnown
  <2>3. \A t \in DOMAIN Served.throttles : Served.throttles[t] \in ThrottleConfig
    BY <1>1, <1>2
  <2>4. QED BY <1>7, <2>1, <2>2, <2>3 DEF Rejected, OverridesKey
<1>11. QED BY <1>2, <1>3, <1>4, <1>5, <1>6, <1>7, <1>9, <1>10

\* Documents stay documents, wherever they are kept.
LEMMA DocumentsStay ==
  ASSUME DocumentsInv, NodeTypes, [QosNext]_allVars
  PROVE  DocumentsInv'
<1> DEFINE docs == <<files, clientVars>>
<1>1. ASSUME UNCHANGED docs, args' \in Seq(Argument)
      PROVE  DocumentsInv'
  BY <1>1 DEF DocumentsInv, MayBeFile, clientVars
<1>2. <<>> \in Seq(Argument) /\ args \in Seq(Argument)
  BY EmptySeq DEF DocumentsInv
<1>3. Boot => UNCHANGED docs /\ args' = <<>>
  BY DEF Boot
<1>4. StartRecording \/ StopRecording => UNCHANGED docs /\ args' = args
  BY DEF StartRecording, StopRecording
<1>5. ASSUME Shutdown PROVE UNCHANGED docs /\ args' \in Seq(Argument)
  <2>1. CASE config_path = ""
    BY <1>2, <1>5, <2>1 DEF Shutdown
  <2>2. CASE config_path # ""
    <3> DEFINE arg == [kind |-> "long", option |-> "config", value |-> config_path]
    <3>1. config_path \in Value
      BY <2>2, NamesKnown DEF NodeTypes
    <3>2. arg \in Argument
      BY <3>1 DEF Argument, Options, FileOptions
    <3> HIDE DEF arg
    <3>3. <<arg>> \in Seq(Argument)
      BY <3>2
    <3>4. QED BY <1>5, <2>2, <3>3 DEF Shutdown, arg
  <2>3. QED BY <2>1, <2>2
<1>6. ASSUME NEW doc, NEW preset, NEW restart,
             Apply(doc, preset, restart) \/ ApplyRejected(doc)
      PROVE  UNCHANGED docs /\ args' = args
  BY <1>6 DEF Apply, ApplyRejected
<1>7. ASSUME Elsewhere PROVE DocumentsInv'
  <2>1. CASE Exit
    BY <1>1, <1>2, <2>1 DEF Exit
  <2>2. ASSUME UNCHANGED <<args, files, store>>, IsDocument(editor')
        PROVE  DocumentsInv'
    BY <2>2 DEF DocumentsInv, MayBeFile
  <2>3. CASE GetConfig
    BY <2>2, <2>3, ServedDocument DEF GetConfig, NodeTypes
  <2>4. ASSUME NEW n \in Names, GetPresetConfig(n) PROVE DocumentsInv'
    BY <2>2, <2>4 DEF GetPresetConfig, Present, DocumentsInv, MayBeFile
  <2>5. ASSUME NEW n \in Names, SaveConfig(n) PROVE DocumentsInv'
    BY <2>5 DEF SaveConfig, DocumentsInv, MayBeFile, clientVars
  <2>6. ASSUME NEW doc \in Documents, Edit(doc) PROVE DocumentsInv'
    BY <2>2, <2>6, FileAssumption DEF Edit
  <2>7. ASSUME NEW n \in NewNames, SavePreset(n) PROVE DocumentsInv'
    BY <2>7 DEF SavePreset, DocumentsInv, MayBeFile
  <2>8. ASSUME NEW n \in NewNames, LoadPreset(n) PROVE DocumentsInv'
    BY <2>2, <2>8, EmptyIsDocument DEF LoadPreset, DocumentsInv, MayBeFile
  <2>9. ASSUME NEW n \in NewNames, RemovePreset(n) PROVE DocumentsInv'
    BY <2>9 DEF RemovePreset, DocumentsInv, MayBeFile
  <2>10. QED BY <1>7, <2>1, <2>3, <2>4, <2>5, <2>6, <2>7, <2>8, <2>9 DEF Elsewhere
<1>8. UNCHANGED vars => UNCHANGED docs /\ args' = args
  BY DEF vars
<1>9. UNCHANGED allVars => UNCHANGED vars
  BY DEF allVars
<1> HIDE DEF docs
<1>10. QED
  BY <1>1, <1>2, <1>3, <1>4, <1>5, <1>6, <1>7, <1>8, <1>9 DEF QosNext, ApplyEditor, ApplyPreset

\* The requests are counted up to the bound.
LEMMA RequestsStay ==
  ASSUME requests \in 0..MaxRequests, [QosNext]_allVars
  PROVE  requests' \in 0..MaxRequests
<1>1. Asks => requests' \in 0..MaxRequests
  BY RequestAssumption DEF Asks
<1>2. Exit \/ Boot \/ UNCHANGED vars => requests' = requests
  BY DEF Exit, Boot, vars
<1>3. Elsewhere => Exit \/ Asks
  BY DEF Elsewhere, GetConfig, GetPresetConfig, SaveConfig, Edit, SavePreset,
         LoadPreset, RemovePreset
<1>4. StartRecording \/ StopRecording => Asks
  BY DEF StartRecording, StopRecording
<1>5. Shutdown => Asks
  BY Zenon DEF Shutdown, Asks
<1>6. \A doc, preset, restart : Apply(doc, preset, restart) \/ ApplyRejected(doc) => Asks
  BY DEF Apply, ApplyRejected
<1>7. UNCHANGED allVars => UNCHANGED vars
  BY DEF allVars
<1>8. QED
  BY <1>1, <1>2, <1>3, <1>4, <1>5, <1>6, <1>7 DEF QosNext, ApplyEditor, ApplyPreset

\* A recorder that is started works with the options of the node.
LEMMA RecorderStarts ==
  ASSUME NEW o, IsWhole(o), StartRecorder(o)
  PROVE  /\ IsWhole(options') /\ IsWhole(running') /\ recording' \in BOOLEAN
         /\ RunningInv'
         /\ options' = [o EXCEPT !.members["output"] = "resolved"]
<1> DEFINE resolved == [o EXCEPT !.members["output"] = "resolved"]
<1>1. "output" \in Fields \ {OverridesKey} /\ "resolved" \in Held
  BY KeysKnown DEF OverridesKey, Held
<1>2. IsWhole(resolved)
  BY <1>1, SetMember
<1> HIDE DEF resolved
<1>3. /\ options' = resolved /\ recording' = ~Clash(o)
      /\ running' = IF Clash(o) THEN NoOptions ELSE resolved
  BY DEF StartRecorder, resolved
<1>4. recording' \in BOOLEAN
  BY <1>3
<1>5. IsWhole(running')
  BY <1>2, <1>3, NoOptionsWhole
<1>6. RunningInv'
  BY <1>3 DEF RunningInv, RecorderFollowsConfig
<1>7. QED BY <1>2, <1>3, <1>4, <1>5, <1>6 DEF resolved

\* A recorder that is updated works with the options of the node.
LEMMA RecorderUpdated ==
  ASSUME IsWhole(running), NEW new, IsWhole(new)
  PROVE  /\ IsWhole(HotUpdated(new))
         /\ HotUpdated(new).members[OverridesKey] = running.members[OverridesKey]
         /\ \A f \in RecordKeys \ OnlyAtRecord :
              HotUpdated(new).members[f] = new.members[f]
         /\ HotUpdated(new).throttles = new.throttles
<1> DEFINE m == [f \in Fields |-> IF f \in RecordKeys \ OnlyAtRecord
                                  THEN new.members[f] ELSE running.members[f]]
<1>1. /\ new.members \in [Fields -> Held] /\ running.members \in [Fields -> Held]
      /\ new.throttles \in [DOMAIN new.throttles -> ThrottleConfig]
      /\ PathLoads(running.members[OverridesKey])
  BY DEF IsWhole
<1>2. /\ HotUpdated(new) = [members |-> m, throttles |-> new.throttles]
      /\ HotUpdated(new).members = m /\ HotUpdated(new).throttles = new.throttles
  BY DEF HotUpdated
<1>3. m \in [Fields -> Held]
  BY <1>1
<1>4. m[OverridesKey] = running.members[OverridesKey]
  BY KeysKnown
<1>5. \A f \in RecordKeys \ OnlyAtRecord : m[f] = new.members[f]
  BY KeysKnown
<1> HIDE DEF m
<1>6. QED BY <1>1, <1>2, <1>3, <1>4, <1>5 DEF IsWhole

\* A document that is applied: the options, and the recorder if there is one.
LEMMA DocumentApplied ==
  ASSUME NodeTypes, RunningInv, NEW doc, IsDocument(doc), NEW preset, NEW restart,
         Apply(doc, preset, restart)
  PROVE  /\ IsWhole(options') /\ IsWhole(running') /\ recording' \in BOOLEAN
         /\ raw' \in Held
         /\ RunningInv'
         /\ ~Rejected(doc)
         /\ \E v \in Held : options' = [Parsed(doc, options) EXCEPT !.members["output"] = v]
         /\ ~restart \/ ~recording =>
              running'.members[OverridesKey] = running.members[OverridesKey]
<1> DEFINE new == Parsed(doc, options)
           kept == [new EXCEPT !.members["output"] = options.members["output"]]
<1>1. ~Rejected(doc)
  BY DEF Apply
<1>2. IsWhole(new)
  BY <1>1, ParsedWhole DEF NodeTypes
<1>3. new.members \in [Fields -> Held] /\ options.members["output"] \in Held
  BY <1>2, KeysKnown DEF NodeTypes, IsWhole
<1>4. "output" \in Fields \ {OverridesKey} /\ "resolved" \in Held
  BY KeysKnown DEF OverridesKey, Held
<1>5. /\ IsWhole(kept) /\ kept.throttles = new.throttles
      /\ \A f \in Fields \ {"output"} : kept.members[f] = new.members[f]
  BY <1>2, <1>3, <1>4, SetMember
<1> HIDE DEF new, kept
<1>6. /\ raw' = IF new.members["output"] = "none" THEN raw ELSE new.members["output"]
      /\ IF restart /\ recording THEN StartRecorder(new)
         ELSE /\ options' = kept
              /\ running' = IF recording THEN HotUpdated(new) ELSE running
              /\ recording' = recording
  BY DEF Apply, new, kept
<1>7. raw' \in Held
  BY <1>3, <1>4, <1>6 DEF NodeTypes
<1>8. CASE restart /\ recording
  <2>1. StartRecorder(new)
    BY <1>6, <1>8
  <2>2. QED BY <1>1, <1>2, <1>4, <1>7, <1>8, <2>1, RecorderStarts DEF new
<1>9. CASE ~(restart /\ recording)
  <2>1. /\ options' = kept /\ recording' = recording
        /\ running' = IF recording THEN HotUpdated(new) ELSE running
    BY <1>6, <1>9
  <2>2. /\ IsWhole(HotUpdated(new))
        /\ HotUpdated(new).members[OverridesKey] = running.members[OverridesKey]
        /\ \A f \in RecordKeys \ OnlyAtRecord :
             HotUpdated(new).members[f] = new.members[f]
        /\ HotUpdated(new).throttles = new.throttles
    BY <1>2, RecorderUpdated DEF NodeTypes
  <2>3. IsWhole(options') /\ IsWhole(running') /\ recording' \in BOOLEAN
        /\ running'.members[OverridesKey] = running.members[OverridesKey]
    BY <1>5, <2>1, <2>2 DEF NodeTypes
  <2>4. RunningInv'
    <3>1. CASE recording
      <4>1. \A f \in RecordKeys \ OnlyAtRecord :
              running'.members[f] = options'.members[f]
        BY <1>5, <2>1, <2>2, <3>1, KeysKnown
      <4>2. running'.throttles = options'.throttles
        BY <1>5, <2>1, <2>2, <3>1
      <4>3. QED BY <2>1, <3>1, <4>1, <4>2 DEF RunningInv, RecorderFollowsConfig
    <3>2. CASE ~recording
      BY <2>1, <3>2 DEF RunningInv, RecorderFollowsConfig
    <3>3. QED BY <3>1, <3>2
  <2>5. options' = [new EXCEPT !.members["output"] = options.members["output"]]
    BY <2>1 DEF kept
  <2>6. QED BY <1>1, <1>3, <1>7, <2>3, <2>4, <2>5 DEF new
<1>10. QED BY <1>8, <1>9

\* Where the bag goes is one member, and no throttle.
LEMMA OutputApart ==
  ASSUME NEW o, IsWhole(o), NEW v \in Held, NEW new,
         new = o \/ new = [o EXCEPT !.members["output"] = v]
  PROVE  /\ new.throttles = o.throttles
         /\ \A f \in Fields \ {"output"} : new.members[f] = o.members[f]
<1>1. "output" \in Fields \ {OverridesKey}
  BY KeysKnown DEF OverridesKey
<1>2. /\ [o EXCEPT !.members["output"] = v].throttles = o.throttles
      /\ \A f \in Fields \ {"output"} :
           [o EXCEPT !.members["output"] = v].members[f] = o.members[f]
  BY <1>1, SetMember
<1>3. QED BY <1>2

\* The process as it boots.
LEMMA NodeBoots ==
  ASSUME DocumentsInv, Boot
  PROVE  /\ up' = TRUE /\ recording' \in BOOLEAN
         /\ IsWhole(options') /\ IsWhole(running') /\ RunningInv'
         /\ raw' \in Held
         /\ config_path' = ConfigPath /\ ConfigPath \in {""} \cup Names
         /\ preset_names' \subseteq Names
         /\ active_preset' = "" \/ active_preset' = ConfigPath
         /\ options' = StartOptions
            \/ options' = [StartOptions EXCEPT !.members["output"] = "resolved"]
         /\ options'.throttles = StartOptions.throttles
         /\ \A f \in Fields \ {"output"} : options'.members[f] = StartOptions.members[f]
<1> DEFINE o == StartOptions
           resolved == [o EXCEPT !.members["output"] = "resolved"]
<1>1. "output" \in Fields \ {OverridesKey} /\ "resolved" \in Held
  BY KeysKnown DEF OverridesKey, Held
<1>2. Accepts /\ ~FileRejected
  BY DEF Boot
<1>3. IsWhole(o)
  BY <1>2, StartWhole
<1>4. IsWhole(resolved)
  BY <1>1, <1>3, SetMember
<1>5. o.members["output"] \in Held
  BY <1>1, <1>3 DEF IsWhole
<1>6. ConfigPath \in {""} \cup Names
  BY <1>2, ConfigPathNamed
<1>7. preset_names' \subseteq Names /\ (active_preset' = "" \/ active_preset' = ConfigPath)
  BY DEF Boot, ScanPresetDir
<1> HIDE DEF o, resolved
<1>8. /\ options' = IF AutoStart(o) THEN resolved ELSE o
      /\ raw' = o.members["output"] /\ config_path' = ConfigPath /\ up' = TRUE
      /\ recording' = AutoStart(o)
      /\ running' = IF AutoStart(o) THEN options' ELSE NoOptions
  BY DEF Boot, o, resolved
<1>9. recording' \in BOOLEAN
  BY <1>8 DEF AutoStart
<1>10. IsWhole(options') /\ IsWhole(running')
  BY <1>3, <1>4, <1>8, NoOptionsWhole
<1>11. RunningInv'
  BY <1>8 DEF RunningInv, RecorderFollowsConfig
<1>12. options' = o \/ options' = resolved
  BY <1>8
<1>13. /\ options'.throttles = o.throttles
       /\ \A f \in Fields \ {"output"} : options'.members[f] = o.members[f]
  BY <1>1, <1>3, <1>12, OutputApart DEF resolved
<1>14. QED BY <1>5, <1>6, <1>7, <1>8, <1>9, <1>10, <1>11, <1>12, <1>13 DEF o, resolved

\* The types of the node, and what its recorder works with, in every step.
LEMMA NodeStep ==
  ASSUME DocumentsInv, NodeTypes, RunningInv, [QosNext]_allVars
  PROVE  NodeTypes' /\ RunningInv'
<1>1. requests' \in 0..MaxRequests
  BY RequestsStay DEF NodeTypes
<1>2. CASE Boot
  BY <1>1, <1>2, NodeBoots DEF NodeTypes
<1>3. CASE StartRecording
  <2> DEFINE o == [options EXCEPT !.members["custom_data"] = "two"]
  <2>1. "custom_data" \in Fields \ {OverridesKey} /\ "two" \in Held
    BY KeysKnown DEF OverridesKey, Held, Value
  <2>2. IsWhole(o)
    BY <2>1, SetMember DEF NodeTypes
  <2>3. StartRecorder(o)
    BY <1>3 DEF StartRecording
  <2> HIDE DEF o
  <2>4. /\ IsWhole(options') /\ IsWhole(running') /\ recording' \in BOOLEAN
        /\ RunningInv'
    BY <2>2, <2>3, RecorderStarts
  <2>5. QED BY <1>1, <1>3, <2>4 DEF NodeTypes, StartRecording
<1>4. CASE StopRecording
  BY <1>1, <1>4, NoOptionsWhole
     DEF StopRecording, NodeTypes, RunningInv, RecorderFollowsConfig
<1>5. CASE Shutdown
  <2>1. "none" \in Held
    BY ValuesKnown DEF Held
  <2>2. QED BY <1>1, <1>5, <2>1, NoOptionsWhole
               DEF Shutdown, NodeTypes, RunningInv, RecorderFollowsConfig
<1>6. ASSUME NEW preset \in Applicable, NEW restart \in BOOLEAN,
             Apply(Named(preset), preset, restart)
      PROVE  NodeTypes' /\ RunningInv'
  <2> DEFINE doc == Named(preset)
  <2>1. IsDocument(doc) /\ preset \in {""} \cup Names
    BY NamedIsDocument
  <2>2. Apply(doc, preset, restart)
    BY <1>6
  <2> HIDE DEF doc
  <2>3. /\ IsWhole(options') /\ IsWhole(running') /\ recording' \in BOOLEAN
        /\ raw' \in Held /\ RunningInv'
    BY <2>1, <2>2, DocumentApplied
  <2>4. /\ active_preset' = preset
        /\ UNCHANGED <<up, config_path, preset_names>>
    BY <2>2 DEF Apply
  <2>5. QED BY <1>1, <2>1, <2>3, <2>4 DEF NodeTypes
<1>7. CASE UNCHANGED nodeVars
  BY <1>1, <1>7 DEF nodeVars, NodeTypes, RunningInv, RecorderFollowsConfig
<1>8. QED BY <1>2, <1>3, <1>4, <1>5, <1>6, <1>7, StepCases
-----------------------------------------------------------------------------
(***************************************************************************)
(* The subscriptions.                                                      *)
(***************************************************************************)

\* The variables of the recorder.
QosTypes ==
  /\ publishers \subseteq Publishers
  /\ DOMAIN requested \subseteq Topics /\ warned \subseteq DOMAIN requested
  /\ \A t \in DOMAIN requested : DOMAIN requested[t] = Policies
  /\ thread \in {"off", "warn", "subscribe"} /\ found \subseteq Topics

\* A topic with an override is subscribed with it.
RequestedInv ==
  \A t \in DOMAIN requested : t \in DOMAIN OverridesInForce(running) =>
    requested[t] = OverridesInForce(running)[t]

\* The overrides in force are those of the file, profile by profile.
LEMMA OverridesHavePolicies ==
  ASSUME NEW o, NEW t \in DOMAIN OverridesInForce(o)
  PROVE  DOMAIN OverridesInForce(o)[t] = Policies
<1> DEFINE file == OverrideFiles[o.members[OverridesKey]]
<1>1. OverridesInForce(o) = IF o.members[OverridesKey] = "none" THEN <<>> ELSE Overrides(file)
  BY DEF OverridesInForce, OverridesKey
<1>2. DOMAIN <<>> = {}
  OBVIOUS
<1>3. OverridesInForce(o) = Overrides(file)
  BY <1>1, <1>2
<1>4. OverridesInForce(o)[t] = Interpreted(file[EntryOf(file, t)].profile)
  BY <1>3 DEF Overrides
<1>5. QED BY <1>4 DEF Interpreted

\* Every subscription has all policies, whichever way it got them.
LEMMA SubscriptionHasPolicies ==
  ASSUME NEW t, NEW o
  PROVE  DOMAIN SubscriptionQos(t, o) = Policies
<1>1. DOMAIN Adapted(OffersOf(t)) = Policies
  BY DEF Adapted, Policies, DefaultProfile
<1>2. QED BY <1>1, OverridesHavePolicies DEF SubscriptionQos

\* What is there to be subscribed is a topic.
LEMMA AvailableAreTopics ==
  ASSUME publishers \subseteq Publishers, NEW o
  PROVE  Available(o) \subseteq Topics
BY DEF Available, Selected

\* Without a recorder nothing is subscribed.
LEMMA NothingRequested ==
  ASSUME publishers \subseteq Publishers, Destroyed
  PROVE  /\ QosTypes' /\ DOMAIN requested' = {}
<1>1. DOMAIN <<>> = {}
  OBVIOUS
<1>2. requested' = <<>> /\ warned' = {} /\ thread' = "off" /\ found' = {}
      /\ publishers' = publishers
  BY DEF Destroyed
<1>3. QED BY <1>1, <1>2 DEF QosTypes

\* A new recorder subscribes the topics that are there, each as it must.
LEMMA RecordedSubscribes ==
  ASSUME publishers \subseteq Publishers, Recorded
  PROVE  /\ QosTypes'
         /\ publishers' = publishers
         /\ \A t \in DOMAIN requested' : requested'[t] = SubscriptionQos(t, running')
<1>1. CASE ~recording'
  <2>1. Destroyed
    BY <1>1 DEF Recorded
  <2>2. QosTypes' /\ DOMAIN requested' = {} /\ publishers' = publishers
    BY <2>1, NothingRequested DEF Destroyed
  <2>3. QED BY <2>2
<1>2. CASE recording'
  <2> DEFINE o == running'
             now == IF o.members["use_sim_time"] # "none" THEN {} ELSE Available(o)
  <2>1. /\ requested' = [t \in now |-> SubscriptionQos(t, o)]
        /\ warned' = {} /\ found' = {} /\ publishers' = publishers
        /\ thread' = IF o.members["is_discovery_disabled"] # "none" THEN "off" ELSE "warn"
    BY <1>2 DEF Recorded
  <2>2. now \subseteq Topics
    BY AvailableAreTopics
  <2>3. thread' \in {"off", "warn", "subscribe"}
    BY <2>1
  <2> HIDE DEF now
  <2>4. DOMAIN requested' = now /\ \A t \in now : requested'[t] = SubscriptionQos(t, o)
    BY <2>1
  <2>5. \A t \in DOMAIN requested' : DOMAIN requested'[t] = Policies
    BY <2>4, SubscriptionHasPolicies
  <2>6. QED BY <2>1, <2>2, <2>3, <2>4, <2>5 DEF QosTypes
<1>3. QED BY <1>1, <1>2

\* A subscription that keeps its topic's override keeps it in force.
LEMMA OverridesOfPath ==
  ASSUME NEW o, NEW p, o.members[OverridesKey] = p.members[OverridesKey]
  PROVE  OverridesInForce(o) = OverridesInForce(p)
BY DEF OverridesInForce, OverridesKey

\* The rounds of the discovery, and the graph.
LEMMA RoundStep ==
  ASSUME QosTypes, RequestedInv, running' = running,
         UNCHANGED qosVars \/ Warn \/ Subscribe \/ GraphChanges
  PROVE  QosTypes' /\ RequestedInv'
<1>1. CASE UNCHANGED qosVars
  BY <1>1 DEF qosVars, recorderVars, QosTypes, RequestedInv
<1>2. CASE Warn
  <2>1. Available(running) \subseteq Topics
    BY AvailableAreTopics DEF QosTypes
  <2>2. /\ thread' = "subscribe" /\ found' = Available(running)
        /\ warned' \subseteq warned \cup DOMAIN requested
        /\ publishers' = publishers /\ requested' = requested
    BY <1>2 DEF Warn
  <2>3. QED BY <2>1, <2>2 DEF QosTypes, RequestedInv
<1>3. CASE Subscribe
  <2> DEFINE new == [t \in found \ DOMAIN requested |-> SubscriptionQos(t, running)]
             old == requested
  <2>1. /\ DOMAIN new = found \ DOMAIN requested
        /\ \A t \in DOMAIN new : new[t] = SubscriptionQos(t, running)
    OBVIOUS
  <2>2. requested' = Over(new, old)
    BY <1>3 DEF Subscribe
  <2> HIDE DEF new, old
  <2>3. /\ DOMAIN requested' = DOMAIN new \cup DOMAIN old
        /\ \A t \in DOMAIN new : requested'[t] = new[t]
        /\ \A t \in DOMAIN old \ DOMAIN new : requested'[t] = old[t]
    BY <2>2 DEF Over
  <2>4. /\ thread' \in {"off", "warn", "subscribe"}
        /\ publishers' = publishers /\ warned' = warned /\ found' = found
    BY <1>3 DEF Subscribe
  <2>5. ASSUME NEW t \in DOMAIN requested'
        PROVE  /\ DOMAIN requested'[t] = Policies
               /\ t \in DOMAIN OverridesInForce(running') =>
                    requested'[t] = OverridesInForce(running')[t]
    <3>1. CASE t \in DOMAIN new
      <4>1. requested'[t] = SubscriptionQos(t, running)
        BY <2>1, <2>3, <3>1
      <4>2. QED BY <4>1, SubscriptionHasPolicies DEF SubscriptionQos
    <3>2. CASE t \notin DOMAIN new
      <4>1. t \in DOMAIN requested /\ requested'[t] = requested[t]
        BY <2>3, <3>2 DEF old
      <4>2. QED BY <4>1 DEF QosTypes, RequestedInv
    <3>3. QED BY <3>1, <3>2
  <2>6. DOMAIN requested' \subseteq Topics /\ warned' \subseteq DOMAIN requested'
    BY <2>1, <2>3, <2>4 DEF QosTypes, old
  <2>7. QosTypes'
    BY <2>4, <2>5, <2>6 DEF QosTypes
  <2>8. RequestedInv'
    BY <2>5 DEF RequestedInv
  <2>9. QED BY <2>7, <2>8
<1>4. CASE GraphChanges
  <2>1. publishers' \subseteq Publishers /\ UNCHANGED recorderVars
    BY <1>4 DEF GraphChanges, QosTypes
  <2>2. QED BY <2>1 DEF recorderVars, QosTypes, RequestedInv
<1>5. QED BY <1>1, <1>2, <1>3, <1>4

\* A new recorder begins with the overrides.
LEMMA RecordedInv ==
  ASSUME publishers \subseteq Publishers, Recorded
  PROVE  QosTypes' /\ RequestedInv'
<1>1. QosTypes' /\ \A t \in DOMAIN requested' : requested'[t] = SubscriptionQos(t, running')
  BY RecordedSubscribes
<1>2. RequestedInv'
  BY <1>1 DEF RequestedInv, SubscriptionQos
<1>3. QED BY <1>1, <1>2

\* The subscriptions in every step.
LEMMA QosStep ==
  ASSUME DocumentsInv, NodeTypes, RunningInv, QosTypes, RequestedInv, [QosNext]_allVars
  PROVE  QosTypes' /\ RequestedInv'
<1>1. publishers \subseteq Publishers
  BY DEF QosTypes
<1>2. CASE Recorded
  BY <1>1, <1>2, RecordedInv
<1>3. CASE Destroyed
  BY <1>1, <1>3, NothingRequested DEF RequestedInv
<1>4. ASSUME NEW preset \in Applicable, NEW restart \in BOOLEAN,
             Apply(Named(preset), preset, restart), Applied(Named(preset), restart)
      PROVE  QosTypes' /\ RequestedInv'
  <2> DEFINE doc == Named(preset)
  <2>1. IsDocument(doc)
    BY NamedIsDocument
  <2>2. Apply(doc, preset, restart) /\ Applied(doc, restart)
    BY <1>4
  <2> HIDE DEF doc
  <2>3. /\ ~Rejected(doc)
        /\ ~restart \/ ~recording =>
             running'.members[OverridesKey] = running.members[OverridesKey]
    BY <2>1, <2>2, DocumentApplied
  <2>4. CASE recording /\ restart
    <3>1. Recorded
      BY <2>2, <2>3, <2>4 DEF Applied
    <3>2. QED BY <1>2, <3>1
  <2>5. CASE ~(recording /\ restart)
    <3>1. UNCHANGED qosVars \/ Relaunched
      BY <2>2, <2>3, <2>5 DEF Applied
    <3>2. /\ publishers' = publishers /\ requested' = requested /\ warned' = warned
          /\ thread' = thread \/ thread' = "warn"
          /\ found' = found \/ found' = {}
      BY <3>1 DEF qosVars, recorderVars, Relaunched
    <3>3. OverridesInForce(running') = OverridesInForce(running)
      BY <2>3, <2>5, OverridesOfPath
    <3>4. QosTypes'
      BY <3>2 DEF QosTypes
    <3>5. RequestedInv'
      BY <3>2, <3>3 DEF RequestedInv
    <3>6. QED BY <3>4, <3>5
  <2>6. QED BY <2>4, <2>5
<1>5. ASSUME UNCHANGED nodeVars, UNCHANGED qosVars \/ Warn \/ Subscribe \/ GraphChanges
      PROVE  QosTypes' /\ RequestedInv'
  BY <1>5, RoundStep DEF nodeVars
<1>6. QED BY <1>2, <1>3, <1>4, <1>5, StepCases
-----------------------------------------------------------------------------
(***************************************************************************)
(* The invariant and what follows from it.                                 *)
(***************************************************************************)
ConfigurationInv == DocumentsInv /\ NodeTypes /\ RunningInv /\ QosTypes /\ RequestedInv

\* It holds before the process is started.
LEMMA InitInv == QosInit => ConfigurationInv
<1> SUFFICES ASSUME QosInit PROVE ConfigurationInv
  OBVIOUS
<1>1. Init /\ publishers = {} /\ requested = <<>> /\ warned = {}
      /\ thread = "off" /\ found = {}
  BY DEF QosInit
<1>2. DOMAIN <<>> = {}
  OBVIOUS
<1>3. DocumentsInv
  <2>1. args \in Seq(Argument)
    BY <1>1, ArgumentAssumption DEF Init
  <2>2. /\ files = [n \in Names |-> IF n \in DOMAIN InitialFiles THEN InitialFiles[n]
                                    ELSE NoFile]
        /\ store = [n \in NewNames |-> NoFile] /\ editor = EmptyDocument
    BY <1>1 DEF Init
  <2>3. \A n \in Names : MayBeFile(files[n])
    BY <2>2, FileAssumption DEF MayBeFile
  <2>4. QED BY <2>1, <2>2, <2>3, EmptyIsDocument DEF DocumentsInv, MayBeFile
<1>4. NodeTypes
  <2>1. "none" \in Held
    BY ValuesKnown DEF Held
  <2>2. 0 \in 0..MaxRequests
    BY RequestAssumption
  <2>3. QED BY <1>1, <2>1, <2>2, NoOptionsWhole DEF Init, NodeTypes
<1>5. RunningInv
  BY <1>1 DEF Init, RunningInv, RecorderFollowsConfig
<1>6. QosTypes /\ RequestedInv
  BY <1>1, <1>2 DEF QosTypes, RequestedInv
<1>7. QED BY <1>3, <1>4, <1>5, <1>6 DEF ConfigurationInv

\* Every step keeps it.
LEMMA StepInv == ConfigurationInv /\ [QosNext]_allVars => ConfigurationInv'
BY DocumentsStay, NodeStep, QosStep DEF ConfigurationInv

\* It is an invariant.
LEMMA AlwaysInv == QosSpec => []ConfigurationInv
BY InitInv, StepInv, PTL DEF QosSpec

\* A valid configuration is in force, in the node and in its recorder, whatever
\* documents were applied, rejected or named at the start.
THEOREM ConfigAlwaysValid == QosSpec => []ValidConfigInForce
<1>1. ConfigurationInv => ValidConfigInForce
  <2> SUFFICES ASSUME ConfigurationInv PROVE ValidConfigInForce
    OBVIOUS
  <2>1. \A o : IsWhole(o) => IsOptions(o)
    BY DEF IsWhole, IsOptions, Held
  <2>2. TypeOK
    BY <2>1 DEF ConfigurationInv, NodeTypes, QosTypes, TypeOK, Held
  <2>3. RecorderFollowsConfig
    BY DEF ConfigurationInv, RunningInv
  <2>4. QED BY <2>2, <2>3 DEF ValidConfigInForce
<1>2. QED BY <1>1, AlwaysInv, PTL

\* A client that sends back the configuration it was served changes nothing that is
\* written in it: handleGetConfig and handleApplyConfig agree on every key.
THEOREM ServedAlwaysNeutral == QosSpec => []ServedConfigIsNeutral
<1>1. ConfigurationInv => ServedConfigIsNeutral
  <2> SUFFICES ASSUME ConfigurationInv PROVE ServedConfigIsNeutral
    OBVIOUS
  <2> DEFINE after == Parsed(Served, options)
  <2>1. IsWhole(options) /\ raw \in Held
    BY DEF ConfigurationInv, NodeTypes
  <2>2. /\ IsDocument(Served) /\ ~Rejected(Served)
        /\ Served.throttles = options.throttles
        /\ DOMAIN Served.nodes \subseteq Written
        /\ \A k \in Written \ {"output"} :
             IF k \in DOMAIN Served.nodes THEN Served.nodes[k] = options.members[k]
             ELSE options.members[k] = "none"
        /\ "output" \in DOMAIN Served.nodes
        /\ raw # "none" => Served.nodes["output"] = raw
    BY <2>1, ServedDocument
  <2>3. /\ after.throttles = Over(Served.throttles, options.throttles)
        /\ \A f \in Fields : after.members[f] = Member(Served, options.members[f], f)
    BY DEF Parsed
  <2>4. after.throttles = options.throttles
    <3>1. options.throttles \in [DOMAIN options.throttles -> ThrottleConfig]
      BY <2>1 DEF IsWhole
    <3>2. Over(options.throttles, options.throttles) = options.throttles
      BY <3>1, OverItself
    <3>3. QED BY <2>2, <2>3, <3>2
  <2> HIDE DEF after
  <2>5. "max_bag_size_gb" \notin DOMAIN Served.nodes /\ Written \subseteq Fields
        /\ "output" \in Fields
    BY <2>2, KeysKnown
  <2>6. \A f \in Written \ {"output"} : after.members[f] = options.members[f]
    BY <2>2, <2>3, <2>5 DEF Member
  <2>7. raw # "none" => after.members["output"] = raw
    BY <2>2, <2>3, <2>5 DEF Member
  <2>8. QED BY <2>2, <2>4, <2>6, <2>7 DEF ServedConfigIsNeutral, after
<1>2. QED BY <1>1, AlwaysInv, PTL
-----------------------------------------------------------------------------
\* A remainder below the modulus.
LEMMA SmallRemainder ==
  ASSUME NEW n \in Nat, NEW m \in Nat \ {0}, n < m
  PROVE  n % m = n
OBVIOUS

\* A duration that fits is converted to itself.
LEMMA FittingDuration ==
  ASSUME NEW d \in [sec : Int, nsec : Int], Fits(d)
  PROVE  Duration(d) = d
<1> DEFINE h == Half
<1>1. h \in Nat /\ h > 0
  BY WidthAssumption
<1>2. d.sec \in 0..(h - 1) /\ d.nsec \in 0..(2 * h - 1)
  BY DEF Fits
<1>3. \A sec, nsec : d.sec = sec /\ d.nsec = nsec => d = [sec |-> sec, nsec |-> nsec]
  OBVIOUS
<1> HIDE DEF h
<1>4. PICK sec \in Nat, nsec \in Nat :
        d.sec = sec /\ d.nsec = nsec /\ sec < h /\ nsec < 2 * h
  BY <1>1, <1>2
<1>5. 2 * h \in Nat \ {0} /\ sec < 2 * h
  BY <1>1, <1>4
<1>6. 4 * h * h \in Nat \ {0} /\ sec < 4 * h * h
  <2>1. 4 * h \in Nat /\ 4 * h >= 1
    BY <1>1
  <2>2. \A a \in Nat, b \in Nat : b >= 1 => b * a \in Nat /\ b * a >= a
    OBVIOUS
  <2>3. (4 * h) * h \in Nat /\ (4 * h) * h >= h
    BY <1>1, <2>1, <2>2
  <2>4. QED BY <1>1, <1>4, <2>3
<1>7. sec % (2 * h) = sec /\ nsec % (2 * h) = nsec /\ sec % (4 * h * h) = sec
  BY <1>4, <1>5, <1>6, SmallRemainder
<1>8. Narrowed(sec) = sec
  BY <1>4, <1>7 DEF Narrowed, h
<1>9. Duration(d) = [sec |-> sec, nsec |-> nsec]
  BY <1>4, <1>7, <1>8 DEF Duration, h
<1>10. QED BY <1>3, <1>4, <1>9

\* emplace keeps the first of the entries for a topic.
LEMMA FirstEntryCounts ==
  ASSUME NEW file, IsOverrides(file), NEW i \in DOMAIN file,
         \A j \in 1..(i - 1) : file[j].topic # file[i].topic
  PROVE  EntryOf(file, file[i].topic) = i
<1> DEFINE topic == file[i].topic
           First(k) == file[k].topic = topic /\ \A j \in 1..(k - 1) : file[j].topic # topic
<1>1. DOMAIN file = 1..Len(file) /\ Len(file) \in Nat
  BY LenProperties DEF IsOverrides
<1>2. ASSUME NEW k \in DOMAIN file, First(k) PROVE k = i
  <2>1. k \in Nat /\ i \in Nat /\ k >= 1 /\ i >= 1
    BY <1>1
  <2>2. ~(k \in 1..(i - 1)) /\ ~(i \in 1..(k - 1))
    BY <1>2
  <2>3. QED BY <2>1, <2>2
<1>3. First(i)
  OBVIOUS
<1>4. EntryOf(file, topic) = CHOOSE k \in DOMAIN file : First(k)
  BY DEF EntryOf
<1> HIDE DEF First, topic
<1>5. (CHOOSE k \in DOMAIN file : First(k)) = i
  BY <1>2, <1>3
<1>6. QED BY <1>4, <1>5 DEF topic

\* No subscription of a running recorder differs from what the override file it was
\* started with says about its topic, whatever was applied to the recorder since, and
\* every duration that fits the narrow types is requested to the nanosecond.
THEOREM OverrideAlwaysRequested == QosSpec => []OverrideIsRequested
<1>1. ConfigurationInv => OverrideIsRequested
  <2> DEFINE path == running.members[OverridesKey]
             file == OverrideFiles[path]
  <2>1. SUFFICES ASSUME ConfigurationInv, path # "none",
                        NEW i \in DOMAIN file, file[i].topic \in DOMAIN requested,
                        \A j \in 1..(i - 1) : file[j].topic # file[i].topic,
                        NEW policy \in DOMAIN file[i].profile,
                        policy \in DurationPolicies => Fits(file[i].profile[policy])
                 PROVE  requested[file[i].topic][policy] = file[i].profile[policy]
    BY DEF OverrideIsRequested, OverridesKey
  <2> DEFINE t == file[i].topic
             profile == file[i].profile
  <2>2. path \in DOMAIN OverrideFiles /\ ~OverridesRejected(file)
    BY <2>1 DEF ConfigurationInv, NodeTypes, IsWhole, PathLoads, OverridesFail
  <2>3. IsOverrides(file)
    BY <2>2, OverridesAssumption
  <2>4. OverridesInForce(running) = Overrides(file)
    BY <2>1 DEF OverridesInForce, OverridesKey
  <2> HIDE DEF file, path
  <2>5. t \in DOMAIN Overrides(file)
        /\ Overrides(file)[t] = Interpreted(file[EntryOf(file, t)].profile)
    BY DEF Overrides
  <2>6. EntryOf(file, t) = i
    BY <2>1, <2>3, FirstEntryCounts
  <2>7. requested[t] = Interpreted(profile)
    BY <2>1, <2>4, <2>5, <2>6 DEF ConfigurationInv, RequestedInv
  <2>8. ~PolicyRejected(policy, profile[policy])
    BY <2>2 DEF OverridesRejected, ProfileRejected
  <2>9. policy \in Policies
    BY <2>8 DEF PolicyRejected
  <2>10. Interpreted(profile)[policy] =
           IF policy \in DurationPolicies THEN Duration(profile[policy]) ELSE profile[policy]
    BY <2>9 DEF Interpreted
  <2>11. policy \in DurationPolicies => Duration(profile[policy]) = profile[policy]
    <3>1. SUFFICES ASSUME policy \in DurationPolicies
                   PROVE  Duration(profile[policy]) = profile[policy]
      OBVIOUS
    <3>2. profile[policy] \in [sec : Int, nsec : Int]
      BY <2>3, <3>1 DEF IsOverrides
    <3>3. QED BY <2>1, <3>1, <3>2, FittingDuration
  <2>12. QED BY <2>7, <2>10, <2>11
<1>2. QED BY <1>1, AlwaysInv, PTL

\* A topic that is subscribed in a step, and has no override, is subscribed so that
\* every publisher of the moment is heard.
THEOREM AllHeardAtFirst == QosSpec => HearsAllAtFirst
<1> DEFINE Heard == \A t \in DOMAIN requested' \ DOMAIN requested :
              t \notin DOMAIN OverridesInForce(running') =>
                \A p \in OffersOf(t) : ~Unheard(p, requested'[t])
<1>1. ASSUME NEW t, NEW p \in OffersOf(t)
      PROVE  ~Unheard(p, Adapted(OffersOf(t)))
  <2> DEFINE offers == OffersOf(t)
  <2>1. /\ Adapted(offers).reliability =
             IF \A q \in offers : q.reliability = "reliable" THEN "reliable" ELSE "best_effort"
        /\ Adapted(offers).durability =
             IF offers # {} /\ \A q \in offers : q.durability = "transient_local"
             THEN "transient_local" ELSE "volatile"
    BY DEF Adapted, DefaultProfile
  <2> HIDE DEF offers
  <2>2. p \in offers
    BY DEF offers
  <2>3. QED BY <2>1, <2>2 DEF Unheard, offers
<1>2. ASSUME NEW t, NEW o, t \notin DOMAIN OverridesInForce(o)
      PROVE  SubscriptionQos(t, o) = Adapted(OffersOf(t))
  BY <1>2 DEF SubscriptionQos
<1>3. ASSUME ConfigurationInv, Recorded PROVE Heard
  <2>1. \A t \in DOMAIN requested' : requested'[t] = SubscriptionQos(t, running')
    BY <1>3, RecordedSubscribes DEF ConfigurationInv, QosTypes
  <2>2. QED BY <1>1, <1>2, <2>1
<1>4. ASSUME Subscribe, running' = running PROVE Heard
  <2> DEFINE new == [t \in found \ DOMAIN requested |-> SubscriptionQos(t, running)]
             old == requested
  <2>1. /\ DOMAIN new = found \ DOMAIN requested
        /\ \A t \in DOMAIN new : new[t] = SubscriptionQos(t, running)
    OBVIOUS
  <2>2. requested' = Over(new, old)
    BY <1>4 DEF Subscribe
  <2> HIDE DEF new, old
  <2>3. /\ DOMAIN requested' = DOMAIN new \cup DOMAIN old
        /\ \A t \in DOMAIN new : requested'[t] = new[t]
    BY <2>2 DEF Over
  <2>4. \A t \in DOMAIN requested' \ DOMAIN requested :
          requested'[t] = SubscriptionQos(t, running')
    BY <1>4, <2>1, <2>3 DEF old
  <2>5. QED BY <1>1, <1>2, <2>4
<1>5. ASSUME DOMAIN requested' = {} \/ requested' = requested PROVE Heard
  BY <1>5
<1>6. ConfigurationInv /\ [QosNext]_allVars => Heard
  <2> SUFFICES ASSUME ConfigurationInv, [QosNext]_allVars PROVE Heard
    OBVIOUS
  <2> HIDE DEF Heard
  <2>1. ASSUME Destroyed PROVE Heard
    BY <1>5, <2>1, NothingRequested DEF ConfigurationInv, QosTypes
  <2>2. ASSUME NEW doc, NEW restart, Applied(doc, restart) PROVE Heard
    <3>1. Recorded \/ requested' = requested
      BY <2>2 DEF Applied, Relaunched, qosVars, recorderVars
    <3>2. QED BY <1>3, <1>5, <3>1
  <2>3. ASSUME UNCHANGED nodeVars, UNCHANGED qosVars \/ Warn \/ Subscribe \/ GraphChanges
        PROVE  Heard
    <3>1. running' = running
      BY <2>3 DEF nodeVars
    <3>2. Subscribe \/ requested' = requested
      BY <2>3 DEF qosVars, recorderVars, Warn, GraphChanges
    <3>3. QED BY <1>4, <1>5, <3>1, <3>2
  <2>4. QED BY <1>3, <2>1, <2>2, <2>3, StepCases
<1>7. ConfigurationInv /\ [QosNext]_allVars => [Heard]_allVars
  BY <1>6
<1>8. QED BY <1>7, AlwaysInv, PTL DEF QosSpec, HearsAllAtFirst
-----------------------------------------------------------------------------
(***************************************************************************)
(* Whole documents.                                                        *)
(***************************************************************************)

\* The directory of the bag and the custom data are no settings.
LEMMA SettingsIgnore ==
  ASSUME NEW o, IsWhole(o), NEW k \in {"output", "custom_data"}, NEW v \in Held
  PROVE  /\ Settings([o EXCEPT !.members[k] = v]) = Settings(o)
         /\ IsWhole([o EXCEPT !.members[k] = v])
<1> DEFINE new == [o EXCEPT !.members[k] = v]
           Rest(m) == [f \in Fields |-> IF f \in {"output", "custom_data"} THEN "none"
                                        ELSE m[f]]
<1>1. {"output", "custom_data"} \subseteq Fields \ {OverridesKey}
  BY KeysKnown DEF OverridesKey
<1>2. /\ IsWhole(new) /\ new.throttles = o.throttles
      /\ \A f \in Fields \ {k} : new.members[f] = o.members[f]
  BY <1>1, SetMember
<1>3. ASSUME NEW p, IsWhole(p)
      PROVE  Settings(p) = [members |-> Rest(p.members), throttles |-> p.throttles]
  <2> DEFINE m == [p.members EXCEPT !["output"] = "none"]
             l == [m EXCEPT !["custom_data"] = "none"]
  <2>1. /\ p = [members |-> p.members, throttles |-> p.throttles]
        /\ p.members \in [Fields -> Held]
    BY <1>3 DEF IsWhole
  <2>2. [p EXCEPT !.members["output"] = "none"]
           = [members |-> m, throttles |-> p.throttles]
    BY <2>1
  <2>3. Settings(p) = [[p EXCEPT !.members["output"] = "none"]
                         EXCEPT !.members["custom_data"] = "none"]
    BY DEF Settings
  <2>4. Settings(p) = [members |-> l, throttles |-> p.throttles]
    BY <2>2, <2>3
  <2>5. l = Rest(p.members)
    BY <2>1
  <2>6. QED BY <2>4, <2>5
<1>4. Rest(new.members) = Rest(o.members)
  <2> HIDE DEF new
  <2>1. \A f \in Fields \ {"output", "custom_data"} : new.members[f] = o.members[f]
    BY <1>2
  <2>2. QED BY <2>1
<1> HIDE DEF new, Rest
<1>5. Settings(new) = Settings(o)
  BY <1>2, <1>3, <1>4
<1>6. QED BY <1>2, <1>5 DEF new

\* Neither does a document's agreement depend on the directory of the bag.
LEMMA AgreementStays ==
  ASSUME NEW o, IsWhole(o), NEW v \in Held, NEW doc, IsDocument(doc), Agrees(o, doc)
  PROVE  Agrees([o EXCEPT !.members["output"] = v], doc)
<1> DEFINE new == [o EXCEPT !.members["output"] = v]
<1>1. "output" \in Fields \ {OverridesKey}
  BY KeysKnown DEF OverridesKey
<1>2. /\ new.throttles = o.throttles
      /\ \A f \in Fields \ {"output"} : new.members[f] = o.members[f]
  BY <1>1, SetMember
<1> HIDE DEF new
<1>3. DOMAIN doc.nodes \ {"output", "custom_data", "max_bag_size_gb"}
        \subseteq Fields \ {"output"}
  BY DEF IsDocument, Keys
<1>4. Agrees(new, doc)
  BY <1>2, <1>3 DEF Agrees
<1>5. QED BY <1>4 DEF new

\* How the settings come to change: the process starts or ends, or a document is applied.
LEMMA SettingsStep ==
  ASSUME ConfigurationInv, [QosNext]_allVars
  PROVE  \/ ~up /\ Boot
         \/ up' = FALSE
         \/ up' = up /\ Settings(options') = Settings(options)
         \/ /\ up /\ up' = up
            /\ \E preset \in Applicable :
                 /\ IsDocument(Named(preset)) /\ ~Rejected(Named(preset))
                 /\ active_preset' = preset
                 /\ IsWhole(Parsed(Named(preset), options))
                 /\ Agrees(Parsed(Named(preset), options), Named(preset))
                 /\ \E v \in Held :
                      options' = [Parsed(Named(preset), options) EXCEPT
                                    !.members["output"] = v]
<1> DEFINE Changed(preset) ==
             /\ IsDocument(Named(preset)) /\ ~Rejected(Named(preset))
             /\ active_preset' = preset
             /\ IsWhole(Parsed(Named(preset), options))
             /\ Agrees(Parsed(Named(preset), options), Named(preset))
             /\ \E v \in Held :
                  options' = [Parsed(Named(preset), options) EXCEPT
                                !.members["output"] = v]
           Same == up' = up /\ Settings(options') = Settings(options)
<1>1. DocumentsInv /\ NodeTypes /\ RunningInv /\ IsWhole(options)
  BY DEF ConfigurationInv, NodeTypes
<1>2. CASE Boot
  BY <1>2 DEF Boot
<1>3. ASSUME StartRecording PROVE Same
  <2> DEFINE o == [options EXCEPT !.members["custom_data"] = "two"]
             resolved == [o EXCEPT !.members["output"] = "resolved"]
  <2>1. "two" \in Held /\ "resolved" \in Held
    BY DEF Held, Value
  <2>2. Settings(o) = Settings(options) /\ IsWhole(o)
    BY <1>1, <2>1, SettingsIgnore
  <2>3. options' = resolved /\ up' = up
    BY <1>3 DEF StartRecording, StartRecorder
  <2> HIDE DEF o
  <2>4. Settings(resolved) = Settings(o)
    BY <2>1, <2>2, SettingsIgnore
  <2> HIDE DEF resolved
  <2>5. QED BY <2>2, <2>3, <2>4
<1>4. StopRecording => Same
  BY DEF StopRecording
<1>5. Shutdown => up' = FALSE
  BY DEF Shutdown
<1>6. ASSUME NEW preset \in Applicable, NEW restart \in BOOLEAN,
             Apply(Named(preset), preset, restart)
      PROVE  up /\ up' = up /\ Changed(preset)
  <2> DEFINE doc == Named(preset)
  <2>1. IsDocument(doc)
    BY <1>1, NamedIsDocument
  <2>2. Apply(doc, preset, restart)
    BY <1>6
  <2> HIDE DEF doc
  <2>3. /\ ~Rejected(doc)
        /\ \E v \in Held : options' = [Parsed(doc, options) EXCEPT !.members["output"] = v]
    BY <1>1, <2>1, <2>2, DocumentApplied
  <2>4. IsWhole(Parsed(doc, options)) /\ Agrees(Parsed(doc, options), doc)
    BY <1>1, <2>1, <2>3, ParsedWhole
  <2>5. up /\ up' = up /\ active_preset' = preset
    BY <2>2 DEF Apply, Asks
  <2>6. QED BY <2>1, <2>3, <2>4, <2>5 DEF doc
<1>7. UNCHANGED nodeVars => Same
  BY DEF nodeVars
<1> HIDE DEF Changed, Same
<1>8. \/ (~up /\ Boot)
      \/ up' = FALSE
      \/ Same
      \/ up /\ up' = up /\ \E preset \in Applicable : Changed(preset)
  BY <1>2, <1>3, <1>4, <1>5, <1>6, <1>7, StepCases DEF Boot
<1>9. QED BY <1>8, Zenon DEF Changed, Same

\* A process that is started from a file has its settings and the defaults.
LEMMA StandsAlone ==
  ASSUME ConfigurationInv, [QosNext]_allVars, ~up, up', config_path' # ""
  PROVE  /\ \A f \in Fields \ {"output"} :
              options'.members[f] = Member(files[config_path'], Default(f), f)
         /\ options'.throttles = files[config_path'].throttles
<1>1. DocumentsInv
  BY DEF ConfigurationInv
<1>2. Boot
  <2>1. up' # FALSE /\ up' # up
    OBVIOUS
  <2>2. QED BY <2>1, SettingsStep
<1>3. /\ config_path' = ConfigPath
      /\ options' = StartOptions
         \/ options' = [StartOptions EXCEPT !.members["output"] = "resolved"]
  BY <1>1, <1>2, NodeBoots
<1>4. Accepts /\ ~FileRejected
  BY <1>2 DEF Boot
<1>5. /\ IsWhole(StartOptions)
      /\ StartOptions.throttles = files[ConfigPath].throttles
      /\ \A f \in Fields \ {"output"} :
           StartOptions.members[f] = Member(files[ConfigPath], Default(f), f)
  BY <1>1, <1>3, <1>4, StartWhole
<1>6. /\ options'.throttles = StartOptions.throttles
      /\ \A f \in Fields \ {"output"} : options'.members[f] = StartOptions.members[f]
  BY <1>1, <1>2, NodeBoots
<1>7. QED BY <1>3, <1>5, <1>6

\* The active preset is the one the settings agree with when they change.
LEMMA ActiveIsTrue ==
  ASSUME ConfigurationInv, [QosNext]_allVars,
         up', active_preset' # "", Settings(options') # Settings(options)
  PROVE  Agrees(options', files[active_preset'])
<1>1. DocumentsInv /\ IsWhole(options)
  BY DEF ConfigurationInv, NodeTypes
<1>2. CASE ~up /\ Boot
  <2>1. /\ active_preset' = ConfigPath
        /\ options' = StartOptions
           \/ options' = [StartOptions EXCEPT !.members["output"] = "resolved"]
    BY <1>1, <1>2, NodeBoots
  <2>2. Accepts /\ ~FileRejected
    BY <1>2 DEF Boot
  <2>3. IsWhole(StartOptions) /\ Agrees(StartOptions, files[ConfigPath])
    BY <1>1, <2>1, <2>2, StartWhole
  <2>4. IsDocument(files[ConfigPath])
    BY <1>1, <2>1, <2>2, ConfigPathNamed
  <2>5. "resolved" \in Held
    BY DEF Held
  <2> DEFINE o == StartOptions
             resolved == [o EXCEPT !.members["output"] = "resolved"]
  <2>6. Agrees(o, files[ConfigPath]) /\ Agrees(resolved, files[ConfigPath])
    BY <2>3, <2>4, <2>5, AgreementStays
  <2>7. options' = o \/ options' = resolved
    BY <2>1
  <2> HIDE DEF o, resolved
  <2>8. QED BY <2>1, <2>6, <2>7
<1>3. ASSUME NEW preset \in Applicable, NEW v \in Held,
             IsDocument(Named(preset)),
             active_preset' = preset,
             IsWhole(Parsed(Named(preset), options)),
             Agrees(Parsed(Named(preset), options), Named(preset)),
             options' = [Parsed(Named(preset), options) EXCEPT !.members["output"] = v]
      PROVE  Agrees(options', files[active_preset'])
  <2>1. Named(preset) = files[active_preset']
    BY <1>3 DEF Named
  <2>2. Agrees(options', Named(preset))
    BY <1>3, AgreementStays
  <2>3. QED BY <2>1, <2>2
<1>4. up' # FALSE
  OBVIOUS
<1>5. QED BY <1>2, <1>3, <1>4, SettingsStep

\* The settings of a running process change to those of one document.
LEMMA ChangeIsWhole ==
  ASSUME ConfigurationInv, [QosNext]_allVars,
         up, up', Settings(options') # Settings(options)
  PROVE  \E doc \in {editor} \cup {files[n] : n \in {m \in Names : files[m] # NoFile}} :
           /\ ~Rejected(doc)
           /\ Settings(options') = Settings(Parsed(doc, options))
<1>1. PICK preset \in Applicable :
        /\ ~Rejected(Named(preset)) /\ IsWhole(Parsed(Named(preset), options))
        /\ \E v \in Held :
             options' = [Parsed(Named(preset), options) EXCEPT !.members["output"] = v]
  <2>1. up' # FALSE
    OBVIOUS
  <2>2. QED BY <2>1, SettingsStep
<1>2. Named(preset) \in {editor} \cup {files[n] : n \in {m \in Names : files[m] # NoFile}}
  BY DEF Applicable, Named, Present
<1>3. Settings(options') = Settings(Parsed(Named(preset), options))
  BY <1>1, SettingsIgnore
<1>4. QED BY <1>1, <1>2, <1>3

\* One document is in force: the file of the start alone, then one after another, each
\* as a whole, and the active preset names the one that is.
THEOREM OneDocumentAlways == QosSpec => OneDocumentInForce
<1> DEFINE Alone ==
             ~up /\ up' /\ config_path' # "" =>
               /\ \A f \in Fields \ {"output"} :
                    options'.members[f] = Member(files[config_path'], Default(f), f)
               /\ options'.throttles = files[config_path'].throttles
           Active ==
             up' /\ active_preset' # "" /\ Settings(options') # Settings(options)
               => Agrees(options', files[active_preset'])
           Whole ==
             up /\ up' /\ Settings(options') # Settings(options) =>
               \E doc \in {editor} \cup {files[n] : n \in {m \in Names : files[m] # NoFile}} :
                 /\ ~Rejected(doc)
                 /\ Settings(options') = Settings(Parsed(doc, options))
<1>1. ConfigurationInv /\ [QosNext]_allVars => [Alone]_vars /\ [Active]_vars /\ [Whole]_vars
  BY StandsAlone, ActiveIsTrue, ChangeIsWhole
<1>2. QosSpec => [][Alone]_vars /\ [][Active]_vars /\ [][Whole]_vars
  BY <1>1, AlwaysInv, PTL DEF QosSpec
<1>3. QED
  BY <1>2, PTL DEF OneDocumentInForce, ConfigStandsAlone, ActivePresetIsTrue, SettingsChangeWhole

-----------------------------------------------------------------------------
(***************************************************************************)
(* The parser and the readings.  The arguments are split into pieces, one  *)
(* for an option and its values; a split one piece longer is a split, and  *)
(* so is one without its last piece.  At every argument the parser knows   *)
(* of each split all there is to know (FollowsReading), and what it took   *)
(* so far is the beginning of one (ReadsOn).                               *)
(***************************************************************************)

\* An option the parser knows, what its value after '=' counts, and what it needs then.
IsKnown(j) == args[j].kind \in {"long", "short"} /\ args[j].option # "unknown"
Glued(j) == IF args[j].value # "" THEN 1 ELSE 0
Least(j) == AtLeast(args[j].option) - Glued(j)

\* The arguments up to e may be the values of the option at j, as far as they go.
MayTake(j, e) ==
  LET o == args[j].option
  IN /\ IsKnown(j)
     /\ o \in FlagOptions => args[j].kind = "long" \/ Glued(j) = 0
     /\ ~Unbounded(o) => e - j <= (IF o \in FlagOptions THEN 0 ELSE Least(j))
     /\ \A i \in (j + 1)..e : i - j > Least(j) => IsWord(args[i])

\* They are values it may have,
Complete(j, e) ==
  /\ MayTake(j, e) /\ e - j >= Least(j)
  /\ args[j].option \in PairOptions => (Glued(j) + (e - j)) % 2 = 0

\* and perhaps a -- that ends them.
Segment(j, e) ==
  \/ Complete(j, e)
  \/ /\ e > j /\ Complete(j, e - 1) /\ IsMark(args[e])
     /\ Unbounded(args[j].option)

\* A reading is cut into these, with a -- at its end or not.
Piece(j, e) == Segment(j, e) \/ (IsMark(args[j]) /\ j = Len(args) /\ e = j)

IsSplit(h, n) ==
  /\ h \in [1..n -> 1..n]
  /\ \A i \in 1..n : h[i] <= i /\ h[h[i]] = h[i]
  /\ \A j \in 1..n : h[j] = j =>
       \E e \in j..n : {i \in 1..n : h[i] = j} = j..e /\ Piece(j, e)

Splits(n) == \E h \in [1..n -> 1..n] : IsSplit(h, n)

Ok(p) == ~p.broken /\ p.extras = 0
Fine(p) == Ok(p) /\ ~p.onlyWords /\ p.missing = 0 /\ ~Partial(p)
Balanced(p) ==
  p.broken \/ \A o \in PairOptions : o # p.taking => Len(p.results[o]) % 2 = 0

\* What the parser knows after the argument e, when the option at j has its turn or had
\* it last.
Matches(p, j, e) ==
  LET o == args[j].option
  IN /\ Ok(p) /\ ~p.onlyWords
     /\ IF Unbounded(o)
        THEN /\ p.taking = o
             /\ p.missing = IF e - j < Least(j) THEN Least(j) - (e - j) ELSE 0
             /\ o \in PairOptions => Len(p.results[o]) % 2 = (Glued(j) + (e - j)) % 2
        ELSE IF o \in FlagOptions \/ e - j = Least(j)
        THEN p.taking = "" /\ p.missing = 0
        ELSE p.taking = o /\ p.missing = Least(j) - (e - j)

ReadsOn(p, n) ==
  Ok(p) =>
    \/ Splits(n) /\ Fine(p) /\ p.taking = ""
    \/ \E j \in 1..n : Splits(j - 1) /\ MayTake(j, n) /\ Matches(p, j, n)
    \/ /\ n > 0 /\ Splits(n - 1) /\ IsMark(args[n])
       /\ p.onlyWords /\ p.taking = "" /\ p.missing = 0

FollowsReading(p, n) ==
  /\ \A j \in 1..n : Splits(j - 1) /\ MayTake(j, n) => Matches(p, j, n)
  /\ (n = 0 \/ \E j \in 1..n : Splits(j - 1) /\ Segment(j, n)) => Fine(p)

\* The numbers an option needs.
LEMMA Needs ==
  ASSUME NEW j, IsKnown(j), args[j] \in Argument
  PROVE  /\ args[j].option \in Options /\ args[j].value \in {""} \cup Value
         /\ ~IsWord(args[j]) /\ ~IsMark(args[j])
         /\ Glued(j) \in {0, 1} /\ AtLeast(args[j].option) \in {0, 1, 2} /\ Least(j) \in -1..2
         /\ ~Unbounded(args[j].option) /\ args[j].option \notin FlagOptions =>
              Least(j) \in {0, 1}
         /\ Unbounded(args[j].option) => Least(j) \in 0..2 /\ args[j].option \notin FlagOptions
         /\ args[j].option \in PairOptions => Unbounded(args[j].option)
<1>1. ~IsWord(args[j]) /\ ~IsMark(args[j])
  BY DEF IsKnown, IsWord, IsMark
<1>2. args[j].option \in Options /\ args[j].value \in {""} \cup Value
  BY <1>1, ArgumentParts DEF IsKnown
<1>3. Glued(j) \in {0, 1} /\ AtLeast(args[j].option) \in {0, 1, 2}
  BY DEF Glued, AtLeast
<1>4. Least(j) \in -1..2
  BY <1>3 DEF Least
<1>5. args[j].option \in PairOptions => Unbounded(args[j].option)
  BY DEF Unbounded
<1>6. ~Unbounded(args[j].option) /\ args[j].option \notin FlagOptions => Least(j) \in {0, 1}
  <2>1. ~Unbounded(args[j].option) /\ args[j].option \notin FlagOptions =>
          AtLeast(args[j].option) = 1
    BY DEF AtLeast, Unbounded
  <2>2. QED BY <1>3, <2>1 DEF Least
<1>7. Unbounded(args[j].option) => Least(j) \in 0..2 /\ args[j].option \notin FlagOptions
  <2>1. Unbounded(args[j].option) =>
          AtLeast(args[j].option) \in {1, 2} /\ args[j].option \notin FlagOptions
    BY DEF AtLeast, Unbounded, ListOptions, PairOptions, FlagOptions
  <2>2. QED BY <1>3, <2>1 DEF Least
<1>8. QED BY <1>1, <1>2, <1>3, <1>4, <1>5, <1>6, <1>7

\* Nothing is split into nothing.
LEMMA NothingSplits == Splits(0)
<1> DEFINE h == [i \in 1..0 |-> 1]
<1>1. 1..0 = {}
  OBVIOUS
<1>2. h \in [1..0 -> 1..0]
  BY <1>1
<1>3. IsSplit(h, 0)
  BY <1>1, <1>2 DEF IsSplit
<1>4. QED BY <1>2, <1>3 DEF Splits

\* A piece more behind arguments that are split.
LEMMA PieceAdded ==
  ASSUME NEW n \in Nat, NEW j \in 1..n, Splits(j - 1), Piece(j, n)
  PROVE  Splits(n)
<1>1. PICK h \in [1..(j - 1) -> 1..(j - 1)] : IsSplit(h, j - 1)
  BY DEF Splits
<1> DEFINE g == [i \in 1..n |-> IF i <= j - 1 THEN h[i] ELSE j]
<1>2. j \in Nat /\ n \in Nat /\ 1 <= j /\ j <= n
  OBVIOUS
<1>3. \A i \in 1..(j - 1) : i \in 1..n /\ h[i] \in 1..(j - 1) /\ h[i] \in 1..n
  BY <1>1, <1>2
<1>4. g \in [1..n -> 1..n]
  <2>1. ASSUME NEW i \in 1..n PROVE g[i] \in 1..n
    <3>1. CASE i <= j - 1
      BY <1>2, <1>3, <3>1
    <3>2. CASE ~(i <= j - 1)
      BY <3>2
    <3>3. QED BY <3>1, <3>2
  <2>2. QED BY <2>1
<1>5. \A i \in 1..(j - 1) : g[i] = h[i]
  BY <1>2
<1>6. \A i \in j..n : i \in 1..n /\ g[i] = j
  BY <1>2
<1>7. ASSUME NEW i \in 1..n PROVE g[i] <= i /\ g[g[i]] = g[i]
  <2>1. CASE i \in 1..(j - 1)
    <3>1. h[i] <= i /\ h[h[i]] = h[i]
      BY <1>1, <2>1 DEF IsSplit
    <3>2. QED BY <1>3, <1>5, <2>1, <3>1
  <2>2. CASE i \in j..n
    BY <1>2, <1>6, <2>2
  <2>3. QED BY <1>2, <2>1, <2>2
<1>8. ASSUME NEW k \in 1..n, g[k] = k
      PROVE  \E e \in k..n : {i \in 1..n : g[i] = k} = k..e /\ Piece(k, e)
  <2>1. CASE k \in 1..(j - 1)
    <3>1. h[k] = k
      BY <1>5, <1>8, <2>1
    <3>2. PICK e \in k..(j - 1) : {i \in 1..(j - 1) : h[i] = k} = k..e /\ Piece(k, e)
      BY <1>1, <2>1, <3>1 DEF IsSplit
    <3>3. {i \in 1..n : g[i] = k} = {i \in 1..(j - 1) : h[i] = k}
      <4>1. \A i \in 1..n : g[i] = k => i \in 1..(j - 1)
        BY <1>2, <1>6, <2>1
      <4>2. QED BY <1>3, <1>5, <4>1
    <3>4. e \in k..n
      BY <1>2
    <3>5. QED BY <3>2, <3>3, <3>4
  <2>2. CASE k \in j..n
    <3>1. k = j
      BY <1>6, <1>8, <2>2
    <3>2. {i \in 1..n : g[i] = j} = j..n
      <4>1. \A i \in 1..n : g[i] = j => i \in j..n
        <5>1. ASSUME NEW i \in 1..n, g[i] = j, ~(i \in j..n) PROVE FALSE
          <6>1. i \in 1..(j - 1)
            BY <1>2, <5>1
          <6>2. g[i] \in 1..(j - 1)
            BY <1>3, <1>5, <6>1
          <6>3. QED BY <1>2, <5>1, <6>2
        <5>2. QED BY <5>1
      <4>2. QED BY <1>6, <4>1
    <3>3. {i \in 1..n : g[i] = k} = k..n /\ Piece(k, n)
      BY <3>1, <3>2
    <3>4. n \in k..n
      BY <1>2, <3>1
    <3> HIDE DEF g
    <3>5. QED BY <3>3, <3>4, Zenon
  <2>3. k \in 1..(j - 1) \/ k \in j..n
    BY <1>2
  <2>4. QED BY <2>1, <2>2, <2>3, Zenon
<1> HIDE DEF g
<1>9. IsSplit(g, n)
  BY <1>4, <1>7, <1>8 DEF IsSplit
<1>10. QED BY <1>4, <1>9 DEF Splits

\* The last piece taken away.
LEMMA LastPiece ==
  ASSUME NEW n \in Nat \ {0}, Splits(n)
  PROVE  \E j \in 1..n : Splits(j - 1) /\ Piece(j, n)
<1>1. PICK h \in [1..n -> 1..n] : IsSplit(h, n)
  BY DEF Splits
<1>2. n \in 1..n
  OBVIOUS
<1> DEFINE j == h[n]
<1>3. j \in 1..n /\ j <= n /\ h[j] = j
  BY <1>1, <1>2 DEF IsSplit
<1>4. PICK e \in j..n : {i \in 1..n : h[i] = j} = j..e /\ Piece(j, e)
  BY <1>1, <1>3 DEF IsSplit
<1> HIDE DEF j
<1>5. e = n
  <2>1. n \in j..e
    BY <1>2, <1>4 DEF j
  <2>2. QED BY <1>3, <1>4, <2>1
<1> DEFINE g == [i \in 1..(j - 1) |-> h[i]]
<1>6. \A i \in 1..(j - 1) : i \in 1..n /\ h[i] <= i /\ h[h[i]] = h[i] /\ h[i] \in 1..(j - 1)
  <2>1. ASSUME NEW i \in 1..(j - 1)
        PROVE  i \in 1..n /\ h[i] <= i /\ h[h[i]] = h[i] /\ h[i] \in 1..(j - 1)
    <3>1. i \in 1..n
      BY <1>3
    <3>2. h[i] <= i /\ h[h[i]] = h[i] /\ h[i] \in 1..n
      BY <1>1, <3>1 DEF IsSplit
    <3>3. QED BY <1>3, <3>1, <3>2
  <2>2. QED BY <2>1
<1>7. g \in [1..(j - 1) -> 1..(j - 1)]
  BY <1>6
<1>8. \A i \in 1..(j - 1) : g[i] <= i /\ g[g[i]] = g[i]
  BY <1>6
<1>9. ASSUME NEW k \in 1..(j - 1), g[k] = k
      PROVE  \E d \in k..(j - 1) : {i \in 1..(j - 1) : g[i] = k} = k..d /\ Piece(k, d)
  <2>1. k \in 1..n /\ h[k] = k
    BY <1>6, <1>9
  <2>2. PICK d \in k..n : {i \in 1..n : h[i] = k} = k..d /\ Piece(k, d)
    BY <1>1, <2>1 DEF IsSplit
  <2>3. \A i \in 1..n : h[i] = k => i \in 1..(j - 1)
    <3>1. ASSUME NEW i \in 1..n, h[i] = k, ~(i \in 1..(j - 1)) PROVE FALSE
      <4>1. i \in j..n
        BY <1>3, <3>1
      <4>2. h[i] = j
        BY <1>4, <1>5, <4>1
      <4>3. QED BY <1>3, <3>1, <4>2
    <3>2. QED BY <3>1
  <2>4. d \in 1..(j - 1)
    <3>1. d \in k..d /\ d \in 1..n
      BY <2>1
    <3>2. h[d] = k
      BY <2>2, <3>1
    <3>3. QED BY <2>3, <3>1, <3>2
  <2>5. d \in k..(j - 1)
    BY <2>2, <2>4
  <2>6. {i \in 1..(j - 1) : g[i] = k} = k..d
    <3>1. {i \in 1..(j - 1) : g[i] = k} = {i \in 1..n : h[i] = k}
      BY <1>6, <2>3
    <3>2. QED BY <2>2, <3>1
  <2>7. QED BY <2>2, <2>5, <2>6
<1> HIDE DEF g
<1>10. IsSplit(g, j - 1)
  BY <1>7, <1>8, <1>9 DEF IsSplit
<1>11. Splits(j - 1)
  BY <1>7, <1>10 DEF Splits
<1>12. QED BY <1>3, <1>4, <1>5, <1>11

\* Values behind an option are counted from it.
LEMMA IntervalCount ==
  ASSUME NEW j \in Nat, NEW e \in Nat, j <= e
  PROVE  (j..e) \ {j} = (j + 1)..e /\ Cardinality((j + 1)..e) = e - j
         /\ IsFiniteSet((j + 1)..e)
<1>1. (j..e) \ {j} = (j + 1)..e
  OBVIOUS
<1>2. Cardinality((j + 1)..e) = IF j + 1 > e THEN 0 ELSE e - (j + 1) + 1
  BY FS_Interval
<1>3. (IF j + 1 > e THEN 0 ELSE e - (j + 1) + 1) = e - j
  OBVIOUS
<1>4. QED BY <1>1, <1>2, <1>3, FS_Interval

\* The words, and the -- that may follow them, are what a group has later than it needs.
LEMMA LaterOnes ==
  ASSUME NEW j \in Nat, NEW e \in Nat, j <= e, NEW least \in -1..2, e - j >= least
  PROVE  LET values == (j + 1)..e
             later == {i \in values : i - j > least}
         IN /\ later # {} => e \in later /\ e > j /\ e - 1 - j >= least
            /\ e > j /\ e - 1 - j >= least => e \in later
<1> DEFINE values == (j + 1)..e
           later == {i \in values : i - j > least}
<1>1. ASSUME NEW i \in later PROVE e \in later /\ e > j /\ e - 1 - j >= least
  <2>1. i \in Int /\ j + 1 <= i /\ i <= e /\ i - j > least
    OBVIOUS
  <2>2. e \in values /\ e - j > least
    BY <2>1
  <2>3. QED BY <2>1, <2>2
<1>2. e > j /\ e - 1 - j >= least => e \in later
  OBVIOUS
<1>3. QED BY <1>1, <1>2

\* A group of a reading is a segment of the arguments.
LEMMA GroupIsSegment ==
  ASSUME args \in Seq(Argument), NEW j \in DOMAIN args, NEW e \in j..Len(args),
         NEW head, {i \in DOMAIN args : head[i] = j} = j..e
  PROVE  IsGroup(head, j) <=> Segment(j, e)
<1> DEFINE arg == args[j]
           own == {i \in DOMAIN args : head[i] = j}
           values == own \ {j}
           glued == IF arg.value # "" THEN 1 ELSE 0
           least == AtLeast(arg.option) - glued
           later == {i \in values : i - j > least}
           ended == later # {} /\ IsMark(args[j + Cardinality(values)])
           taken == glued + Cardinality(values) - (IF ended THEN 1 ELSE 0)
<1>1. /\ DOMAIN args = 1..Len(args) /\ Len(args) \in Nat /\ j \in Nat /\ e \in Nat
      /\ j <= e /\ 1 <= j /\ e <= Len(args) /\ args[j] \in Argument
  OBVIOUS
<1>2. own = j..e /\ values = (j + 1)..e /\ Cardinality(values) = e - j
  BY <1>1, IntervalCount
<1>3. j + Cardinality(values) = e
  BY <1>1, <1>2
<1>4. glued = Glued(j) /\ least = Least(j)
  BY DEF Glued, Least
<1>5. IsGroup(head, j) <=>
        /\ IsKnown(j)
        /\ own = j..(j + Cardinality(values))
        /\ Cardinality(values) >= least
        /\ ~Unbounded(arg.option) =>
             Cardinality(values) = (IF arg.option \in FlagOptions THEN 0 ELSE least)
        /\ arg.option \in FlagOptions => arg.kind = "long" \/ glued = 0
        /\ arg.option \in PairOptions => taken % 2 = 0
        /\ \A i \in later : IsWord(args[i]) \/ (ended /\ i = j + Cardinality(values))
  BY DEF IsGroup, IsKnown, Unbounded
<1> HIDE DEF arg, own, values, glued, least, later, ended, taken
<1>6. later = {i \in (j + 1)..e : i - j > Least(j)}
  BY <1>2, <1>4 DEF later
<1>7. ended <=> later # {} /\ IsMark(args[e])
  BY <1>3 DEF ended
<1>8. taken = glued + (e - j) - (IF ended THEN 1 ELSE 0)
  BY <1>2 DEF taken
<1>9. IsGroup(head, j) <=>
        /\ IsKnown(j)
        /\ e - j >= Least(j)
        /\ ~Unbounded(args[j].option) =>
             e - j = (IF args[j].option \in FlagOptions THEN 0 ELSE Least(j))
        /\ args[j].option \in FlagOptions => args[j].kind = "long" \/ Glued(j) = 0
        /\ args[j].option \in PairOptions => taken % 2 = 0
        /\ \A i \in later : IsWord(args[i]) \/ (ended /\ i = e)
  BY <1>2, <1>3, <1>4, <1>5 DEF arg
<1>10. Segment(j, e) => IsKnown(j) /\ e - j >= Least(j)
  <2>1. ASSUME Segment(j, e), ~Complete(j, e) PROVE IsKnown(j) /\ e - j >= Least(j)
    <3>1. IsKnown(j) /\ e - 1 - j >= Least(j)
      BY <2>1 DEF Segment, Complete, MayTake
    <3>2. Least(j) \in -1..2
      BY <1>1, <3>1, Needs
    <3>3. QED BY <1>1, <3>1, <3>2
  <2>2. QED BY <2>1 DEF Complete, MayTake
<1>11. SUFFICES ASSUME IsKnown(j), e - j >= Least(j) PROVE IsGroup(head, j) <=> Segment(j, e)
  BY <1>9, <1>10
<1>12. /\ Glued(j) \in {0, 1} /\ Least(j) \in -1..2
       /\ ~Unbounded(args[j].option) /\ args[j].option \notin FlagOptions => Least(j) \in {0, 1}
       /\ Unbounded(args[j].option) => Least(j) \in 0..2 /\ args[j].option \notin FlagOptions
       /\ args[j].option \in PairOptions => Unbounded(args[j].option)
  BY <1>1, <1>11, Needs
<1>13. /\ later # {} => e \in later /\ e > j /\ e - 1 - j >= Least(j)
       /\ e > j /\ e - 1 - j >= Least(j) => e \in later
  BY <1>1, <1>6, <1>11, <1>12, LaterOnes
<1>14. IsMark(args[e]) => ~IsWord(args[e])
  BY DEF IsMark, IsWord
<1>15. CASE ended
  <2>1. later # {} /\ IsMark(args[e]) /\ e > j /\ e - 1 - j >= Least(j)
    BY <1>7, <1>13, <1>15
  <2>2. ~Complete(j, e)
    <3>1. e \in (j + 1)..e /\ e - j > Least(j)
      BY <1>1, <1>12, <2>1
    <3>2. QED BY <1>14, <2>1, <3>1 DEF Complete, MayTake
  <2>3. Segment(j, e) <=> Complete(j, e - 1) /\ Unbounded(args[j].option)
    BY <2>1, <2>2 DEF Segment
  <2>4. (\A i \in later : IsWord(args[i]) \/ i = e) <=>
          \A i \in (j + 1)..(e - 1) : i - j > Least(j) => IsWord(args[i])
    <3>1. (j + 1)..(e - 1) = ((j + 1)..e) \ {e}
      BY <1>1
    <3>2. QED BY <1>6, <3>1
  <2>5. taken = Glued(j) + (e - 1 - j)
    BY <1>1, <1>4, <1>8, <1>12, <1>15
  <2>6. ~Unbounded(args[j].option) =>
          e - j # (IF args[j].option \in FlagOptions THEN 0 ELSE Least(j))
    BY <1>1, <1>12, <2>1
  <2>7. QED
    BY <1>9, <1>11, <1>12, <1>15, <2>1, <2>3, <2>4, <2>5, <2>6 DEF Complete, MayTake
<1>16. CASE ~ended
  <2>1. taken = Glued(j) + (e - j)
    BY <1>1, <1>4, <1>8, <1>12, <1>16
  <2>2. ~(e > j /\ Complete(j, e - 1) /\ IsMark(args[e]))
    <3>1. SUFFICES ASSUME e > j, Complete(j, e - 1), IsMark(args[e]) PROVE FALSE
      OBVIOUS
    <3>2. e - 1 - j >= Least(j)
      BY <3>1 DEF Complete
    <3>3. QED BY <1>7, <1>13, <1>16, <3>1, <3>2
  <2>3. Segment(j, e) <=> Complete(j, e)
    BY <2>2 DEF Segment
  <2>4. (\A i \in later : IsWord(args[i])) <=>
          \A i \in (j + 1)..e : i - j > Least(j) => IsWord(args[i])
    BY <1>6
  <2>5. ~Unbounded(args[j].option) =>
          (e - j = (IF args[j].option \in FlagOptions THEN 0 ELSE Least(j)) <=>
           e - j <= (IF args[j].option \in FlagOptions THEN 0 ELSE Least(j)))
    BY <1>1, <1>11, <1>12
  <2>6. QED
    BY <1>9, <1>11, <1>12, <1>16, <2>1, <2>3, <2>4, <2>5 DEF Complete, MayTake
<1>17. QED BY <1>15, <1>16

\* A reading splits the arguments, and the other way round.
LEMMA ReadingIsSplit ==
  ASSUME args \in Seq(Argument), NEW head \in [DOMAIN args -> DOMAIN args]
  PROVE  IsReading(head) <=> IsSplit(head, Len(args))
<1> DEFINE n == Len(args)
<1>1. n \in Nat /\ DOMAIN args = 1..n
  OBVIOUS
<1> HIDE DEF n
<1>2. SUFFICES ASSUME \A i \in 1..n : head[i] <= i /\ head[head[i]] = head[i],
                      NEW j \in 1..n, head[j] = j
               PROVE  IsGroup(head, j) \/ (IsMark(args[j]) /\ j = n) <=>
                      \E e \in j..n : {i \in 1..n : head[i] = j} = j..e /\ Piece(j, e)
  <2>1. head \in [1..n -> 1..n]
    BY <1>1
  <2>2. QED BY <1>1, <1>2, <2>1, Zenon DEF IsReading, IsSplit, n
<1>3. j \in Nat /\ 1 <= j /\ j <= n
  BY <1>1
<1>4. ASSUME IsGroup(head, j)
      PROVE  \E e \in j..n : {i \in 1..n : head[i] = j} = j..e /\ Piece(j, e)
  <2> DEFINE own == {i \in 1..n : head[i] = j}
             e == j + Cardinality(own \ {j})
  <2>1. own = j..e
    BY <1>1, <1>4 DEF IsGroup
  <2>2. Cardinality(own \ {j}) \in Nat
    <3>1. own \ {j} \subseteq 1..n /\ IsFiniteSet(1..n)
      BY <1>1, FS_Interval
    <3>2. QED BY <3>1, FS_Subset, FS_CardinalityType
  <2> DEFINE c == Cardinality(own \ {j})
  <2>3. e = j + c /\ c \in Nat
    BY <2>2
  <2> HIDE DEF own, e, c
  <2>4. e \in Nat /\ j <= e
    BY <1>3, <2>3
  <2>5. e \in own
    BY <1>3, <2>1, <2>4
  <2>6. e \in j..n
    BY <1>1, <2>4, <2>5 DEF own
  <2>7. {i \in DOMAIN args : head[i] = j} = j..e
    BY <1>1, <2>1 DEF own
  <2>8. Segment(j, e)
    BY <1>1, <1>4, <2>6, <2>7, GroupIsSegment DEF n
  <2>9. QED BY <2>1, <2>6, <2>8 DEF Piece, own
<1>5. ASSUME IsMark(args[j]), j = n
      PROVE  \E e \in j..n : {i \in 1..n : head[i] = j} = j..e /\ Piece(j, e)
  <2>1. {i \in 1..n : head[i] = j} = j..j
    <3>1. \A i \in 1..n : head[i] = j => i = j
      BY <1>2, <1>3, <1>5
    <3>2. j..j = {j}
      BY <1>3
    <3>3. QED BY <1>2, <3>1, <3>2
  <2>2. j \in j..n /\ Piece(j, j)
    BY <1>3, <1>5 DEF Piece, n
  <2>3. QED BY <2>1, <2>2
<1>6. ASSUME NEW e \in j..n, {i \in 1..n : head[i] = j} = j..e, Piece(j, e)
      PROVE  IsGroup(head, j) \/ (IsMark(args[j]) /\ j = n)
  <2>1. Segment(j, e) => IsGroup(head, j)
    BY <1>1, <1>6, GroupIsSegment DEF n
  <2>2. QED BY <1>6, <2>1 DEF Piece, n
<1>7. QED BY <1>4, <1>5, <1>6

\* What the turns of the parser leave.
LEMMA ClosedParts ==
  ASSUME NEW p \in ParseType
  PROVE  LET c == Close(p)
         IN /\ c \in ParseType /\ c.taking = "" /\ c.missing = 0
            /\ c.onlyWords = p.onlyWords /\ c.results = p.results /\ c.extras = p.extras
            /\ (c.broken <=> (p.broken \/ Partial(p)))
<1>1. Close(p) \in ParseType
  BY ClosedType
<1>2. ASSUME NEW broken \in BOOLEAN
      PROVE  LET c == [p EXCEPT !.taking = "", !.missing = 0, !.broken = broken]
             IN /\ c.taking = "" /\ c.missing = 0 /\ c.onlyWords = p.onlyWords
                /\ c.results = p.results /\ c.extras = p.extras /\ c.broken = broken
  BY DEF ParseType
<1>3. (p.broken \/ Partial(p)) \in BOOLEAN
  OBVIOUS
<1>4. LET c == [p EXCEPT !.taking = "", !.missing = 0, !.broken = p.broken \/ Partial(p)]
      IN /\ c.taking = "" /\ c.missing = 0 /\ c.onlyWords = p.onlyWords
         /\ c.results = p.results /\ c.extras = p.extras
         /\ c.broken = (p.broken \/ Partial(p))
  BY <1>2, <1>3, Zenon
<1>5. QED BY <1>1, <1>4, Zenon DEF Close

\* An argument nobody takes is counted, and nothing else changes.
LEMMA LeftOverParts ==
  ASSUME NEW p \in ParseType
  PROVE  LET c == LeftOver(p)
         IN /\ c \in ParseType /\ c.taking = p.taking /\ c.missing = p.missing
            /\ c.onlyWords = p.onlyWords /\ c.results = p.results /\ c.extras # 0
            /\ c.broken = p.broken
<1>1. LeftOver(p) \in ParseType
  BY LeftOverType
<1>2. LeftOver(p) = [p EXCEPT !.extras = p.extras + 1]
  BY DEF LeftOver
<1>3. p.extras \in Nat
  BY ParseParts
<1> DEFINE x == p.extras + 1
<1>4. x # 0
  BY <1>3
<1> HIDE DEF x
<1>5. LET c == [p EXCEPT !.extras = x]
      IN /\ c.taking = p.taking /\ c.missing = p.missing /\ c.onlyWords = p.onlyWords
         /\ c.results = p.results /\ c.extras = x /\ c.broken = p.broken
  BY DEF ParseType
<1>6. QED BY <1>1, <1>2, <1>4, <1>5 DEF x

\* An option has a value more, and nothing else changes.
LEMMA AddedParts ==
  ASSUME NEW p \in ParseType, NEW o, NEW text \in Value
  PROVE  LET c == AddResult(p, o, text)
         IN /\ c \in ParseType /\ c.taking = p.taking /\ c.missing = p.missing
            /\ c.onlyWords = p.onlyWords /\ c.extras = p.extras /\ c.broken = p.broken
            /\ o \in Options => Len(c.results[o]) = Len(p.results[o]) + 1
            /\ \A q \in Options : q # o => c.results[q] = p.results[q]
<1> DEFINE r == p.results
           new == [r EXCEPT ![o] = Append(r[o], text)]
<1>1. AddResult(p, o, text) \in ParseType
  BY ResultAdded
<1>2. AddResult(p, o, text) = [p EXCEPT !.results = new]
  BY DEF AddResult
<1>3. r \in [Options -> Seq(Value)]
  BY ParseParts
<1>4. o \in Options => Len(new[o]) = Len(r[o]) + 1
  <2>1. SUFFICES ASSUME o \in Options PROVE Len(new[o]) = Len(r[o]) + 1
    OBVIOUS
  <2>2. r[o] \in Seq(Value) /\ new[o] = Append(r[o], text)
    BY <1>3, <2>1
  <2> DEFINE s == r[o]
  <2> HIDE DEF s, new
  <2>3. Len(Append(s, text)) = Len(s) + 1
    BY <2>2 DEF s
  <2>4. QED BY <2>2, <2>3 DEF s
<1>5. \A q \in Options : q # o => new[q] = r[q]
  BY <1>3
<1> HIDE DEF new
<1>6. LET c == [p EXCEPT !.results = new]
      IN /\ c.taking = p.taking /\ c.missing = p.missing /\ c.onlyWords = p.onlyWords
         /\ c.results = new /\ c.extras = p.extras /\ c.broken = p.broken
  BY DEF ParseType
<1>7. QED BY <1>1, <1>2, <1>4, <1>5, <1>6

\* An option that misses values gets one.
LEMMA MinimumParts ==
  ASSUME NEW p \in ParseType, NEW arg \in Argument
  PROVE  LET c == TakeMinimum(p, arg)
             read == AddResult(p, p.taking, Text(arg))
             last == p.missing = 1 /\ ~Unbounded(p.taking)
         IN /\ c.taking = (IF last THEN "" ELSE p.taking)
            /\ c.missing = p.missing - 1
            /\ c.onlyWords = p.onlyWords /\ c.results = read.results /\ c.extras = p.extras
            /\ c.broken = p.broken
<1> DEFINE read == AddResult(p, p.taking, Text(arg))
           last == p.missing = 1 /\ ~Unbounded(p.taking)
<1>1. /\ read \in ParseType /\ read.taking = p.taking /\ read.missing = p.missing
      /\ read.onlyWords = p.onlyWords /\ read.extras = p.extras /\ read.broken = p.broken
  BY ArgumentParts, AddedParts
<1>2. p.missing \in Int /\ p.broken \in BOOLEAN
  BY ParseParts
<1>3. TakeMinimum(p, arg) = IF last THEN Close(read) ELSE [read EXCEPT !.missing = read.missing - 1]
  BY DEF TakeMinimum
<1> HIDE DEF read
<1>4. CASE last
  <2>1. ~Partial(read)
    BY <1>1, <1>4 DEF Partial, Unbounded
  <2>2. /\ Close(read) \in ParseType /\ Close(read).taking = "" /\ Close(read).missing = 0
        /\ Close(read).onlyWords = p.onlyWords /\ Close(read).results = read.results
        /\ Close(read).extras = p.extras /\ Close(read).broken = p.broken
    <3>1. /\ Close(read) \in ParseType /\ Close(read).taking = "" /\ Close(read).missing = 0
          /\ Close(read).onlyWords = p.onlyWords /\ Close(read).results = read.results
          /\ Close(read).extras = p.extras /\ (Close(read).broken <=> p.broken)
      BY <1>1, <2>1, ClosedParts
    <3>2. Close(read).broken \in BOOLEAN
      BY <3>1, ParseParts
    <3>3. QED BY <1>2, <3>1, <3>2
  <2>3. p.missing - 1 = 0
    BY <1>2, <1>4
  <2>4. QED BY <1>3, <1>4, <2>2, <2>3 DEF read
<1>5. CASE ~last
  <2> DEFINE m == read.missing - 1
  <2>1. m = p.missing - 1
    BY <1>1
  <2>2. TakeMinimum(p, arg) = [read EXCEPT !.missing = m]
    BY <1>3, <1>5
  <2> HIDE DEF m, last
  <2>3. LET c == [read EXCEPT !.missing = m]
        IN /\ c.taking = read.taking /\ c.missing = m /\ c.onlyWords = read.onlyWords
           /\ c.results = read.results /\ c.extras = read.extras /\ c.broken = read.broken
    BY <1>1 DEF ParseType
  <2>4. QED BY <1>1, <1>5, <2>1, <2>2, <2>3 DEF last, read
<1>6. QED BY <1>4, <1>5

\* A value after '=' counts for one.
LEMMA GluedValue ==
  ASSUME NEW j
  PROVE  /\ args[j].value = "" => Glued(j) = 0 /\ Glued(j) # 1
         /\ args[j].value # "" => Glued(j) = 1 /\ Glued(j) # 0
<1>1. 0 # 1
  OBVIOUS
<1>2. QED BY <1>1, Zenon DEF Glued

\* An option begins its turn.
LEMMA BegunParts ==
  ASSUME NEW p \in ParseType, NEW j, IsKnown(j), args[j] \in Argument,
         args[j].option \notin FlagOptions
  PROVE  LET c == ReadOption(p, args[j])
             o == args[j].option
         IN /\ c.taking = (IF Glued(j) = 1 /\ ~Unbounded(o) THEN "" ELSE o)
            /\ c.missing = Least(j)
            /\ c.onlyWords = p.onlyWords /\ c.extras = p.extras /\ c.broken = p.broken
            /\ Len(c.results[o]) = Len(p.results[o]) + Glued(j)
            /\ \A q \in Options : q # o => c.results[q] = p.results[q]
<1> DEFINE arg == args[j]
           o == arg.option
           read == ReadGlued(p, arg)
           taking == IF arg.value # "" /\ ~Unbounded(o) THEN "" ELSE o
           missing == AtLeast(o) - (IF arg.value # "" THEN 1 ELSE 0)
<1>1. o \in Options /\ arg.value \in {""} \cup Value /\ o # "unknown"
  BY Needs DEF IsKnown
<1>2. /\ read \in ParseType /\ read.onlyWords = p.onlyWords /\ read.extras = p.extras
      /\ read.broken = p.broken /\ Len(read.results[o]) = Len(p.results[o]) + Glued(j)
      /\ \A q \in Options : q # o => read.results[q] = p.results[q]
  <2>1. CASE arg.value = ""
    <3>1. read = p /\ Glued(j) = 0
      BY <2>1 DEF ReadGlued, Glued
    <3>2. p.results[o] \in Seq(Value)
      BY <1>1, ParseParts
    <3>3. Len(p.results[o]) + 0 = Len(p.results[o])
      <4>1. \A n \in Nat : n + 0 = n
        OBVIOUS
      <4>2. Len(p.results[o]) \in Nat
        BY <3>2
      <4>3. QED BY <4>1, <4>2
    <3>4. QED BY <3>1, <3>3
  <2>2. CASE arg.value # ""
    <3>1. read = AddResult(p, o, arg.value) /\ Glued(j) = 1 /\ arg.value \in Value
      BY <1>1, <2>2 DEF ReadGlued, Glued
    <3> DEFINE v == arg.value
    <3> HIDE DEF arg, o, read, v
    <3>2. v \in Value /\ read = AddResult(p, o, v)
      BY <3>1 DEF v
    <3>3. LET c == AddResult(p, o, v)
          IN /\ c \in ParseType /\ c.onlyWords = p.onlyWords /\ c.extras = p.extras
             /\ c.broken = p.broken /\ Len(c.results[o]) = Len(p.results[o]) + 1
             /\ \A q \in Options : q # o => c.results[q] = p.results[q]
      <4>1. v \in Value /\ o \in Options
        BY <1>1, <3>2
      <4>2. /\ AddResult(p, o, v) \in ParseType
            /\ AddResult(p, o, v).onlyWords = p.onlyWords
            /\ AddResult(p, o, v).extras = p.extras
            /\ AddResult(p, o, v).broken = p.broken
        BY <4>1, AddedParts
      <4>3. Len(AddResult(p, o, v).results[o]) = Len(p.results[o]) + 1
        BY <4>1, AddedParts
      <4>4. \A q \in Options : q # o => AddResult(p, o, v).results[q] = p.results[q]
        BY <4>1, AddedParts
      <4>5. QED BY <4>2, <4>3, <4>4
    <3>4. QED BY <3>1, <3>2, <3>3
  <2>3. QED BY <2>1, <2>2, Zenon
<1>3. ReadOption(p, arg) = [read EXCEPT !.taking = taking, !.missing = missing]
  BY <1>1 DEF ReadOption
<1>4. taking = (IF Glued(j) = 1 /\ ~Unbounded(o) THEN "" ELSE o) /\ missing = Least(j)
  <2>1. CASE arg.value = ""
    <3>1. Glued(j) = 0 /\ Glued(j) # 1
      BY <2>1, GluedValue
    <3>2. QED BY <2>1, <3>1 DEF Least
  <2>2. CASE arg.value # ""
    <3>1. Glued(j) = 1
      BY <2>2 DEF Glued
    <3>2. QED BY <2>2, <3>1 DEF Least
  <2>3. QED BY <2>1, <2>2
<1> HIDE DEF read, taking, missing
<1>5. LET c == [read EXCEPT !.taking = taking, !.missing = missing]
      IN /\ c.taking = taking /\ c.missing = missing /\ c.onlyWords = read.onlyWords
         /\ c.results = read.results /\ c.extras = read.extras /\ c.broken = read.broken
  BY <1>2 DEF ParseType
<1> HIDE DEF arg, o
<1>6. LET c == ReadOption(p, arg)
      IN /\ c.taking = (IF Glued(j) = 1 /\ ~Unbounded(o) THEN "" ELSE o)
         /\ c.missing = Least(j)
         /\ c.onlyWords = p.onlyWords /\ c.extras = p.extras /\ c.broken = p.broken
         /\ Len(c.results[o]) = Len(p.results[o]) + Glued(j)
         /\ \A q \in Options : q # o => c.results[q] = p.results[q]
  BY <1>2, <1>3, <1>4, <1>5
<1>7. QED BY <1>6, Zenon DEF arg, o

\* A flag has no turn.
LEMMA FlagParts ==
  ASSUME NEW p \in ParseType, NEW j, IsKnown(j), args[j] \in Argument,
         args[j].option \in FlagOptions
  PROVE  LET c == ReadOption(p, args[j])
             o == args[j].option
         IN /\ c.taking = p.taking /\ c.missing = p.missing
            /\ c.onlyWords = p.onlyWords /\ c.broken = p.broken
            /\ (c.extras = 0) <=> (p.extras = 0 /\ (args[j].kind = "long" \/ Glued(j) = 0))
            /\ \A q \in Options : q # o => c.results[q] = p.results[q]
<1> DEFINE arg == args[j]
           o == arg.option
           read == AddResult(p, o, FlagValue(arg))
<1>1. o \in Options /\ arg.value \in {""} \cup Value /\ o # "unknown"
  BY Needs DEF IsKnown
<1>2. FlagValue(arg) \in Value
  BY <1>1, ValuesKnown DEF FlagValue
<1>3. /\ read \in ParseType /\ read.taking = p.taking /\ read.missing = p.missing
      /\ read.onlyWords = p.onlyWords /\ read.extras = p.extras /\ read.broken = p.broken
      /\ \A q \in Options : q # o => read.results[q] = p.results[q]
  BY <1>2, AddedParts
<1>4. ReadOption(p, arg) = IF arg.kind = "short" /\ arg.value # "" THEN LeftOver(read) ELSE read
  BY <1>1 DEF ReadOption, ReadFlag
<1> HIDE DEF read
<1>5. (arg.kind = "short" /\ arg.value # "") <=> ~(arg.kind = "long" \/ Glued(j) = 0)
  <2>1. (Glued(j) = 0) <=> arg.value = ""
    BY GluedValue
  <2>2. (arg.kind = "short") <=> ~(arg.kind = "long")
    BY DEF IsKnown
  <2>3. QED BY <2>1, <2>2
<1>6. CASE arg.kind = "short" /\ arg.value # ""
  <2> HIDE DEF arg, o
  <2>1. ReadOption(p, arg) = LeftOver(read)
    BY <1>4, <1>6
  <2>2. ~(args[j].kind = "long" \/ Glued(j) = 0)
    BY <1>5, <1>6, Zenon DEF arg
  <2>3. QED BY <1>3, <2>1, <2>2, LeftOverParts DEF arg, o
<1>7. CASE ~(arg.kind = "short" /\ arg.value # "")
  <2>1. args[j].kind = "long" \/ Glued(j) = 0
    BY <1>5, <1>7, Zenon DEF arg
  <2>2. ReadOption(p, args[j]) = read
    BY <1>4, <1>7, Zenon DEF arg
  <2>3. QED BY <1>3, <2>1, <2>2
<1>8. QED BY <1>6, <1>7, Zenon

\* Numbers that are both even or both odd.
LEMMA Parity ==
  ASSUME NEW a \in Nat
  PROVE  /\ a % 2 \in {0, 1}
         /\ \A b \in Nat : a % 2 = b % 2 => (a + 1) % 2 = (b + 1) % 2
OBVIOUS

\* What an option collected has a length.
LEMMA ResultsHaveLengths ==
  ASSUME NEW p \in ParseType, NEW o \in Options
  PROVE  Len(p.results[o]) \in Nat
<1>1. p.results[o] \in Seq(Value)
  BY ParseParts
<1>2. QED BY <1>1, LenProperties

\* An option for pairs is one of those that go on taking words; nobody's turn is not.
LEMMA PairsAreOptions ==
  /\ \A o \in PairOptions : o \in Options /\ o \notin FlagOptions /\ Unbounded(o)
  /\ "" \notin Options /\ "" \notin PairOptions /\ ~Unbounded("")
  /\ "" \notin ListOptions \cup PairOptions
BY DEF PairOptions, ListOptions, Options, FlagOptions, NumberOptions, ChoiceOptions,
       FileOptions, StringOptions, Unbounded

\* A parse that is fine has whole pairs.
LEMMA WholePairs ==
  ASSUME NEW p \in ParseType, Fine(p), Balanced(p), NEW o \in PairOptions
  PROVE  Len(p.results[o]) % 2 = 0
<1>1. o \in Options /\ Len(p.results[o]) \in Nat
  BY PairsAreOptions, ResultsHaveLengths
<1>2. Len(p.results[o]) % 2 \in {0, 1}
  BY <1>1, Parity
<1>3. CASE p.taking = o
  BY <1>2, <1>3 DEF Fine, Partial
<1>4. CASE p.taking # o
  BY <1>4 DEF Fine, Ok, Balanced
<1>5. QED BY <1>3, <1>4

\* After the turn of an option they are whole, or the parse is broken.
LEMMA ClosedBalanced ==
  ASSUME NEW p \in ParseType, Balanced(p)
  PROVE  /\ Balanced(Close(p))
         /\ Close(p).broken \/ \A o \in PairOptions : Len(Close(p).results[o]) % 2 = 0
<1>1. Close(p).results = p.results /\ (Close(p).broken <=> (p.broken \/ Partial(p)))
  BY ClosedParts
<1>2. ASSUME ~Close(p).broken, NEW o \in PairOptions PROVE Len(Close(p).results[o]) % 2 = 0
  <2>1. o \in Options /\ Len(p.results[o]) \in Nat
    BY PairsAreOptions, ResultsHaveLengths
  <2>2. Len(p.results[o]) % 2 \in {0, 1}
    BY <2>1, Parity
  <2>3. CASE p.taking = o
    BY <1>1, <1>2, <2>2, <2>3 DEF Partial
  <2>4. CASE p.taking # o
    BY <1>1, <1>2, <2>4 DEF Balanced
  <2>5. QED BY <2>3, <2>4
<1>3. QED BY <1>2 DEF Balanced

\* Nothing of what an option does makes up for an error before it.
LEMMA OptionMendsNothing ==
  ASSUME NEW p \in ParseType, NEW j, args[j] \in Argument,
         ~IsWord(args[j]), ~IsMark(args[j]), Ok(ReadOption(p, args[j]))
  PROVE  /\ Ok(p) /\ IsKnown(j)
         /\ args[j].option \in FlagOptions => args[j].kind = "long" \/ Glued(j) = 0
<1>1. args[j].kind \in {"long", "short"}
  BY DEF Argument, IsWord, IsMark
<1>2. CASE args[j].option = "unknown"
  <2>1. ReadOption(p, args[j]) = LeftOver(p)
    BY <1>2 DEF ReadOption
  <2>2. LeftOver(p).extras # 0
    BY LeftOverParts
  <2>3. QED BY <2>1, <2>2 DEF Ok
<1>3. CASE IsKnown(j) /\ args[j].option \in FlagOptions
  <2>1. /\ ReadOption(p, args[j]).broken = p.broken
        /\ (ReadOption(p, args[j]).extras = 0)
              <=> (p.extras = 0 /\ (args[j].kind = "long" \/ Glued(j) = 0))
    BY <1>3, FlagParts
  <2>2. QED BY <1>3, <2>1 DEF Ok
<1>4. CASE IsKnown(j) /\ args[j].option \notin FlagOptions
  <2>1. /\ ReadOption(p, args[j]).broken = p.broken
        /\ ReadOption(p, args[j]).extras = p.extras
    BY <1>4, BegunParts
  <2>2. QED BY <1>4, <2>1 DEF Ok
<1>5. IsKnown(j) <=> args[j].option # "unknown"
  BY <1>1 DEF IsKnown
<1>6. QED BY <1>2, <1>3, <1>4, <1>5, Zenon

\* The turn of an argument.
LEMMA ArgumentCases ==
  ASSUME NEW p, NEW arg
  PROVE  LET q == ReadArgument(p, arg)
         IN \/ p.missing > 0 /\ q = TakeMinimum(p, arg)
            \/ /\ ~(p.missing > 0) /\ p.taking # "" /\ IsWord(arg)
               /\ q = AddResult(p, p.taking, Text(arg))
            \/ ~(p.missing > 0) /\ p.taking # "" /\ IsMark(arg) /\ q = Close(p)
            \/ /\ ~(p.missing > 0) /\ (p.taking # "" => ~IsWord(arg) /\ ~IsMark(arg))
               /\ p.onlyWords \/ IsWord(arg)
               /\ q = LeftOver(p)
            \/ /\ ~(p.missing > 0) /\ p.taking = "" /\ ~p.onlyWords /\ IsMark(arg)
               /\ q = [p EXCEPT !.onlyWords = TRUE]
            \/ /\ ~(p.missing > 0) /\ ~p.onlyWords /\ ~IsWord(arg) /\ ~IsMark(arg)
               /\ q = ReadOption(Close(p), arg)
<1>1. IsMark(arg) => ~IsWord(arg)
  BY DEF IsMark, IsWord
<1>2. QED BY <1>1, Zenon DEF ReadArgument, TakeOptional, ReadPositional

\* What a -- of its own leaves.
LEMMA OnlyWordsParts ==
  ASSUME NEW p \in ParseType
  PROVE  LET c == [p EXCEPT !.onlyWords = TRUE]
         IN /\ c \in ParseType /\ c.taking = p.taking /\ c.missing = p.missing /\ c.onlyWords
            /\ c.results = p.results /\ c.extras = p.extras /\ c.broken = p.broken
BY DEF ParseType

\* Nor does any argument.
LEMMA NothingMends ==
  ASSUME NEW p \in ParseType, NEW j, args[j] \in Argument, Ok(ReadArgument(p, args[j]))
  PROVE  Ok(p)
<1> DEFINE q == ReadArgument(p, args[j])
<1>1. CASE p.missing > 0 /\ q = TakeMinimum(p, args[j])
  <2>1. q.extras = p.extras /\ q.broken = p.broken
    BY <1>1, MinimumParts
  <2>2. QED BY <2>1 DEF Ok
<1>2. CASE q = AddResult(p, p.taking, Text(args[j]))
  <2>1. Text(args[j]) \in Value
    BY ArgumentParts
  <2>2. q.extras = p.extras /\ q.broken = p.broken
    BY <1>2, <2>1, AddedParts
  <2>3. QED BY <2>2 DEF Ok
<1>3. CASE q = Close(p)
  <2>1. q.extras = p.extras /\ (q.broken <=> (p.broken \/ Partial(p)))
    BY <1>3, ClosedParts
  <2>2. QED BY <2>1 DEF Ok
<1>4. CASE q = LeftOver(p)
  BY <1>4, LeftOverParts DEF Ok
<1>5. CASE q = [p EXCEPT !.onlyWords = TRUE]
  <2>1. q.extras = p.extras /\ q.broken = p.broken
    BY <1>5, OnlyWordsParts
  <2>2. QED BY <2>1 DEF Ok
<1>6. CASE ~IsWord(args[j]) /\ ~IsMark(args[j]) /\ q = ReadOption(Close(p), args[j])
  <2>1. Close(p) \in ParseType /\ Close(p).extras = p.extras
        /\ (Close(p).broken <=> (p.broken \/ Partial(p)))
    BY ClosedParts
  <2>2. Ok(Close(p))
    BY <1>6, <2>1, OptionMendsNothing
  <2>3. QED BY <2>1, <2>2 DEF Ok
<1>7. QED BY <1>1, <1>2, <1>3, <1>4, <1>5, <1>6, ArgumentCases, Zenon

\* What is complete is fine, and nothing else.
LEMMA CompleteIsFine ==
  ASSUME NEW p \in ParseType, NEW j \in DOMAIN args, NEW e \in Nat, j <= e, j \in Nat,
         args[j] \in Argument, MayTake(j, e), Matches(p, j, e)
  PROVE  /\ Fine(p) <=> Complete(j, e)
         /\ p.missing = 0 <=> e - j >= Least(j)
         /\ p.missing > 0 <=> e - j < Least(j)
         /\ p.missing = 0 /\ p.taking = "" => Fine(p)
         /\ Complete(j, e) <=> p.missing = 0 /\ ~Partial(p)
<1> DEFINE o == args[j].option
<1>1. /\ IsKnown(j) /\ o \in Options
      /\ Glued(j) \in {0, 1} /\ Least(j) \in -1..2
      /\ ~Unbounded(o) /\ o \notin FlagOptions => Least(j) \in {0, 1}
      /\ Unbounded(o) => Least(j) \in 0..2 /\ o \notin FlagOptions
      /\ o \in PairOptions => Unbounded(o)
  BY Needs DEF MayTake
<1>2. o \in FlagOptions => Least(j) <= 0
  <2>1. o \in FlagOptions => AtLeast(o) = 0
    BY DEF AtLeast
  <2>2. QED BY <1>1, <2>1 DEF Least
<1>3. o # "" /\ "" \notin PairOptions
  BY <1>1, PairsAreOptions
<1>4. ~Unbounded(o) => e - j <= (IF o \in FlagOptions THEN 0 ELSE Least(j))
  BY DEF MayTake
<1>5. /\ Ok(p) /\ ~p.onlyWords
      /\ Unbounded(o) => /\ p.taking = o
                         /\ p.missing = IF e - j < Least(j) THEN Least(j) - (e - j) ELSE 0
                         /\ o \in PairOptions =>
                              Len(p.results[o]) % 2 = (Glued(j) + (e - j)) % 2
      /\ ~Unbounded(o) /\ (o \in FlagOptions \/ e - j = Least(j)) =>
           p.taking = "" /\ p.missing = 0
      /\ ~Unbounded(o) /\ ~(o \in FlagOptions \/ e - j = Least(j)) =>
           p.taking = o /\ p.missing = Least(j) - (e - j)
  BY DEF Matches
<1> HIDE DEF o
<1>6. (p.missing = 0 <=> e - j >= Least(j)) /\ (p.missing > 0 <=> e - j < Least(j))
  <2> DEFINE d == e - j
             l == Least(j)
             m == p.missing
  <2>1. d \in Nat /\ l \in Int
    BY <1>1
  <2>2. /\ Unbounded(o) => m = IF d < l THEN l - d ELSE 0
        /\ ~Unbounded(o) /\ o \in FlagOptions => m = 0 /\ l <= 0 /\ d <= 0
        /\ ~Unbounded(o) /\ o \notin FlagOptions => d <= l
        /\ ~Unbounded(o) /\ o \notin FlagOptions /\ d = l => m = 0
        /\ ~Unbounded(o) /\ o \notin FlagOptions /\ d # l => m = l - d
    BY <1>2, <1>4, <1>5
  <2> HIDE DEF d, l, m
  <2>3. (m = 0 <=> d >= l) /\ (m > 0 <=> d < l)
    <3>1. CASE Unbounded(o)
      BY <2>1, <2>2, <3>1
    <3>2. CASE ~Unbounded(o) /\ o \in FlagOptions
      BY <2>1, <2>2, <3>2
    <3>3. CASE ~Unbounded(o) /\ o \notin FlagOptions
      BY <2>1, <2>2, <3>3
    <3>4. QED BY <3>1, <3>2, <3>3
  <2>4. QED BY <2>3 DEF d, l, m
<1>7. Partial(p) <=> o \in PairOptions /\ (Glued(j) + (e - j)) % 2 = 1
  <2>1. CASE o \in PairOptions
    <3>1. p.taking = o /\ Len(p.results[o]) % 2 = (Glued(j) + (e - j)) % 2
      BY <1>1, <1>5, <2>1
    <3>2. QED BY <2>1, <3>1 DEF Partial
  <2>2. CASE o \notin PairOptions
    <3>1. p.taking = o \/ p.taking = ""
      BY <1>5
    <3>2. QED BY <1>3, <2>2, <3>1 DEF Partial
  <2>3. QED BY <2>1, <2>2
<1>8. (Glued(j) + (e - j)) % 2 = 0 <=> (Glued(j) + (e - j)) % 2 # 1
  BY <1>1
<1>9. Complete(j, e) <=> (e - j >= Least(j) /\ (o \in PairOptions => (Glued(j) + (e - j)) % 2 = 0))
  BY DEF Complete, o
<1>10. Complete(j, e) <=> p.missing = 0 /\ ~Partial(p)
  BY <1>6, <1>7, <1>8, <1>9
<1>11. p.taking = "" => ~Partial(p)
  BY <1>3 DEF Partial
<1>12. QED BY <1>5, <1>6, <1>10, <1>11 DEF Fine

\* Pairs stay whole but for the option whose turn it is.
LEMMA OptionBalanced ==
  ASSUME NEW p \in ParseType, NEW j, args[j] \in Argument,
         ~IsWord(args[j]), ~IsMark(args[j]),
         p.broken \/ \A o \in PairOptions : Len(p.results[o]) % 2 = 0
  PROVE  Balanced(ReadOption(p, args[j]))
<1> DEFINE q == ReadOption(p, args[j])
<1>1. args[j].kind \in {"long", "short"}
  BY DEF Argument, IsWord, IsMark
<1>2. CASE args[j].option = "unknown"
  <2>1. q = LeftOver(p)
    BY <1>2 DEF ReadOption
  <2>2. q.broken = p.broken /\ q.results = p.results
    BY <2>1, LeftOverParts
  <2>3. QED BY <2>2 DEF Balanced
<1>3. CASE IsKnown(j) /\ args[j].option \in FlagOptions
  <2>1. /\ q.broken = p.broken
        /\ \A o \in Options : o # args[j].option => q.results[o] = p.results[o]
    BY <1>3, FlagParts
  <2>2. QED BY <1>3, <2>1, PairsAreOptions DEF Balanced
<1>4. CASE IsKnown(j) /\ args[j].option \notin FlagOptions
  <2>1. /\ q.broken = p.broken
        /\ q.taking = (IF Glued(j) = 1 /\ ~Unbounded(args[j].option) THEN ""
                       ELSE args[j].option)
        /\ \A o \in Options : o # args[j].option => q.results[o] = p.results[o]
    BY <1>4, BegunParts
  <2>2. ASSUME NEW o \in PairOptions, o # q.taking PROVE o # args[j].option /\ o \in Options
    BY <2>1, <2>2, PairsAreOptions
  <2>3. QED BY <2>1, <2>2 DEF Balanced
<1>5. IsKnown(j) <=> args[j].option # "unknown"
  BY <1>1 DEF IsKnown
<1>6. QED BY <1>2, <1>3, <1>4, <1>5, Zenon

\* No argument leaves half a pair behind.
LEMMA BalancedStays ==
  ASSUME NEW p \in ParseType, NEW j, args[j] \in Argument, Balanced(p)
  PROVE  Balanced(ReadArgument(p, args[j]))
<1> DEFINE q == ReadArgument(p, args[j])
           read == AddResult(p, p.taking, Text(args[j]))
<1>1. /\ read \in ParseType /\ read.taking = p.taking /\ read.broken = p.broken
      /\ \A o \in Options : o # p.taking => read.results[o] = p.results[o]
  BY ArgumentParts, AddedParts
<1>2. CASE p.missing > 0 /\ q = TakeMinimum(p, args[j])
  <2>1. /\ q.taking = p.taking \/ ~Unbounded(p.taking)
        /\ q.results = read.results /\ q.broken = p.broken
    BY <1>2, MinimumParts
  <2>2. ASSUME NEW o \in PairOptions, o # q.taking PROVE o # p.taking /\ o \in Options
    BY <2>1, <2>2, PairsAreOptions
  <2>3. QED BY <1>1, <2>1, <2>2 DEF Balanced
<1>3. CASE q = read
  <2> HIDE DEF read, q
  <2>1. q.taking = p.taking /\ q.broken = p.broken
        /\ \A o \in Options : o # p.taking => q.results[o] = p.results[o]
    BY <1>1, <1>3
  <2>2. ASSUME ~q.broken, NEW o \in PairOptions, o # q.taking
        PROVE  Len(q.results[o]) % 2 = 0
    <3>1. o \in Options /\ o # p.taking
      BY <2>1, <2>2, PairsAreOptions
    <3>2. q.results[o] = p.results[o]
      BY <2>1, <3>1
    <3>3. Len(p.results[o]) % 2 = 0
      BY <2>1, <2>2, <3>1 DEF Balanced
    <3>4. QED BY <3>2, <3>3
  <2>3. Balanced(q)
    BY <2>2 DEF Balanced
  <2>4. QED BY <2>3 DEF q
<1>4. CASE q = Close(p)
  <2>1. Balanced(Close(p))
    BY ClosedBalanced
  <2>2. QED BY <1>4, <2>1, Zenon
<1>5. CASE q = LeftOver(p)
  <2>1. q.taking = p.taking /\ q.results = p.results /\ q.broken = p.broken
    BY <1>5, LeftOverParts
  <2>2. QED BY <2>1 DEF Balanced
<1>6. CASE q = [p EXCEPT !.onlyWords = TRUE]
  <2>1. q.taking = p.taking /\ q.results = p.results /\ q.broken = p.broken
    BY <1>6, OnlyWordsParts
  <2>2. QED BY <2>1 DEF Balanced
<1>7. CASE ~IsWord(args[j]) /\ ~IsMark(args[j]) /\ q = ReadOption(Close(p), args[j])
  <2>1. Close(p) \in ParseType
    BY ClosedParts
  <2>2. QED BY <1>7, <2>1, ClosedBalanced, OptionBalanced
<1>8. QED BY <1>2, <1>3, <1>4, <1>5, <1>6, <1>7, ArgumentCases, Zenon

\* An option that may have its turn gets it.
LEMMA OptionBegins ==
  ASSUME NEW p \in ParseType, Fine(p), Balanced(p), NEW j \in Nat, args[j] \in Argument,
         IsKnown(j),
         args[j].option \in FlagOptions => args[j].kind = "long" \/ Glued(j) = 0
  PROVE  MayTake(j, j) /\ Matches(ReadOption(Close(p), args[j]), j, j)
<1> DEFINE o == args[j].option
           c == Close(p)
           q == ReadOption(c, args[j])
<1>1. /\ o \in Options /\ Glued(j) \in {0, 1} /\ Least(j) \in -1..2
      /\ ~Unbounded(o) /\ o \notin FlagOptions => Least(j) \in {0, 1}
      /\ Unbounded(o) => Least(j) \in 0..2 /\ o \notin FlagOptions
      /\ o \in PairOptions => Unbounded(o)
  BY Needs
<1>2. /\ c \in ParseType /\ c.taking = "" /\ c.missing = 0 /\ c.onlyWords = p.onlyWords
      /\ c.results = p.results /\ c.extras = p.extras
      /\ (c.broken <=> (p.broken \/ Partial(p)))
  BY ClosedParts
<1>3. Ok(c) /\ ~c.onlyWords
  BY <1>2 DEF Fine, Ok
<1>4. MayTake(j, j)
  <2>1. (j + 1)..j = {} /\ j - j = 0
    OBVIOUS
  <2>2. ~Unbounded(o) => 0 <= (IF o \in FlagOptions THEN 0 ELSE Least(j))
    BY <1>1
  <2>3. QED BY <2>1, <2>2 DEF MayTake
<1>5. CASE o \in FlagOptions
  <2>1. /\ q.taking = c.taking /\ q.missing = c.missing /\ q.onlyWords = c.onlyWords
        /\ q.broken = c.broken
        /\ (q.extras = 0) <=> (c.extras = 0 /\ (args[j].kind = "long" \/ Glued(j) = 0))
    BY <1>2, <1>5, FlagParts
  <2>2. ~Unbounded(o)
    BY <1>1, <1>5
  <2> HIDE DEF c, q, o
  <2>3. Ok(q) /\ ~q.onlyWords /\ q.taking = "" /\ q.missing = 0
    BY <1>2, <1>3, <1>5, <2>1 DEF Ok, o
  <2>4. Matches(q, j, j)
    BY <1>5, <2>2, <2>3 DEF Matches, o
  <2>5. QED BY <1>4, <2>4 DEF q, c
<1>6. CASE o \notin FlagOptions
  <2>1. /\ q.taking = (IF Glued(j) = 1 /\ ~Unbounded(o) THEN "" ELSE o)
        /\ q.missing = Least(j) /\ q.onlyWords = c.onlyWords /\ q.extras = c.extras
        /\ q.broken = c.broken
        /\ Len(q.results[o]) = Len(c.results[o]) + Glued(j)
    BY <1>2, <1>6, BegunParts
  <2>2. ~Unbounded(o) => AtLeast(o) = 1
    BY <1>1, <1>6 DEF AtLeast, Unbounded
  <2>3. ~Unbounded(o) => Least(j) = 1 - Glued(j)
    BY <2>2 DEF Least, o
  <2>4. o \in PairOptions => Len(q.results[o]) % 2 = Glued(j) % 2
    <3>1. SUFFICES ASSUME o \in PairOptions PROVE Len(q.results[o]) % 2 = Glued(j) % 2
      OBVIOUS
    <3> DEFINE k == Len(p.results[o])
    <3>2. k \in Nat /\ k % 2 = 0
      BY <1>1, <3>1, WholePairs, ResultsHaveLengths
    <3> HIDE DEF k
    <3>3. (k + 0) % 2 = 0 % 2 /\ (k + 1) % 2 = 1 % 2
      BY <3>2
    <3>4. Len(q.results[o]) = k + Glued(j)
      BY <1>2, <2>1 DEF k
    <3>5. QED BY <1>1, <3>3, <3>4
  <2> HIDE DEF c, q, o
  <2>5. j - j = 0 /\ Glued(j) + (j - j) = Glued(j)
    BY <1>1
  <2>6. Ok(q) /\ ~q.onlyWords
    BY <1>3, <2>1 DEF Ok
  <2>7. CASE Unbounded(o)
    <3>1. q.taking = o /\ Least(j) \in 0..2
      BY <1>1, <2>1, <2>7
    <3>2. q.missing = IF 0 < Least(j) THEN Least(j) - 0 ELSE 0
      <4>1. \A l \in 0..2 : l = IF 0 < l THEN l - 0 ELSE 0
        OBVIOUS
      <4>2. QED BY <2>1, <3>1, <4>1
    <3>3. Matches(q, j, j)
      BY <2>4, <2>5, <2>6, <2>7, <3>1, <3>2 DEF Matches, o
    <3>4. QED BY <1>4, <3>3 DEF q, c
  <2>8. CASE ~Unbounded(o) /\ Glued(j) = 1
    <3>1. q.taking = ""
      BY <2>1, <2>8, Zenon
    <3>2. Least(j) = 0
      BY <2>3, <2>8
    <3>3. q.missing = 0
      BY <2>1, <3>2, Zenon
    <3>4. Matches(q, j, j)
      BY <2>5, <2>6, <2>8, <3>1, <3>2, <3>3 DEF Matches, o
    <3>5. QED BY <1>4, <3>4 DEF q, c
  <2>9. CASE ~Unbounded(o) /\ Glued(j) = 0
    <3>1. q.taking = o /\ q.missing = 1 /\ Least(j) = 1
      BY <2>1, <2>3, <2>9
    <3>2. Matches(q, j, j)
      BY <1>6, <2>5, <2>6, <2>9, <3>1 DEF Matches, o
    <3>3. QED BY <1>4, <3>2 DEF q, c
  <2>10. QED BY <1>1, <2>7, <2>8, <2>9
<1>7. QED BY <1>5, <1>6

\* Numbers of values that are missing.
LEMMA StillMissing ==
  ASSUME NEW d \in Nat, NEW l \in 0..2
  PROVE  /\ d < l => (l - d) - 1 = (IF d + 1 < l THEN l - (d + 1) ELSE 0)
         /\ ~(d < l) => ~(d + 1 < l)
OBVIOUS

\* Zero is not more than zero.
LEMMA NoneMissing ==
  ASSUME NEW m, m = 0
  PROVE  ~(m > 0)
OBVIOUS

\* The needs of an option are numbers.
LEMMA NeedsAreNumbers == \A l \in -1..2 : l \in Int
OBVIOUS

\* Distances between arguments.
LEMMA ArgumentsBefore ==
  ASSUME NEW n \in Nat, NEW j \in 1..(n - 1)
  PROVE  j \in Nat /\ n - 1 \in Nat /\ j <= n - 1 /\ n - 1 - j \in Int
OBVIOUS

\* Two bounds that meet.
LEMMA Between ==
  ASSUME NEW a \in Int, NEW b \in Int, a <= b, a >= b
  PROVE  a = b
OBVIOUS

\* The argument at n is one more of those the option at j takes.
LEMMA OneMore ==
  ASSUME NEW n \in Nat, NEW j \in 1..(n - 1), args[j] \in Argument, MayTake(j, n - 1)
  PROVE  /\ MayTake(j, n) <=>
              (n - 1 - j < Least(j) \/ (Unbounded(args[j].option) /\ IsWord(args[n])))
         /\ ~Unbounded(args[j].option) /\ n - 1 - j < Least(j) =>
              n - 1 = j /\ Least(j) = 1 /\ args[j].option \notin FlagOptions
<1> DEFINE o == args[j].option
           l == Least(j)
           most == IF o \in FlagOptions THEN 0 ELSE l
<1>1. /\ IsKnown(j) /\ l \in Int
      /\ ~Unbounded(o) /\ o \notin FlagOptions => l \in {0, 1}
      /\ Unbounded(o) => o \notin FlagOptions
  <2>1. IsKnown(j)
    BY DEF MayTake
  <2>2. /\ l \in -1..2
        /\ ~Unbounded(o) /\ o \notin FlagOptions => l \in {0, 1}
        /\ Unbounded(o) => o \notin FlagOptions
    BY <2>1, Needs
  <2>3. l \in Int
    BY <2>2
  <2>4. QED BY <2>1, <2>2, <2>3
<1>2. o \in FlagOptions => l <= 0
  <2>1. o \in FlagOptions => AtLeast(o) = 0
    BY DEF AtLeast
  <2>2. Glued(j) \in {0, 1}
    BY <1>1, Needs
  <2>3. QED BY <2>1, <2>2 DEF Least
<1>3. MayTake(j, n) <=> /\ ~Unbounded(o) => n - j <= most
                        /\ \A i \in (j + 1)..n : i - j > l => IsWord(args[i])
  BY DEF MayTake
<1>4. /\ ~Unbounded(o) => n - 1 - j <= most
      /\ \A i \in (j + 1)..(n - 1) : i - j > l => IsWord(args[i])
  BY DEF MayTake
<1> HIDE DEF o, l
<1>5. n \in (j + 1)..n /\ (j + 1)..n = (j + 1)..(n - 1) \cup {n} /\ j \in Nat
  OBVIOUS
<1>6. MayTake(j, n) <=> (~Unbounded(o) => n - j <= most) /\ (n - j > l => IsWord(args[n]))
  BY <1>3, <1>4, <1>5
<1>7. ASSUME ~Unbounded(o), n - 1 - j < l PROVE n - 1 = j /\ l = 1 /\ o \notin FlagOptions
  BY <1>1, <1>2, <1>5, <1>7
<1>8. CASE Unbounded(o)
  BY <1>1, <1>5, <1>6, <1>8 DEF o, l
<1>9. CASE ~Unbounded(o)
  <2>1. n - j <= most <=> n - 1 - j < l
    BY <1>1, <1>2, <1>4, <1>5, <1>9
  <2>2. n - 1 - j < l => ~(n - j > l)
    BY <1>1, <1>5
  <2>3. MayTake(j, n) <=> n - 1 - j < l
    BY <1>6, <1>9, <2>1, <2>2
  <2>4. QED BY <1>7, <1>9, <2>3 DEF o, l
<1>10. QED BY <1>8, <1>9

\* It takes it.
LEMMA OptionGoesOn ==
  ASSUME NEW p \in ParseType, NEW n \in Nat, n \in DOMAIN args, args[n] \in Argument,
         NEW j \in 1..(n - 1), j \in DOMAIN args, args[j] \in Argument,
         MayTake(j, n - 1), Matches(p, j, n - 1), MayTake(j, n)
  PROVE  Matches(ReadArgument(p, args[n]), j, n)
<1> DEFINE o == args[j].option
           q == ReadArgument(p, args[n])
           l == Least(j)
           d == n - 1 - j
           g == Glued(j)
           read == AddResult(p, p.taking, Text(args[n]))
<1>1. /\ IsKnown(j) /\ o \in Options /\ g \in {0, 1} /\ l \in -1..2
      /\ Unbounded(o) => l \in 0..2 /\ o \notin FlagOptions
      /\ o \in PairOptions => Unbounded(o)
  BY Needs DEF MayTake
<1>2. d \in Nat /\ j \in Nat /\ n - j = d + 1 /\ n - 1 \in Nat /\ j <= n - 1
  OBVIOUS
<1>3. p.missing > 0 <=> d < l
  BY <1>2, CompleteIsFine
<1>4. d < l \/ (Unbounded(o) /\ IsWord(args[n]))
  BY OneMore
<1>5. /\ read \in ParseType /\ read.taking = p.taking /\ read.missing = p.missing
      /\ read.onlyWords = p.onlyWords /\ read.extras = p.extras /\ read.broken = p.broken
      /\ p.taking \in Options =>
           Len(read.results[p.taking]) = Len(p.results[p.taking]) + 1
  <2>1. Text(args[n]) \in Value
    BY ArgumentParts
  <2>2. QED BY <2>1, AddedParts
<1>6. Ok(p) /\ ~p.onlyWords
  BY DEF Matches
<1>7. CASE Unbounded(o)
  <2>1. /\ p.taking = o /\ p.missing = (IF d < l THEN l - d ELSE 0)
        /\ o \in PairOptions => Len(p.results[o]) % 2 = (g + d) % 2
    BY <1>7 DEF Matches
  <2>2. o # "" /\ l \in 0..2
    BY <1>1, <1>7, PairsAreOptions
  <2>3. o \in PairOptions => Len(read.results[o]) % 2 = (g + (d + 1)) % 2
    <3>1. SUFFICES ASSUME o \in PairOptions
                   PROVE  Len(read.results[o]) % 2 = (g + (d + 1)) % 2
      OBVIOUS
    <3> DEFINE a == Len(p.results[o])
               b == g + d
    <3>2. a \in Nat /\ b \in Nat /\ a % 2 = b % 2
      <4>1. a \in Nat
        BY <1>1, ResultsHaveLengths
      <4>2. b \in Nat
        BY <1>1, <1>2
      <4>3. QED BY <2>1, <3>1, <4>1, <4>2
    <3>3. Len(read.results[o]) = a + 1
      BY <1>1, <1>5, <2>1
    <3>4. g + (d + 1) = b + 1
      BY <1>1, <1>2
    <3> HIDE DEF a, b
    <3>5. (a + 1) % 2 = (b + 1) % 2
      BY <3>2, Parity
    <3>6. QED BY <3>3, <3>4, <3>5
  <2>4. /\ q.taking = o /\ q.missing = (IF d + 1 < l THEN l - (d + 1) ELSE 0)
        /\ q.onlyWords = p.onlyWords /\ q.extras = p.extras /\ q.broken = p.broken
        /\ q.results = read.results
    <3>1. CASE p.missing > 0
      <4>1. q = TakeMinimum(p, args[n])
        BY <3>1, ArgumentCases
      <4>2. /\ q.taking = p.taking /\ q.missing = p.missing - 1
            /\ q.onlyWords = p.onlyWords /\ q.results = read.results
            /\ q.extras = p.extras /\ q.broken = p.broken
        BY <1>7, <2>1, <4>1, MinimumParts
      <4>3. d < l
        BY <1>3, <3>1
      <4> HIDE DEF d, l, q, o, read
      <4>4. p.missing - 1 = IF d + 1 < l THEN l - (d + 1) ELSE 0
        <5>1. p.missing = l - d
          BY <2>1, <4>3
        <5>2. (l - d) - 1 = IF d + 1 < l THEN l - (d + 1) ELSE 0
          BY <1>2, <2>2, <4>3, StillMissing
        <5>3. QED BY <5>1, <5>2
      <4>5. QED BY <2>1, <4>2, <4>4
    <3>2. CASE ~(p.missing > 0)
      <4>1. ~(d < l) /\ IsWord(args[n])
        BY <1>3, <1>4, <3>2
      <4>2. ~IsMark(args[n])
        BY <4>1 DEF IsWord, IsMark
      <4>3. q = read
        BY <2>1, <2>2, <3>2, <4>1, <4>2, ArgumentCases
      <4> HIDE DEF d, l, q, o, read
      <4>4. p.missing = 0 /\ ~(d + 1 < l)
        <5>1. p.missing = 0
          BY <2>1, <4>1
        <5>2. ~(d + 1 < l)
          BY <1>2, <2>2, <4>1, StillMissing
        <5>3. QED BY <5>1, <5>2
      <4>5. QED BY <1>5, <2>1, <4>3, <4>4
    <3>3. QED BY <3>1, <3>2
  <2> HIDE DEF d, l, q, o, read, g
  <2>5. Ok(q) /\ ~q.onlyWords
    BY <1>6, <2>4 DEF Ok
  <2>6. Matches(q, j, n)
    BY <1>2, <1>7, <2>3, <2>4, <2>5 DEF Matches, o, l, g
  <2>7. QED BY <2>6 DEF q
<1>8. CASE ~Unbounded(o)
  <2>1. d < l /\ n - 1 = j /\ l = 1 /\ o \notin FlagOptions
    BY <1>4, <1>8, OneMore
  <2>2. p.taking = o /\ p.missing = 1
    <3>1. d = 0 /\ d # l /\ l - d = 1
      BY <1>2, <2>1
    <3>2. p.taking = o /\ p.missing = l - d
      BY <1>8, <2>1, <3>1 DEF Matches
    <3>3. QED BY <3>1, <3>2
  <2>3. q = TakeMinimum(p, args[n])
    <3>1. p.missing > 0
      BY <2>2
    <3>2. QED BY <3>1, ArgumentCases
  <2>4. /\ q.taking = "" /\ q.missing = p.missing - 1 /\ q.onlyWords = p.onlyWords
        /\ q.extras = p.extras /\ q.broken = p.broken
    BY <1>8, <2>2, <2>3, MinimumParts
  <2> HIDE DEF d, l, q, o, read, g
  <2>5. Ok(q) /\ ~q.onlyWords /\ q.taking = "" /\ q.missing = 0
    <3>1. p.missing - 1 = 0
      BY <2>2
    <3>2. QED BY <1>6, <2>4, <3>1 DEF Ok
  <2>6. n - j = l
    BY <1>2, <2>1
  <2>7. Matches(q, j, n)
    BY <1>8, <2>5, <2>6 DEF Matches, o, l
  <2>8. QED BY <2>7 DEF q
<1>9. QED BY <1>7, <1>8

\* A -- that ends the values of an option.
LEMMA MarkEnds ==
  ASSUME NEW p \in ParseType, NEW n \in Nat, n \in DOMAIN args, IsMark(args[n]),
         NEW j \in 1..(n - 1), j \in DOMAIN args, args[j] \in Argument,
         MayTake(j, n - 1), Matches(p, j, n - 1), p.missing = 0, p.taking # ""
  PROVE  LET q == ReadArgument(p, args[n])
         IN /\ q = Close(p) /\ Unbounded(args[j].option)
            /\ q.taking = "" /\ (Fine(q) <=> Complete(j, n - 1)) /\ (Ok(q) <=> Fine(q))
<1> DEFINE q == ReadArgument(p, args[n])
<1>1. ~IsWord(args[n])
  BY DEF IsMark, IsWord
<1>2. q = Close(p)
  <2>1. ~(p.missing > 0)
    BY NoneMissing
  <2>2. QED BY <1>1, <2>1, ArgumentCases
<1>3. n - 1 \in Nat /\ j \in Nat /\ j <= n - 1
  BY ArgumentsBefore
<1>4. /\ Fine(p) <=> Complete(j, n - 1)
      /\ p.missing = 0 <=> n - 1 - j >= Least(j)
  BY <1>3, CompleteIsFine
<1>5. Unbounded(args[j].option)
  <2>1. SUFFICES ASSUME ~Unbounded(args[j].option) PROVE FALSE
    OBVIOUS
  <2>2. args[j].option \notin FlagOptions /\ n - 1 - j # Least(j)
    BY <2>1 DEF Matches
  <2>3. n - 1 - j <= Least(j)
    BY <2>1, <2>2 DEF MayTake
  <2>4. Least(j) \in -1..2
    <3>1. IsKnown(j)
      BY DEF MayTake
    <3>2. QED BY <3>1, Needs
  <2>5. n - 1 - j >= Least(j)
    BY <1>4
  <2>6. n - 1 - j \in Int /\ Least(j) \in Int
    <3>1. n - 1 - j \in Int
      BY ArgumentsBefore
    <3>2. Least(j) \in Int
      BY <2>4, NeedsAreNumbers, Zenon
    <3>3. QED BY <3>1, <3>2
  <2>7. n - 1 - j = Least(j)
    BY <2>3, <2>5, <2>6, Between
  <2>8. QED BY <2>2, <2>7
<1>6. Ok(p) /\ ~p.onlyWords
  BY DEF Matches
<1>7. /\ q.taking = "" /\ q.missing = 0 /\ q.onlyWords = p.onlyWords /\ q.results = p.results
      /\ q.extras = p.extras /\ (q.broken <=> (p.broken \/ Partial(p)))
  BY <1>2, ClosedParts
<1>8. ~Partial(q)
  BY <1>7, PairsAreOptions DEF Partial
<1> HIDE DEF q
<1>9. (Fine(q) <=> ~Partial(p)) /\ (Ok(q) <=> ~Partial(p))
  BY <1>6, <1>7, <1>8 DEF Fine, Ok
<1>10. Fine(p) <=> ~Partial(p)
  BY <1>6 DEF Fine
<1>11. QED BY <1>2, <1>4, <1>5, <1>7, <1>9, <1>10 DEF q

\* The positions of the arguments.
LEMMA Positions ==
  ASSUME args \in Seq(Argument), NEW n \in 1..Len(args)
  PROVE  /\ n \in Nat /\ n \in DOMAIN args /\ args[n] \in Argument /\ n - 1 \in Nat
         /\ n > 0
         /\ \A j \in 1..n : j \in Nat /\ j \in DOMAIN args /\ args[j] \in Argument
         /\ \A j \in 1..(n - 1) : j \in 1..n /\ j # Len(args)
         /\ n \in 1..n /\ \A j \in 1..n : j # n => j \in 1..(n - 1)
OBVIOUS

\* Behind arguments that are split, the parser is ready for an option.
LEMMA SplitIsFine ==
  ASSUME args \in Seq(Argument), NEW n \in 1..Len(args), NEW p,
         FollowsReading(p, n - 1), Splits(n - 1)
  PROVE  Fine(p)
<1>1. n - 1 \in Nat
  BY Positions
<1>2. CASE n - 1 = 0
  BY <1>2 DEF FollowsReading
<1>3. CASE n - 1 # 0
  <2>1. n - 1 \in Nat \ {0}
    BY <1>1, <1>3
  <2>2. PICK j \in 1..(n - 1) : Splits(j - 1) /\ Piece(j, n - 1)
    BY <2>1, LastPiece
  <2>3. j # Len(args)
    BY Positions
  <2>4. Segment(j, n - 1)
    BY <2>2, <2>3 DEF Piece
  <2>5. QED BY <2>2, <2>4 DEF FollowsReading
<1>4. QED BY <1>2, <1>3

\* Values that may be more may be fewer.
LEMMA OneLess ==
  ASSUME NEW n \in Nat, NEW j \in 1..(n - 1), args[j] \in Argument, MayTake(j, n)
  PROVE  MayTake(j, n - 1)
<1> DEFINE o == args[j].option
           most == IF o \in FlagOptions THEN 0 ELSE Least(j)
<1>1. IsKnown(j)
  BY DEF MayTake
<1>2. Least(j) \in -1..2
  BY <1>1, Needs
<1>3. most \in Int
  BY <1>2, NeedsAreNumbers
<1>4. ~Unbounded(o) => n - j <= most
  BY DEF MayTake
<1> HIDE DEF most
<1>5. \A m \in Int : n - j <= m => n - 1 - j <= m
  OBVIOUS
<1>6. \A i \in (j + 1)..(n - 1) : i \in (j + 1)..n
  OBVIOUS
<1>7. ~Unbounded(o) => n - 1 - j <= most
  BY <1>3, <1>4, <1>5
<1>8. QED BY <1>6, <1>7 DEF MayTake, most

\* A known option at n, behind arguments that are split, begins its turn.
LEMMA BeginsAfterSplit ==
  ASSUME args \in Seq(Argument), NEW n \in 1..Len(args), NEW p \in ParseType,
         Fine(p), Balanced(p), IsKnown(n),
         args[n].option \in FlagOptions => args[n].kind = "long" \/ Glued(n) = 0
  PROVE  MayTake(n, n) /\ Matches(ReadArgument(p, args[n]), n, n)
<1>1. n \in Nat /\ args[n] \in Argument
  BY Positions
<1>2. ~IsWord(args[n]) /\ ~IsMark(args[n])
  BY <1>1, Needs
<1>3. ~(p.missing > 0) /\ ~p.onlyWords
  BY NoneMissing DEF Fine
<1>4. ReadArgument(p, args[n]) = ReadOption(Close(p), args[n])
  BY <1>2, <1>3, ArgumentCases
<1>5. QED BY <1>1, <1>4, OptionBegins

\* The parser follows every reading one argument further.
LEMMA FollowsOn ==
  ASSUME args \in Seq(Argument), NEW n \in 1..Len(args), NEW p \in ParseType,
         Balanced(p), FollowsReading(p, n - 1)
  PROVE  FollowsReading(ReadArgument(p, args[n]), n)
<1> DEFINE q == ReadArgument(p, args[n])
<1>1. q \in ParseType
  BY Positions, ArgumentRead
<1>2. n \in Nat /\ n \in DOMAIN args /\ args[n] \in Argument /\ n # 0
  BY Positions
<1>3. ASSUME NEW j \in 1..n, Splits(j - 1), MayTake(j, n)
      PROVE  Matches(q, j, n)
  <2>1. CASE j = n
    <3>1. Fine(p)
      BY <1>3, <2>1, SplitIsFine
    <3>2. IsKnown(n)
          /\ (args[n].option \in FlagOptions => args[n].kind = "long" \/ Glued(n) = 0)
      BY <1>3, <2>1 DEF MayTake
    <3>3. Matches(q, n, n)
      BY <3>1, <3>2, BeginsAfterSplit
    <3>4. QED BY <2>1, <3>3, Zenon
  <2>2. CASE j # n
    <3>1. j \in 1..(n - 1) /\ j \in DOMAIN args /\ args[j] \in Argument
      BY <2>2, Positions
    <3>2. MayTake(j, n - 1)
      BY <1>2, <1>3, <3>1, OneLess
    <3>3. Matches(p, j, n - 1)
      BY <1>3, <3>1, <3>2 DEF FollowsReading
    <3>4. QED BY <1>2, <1>3, <3>1, <3>2, <3>3, OptionGoesOn
  <2>3. QED BY <2>1, <2>2
<1>4. ASSUME NEW j \in 1..n, Splits(j - 1), Segment(j, n)
      PROVE  Fine(q)
  <2>1. j \in Nat /\ j \in DOMAIN args /\ args[j] \in Argument /\ j <= n
    BY Positions
  <2>2. CASE Complete(j, n)
    <3>1. MayTake(j, n)
      BY <2>2 DEF Complete
    <3>2. Matches(q, j, n)
      BY <1>3, <1>4, <3>1
    <3> HIDE DEF q
    <3>3. QED BY <1>1, <1>2, <2>1, <2>2, <3>1, <3>2, CompleteIsFine DEF q
  <2>3. CASE /\ n > j /\ Complete(j, n - 1) /\ IsMark(args[n])
             /\ Unbounded(args[j].option)
    <3>1. j \in 1..(n - 1)
      BY <2>3, Positions
    <3>2. MayTake(j, n - 1)
      BY <2>3 DEF Complete
    <3>3. Matches(p, j, n - 1)
      BY <1>4, <3>1, <3>2 DEF FollowsReading
    <3>4. p.taking = args[j].option
      BY <2>3, <3>3 DEF Matches
    <3>5. p.taking # ""
      BY <2>3, <3>4, PairsAreOptions
    <3>6. p.missing = 0
      <4>1. n - 1 \in Nat /\ j <= n - 1
        BY <1>2, <3>1, ArgumentsBefore
      <4>2. Fine(p)
        BY <2>1, <2>3, <3>2, <3>3, <4>1, CompleteIsFine
      <4>3. QED BY <4>2 DEF Fine
    <3>7. QED BY <1>2, <2>1, <2>3, <3>1, <3>2, <3>3, <3>5, <3>6, MarkEnds
  <2>4. QED BY <1>4, <2>2, <2>3 DEF Segment
<1> HIDE DEF q
<1>5. FollowsReading(q, n)
  BY <1>2, <1>3, <1>4 DEF FollowsReading
<1>6. QED BY <1>5 DEF q

\* An option whose turn it is still, though it misses nothing.
LEMMA OwnTurn ==
  ASSUME NEW p \in ParseType, NEW j \in Nat, NEW e \in Nat, j <= e, j \in DOMAIN args,
         args[j] \in Argument, MayTake(j, e), Matches(p, j, e), ~(p.missing > 0)
  PROVE  p.missing = 0 /\ (p.taking # "" => Unbounded(args[j].option))
<1> DEFINE o == args[j].option
<1>1. /\ p.missing = 0 <=> e - j >= Least(j)
      /\ p.missing > 0 <=> e - j < Least(j)
  BY CompleteIsFine
<1>2. e - j \in Int /\ Least(j) \in Int
  <2>1. IsKnown(j)
    BY DEF MayTake
  <2>2. Least(j) \in -1..2
    BY <2>1, Needs
  <2>3. QED BY <2>2, NeedsAreNumbers
<1>3. p.missing = 0
  BY <1>1, <1>2
<1>4. ASSUME ~Unbounded(o) PROVE p.taking = ""
  <2>1. o \notin FlagOptions => e - j <= Least(j)
    BY <1>4 DEF MayTake
  <2>2. e - j >= Least(j)
    BY <1>1, <1>3
  <2>3. o \notin FlagOptions => e - j = Least(j)
    BY <1>2, <2>1, <2>2, Between
  <2>4. QED BY <1>4, <2>3 DEF Matches
<1>5. QED BY <1>3, <1>4

\* A parse that is whole reads on.
LEMMA ReadsOnAfterSplit ==
  ASSUME args \in Seq(Argument), NEW n \in 1..Len(args), NEW p \in ParseType,
         Balanced(p), Splits(n - 1), Fine(p),
         p.taking # "" => ~IsWord(args[n]) /\ ~IsMark(args[n])
  PROVE  ReadsOn(ReadArgument(p, args[n]), n)
<1> DEFINE q == ReadArgument(p, args[n])
<1>1. SUFFICES ASSUME Ok(q) PROVE ReadsOn(q, n)
  BY DEF ReadsOn
<1>2. n \in Nat /\ n \in DOMAIN args /\ args[n] \in Argument /\ n > 0
  BY Positions
<1>3. p.missing = 0 /\ ~p.onlyWords /\ ~(p.missing > 0)
  BY NoneMissing DEF Fine
<1>4. LeftOver(p).extras # 0
  BY LeftOverParts
<1>5. CASE IsWord(args[n])
  <2>1. ~IsMark(args[n])
    BY <1>5 DEF IsMark, IsWord
  <2>2. q = LeftOver(p)
    BY <1>3, <1>5, <2>1, ArgumentCases
  <2>3. QED BY <1>1, <1>4, <2>2 DEF Ok
<1>6. CASE IsMark(args[n])
  <2>1. ~IsWord(args[n]) /\ p.taking = ""
    BY <1>6 DEF IsMark, IsWord
  <2>2. q = [p EXCEPT !.onlyWords = TRUE]
    BY <1>3, <1>6, <2>1, ArgumentCases
  <2>3. q.taking = "" /\ q.missing = 0 /\ q.onlyWords
    BY <1>3, <2>1, <2>2, OnlyWordsParts
  <2> HIDE DEF q
  <2>4. QED BY <1>2, <1>6, <2>3 DEF ReadsOn
<1>7. CASE ~IsWord(args[n]) /\ ~IsMark(args[n])
  <2>1. q = ReadOption(Close(p), args[n])
    BY <1>3, <1>7, ArgumentCases
  <2>2. Close(p) \in ParseType
    BY ClosedParts
  <2>3. /\ IsKnown(n)
        /\ args[n].option \in FlagOptions => args[n].kind = "long" \/ Glued(n) = 0
    BY <1>1, <1>2, <1>7, <2>1, <2>2, OptionMendsNothing
  <2>4. MayTake(n, n) /\ Matches(q, n, n)
    BY <2>3, BeginsAfterSplit
  <2> HIDE DEF q
  <2>5. n \in 1..n
    BY Positions
  <2>6. QED BY <2>4, <2>5 DEF ReadsOn
<1>8. QED BY <1>5, <1>6, <1>7

\* What the parser took is a reading as far as it goes.
LEMMA ReadsFurther ==
  ASSUME args \in Seq(Argument), NEW n \in 1..Len(args), NEW p \in ParseType,
         Balanced(p), ReadsOn(p, n - 1)
  PROVE  ReadsOn(ReadArgument(p, args[n]), n)
<1> DEFINE q == ReadArgument(p, args[n])
<1>1. SUFFICES ASSUME Ok(q) PROVE ReadsOn(q, n)
  BY DEF ReadsOn
<1>2. n \in Nat /\ n \in DOMAIN args /\ args[n] \in Argument /\ n > 0 /\ n - 1 \in Nat
  BY Positions
<1>3. Ok(p)
  BY <1>1, <1>2, NothingMends
<1>4. CASE Splits(n - 1) /\ Fine(p) /\ p.taking = ""
  BY <1>4, ReadsOnAfterSplit
<1>5. ASSUME NEW j \in 1..(n - 1), Splits(j - 1), MayTake(j, n - 1), Matches(p, j, n - 1)
      PROVE  ReadsOn(q, n)
  <2>1. /\ j \in Nat /\ j \in DOMAIN args /\ args[j] \in Argument /\ j \in 1..n
        /\ j <= n - 1
    BY <1>2, Positions, ArgumentsBefore
  <2>2. /\ Fine(p) <=> Complete(j, n - 1)
        /\ p.missing = 0 <=> n - 1 - j >= Least(j)
        /\ p.missing > 0 <=> n - 1 - j < Least(j)
        /\ p.missing = 0 /\ p.taking = "" => Fine(p)
        /\ Complete(j, n - 1) <=> p.missing = 0 /\ ~Partial(p)
    BY <1>2, <1>5, <2>1, CompleteIsFine
  <2>3. MayTake(j, n) => ReadsOn(q, n)
    <3>1. SUFFICES ASSUME MayTake(j, n) PROVE ReadsOn(q, n)
      OBVIOUS
    <3>2. Matches(q, j, n)
      BY <1>2, <1>5, <2>1, <3>1, OptionGoesOn
    <3> HIDE DEF q
    <3>3. QED BY <1>5, <2>1, <3>1, <3>2 DEF ReadsOn
  <2>4. Complete(j, n - 1) => Splits(n - 1) /\ Fine(p)
    <3>1. SUFFICES ASSUME Complete(j, n - 1) PROVE Splits(n - 1)
      BY <2>2
    <3>2. Piece(j, n - 1)
      BY <3>1 DEF Piece, Segment
    <3>3. QED BY <1>2, <1>5, <3>2, PieceAdded
  <2>5. CASE p.missing > 0
    <3>1. MayTake(j, n)
      BY <1>2, <1>5, <2>1, <2>2, <2>5, OneMore
    <3>2. QED BY <2>3, <3>1
  <2>6. CASE ~(p.missing > 0) /\ p.taking = ""
    <3>1. p.missing = 0
      BY <1>2, <1>5, <2>1, <2>6, OwnTurn
    <3>2. Splits(n - 1) /\ Fine(p)
      BY <2>2, <2>4, <2>6, <3>1
    <3>3. QED BY <2>6, <3>2, ReadsOnAfterSplit
  <2>7. CASE ~(p.missing > 0) /\ p.taking # "" /\ IsWord(args[n])
    <3>1. Unbounded(args[j].option)
      BY <1>2, <1>5, <2>1, <2>7, OwnTurn
    <3>2. MayTake(j, n)
      BY <1>2, <1>5, <2>1, <2>7, <3>1, OneMore
    <3>3. QED BY <2>3, <3>2
  <2>8. CASE ~(p.missing > 0) /\ p.taking # "" /\ IsMark(args[n])
    <3>1. p.missing = 0
      BY <1>2, <1>5, <2>1, <2>8, OwnTurn
    <3>2. /\ Unbounded(args[j].option) /\ q.taking = ""
          /\ (Fine(q) <=> Complete(j, n - 1)) /\ (Ok(q) <=> Fine(q))
      BY <1>2, <1>5, <2>1, <2>8, <3>1, MarkEnds
    <3>3. Fine(q) /\ Complete(j, n - 1)
      BY <1>1, <3>2
    <3>4. Piece(j, n)
      <4>1. n > j
        BY <1>2, <2>1
      <4>2. QED BY <2>8, <3>2, <3>3, <4>1 DEF Piece, Segment
    <3>5. Splits(n)
      BY <1>2, <1>5, <2>1, <3>4, PieceAdded
    <3> HIDE DEF q
    <3>6. QED BY <3>2, <3>3, <3>5 DEF ReadsOn
  <2>9. CASE /\ ~(p.missing > 0) /\ p.taking # ""
             /\ ~IsWord(args[n]) /\ ~IsMark(args[n])
    <3>1. q = ReadOption(Close(p), args[n])
      <4>1. ~p.onlyWords
        BY <1>5 DEF Matches
      <4>2. QED BY <2>9, <4>1, ArgumentCases
    <3>2. Close(p) \in ParseType /\ (Close(p).broken <=> (p.broken \/ Partial(p)))
      BY ClosedParts
    <3>3. Ok(Close(p))
      BY <1>1, <1>2, <2>9, <3>1, <3>2, OptionMendsNothing
    <3>4. ~Partial(p)
      BY <3>2, <3>3 DEF Ok
    <3>5. p.missing = 0
      BY <1>2, <1>5, <2>1, <2>9, OwnTurn
    <3>6. Splits(n - 1) /\ Fine(p)
      BY <2>2, <2>4, <3>4, <3>5
    <3>7. QED BY <2>9, <3>6, ReadsOnAfterSplit
  <2>10. QED BY <2>5, <2>6, <2>7, <2>8, <2>9, Zenon
<1>6. CASE p.onlyWords /\ p.taking = "" /\ p.missing = 0
  <2>1. ~(p.missing > 0)
    BY <1>6, NoneMissing
  <2>2. q = LeftOver(p)
    BY <1>6, <2>1, ArgumentCases
  <2>3. LeftOver(p).extras # 0
    BY LeftOverParts
  <2>4. QED BY <1>1, <2>2, <2>3 DEF Ok
<1>7. QED BY <1>3, <1>4, <1>5, <1>6 DEF ReadsOn

\* What it says at its end.
LEMMA ReadParts ==
  ASSUME NEW p \in ParseType
  PROVE  LET r == [Close(p) EXCEPT !.broken = Close(p).broken \/ p.missing > 0]
         IN /\ r \in ParseType
            /\ (~r.broken /\ r.extras = 0) <=>
                 (Ok(p) /\ ~Partial(p) /\ ~(p.missing > 0))
<1>1. ASSUME NEW parse \in ParseType, NEW broken \in BOOLEAN
      PROVE  LET r == [parse EXCEPT !.broken = broken]
             IN r \in ParseType /\ r.broken = broken /\ r.extras = parse.extras
  BY DEF ParseType
<1> DEFINE b == Close(p).broken \/ p.missing > 0
           r == [Close(p) EXCEPT !.broken = b]
<1>2. b \in BOOLEAN
  OBVIOUS
<1>3. Close(p) \in ParseType /\ Close(p).extras = p.extras
      /\ (Close(p).broken <=> (p.broken \/ Partial(p)))
  BY ClosedParts
<1> HIDE DEF b
<1>4. r \in ParseType /\ r.broken = b /\ r.extras = p.extras
  BY <1>1, <1>2, <1>3
<1> HIDE DEF r
<1>5. (~r.broken /\ r.extras = 0) <=> (Ok(p) /\ ~Partial(p) /\ ~(p.missing > 0))
  BY <1>3, <1>4, Zenon DEF b, Ok
<1>6. QED BY <1>4, <1>5 DEF r, b

\* The start follows the reading of nothing.
LEMMA StartReads ==
  Balanced(Start) /\ ReadsOn(Start, 0) /\ FollowsReading(Start, 0)
<1>1. \A o \in Options : Start.results[o] = <<>>
  BY DEF Start
<1>2. /\ Start.taking = "" /\ Start.missing = 0 /\ ~Start.onlyWords
      /\ Start.extras = 0 /\ ~Start.broken
  BY DEF Start
<1>3. Fine(Start)
  BY <1>2, PairsAreOptions DEF Fine, Ok, Partial
<1>4. Balanced(Start)
  <2>1. Len(<<>>) % 2 = 0
    OBVIOUS
  <2>2. QED BY <1>1, <2>1, PairsAreOptions DEF Balanced
<1>5. 1..0 = {}
  OBVIOUS
<1>6. QED BY <1>2, <1>3, <1>4, <1>5, NothingSplits DEF ReadsOn, FollowsReading

\* All the way, the parser follows every reading, and what it took is one as far as it goes.
LEMMA ReadsAllTheWay ==
  ASSUME args \in Seq(Argument), NEW p \in [0..Len(args) -> ParseType], p[0] = Start,
         \A k \in 1..Len(args) : p[k] = ReadArgument(p[k - 1], args[k])
  PROVE  \A k \in 0..Len(args) :
           Balanced(p[k]) /\ ReadsOn(p[k], k) /\ FollowsReading(p[k], k)
<1> DEFINE Reads(k) == Balanced(p[k]) /\ ReadsOn(p[k], k) /\ FollowsReading(p[k], k)
           Other == {k \in 0..Len(args) : ~Reads(k)}
<1>1. Len(args) \in Nat
  OBVIOUS
<1>2. SUFFICES ASSUME Other # {} PROVE FALSE
  OBVIOUS
<1>3. PICK k \in Other : \A l \in Other : k <= l
  <2>1. Other \in SUBSET Nat
    BY <1>1
  <2> HIDE DEF Other
  <2>2. QED BY <1>2, <2>1, LeastElement
<1>4. CASE k = 0
  BY <1>3, <1>4, StartReads
<1>5. CASE k # 0
  <2>1. k \in 1..Len(args) /\ k - 1 \in 0..Len(args) /\ ~(k <= k - 1)
    BY <1>1, <1>5
  <2>2. Reads(k - 1)
    BY <1>3, <2>1
  <2>3. p[k - 1] \in ParseType /\ p[k] = ReadArgument(p[k - 1], args[k])
    BY <2>1
  <2>4. args[k] \in Argument
    BY <2>1, Positions
  <2>5. Balanced(p[k])
    BY <2>2, <2>3, <2>4, BalancedStays
  <2>6. ReadsOn(p[k], k)
    BY <2>1, <2>2, <2>3, ReadsFurther
  <2>7. FollowsReading(p[k], k)
    BY <2>1, <2>2, <2>3, FollowsOn
  <2>8. QED BY <2>5, <2>6, <2>7
<1>6. QED BY <1>4, <1>5

\* At the end of all arguments it is whole exactly when they can be split.
LEMMA EndIsSplit ==
  ASSUME args \in Seq(Argument), NEW n \in 1..Len(args), n = Len(args),
         NEW p \in ParseType, FollowsReading(p, n - 1),
         ReadsOn(ReadArgument(p, args[n]), n), FollowsReading(ReadArgument(p, args[n]), n)
  PROVE  LET q == ReadArgument(p, args[n])
         IN (Ok(q) /\ ~Partial(q) /\ ~(q.missing > 0)) <=> Splits(n)
<1> DEFINE q == ReadArgument(p, args[n])
<1>1. n \in Nat /\ n # 0 /\ args[n] \in Argument /\ n \in 1..n
  BY Positions
<1>2. q \in ParseType
  BY <1>1, ArgumentRead
<1>3. ASSUME Splits(n - 1), IsMark(args[n])
      PROVE  Ok(q) /\ ~Partial(q) /\ ~(q.missing > 0)
  <2>1. Fine(p)
    BY <1>3, SplitIsFine
  <2>2. ~(p.missing > 0) /\ p.missing = 0 /\ ~IsWord(args[n]) /\ ~p.onlyWords
    BY <1>3, <2>1, NoneMissing DEF Fine, IsMark, IsWord
  <2>3. ~Partial(p) /\ Ok(p)
    BY <2>1 DEF Fine
  <2>4. CASE p.taking # ""
    <3>1. q = Close(p)
      BY <1>3, <2>2, <2>4, ArgumentCases
    <3>2. /\ q.taking = "" /\ q.missing = 0 /\ q.extras = p.extras
          /\ (q.broken <=> (p.broken \/ Partial(p)))
      BY <3>1, ClosedParts
    <3> HIDE DEF q
    <3>3. QED BY <2>3, <3>2, NoneMissing, PairsAreOptions DEF Ok, Partial
  <2>5. CASE p.taking = ""
    <3>1. q = [p EXCEPT !.onlyWords = TRUE]
      BY <1>3, <2>2, <2>5, ArgumentCases
    <3>2. /\ q.taking = "" /\ q.missing = 0 /\ q.extras = p.extras
          /\ q.broken = p.broken
      BY <2>2, <2>5, <3>1, OnlyWordsParts
    <3> HIDE DEF q
    <3>3. QED BY <2>3, <3>2, NoneMissing, PairsAreOptions DEF Ok, Partial
  <2>6. QED BY <2>4, <2>5
<1> HIDE DEF q
<1>4. ASSUME Splits(n) PROVE Ok(q) /\ ~Partial(q) /\ ~(q.missing > 0)
  <2>1. n \in Nat \ {0}
    BY <1>1
  <2>2. PICK j \in 1..n : Splits(j - 1) /\ Piece(j, n)
    BY <1>4, <2>1, LastPiece
  <2>3. CASE Segment(j, n)
    <3>1. FollowsReading(q, n)
      BY DEF q
    <3>2. Fine(q)
      BY <2>2, <2>3, <3>1 DEF FollowsReading
    <3>3. QED BY <3>2, NoneMissing DEF Fine
  <2>4. CASE IsMark(args[j]) /\ j = n
    BY <1>3, <2>2, <2>4
  <2>5. QED BY <2>2, <2>3, <2>4 DEF Piece
<1>5. ASSUME Ok(q), ~Partial(q), ~(q.missing > 0) PROVE Splits(n)
  <2>1. ReadsOn(q, n)
    BY DEF q
  <2>2. ASSUME NEW j \in 1..n, Splits(j - 1), MayTake(j, n), Matches(q, j, n)
        PROVE  Splits(n)
    <3>1. j \in Nat /\ j \in DOMAIN args /\ args[j] \in Argument /\ j <= n
      BY Positions
    <3>2. q.missing = 0
      BY <1>1, <1>2, <1>5, <2>2, <3>1, OwnTurn
    <3>3. Complete(j, n)
      BY <1>1, <1>2, <1>5, <2>2, <3>1, <3>2, CompleteIsFine
    <3>4. Piece(j, n)
      BY <3>3 DEF Piece, Segment
    <3>5. QED BY <1>1, <2>2, <3>4, PieceAdded
  <2>3. ASSUME Splits(n - 1), IsMark(args[n]) PROVE Splits(n)
    <3>1. Piece(n, n)
      BY <2>3 DEF Piece
    <3>2. QED BY <1>1, <2>3, <3>1, PieceAdded
  <2>4. QED BY <1>5, <2>1, <2>2, <2>3 DEF ReadsOn
<1>6. QED BY <1>4, <1>5 DEF q

\* The parser takes what can be read and nothing else.
LEMMA ReadsReadings ==
  ASSUME args \in Seq(Argument)
  PROVE  ReadsAsGrouped
<1> DEFINE n == Len(args)
<1>1. SUFFICES ASSUME args # <<>>
               PROVE  (~Parse.broken /\ Parse.extras = 0) <=>
                        \E head \in [DOMAIN args -> DOMAIN args] : IsReading(head)
  BY DEF ReadsAsGrouped
<1>2. n \in Nat /\ n \in 1..n /\ n - 1 \in 0..n /\ n \in 0..n /\ DOMAIN args = 1..n
  BY <1>1
<1>3. PICK p \in [0..n -> ParseType] :
        /\ p[0] = Start
        /\ \A k \in 1..n : p[k] = ReadArgument(p[k - 1], args[k])
        /\ Read(args) = [Close(p[n]) EXCEPT
                           !.broken = Close(p[n]).broken \/ p[n].missing > 0]
  BY ReadStepwise
<1>4. \A k \in 0..n : Balanced(p[k]) /\ ReadsOn(p[k], k) /\ FollowsReading(p[k], k)
  BY <1>3, ReadsAllTheWay
<1>5. p[n] = ReadArgument(p[n - 1], args[n])
      /\ p[n] \in ParseType /\ p[n - 1] \in ParseType
  BY <1>2, <1>3
<1>6. (Ok(p[n]) /\ ~Partial(p[n]) /\ ~(p[n].missing > 0)) <=> Splits(n)
  <2>1. FollowsReading(p[n - 1], n - 1) /\ ReadsOn(p[n], n) /\ FollowsReading(p[n], n)
    BY <1>2, <1>4
  <2>2. n \in 1..Len(args) /\ n = Len(args)
    BY <1>2
  <2> HIDE DEF n
  <2>3. QED BY <1>5, <2>1, <2>2, EndIsSplit
<1>7. (~Parse.broken /\ Parse.extras = 0) <=>
        (Ok(p[n]) /\ ~Partial(p[n]) /\ ~(p[n].missing > 0))
  BY <1>3, <1>5, ReadParts DEF Parse
<1>8. Splits(n) <=> \E head \in [DOMAIN args -> DOMAIN args] : IsReading(head)
  BY <1>2, ReadingIsSplit DEF Splits
<1>9. QED BY <1>6, <1>7, <1>8

\* On whatever command line a process is started, with options of every type in every
\* order, the parser of CLI11.hpp takes it, up to the checks of the values, exactly when
\* it can be cut into options with the values they may have.
THEOREM ReadsAlwaysAsGrouped == QosSpec => []ReadsAsGrouped
<1>1. ConfigurationInv => ReadsAsGrouped
  <2>1. ConfigurationInv => args \in Seq(Argument)
    BY DEF ConfigurationInv, DocumentsInv
  <2>2. QED BY <2>1, ReadsReadings
<1>2. QED BY <1>1, AlwaysInv, PTL
=============================================================================
