------------------------------ MODULE TopicTable ------------------------------
(***************************************************************************)
(* The table of the terminal UI: the statistics RecorderImpl keeps of each *)
(* topic (topic_information.hpp), and updateUI of terminal_ui.cpp, which   *)
(* every 100 ms takes a key, sorts the topics, fits the columns into the   *)
(* window and draws the rows.                                              *)
(*                                                                         *)
(* Messages, services and updateUI run on the executor thread; discovery   *)
(* adds topics from a thread of its own.  Rows are copied without the lock *)
(* (get_topics_info returns a reference), and the clock runs on between    *)
(* sorting, measuring and drawing.  No handler catches what updateUI and   *)
(* the subscription callbacks throw: it ends the process.                  *)
(***************************************************************************)
EXTENDS Integers, FiniteSets, Sequences, SequencesExt, FiniteSetsExt

CONSTANTS
  Topics,       \* the topics of the system
  Requested,    \* those that are named in the options
  Name,         \* [Topics -> Text]
  Type,         \* [Topics -> Text]
  Bytes,        \* [Topics -> Nat]: the size of a message
  Windows,      \* the widths the terminal may have
  Keys,         \* the keys that are pressed, 1..8
  Window,       \* the messages a rolling mean looks back on (100)
  MaxMessages,  \* bound: [Topics -> Nat], messages of a recording
  MaxRequests   \* bound: recordings

\* A string: its length, the part from the last '/' on (0: there is none, or only
\* the first character is one), and its place in the order of strings.  Topics have
\* different names: they are the keys of the map.
Text == [length : Nat, tail : Nat, rank : Nat]

ASSUME TextAssumption ==
  /\ Name \in [Topics -> Text] /\ Type \in [Topics -> Text] /\ Bytes \in [Topics -> Nat]
  /\ \A s, t \in Topics : Name[s].rank = Name[t].rank => s = t
ASSUME BoundAssumption ==
  /\ Requested \subseteq Topics /\ IsFiniteSet(Requested)
  /\ Windows \subseteq Nat /\ Keys \subseteq 1..8
  /\ Window \in Nat \ {0} /\ MaxRequests \in Nat /\ MaxMessages \in [Topics -> Nat]

VARIABLES
  recorder,     \* recorder_ is not null
  there,        \* its bag directory exists
  topics_info,  \* [a set of topics -> Statistics]
  graph,        \* the topics that have a publisher
  width,        \* of the terminal
  sort_column,  \* g_sort_column
  sort_desc,    \* g_sort_desc
  ui,           \* updateUI: "idle", "copying", "drawing", or the process is "gone"
  raced,        \* a topic was added to the map while it was copied
  rows,         \* sorted_topics_
  columns,      \* column_widths_ as they were before columns were dropped
  headers,      \* the number of columns left
  drawn,        \* the topics in the table on the screen
  live,         \* those it shows with a rate above zero
  requests      \* bounded by MaxRequests

table == <<rows, columns, headers>>
screen == <<drawn, live>>
sorting == <<sort_column, sort_desc>>
tableVars == <<recorder, there, topics_info, graph, width, sorting, ui, raced, table,
               screen, requests>>
-----------------------------------------------------------------------------
(***************************************************************************)
(* Statistics (TopicInformation).  Times are in milliseconds, rates in     *)
(* millihertz.  age is the time since the last message in steps of two     *)
(* seconds, up to the four seconds after which the code calls it stale     *)
(* (more than 3 in whole seconds).                                         *)
(***************************************************************************)
Stale == 2

NoStatistics ==
  [count |-> 0, intervals |-> <<>>, age |-> Stale, type |-> "none"]

\* The last elements of a sequence, as many as a rolling mean takes.
Rolling(s) == SubSeq(s, 1 + Len(s) - Min({Window, Len(s)}), Len(s))

\* Messages of one step are a millisecond apart.
Interval(age) == IF age = 0 THEN 1 ELSE 2000 * age

\* update_statistics
Updated(info) ==
  [info EXCEPT !.count = @ + 1, !.age = 0,
     !.intervals = IF info.count = 0 THEN @ ELSE Rolling(Append(@, Interval(info.age)))]

\* update_publisher_info
Published(info, known) == [info EXCEPT !.type = IF known THEN "known" ELSE "unknown"]

\* Fault: the last rate stays.
IsStaleNever(info) == info.count < 2

\* size(), mean_frequency(), isDataStale() and bandwidth()
Size(t) == topics_info[t].count * Bytes[t]
IsStale(info) == info.count < 2 \/ info.age = Stale
MeanFrequency(info) ==
  IF IsStale(info) THEN 0
  ELSE (1000 * 1000 * Len(info.intervals)) \div FoldLeft(+, 0, info.intervals)
Bandwidth(t) == (MeanFrequency(topics_info[t]) * Bytes[t]) \div 1000

TypeText(t) ==
  CASE topics_info[t].type = "none" -> [length |-> 0, tail |-> 0, rank |-> 0]
    [] topics_info[t].type = "unknown" -> [length |-> 7, tail |-> 0, rank |-> 1]
    [] OTHER -> Type[t]

\* reliability_to_string: "", "Unknown" or "Rel.", in length and in order
Qos(t) ==
  CASE topics_info[t].type = "none" -> [length |-> 0, rank |-> 0]
    [] topics_info[t].type = "unknown" -> [length |-> 7, rank |-> 2]
    [] OTHER -> [length |-> 4, rank |-> 1]

Publishers(t) == IF topics_info[t].type = "known" THEN 1 ELSE 0
-----------------------------------------------------------------------------
(***************************************************************************)
(* How long the texts of the cells are (utils.cpp).                        *)
(***************************************************************************)
Digits[n \in Nat] == IF n < 10 THEN 1 ELSE 1 + Digits[n \div 10]

\* A number of units, rounded to one decimal, ties up: "12.5".
OneDecimal(n, unit) == Digits[(20 * n + unit) \div (20 * unit)] + 2

\* "1.5 KiB", "1.5 kHz", "1.5 kB/s"
FormatMemory(bytes) ==
  IF bytes < 1024 THEN OneDecimal(bytes, 1) + 2
  ELSE 4 + IF bytes < 1024 * 1024 THEN OneDecimal(bytes, 1024)
           ELSE IF bytes < 1024 * 1024 * 1024 THEN OneDecimal(bytes, 1024 * 1024)
           ELSE IF bytes < 1024 * 1024 * 1024 * 1024
                THEN OneDecimal(bytes, 1024 * 1024 * 1024)
           ELSE OneDecimal(bytes, 1024 * 1024 * 1024 * 1024)
RateToString(rate) ==
  IF rate < 1000 * 1000 THEN OneDecimal(rate, 1000) + 3
  ELSE 4 + IF rate < 1000 * 1000 * 1000 THEN OneDecimal(rate, 1000 * 1000)
           ELSE OneDecimal(rate, 1000 * 1000 * 1000)
BandwidthToString(bandwidth) ==
  IF bandwidth < 1000 THEN OneDecimal(bandwidth, 1) + 4
  ELSE 5 + IF bandwidth < 1000 * 1000 THEN OneDecimal(bandwidth, 1000)
           ELSE IF bandwidth < 1000 * 1000 * 1000 THEN OneDecimal(bandwidth, 1000 * 1000)
           ELSE OneDecimal(bandwidth, 1000 * 1000 * 1000)

\* clipString: with less room than for three dots substr() is asked for a piece that
\* begins behind the end of the last name, or for one without end.
Throws(s, max) == s.length > max /\ s.tail > 0 /\ max < 3

ClipString(s, max) ==
  IF s.length <= max THEN s.length ELSE IF max < 3 THEN s.length + 3 ELSE max

\* The cells of a row but for the name and the type.
Cell(t, i) ==
  CASE i = 2 -> Digits[topics_info[t].count]
    [] i = 3 -> RateToString(MeanFrequency(topics_info[t]))
    [] i = 4 -> BandwidthToString(Bandwidth(t))
    [] i = 5 -> FormatMemory(Size(t))
    [] i = 7 -> Digits[Publishers(t)]
    [] i = 8 -> Qos(t).length
-----------------------------------------------------------------------------
(***************************************************************************)
(* sortTopics.                                                             *)
(***************************************************************************)

Key(t) ==
  CASE sort_column = 1 -> Name[t].rank
    [] sort_column = 2 -> topics_info[t].count
    [] sort_column = 3 -> MeanFrequency(topics_info[t])
    [] sort_column = 4 -> Bandwidth(t)
    [] sort_column = 5 -> Size(t)
    [] sort_column = 6 -> TypeText(t).rank
    [] sort_column = 7 -> Publishers(t)
    [] sort_column = 8 -> Qos(t).rank

\* Equal keys: the larger topic first, then by name.
BeforeByDefault(a, b) ==
  \/ Size(a) > Size(b)
  \/ Size(a) = Size(b) /\ Name[a].rank < Name[b].rank

\* The comparison std::sort is given.
Before(a, b) ==
  IF Key(a) = Key(b) THEN BeforeByDefault(a, b)
  ELSE IF sort_desc THEN Key(a) > Key(b) ELSE Key(a) < Key(b)

\* The rates are computed anew for every comparison: when a topic becomes stale in
\* between, any order may come out.
MayTurn(copied) ==
  sort_column \in {3, 4} /\ \E t \in copied : topics_info[t].age = Stale - 1

Orders(copied) ==
  {s \in SetToSeqs(copied) :
     \/ MayTurn(copied)
     \/ \A i, j \in DOMAIN s : i < j => ~Before(s[j], s[i])}
-----------------------------------------------------------------------------
(***************************************************************************)
(* adjustColumnWidths and distributeRemainingWidth.                        *)
(***************************************************************************)
Labels == <<5, 4, 4, 9, 4, 4, 3, 3>>
Inner == width - 2
TopicsMax == (3 * width) \div 10
TypeMax == (2 * width) \div 10

LongestName(copied) == Max({Labels[1]} \cup {Name[t].length : t \in copied})
LongestType(copied) == Max({Labels[6]} \cup {TypeText(t).length : t \in copied})

\* The widths the labels and the cells ask for, the name's and the type's capped.
Wanted(copied) ==
  [i \in 1..8 |->
     IF copied = {} THEN Labels[i]
     ELSE IF i = 1 THEN Min({TopicsMax, LongestName(copied)})
     ELSE IF i = 6 THEN Min({TypeMax, LongestType(copied)})
     ELSE Max({Labels[i]} \cup {Cell(t, i) : t \in copied})]

\* compute_table_width of the first n columns
TableWidth(widths, n) ==
  FoldLeft(+, 0, SubSeq(widths, 1, n)) + (IF n > 0 THEN 3 * (n - 1) ELSE 0) + 3

\* Columns are dropped from the right until the table fits.
Headers(widths) ==
  Max({0} \cup {n \in 1..8 : TableWidth(widths, n) <= Inner})

\* growUpTo
Grown(have, longest, budget) == have + Max({0, Min({longest - have, budget})})

\* Fault: the type is given what the name was given already.
DistributeTwice(widths, n, name, type) ==
  LET remaining == Max({0, Inner - TableWidth(widths, n)})
  IN [i \in 1..8 |->
        IF i = 1 /\ n > 0 THEN Grown(widths[1], name, remaining)
        ELSE IF i = 6 /\ n > 5 THEN Grown(widths[6], type, remaining)
        ELSE widths[i]]

\* The name gets three fifths of what is left when both want more, and the type
\* what the name left.
DistributeRemaining(widths, n, name, type) ==
  LET remaining == Max({0, Inner - TableWidth(widths, n)})
      needsType == n > 5 /\ widths[6] < type
      first == IF n = 0 THEN widths[1]
               ELSE Grown(widths[1], name, IF needsType THEN (remaining * 3) \div 5
                                           ELSE remaining)
      second == IF ~needsType THEN widths[6]
                ELSE Grown(widths[6], type, remaining - (first - widths[1]))
  IN [widths EXCEPT ![1] = first, ![6] = second]
-----------------------------------------------------------------------------
(***************************************************************************)
(* updateUI.                                                               *)
(***************************************************************************)
TableInit ==
  /\ recorder = TRUE /\ there = TRUE
  /\ topics_info = [t \in Requested |-> NoStatistics]
  /\ graph = {} /\ width \in Windows
  /\ sort_column = 5 /\ sort_desc = TRUE
  /\ ui = "idle" /\ raced = FALSE
  /\ rows = <<>> /\ columns = Labels /\ headers = 0
  /\ drawn = {} /\ live = {} /\ requests = 0

\* A key sorts by another column, names and types ascending, or turns the order.
PressKey(k) ==
  /\ ui = "idle"
  /\ sort_column' = k
  /\ sort_desc' = IF k = sort_column THEN ~sort_desc ELSE k \notin {1, 6}
  /\ UNCHANGED <<recorder, there, topics_info, graph, width, ui, raced, table,
                 screen, requests>>

\* Fault: whether there is a recorder is not asked.
GeneralInfoAlways ==
  /\ ui = "idle" /\ ~there
  /\ ui' = "gone"
  /\ UNCHANGED <<recorder, there, topics_info, graph, width, sorting, raced, table,
                 screen, requests>>

\* updateGeneralInfo asks for the free space where the bag is, and that throws when
\* there is nothing.
GeneralInfoThrows ==
  /\ ui = "idle" /\ recorder /\ ~there
  /\ ui' = "gone"
  /\ UNCHANGED <<recorder, there, topics_info, graph, width, sorting, raced, table,
                 screen, requests>>

\* ... get_topics_info brings the publishers up to date, and lets go of the lock.
UpdateUI ==
  /\ ui = "idle" /\ recorder /\ there
  /\ topics_info' = [t \in DOMAIN topics_info |-> Published(topics_info[t], t \in graph)]
  /\ ui' = "copying" /\ raced' = FALSE
  /\ UNCHANGED <<recorder, there, graph, width, sorting, table, screen, requests>>

\* "No topics or services selected."
DrawNothing ==
  /\ ui = "copying" /\ topics_info = <<>>
  /\ ui' = "idle" /\ drawn' = {} /\ live' = {}
  /\ UNCHANGED <<recorder, there, topics_info, graph, width, sorting, raced, table,
                 requests>>

\* sortTopics copies the map, which loses any of it when a topic is added meanwhile.
Layout ==
  /\ ui = "copying" /\ topics_info # <<>>
  /\ \E copied \in SUBSET DOMAIN topics_info :
       /\ raced \/ copied = DOMAIN topics_info
       /\ LET widths == Wanted(copied)
          IN /\ rows' \in Orders(copied)
             /\ headers' = Headers(widths)
             /\ columns' = DistributeRemaining(widths, headers', LongestName(copied),
                                               LongestType(copied))
  /\ ui' = "drawing" /\ raced' = FALSE
  /\ UNCHANGED <<recorder, there, topics_info, graph, width, sorting, screen, requests>>

\* renderTopicRow clips the type with the width of its column even when that was
\* dropped: the memory still has it.
RowThrows(t) == Throws(Name[t], columns[1]) \/ Throws(TypeText(t), columns[6])

DrawThrows ==
  /\ ui = "drawing" /\ \E i \in DOMAIN rows : RowThrows(rows[i])
  /\ ui' = "gone"
  /\ UNCHANGED <<recorder, there, topics_info, graph, width, sorting, raced, table,
                 screen, requests>>

\* The rows and widths that stay behind are set anew before they are read again.
Draw ==
  /\ ui = "drawing" /\ \A i \in DOMAIN rows : ~RowThrows(rows[i])
  /\ ui' = "idle"
  /\ drawn' = ToSet(rows)
  /\ live' = {t \in drawn' : MeanFrequency(topics_info[t]) > 0}
  /\ rows' = <<>> /\ columns' = Labels /\ headers' = 0
  /\ UNCHANGED <<recorder, there, topics_info, graph, width, sorting, raced, requests>>
-----------------------------------------------------------------------------
(***************************************************************************)
(* The recorder.                                                           *)
(***************************************************************************)

\* A message that is neither paused nor throttled: counted, then written.
Receive(t) ==
  /\ ui = "idle" /\ t \in DOMAIN topics_info /\ t \in graph
  /\ topics_info[t].count < MaxMessages[t]
  /\ topics_info' = [topics_info EXCEPT ![t] = Updated(@)]
  /\ UNCHANGED <<recorder, there, graph, width, sorting, raced, table, screen, requests>>

Written(t) == Receive(t) /\ ui' = "idle"
WriteThrows(t) == Receive(t) /\ ui' = "gone"

\* subscribe_topic, on the discovery thread.
Subscribe(t) ==
  /\ ui # "gone" /\ recorder /\ t \in graph \ DOMAIN topics_info
  /\ topics_info' = [s \in DOMAIN topics_info \cup {t} |->
                       IF s = t THEN NoStatistics ELSE topics_info[s]]
  /\ raced' = (ui = "copying")
  /\ UNCHANGED <<recorder, there, graph, width, sorting, ui, table, screen, requests>>

\* A recording is started, in place of the one that runs or not.
StartRecording ==
  /\ ui = "idle" /\ requests < MaxRequests /\ requests' = requests + 1
  /\ recorder' = TRUE /\ there' = TRUE
  /\ topics_info' = [t \in Requested |-> NoStatistics]
  /\ UNCHANGED <<graph, width, sorting, ui, raced, table, screen>>

\* The writer cannot be opened: the recorder is there, and the directory may be.
StartFails ==
  /\ ui = "idle" /\ requests < MaxRequests /\ requests' = requests + 1
  /\ recorder' = TRUE /\ there' \in BOOLEAN
  /\ topics_info' = <<>>
  /\ UNCHANGED <<graph, width, sorting, ui, raced, table, screen>>

StopRecording ==
  /\ ui = "idle" /\ recorder
  /\ recorder' = FALSE /\ topics_info' = <<>>
  /\ UNCHANGED <<there, graph, width, sorting, ui, raced, table, screen, requests>>
-----------------------------------------------------------------------------
(***************************************************************************)
(* The surroundings.                                                       *)
(***************************************************************************)
Advertise(t) ==
  /\ t \notin graph /\ graph' = graph \cup {t}
  /\ UNCHANGED <<recorder, there, topics_info, width, sorting, ui, raced, table,
                 screen, requests>>

Withdraw(t) ==
  /\ t \in graph /\ graph' = graph \ {t}
  /\ UNCHANGED <<recorder, there, topics_info, width, sorting, ui, raced, table,
                 screen, requests>>

\* Two seconds pass.
Tick ==
  /\ \E t \in DOMAIN topics_info : topics_info[t].age < Stale
  /\ topics_info' = [t \in DOMAIN topics_info |->
                       [topics_info[t] EXCEPT !.age = Min({Stale, @ + 1})]]
  /\ UNCHANGED <<recorder, there, graph, width, sorting, ui, raced, table, screen,
                 requests>>

\* ncurses notices a new size when it is asked for a key.
Resize(w) ==
  /\ ui = "idle" /\ w # width /\ width' = w
  /\ UNCHANGED <<recorder, there, topics_info, graph, sorting, ui, raced, table, screen,
                 requests>>

RemoveDirectory ==
  /\ there /\ there' = FALSE
  /\ UNCHANGED <<recorder, topics_info, graph, width, sorting, ui, raced, table, screen,
                 requests>>

Refresh == GeneralInfoThrows \/ UpdateUI \/ DrawNothing \/ Layout \/ DrawThrows \/ Draw

TableNext ==
  \/ Refresh
  \/ \E k \in Keys : PressKey(k)
  \/ \E t \in Topics :
       Written(t) \/ WriteThrows(t) \/ Subscribe(t) \/ Advertise(t) \/ Withdraw(t)
  \/ StartRecording \/ StartFails \/ StopRecording
  \/ Tick \/ RemoveDirectory
  \/ \E w \in Windows : Resize(w)

TableSpec == TableInit /\ [][TableNext]_tableVars

\* What Refresh does to ui: no other step does it, but for a write that fails.
Refreshed ==
  \/ ui = "idle" /\ recorder /\ ui' \in {"copying", "gone"}
  \/ ui = "copying" /\ ui' \in {"drawing", "idle"}
  \/ ui = "drawing" /\ ui' \in {"idle", "gone"}

\* The refresh timer fires and updateUI comes to its end, and time passes.
FairTable == TableSpec /\ WF_ui(Refreshed) /\ WF_tableVars(Tick)
===============================================================================
