------------------------- MODULE TopicTableProperties -------------------------
EXTENDS TopicTable

\* Types, and that no row is drawn of a topic the recorder does not know: the map
\* only grows while updateUI runs.
TableTypeOK ==
  /\ recorder \in BOOLEAN /\ there \in BOOLEAN /\ sort_desc \in BOOLEAN
  /\ raced \in BOOLEAN /\ graph \subseteq Topics /\ width \in Windows
  /\ sort_column \in 1..8 /\ headers \in 0..8 /\ requests \in 0..MaxRequests
  /\ ui \in {"idle", "copying", "drawing", "gone"}
  /\ live \subseteq drawn /\ drawn \subseteq Topics
  /\ columns \in [1..8 -> Nat]
  /\ \A t \in DOMAIN topics_info :
       /\ topics_info[t].count \in 0..MaxMessages[t] /\ topics_info[t].age \in 0..Stale
       /\ Len(topics_info[t].intervals) < Max({1, topics_info[t].count})
  /\ ui = "drawing" => ToSet(rows) \subseteq DOMAIN topics_info

\* "Ensure table fits within the maximum width of the terminal window"
\* (terminal_ui.cpp:420): when rows are drawn, every cell fits its column, although
\* the rates are computed again, and the columns fit the window.
CellsFit ==
  ui = "drawing" /\ width >= 10 /\ headers > 0 =>
    /\ TableWidth(columns, headers) <= Inner
    /\ \A i \in DOMAIN rows, c \in 1..headers :
         LET t == rows[i]
         IN columns[c] >= IF c = 1 THEN ClipString(Name[t], columns[1])
                          ELSE IF c = 6 THEN ClipString(TypeText(t), columns[6])
                          ELSE Cell(t, c)

\* What std::sort relies on: at any moment the comparison of sortTopics is a strict
\* total order of the topics, by every column and in both directions.
OrderIsStrict ==
  \A a, b \in DOMAIN topics_info :
    /\ a # b => (Before(a, b) <=> ~Before(b, a))
    /\ ~Before(a, a)
    /\ \A c \in DOMAIN topics_info : Before(a, b) /\ Before(b, c) => Before(a, c)

\* Rows, order and widths agree with each other when they are drawn, although the
\* statistics went on changing since they were computed (updateUI).
TableIsSound == TableTypeOK /\ CellsFit /\ OrderIsStrict

\* An exception ends the process only in a terminal of less than 15 columns, where
\* the bag directory is gone, or when a message cannot be written (updateUI,
\* updateGeneralInfo and clipString).
DiesOnlyOf ==
  [][ui # "gone" /\ ui' = "gone" =>
       \/ width < 15
       \/ recorder /\ ~there
       \/ \E t \in Topics : WriteThrows(t)]_tableVars

\* Every topic that is recorded comes to be in the table, while it is recorded,
\* whatever discovery adds in between (sortTopics).
TopicIsShown ==
  \A t \in Topics :
    t \in DOMAIN topics_info ~> (t \in drawn \/ t \notin DOMAIN topics_info \/ ui = "gone")

\* A topic that falls silent is in the end shown without a rate, or its recording is
\* over (kStaleDataTimeoutSec).
SilentShowsZero ==
  \A t \in Topics : t \in live ~> (t \notin live \/ ~recorder \/ ui = "gone")

\* The table catches up with the topics and with their silence.
TableCatchesUp == TopicIsShown /\ SilentShowsZero

\* README.md:10, "Adaptive display based on terminal window size": drawing does not
\* end the process, however narrow the window is.
AdaptsToWindow == [][~DrawThrows]_tableVars
===============================================================================
