------------------------ MODULE RecorderNodeProperties ------------------------
(***************************************************************************)
(* What must hold of the recorder process, and the promise about bags that *)
(* it implements.                                                          *)
(***************************************************************************)
EXTENDS RecorderNode

\* The types of the node's and the recorder's members; a metadata.yaml is only in
\* a directory that exists (writer_->close() on a bag that was deleted).
TypeOK ==
  /\ now \in 0..MaxTime
  /\ fs \in FileSystem
  /\ fs.bags \subseteq fs.dirs
  /\ up \in BOOLEAN
  /\ uri \in Output /\ raw \in Output
  /\ config \in Configs
  /\ recorder \in BOOLEAN /\ in_recording \in BOOLEAN /\ paused \in BOOLEAN
  /\ writer_open \in BOOLEAN
  /\ bag_dir \in Output
  /\ running \in Configs
  /\ meddled \in BOOLEAN

\* No complete bag, nor the one being written, lies inside a complete bag:
\* deleting a bag (remove_all) then takes nothing else with it.
NoNestedBags ==
  /\ \A b \in fs.bags : Prefixes(b) \cap fs.bags = {b}
  /\ writer_open => Prefixes(bag_dir.path) \cap fs.bags = {}

\* The bag being written keeps its directory, gets its metadata.yaml only from
\* the end of its own recording, and nothing is placed inside it.
ActiveBagSafe ==
  writer_open =>
    /\ bag_dir.path \in fs.dirs
    /\ \A p \in Existing(fs) : bag_dir.path \in Prefixes(p) => p = bag_dir.path

\* Bags stay apart, so that deleting one never harms another: neither a complete
\* one nor the one that is being written (DeleteBag, resolveOutputDirectory).  One
\* service can break that, and no other: a configuration saved as a metadata.yaml,
\* or into the bag that is being written (handleSaveConfig checks no path).
BagsStayApart == ~meddled => NoNestedBags /\ ActiveBagSafe

\* The node never holds a recorder that is not recording: the handlers make a
\* new RecorderImpl for every recording and drop it with the recording, so the
\* second record() of one object, which RecorderImpl cannot do, never happens.
\* The directory the services report is the one the recorder writes to, and the
\* recorder works with the options the configuration services report.
RecorderMatchesNode ==
  /\ recorder <=> in_recording
  /\ recorder => up /\ uri = bag_dir /\ running = config
  /\ writer_open => recorder

\* A recording always begins in a directory that did not exist before.
FreshDirectory ==
  [][writer_open' /\ (~writer_open \/ bag_dir' # bag_dir)
       => bag_dir'.path \notin Existing(fs)]_vars

\* A client of the TUI that stops a recording and lists bags without saying where
\* finds the new bag, whatever was applied to the recorder in between
\* (terminal_ui.cpp: "the directory containing all bags"), unless a configuration
\* was saved among the bags: a directory of bags that is made a bag is not searched.
StoppedBagListed ==
  [][Stop /\ ~meddled => fs'.bags \ fs.bags \subseteq DefaultListing']_vars

\* The process implements BagArchive: with the state the status topic reports, the
\* bag the writer has open and the complete bags on disk, every step is one of
\* the archive's, or none.
Archive == INSTANCE BagArchive WITH
  phase <- IF ~up THEN "down"
           ELSE IF Recording /\ ~writer_open THEN "failed"
           ELSE StatusState,
  current <- IF writer_open THEN {bag_dir.path} ELSE {},
  archive <- fs.bags,
  meddled <- meddled

ImplementsBagArchive == Archive!ArchiveSpec
===============================================================================
