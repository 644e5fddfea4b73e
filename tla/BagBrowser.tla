------------------------------- MODULE BagBrowser -------------------------------
(***************************************************************************)
(* The browser of the local bags: LocalBagScanner (local_bag_scanner.cpp)  *)
(* lists them, reads their metadata and deletes them while BagTransfer's   *)
(* rsync process fills their directories.  A call of the scanner keeps the *)
(* GUI thread, but the disk changes between its accesses.                  *)
(***************************************************************************)
EXTENDS BagTransfer, FiniteSets

CONSTANTS
  Metadata,     \* the file that makes a directory a bag
  MaxRequests   \* bound: the calls of listBags and deleteBag

ASSUME MetadataAssumption == Metadata \in Files
ASSUME RequestsAssumption == MaxRequests \in Nat

VARIABLES
  call,      \* the call of the scanner the GUI thread is in
  bag,       \* its bag, in deleteBag
  todo,      \* the entries to read, or the files to remove
  bags,      \* in listBags: the bags found
  requests,  \* bound: the calls so far
  always,    \* history: in listBags, the bags that were there since it began
  ever,      \* history: in listBags, those that were there at some time since
  told,      \* history: the bags whose last transfer or deletion was reported
             \* to have failed
  dropped    \* history: those whose last transfer ended with the panel

scanner == <<call, bag, todo, bags, requests>>
reports == <<told, dropped>>
vars == <<transferVars, disk, scanner, always, ever, reports>>

IsBag(b) == disk[b].there /\ Metadata \in disk[b].files
IsBagAfter(b) == disk'[b].there /\ Metadata \in disk'[b].files

\* What changes of the bags while a listing is under way.
Witness ==
  /\ always' = {b \in always : IsBagAfter(b)}
  /\ ever' = IF call = "listing" THEN ever \cup {b \in Bags : IsBagAfter(b)} ELSE ever

Init ==
  /\ TransferInit
  /\ disk \in [Bags -> {Absent, [there |-> TRUE, files |-> Files]}]
  /\ call = "none" /\ bag = NoBag /\ todo = {} /\ bags = {}
  /\ requests = 0 /\ always = {} /\ ever = {} /\ told = {} /\ dropped = {}

Request == call = "none" /\ requests < MaxRequests /\ requests' = requests + 1

Returns ==
  call' = "none" /\ bag' = NoBag /\ todo' = {}

\* Calls that only read: the metadata of one bag, and the directories a path may
\* be completed to.  listBags of what is no directory and deleteBag of what is no
\* bag are refused and change nothing either.
GetBagDetails == call = "none" /\ UNCHANGED vars
CompletePath == call = "none" /\ UNCHANGED vars
-----------------------------------------------------------------------------
(***************************************************************************)
(* listBags.                                                               *)
(***************************************************************************)

\* The path is the directory of the bags, or a bag in it, which stands for it.
\* Entries made from here on may be seen or not.
ListBags ==
  /\ Request /\ call' = "listing" /\ bags' = {}
  /\ \E new \in SUBSET {b \in Bags : ~disk[b].there} :
       todo' = {b \in Bags : disk[b].there} \cup new
  /\ always' = {b \in Bags : IsBag(b)} /\ ever' = always'
  /\ UNCHANGED <<transferVars, disk, bag, reports>>

\* Fault: the listing ends with the first directory that is no bag.
ReadEntryOrEnd(b) ==
  /\ call = "listing" /\ b \in todo
  /\ todo' = IF IsBag(b) THEN todo \ {b} ELSE {}
  /\ bags' = IF IsBag(b) THEN bags \cup {b} ELSE bags
  /\ UNCHANGED <<transferVars, disk, call, bag, requests, always, ever, reports>>

\* readBagInfo: there is a metadata.yaml, and it can be read.
ReadEntry(b) ==
  /\ call = "listing" /\ b \in todo
  /\ todo' = todo \ {b}
  /\ bags' = IF IsBag(b) THEN bags \cup {b} ELSE bags
  /\ UNCHANGED <<transferVars, disk, call, bag, requests, always, ever, reports>>

Listed ==
  /\ call = "listing" /\ todo = {} /\ Returns
  /\ bags' = {} /\ always' = {} /\ ever' = {}
  /\ UNCHANGED <<transferVars, disk, requests, reports>>
-----------------------------------------------------------------------------
(***************************************************************************)
(* deleteBag.                                                              *)
(***************************************************************************)

\* remove_all removes the files it finds ...
DeleteBag(b) ==
  /\ Request /\ IsBag(b) /\ call' = "deleting" /\ bag' = b
  /\ todo' = disk[b].files
  /\ UNCHANGED <<transferVars, disk, bags, always, ever, reports>>

RemoveFile(f) ==
  /\ call = "deleting" /\ f \in todo
  /\ todo' = todo \ {f}
  /\ disk' = [disk EXCEPT ![bag].files = @ \ {f}]
  /\ Witness
  /\ UNCHANGED <<transferVars, call, bag, bags, requests, reports>>

\* ... and then the directory, when it is empty.
Deleted ==
  /\ call = "deleting" /\ todo = {} /\ disk[bag].files = {}
  /\ disk' = [disk EXCEPT ![bag] = Absent]
  /\ Witness /\ told' = told \ {bag} /\ dropped' = dropped \ {bag} /\ Returns
  /\ UNCHANGED <<transferVars, bags, requests>>

\* Fault: the error code is not looked at.
DeleteStopsUntold ==
  /\ call = "deleting" /\ disk[bag].files # {}
  /\ Returns
  /\ UNCHANGED <<transferVars, disk, bags, requests, always, ever, reports>>

\* A file cannot be removed, or one has come in between.
DeleteStops ==
  /\ call = "deleting" /\ disk[bag].files # {}
  /\ told' = told \cup {bag} /\ Returns
  /\ UNCHANGED <<transferVars, disk, bags, requests, always, ever, dropped>>
-----------------------------------------------------------------------------
(***************************************************************************)
(* The transfer, on the same thread and the same disk.                     *)
(***************************************************************************)

\* start(), cancel() and the destructor, which tells nobody what it ends.
Command ==
  /\ call = "none"
  /\ \/ \E b \in Remote :
          Start(b) /\ told' = told \ {b} /\ dropped' = dropped \ {b}
     \/ Cancel /\ UNCHANGED reports
     \/ Destroy /\ dropped' = dropped \cup {target} /\ UNCHANGED told
  /\ Witness /\ UNCHANGED scanner

\* The signals of the process.
Signal ==
  /\ call = "none"
  /\ \/ ReadOutput /\ UNCHANGED reports
     \/ Finish /\ UNCHANGED reports
     \/ Fail /\ told' = told \cup {target} /\ UNCHANGED dropped
  /\ Witness /\ UNCHANGED scanner

RsyncWorks ==
  /\ \/ \E line \in Lines : PrintLine(line)
     \/ EndLine
     \/ \E f \in Files : CopyFile(f)
  /\ Witness /\ UNCHANGED <<scanner, reports>>

RsyncExits == Exit /\ Witness /\ UNCHANGED <<scanner, reports>>

\* The scanner inside a call.
Scanning ==
  \/ Listed \/ Deleted \/ DeleteStops
  \/ \E b \in Bags : ReadEntry(b)
  \/ \E f \in Files : RemoveFile(f)

Next ==
  \/ Command \/ Signal \/ RsyncWorks \/ RsyncExits
  \/ ListBags \/ Scanning \/ GetBagDetails \/ CompletePath
  \/ \E b \in Bags : DeleteBag(b)

Spec == Init /\ [][Next]_vars

\* The GUI thread returns from its calls and takes the signals of the process,
\* and an rsync process ends.
FairSpec == Spec /\ WF_vars(Signal) /\ WF_vars(Scanning) /\ WF_vars(RsyncExits)
===============================================================================
