------------------------- MODULE BagBrowserProperties -------------------------
(***************************************************************************)
(* What must hold of the local bags and of their transfer.                 *)
(***************************************************************************)
EXTENDS BagBrowser

\* The types of the members, and of the local disk.
TypeOK ==
  /\ process \in {"none", "alive", "killed", "not started", "exited"}
  /\ exit \in [crash : BOOLEAN, code : {0, 1}]
  /\ running \in BOOLEAN /\ target \in Bags \cup {NoBag}
  /\ status \in {"", "starting", "progress", "cancelled", "failed", "complete"}
  /\ progress \in 0..100 /\ bytes \in Nat /\ bytesTotal \in Nat
  /\ readBuffer \in Seq(Lines) /\ Len(readBuffer) <= 1
  /\ recentOutput \in Seq(Lines) /\ failureOutput \in Seq(Lines)
  /\ pipe \in Seq(Lines \cup {Separator}) /\ copied \subseteq Files
  /\ printed \in Seq(Lines) /\ transfers \in 0..MaxTransfers
  /\ disk \in [Bags -> [there : BOOLEAN, files : SUBSET Files]]
  /\ call \in {"none", "listing", "deleting"}
  /\ bag \in Bags \cup {NoBag} /\ todo \subseteq Bags \cup Files
  /\ bags \subseteq Bags /\ requests \in 0..MaxRequests
  /\ always \subseteq Bags /\ ever \subseteq Bags
  /\ told \subseteq Bags /\ dropped \subseteq Bags

\* The cancel button is there exactly while there is a process: no process is
\* forgotten, and none is started beside another.
RunningHasProcess == running <=> process # "none"

LastOf(lines) ==
  SubSeq(lines, 1 + (IF Len(lines) > TailLength THEN Len(lines) - TailLength ELSE 0), Len(lines))

\* "Captured tail of the rsync/ssh output from the failed transfer"
\* (bag_transfer.hpp:48): every line is seen once and in order, in whatever
\* chunks it came and although the last may lack its end.
FailureShowsTail == status = "failed" => failureOutput = LastOf(printed)

\* Past the half, the size that is shown is within a twelfth of the true one,
\* although the percentages are rounded and an estimate is kept until the next is off
\* by more than a twentieth (drift > 0.05, bag_transfer.cpp:253).  The comment there says
\* the opposite, "only adjust if the estimate is within 5% of current" (:249): by that
\* rule a bad first estimate would stay, and this would not hold.
EstimateNearTruth ==
  running /\ progress >= 50 => 12 * Distance(bytesTotal, Size) <= Size

\* What the panel shows of a transfer is true of it.
TransferIsShown ==
  TypeOK /\ RunningHasProcess /\ FailureShowsTail /\ EstimateNearTruth

\* A local bag that lacks files is being transferred or deleted, or the user has been
\* told that one of these failed, or has closed the panel during its transfer (and
\* ~BagTransfer, bag_transfer.cpp:10-16, tells nobody): what success leaves is whole.
NothingLostUntold ==
  \A b \in Bags : disk[b].there /\ disk[b].files # Files =>
    \/ running /\ target = b
    \/ call = "deleting" /\ bag = b
    \/ b \in told
    \/ b \in dropped

\* The list has the bags that were there all the time it took, and none that
\* was not there at any.
ListIsTrue ==
  call = "listing" => always \subseteq bags \cup todo /\ bags \subseteq ever

\* A transfer whose process was started ends.
TransferEnds == process \in {"alive", "killed", "exited"} ~> ~running
===============================================================================
