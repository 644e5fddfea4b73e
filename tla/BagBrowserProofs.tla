--------------------------- MODULE BagBrowserProofs ---------------------------
(***************************************************************************)
(* Proofs about the browser of the local bags, for any bags, files and     *)
(* rsync processes: what is missing is told, the list is true, and what is *)
(* shown of a transfer is what rsync has printed.                          *)
(***************************************************************************)
EXTENDS BagBrowserProperties, SequenceTheorems, WellFoundedInduction, TLAPS

\* The types that matter for the disk.
DiskTypes ==
  /\ disk \in [Bags -> [there : BOOLEAN, files : SUBSET Files]]
  /\ target \in Bags \cup {NoBag} /\ bag \in Bags \cup {NoBag}
  /\ told \subseteq Bags /\ dropped \subseteq Bags

\* Who works on the disk works on a bag.
WorkInv ==
  /\ RunningHasProcess
  /\ process # "none" => target \in Bags
  /\ call = "deleting" => bag \in Bags

\* A bag somebody is deleting, or was told about, or has given up with the panel.
Settled(b) == (call = "deleting" /\ bag = b) \/ b \in told \/ b \in dropped

\* Otherwise what rsync has copied is there, so that it ends well on a whole bag only.
CopyInv ==
  process # "none" /\ disk[target].there /\ ~Settled(target) =>
    /\ process \in {"alive", "killed"} => copied \subseteq disk[target].files
    /\ process = "exited" /\ Succeeded => disk[target].files = Files

\* In a listing, the bags that stayed are still there, and each of those there has been
\* witnessed.
ListInv ==
  call = "listing" =>
    /\ \A b \in always : IsBag(b) /\ b \in bags \cup todo
    /\ \A b \in Bags : IsBag(b) => b \in ever
    /\ bags \subseteq ever /\ always \subseteq Bags
-----------------------------------------------------------------------------
\* Every step is one of these: a command or a signal, with what is told of it, ...
StartStep(b) ==
  call = "none" /\ Start(b) /\ told' = told \ {b} /\ dropped' = dropped \ {b}
    /\ Witness /\ UNCHANGED scanner
CancelStep ==
  call = "none" /\ Cancel /\ UNCHANGED reports /\ Witness /\ UNCHANGED scanner
DestroyStep ==
  call = "none" /\ Destroy /\ dropped' = dropped \cup {target} /\ UNCHANGED told
    /\ Witness /\ UNCHANGED scanner
ReadStep ==
  call = "none" /\ ReadOutput /\ UNCHANGED reports /\ Witness /\ UNCHANGED scanner
FinishStep ==
  call = "none" /\ Finish /\ UNCHANGED reports /\ Witness /\ UNCHANGED scanner
FailStep ==
  call = "none" /\ Fail /\ told' = told \cup {target} /\ UNCHANGED dropped
    /\ Witness /\ UNCHANGED scanner

\* ... a step of rsync, or one of the scanner.
PrintStep(line) == PrintLine(line) /\ Witness /\ UNCHANGED <<scanner, reports>>
EndLineStep == EndLine /\ Witness /\ UNCHANGED <<scanner, reports>>
CopyStep(f) == CopyFile(f) /\ Witness /\ UNCHANGED <<scanner, reports>>

\* The steps above are all there are.
LEMMA EveryStep ==
  [Next]_vars <=>
    \/ CancelStep \/ DestroyStep \/ ReadStep \/ FinishStep \/ FailStep
    \/ EndLineStep \/ RsyncExits \/ ListBags \/ Listed \/ Deleted \/ DeleteStops
    \/ \E b \in Remote : StartStep(b)
    \/ \E line \in Lines : PrintStep(line)
    \/ \E f \in Files : CopyStep(f) \/ RemoveFile(f)
    \/ \E b \in Bags : ReadEntry(b) \/ DeleteBag(b)
    \/ UNCHANGED vars
<1>1. Command <=> CancelStep \/ DestroyStep \/ \E b \in Remote : StartStep(b)
  BY DEF Command, CancelStep, DestroyStep, StartStep
<1>2. Signal <=> ReadStep \/ FinishStep \/ FailStep
  BY DEF Signal, ReadStep, FinishStep, FailStep
<1>3. RsyncWorks <=> \/ EndLineStep
                     \/ \E line \in Lines : PrintStep(line)
                     \/ \E f \in Files : CopyStep(f)
  BY DEF RsyncWorks, EndLineStep, PrintStep, CopyStep
<1>4. GetBagDetails \/ CompletePath => UNCHANGED vars
  BY DEF GetBagDetails, CompletePath
<1>5. QED BY <1>1, <1>2, <1>3, <1>4 DEF Next, Scanning

\* Every step keeps the types,
LEMMA DiskTypesStep == DiskTypes /\ WorkInv /\ [Next]_vars => DiskTypes'
<1> SUFFICES ASSUME DiskTypes, WorkInv, [Next]_vars PROVE DiskTypes'
  OBVIOUS
<1>a. Remote \subseteq Bags
  BY BagsAssumption
<1> USE DEF reports, DiskTypes, WorkInv, transferVars, view, output, rsync, scanner, Returns,
      Request, RunningHasProcess
<1>1. CASE CancelStep BY <1>1, <1>a DEF CancelStep, Cancel
<1>2. CASE DestroyStep BY <1>2, <1>a DEF DestroyStep, Destroy
<1>3. CASE ReadStep BY <1>3, <1>a DEF ReadStep, ReadOutput
<1>4. CASE FinishStep BY <1>4, <1>a DEF FinishStep, Finish, Finishing
<1>5. CASE FailStep BY <1>5, <1>a DEF FailStep, Fail, Finishing
<1>6. CASE EndLineStep BY <1>6, <1>a DEF EndLineStep, EndLine
<1>7. CASE RsyncExits BY <1>7, <1>a DEF RsyncExits, Exit
<1>8. CASE ListBags BY <1>8, <1>a DEF ListBags
<1>9. CASE Listed BY <1>9, <1>a DEF Listed
<1>10. CASE Deleted BY <1>10, <1>a DEF Deleted, Absent
<1>11. CASE DeleteStops BY <1>11, <1>a DEF DeleteStops
<1>12. ASSUME NEW b \in Remote, StartStep(b) PROVE DiskTypes'
  BY <1>12, <1>a DEF StartStep, Start
<1>13. ASSUME NEW line \in Lines, PrintStep(line) PROVE DiskTypes'
  BY <1>13, <1>a DEF PrintStep, PrintLine
<1>14. ASSUME NEW f \in Files, CopyStep(f) PROVE DiskTypes'
  BY <1>14, <1>a DEF CopyStep, CopyFile
<1>15. ASSUME NEW b \in Bags, ReadEntry(b) PROVE DiskTypes'
  BY <1>15, <1>a DEF ReadEntry
<1>16. ASSUME NEW f \in Files, RemoveFile(f) PROVE DiskTypes'
  BY <1>16, <1>a DEF RemoveFile
<1>17. ASSUME NEW b \in Bags, DeleteBag(b) PROVE DiskTypes'
  BY <1>17, <1>a DEF DeleteBag
<1>18. CASE UNCHANGED vars BY <1>18, <1>a DEF vars
<1>19. QED
  BY <1>1, <1>2, <1>3, <1>4, <1>5, <1>6, <1>7, <1>8, <1>9, <1>10, <1>11, <1>12,
     <1>13, <1>14, <1>15, <1>16, <1>17, <1>18, EveryStep

\* that who works does so on a bag,
LEMMA WorkInvStep == DiskTypes /\ WorkInv /\ [Next]_vars => WorkInv'
<1> SUFFICES ASSUME DiskTypes, WorkInv, [Next]_vars PROVE WorkInv'
  OBVIOUS
<1>a. Remote \subseteq Bags
  BY BagsAssumption
<1> USE DEF reports, WorkInv, transferVars, view, output, rsync, scanner, Returns,
      Request, RunningHasProcess
<1>1. CASE CancelStep BY <1>1, <1>a DEF CancelStep, Cancel
<1>2. CASE DestroyStep BY <1>2, <1>a DEF DestroyStep, Destroy
<1>3. CASE ReadStep BY <1>3, <1>a DEF ReadStep, ReadOutput
<1>4. CASE FinishStep BY <1>4, <1>a DEF FinishStep, Finish, Finishing
<1>5. CASE FailStep BY <1>5, <1>a DEF FailStep, Fail, Finishing
<1>6. CASE EndLineStep BY <1>6, <1>a DEF EndLineStep, EndLine
<1>7. CASE RsyncExits BY <1>7, <1>a DEF RsyncExits, Exit
<1>8. CASE ListBags BY <1>8, <1>a DEF ListBags
<1>9. CASE Listed BY <1>9, <1>a DEF Listed
<1>10. CASE Deleted BY <1>10, <1>a DEF Deleted
<1>11. CASE DeleteStops BY <1>11, <1>a DEF DeleteStops
<1>12. ASSUME NEW b \in Remote, StartStep(b) PROVE WorkInv'
  BY <1>12, <1>a DEF StartStep, Start
<1>13. ASSUME NEW line \in Lines, PrintStep(line) PROVE WorkInv'
  BY <1>13, <1>a DEF PrintStep, PrintLine
<1>14. ASSUME NEW f \in Files, CopyStep(f) PROVE WorkInv'
  BY <1>14, <1>a DEF CopyStep, CopyFile
<1>15. ASSUME NEW b \in Bags, ReadEntry(b) PROVE WorkInv'
  BY <1>15, <1>a DEF ReadEntry
<1>16. ASSUME NEW f \in Files, RemoveFile(f) PROVE WorkInv'
  BY <1>16, <1>a DEF RemoveFile
<1>17. ASSUME NEW b \in Bags, DeleteBag(b) PROVE WorkInv'
  BY <1>17, <1>a DEF DeleteBag
<1>18. CASE UNCHANGED vars BY <1>18, <1>a DEF vars
<1>19. QED
  BY <1>1, <1>2, <1>3, <1>4, <1>5, <1>6, <1>7, <1>8, <1>9, <1>10, <1>11, <1>12,
     <1>13, <1>14, <1>15, <1>16, <1>17, <1>18, EveryStep

\* that rsync ends well on a whole bag only,
LEMMA CopyInvStep ==
  DiskTypes /\ WorkInv /\ CopyInv /\ [Next]_vars => CopyInv'
<1> SUFFICES ASSUME DiskTypes, WorkInv, CopyInv, [Next]_vars PROVE CopyInv'
  OBVIOUS
<1>a. Remote \subseteq Bags
  BY BagsAssumption
<1> USE DEF reports, DiskTypes, WorkInv, CopyInv, Settled, transferVars, view, output, rsync,
      scanner, Returns, Request, RunningHasProcess, Succeeded
<1>1. CASE CancelStep BY <1>1, <1>a DEF CancelStep, Cancel
<1>2. CASE DestroyStep BY <1>2, <1>a DEF DestroyStep, Destroy
<1>3. CASE ReadStep BY <1>3, <1>a DEF ReadStep, ReadOutput
<1>4. CASE FinishStep BY <1>4, <1>a DEF FinishStep, Finish, Finishing
<1>5. CASE FailStep BY <1>5, <1>a DEF FailStep, Fail, Finishing
<1>6. CASE EndLineStep BY <1>6, <1>a DEF EndLineStep, EndLine
<1>7. CASE RsyncExits
  <2>1. /\ process' = "exited" /\ process \in {"alive", "killed"}
        /\ UNCHANGED <<target, told, dropped, disk, call, bag>>
    BY <1>7 DEF RsyncExits, Exit
  <2>2. ~exit'.crash /\ exit'.code = 0 => copied = Files
    <3>1. exit' = [crash |-> TRUE, code |-> 0]
            \/ exit' \in [crash : {FALSE}, code : IF copied = Files THEN {0, 1} ELSE {1}]
      BY <1>7 DEF RsyncExits, Exit
    <3>2. CASE exit' = [crash |-> TRUE, code |-> 0]
      BY <3>2
    <3>3. CASE exit' \in [crash : {FALSE}, code : IF copied = Files THEN {0, 1} ELSE {1}]
      BY <3>3
    <3>4. QED BY <3>1, <3>2, <3>3
  <2>3. process # "none" /\ target \in Bags
    BY <2>1
  <2>4. disk[target].files \subseteq Files
    BY <2>3
  <2>5. QED BY <2>1, <2>2, <2>3, <2>4
<1>8. CASE ListBags BY <1>8, <1>a DEF ListBags
<1>9. CASE Listed BY <1>9, <1>a DEF Listed
<1>10. CASE Deleted BY <1>10, <1>a DEF Deleted, Absent
<1>11. CASE DeleteStops BY <1>11, <1>a DEF DeleteStops
<1>12. ASSUME NEW b \in Remote, StartStep(b) PROVE CopyInv'
  BY <1>12, <1>a DEF StartStep, Start
<1>13. ASSUME NEW line \in Lines, PrintStep(line) PROVE CopyInv'
  BY <1>13, <1>a DEF PrintStep, PrintLine
<1>14. ASSUME NEW f \in Files, CopyStep(f) PROVE CopyInv'
  BY <1>14, <1>a DEF CopyStep, CopyFile
<1>15. ASSUME NEW b \in Bags, ReadEntry(b) PROVE CopyInv'
  BY <1>15, <1>a DEF ReadEntry
<1>16. ASSUME NEW f \in Files, RemoveFile(f) PROVE CopyInv'
  BY <1>16, <1>a DEF RemoveFile
<1>17. ASSUME NEW b \in Bags, DeleteBag(b) PROVE CopyInv'
  BY <1>17, <1>a DEF DeleteBag
<1>18. CASE UNCHANGED vars BY <1>18, <1>a DEF vars
<1>19. QED
  BY <1>1, <1>2, <1>3, <1>4, <1>5, <1>6, <1>7, <1>8, <1>9, <1>10, <1>11, <1>12,
     <1>13, <1>14, <1>15, <1>16, <1>17, <1>18, EveryStep

\* and that no bag lacks files untold.
LEMMA LostStep ==
  DiskTypes /\ WorkInv /\ CopyInv /\ NothingLostUntold /\ [Next]_vars => NothingLostUntold'
<1> SUFFICES ASSUME DiskTypes, WorkInv, CopyInv, NothingLostUntold, [Next]_vars
             PROVE  NothingLostUntold'
  OBVIOUS
<1>a. Remote \subseteq Bags
  BY BagsAssumption
<1> USE DEF reports, DiskTypes, WorkInv, NothingLostUntold, transferVars, view, output, rsync,
      scanner, Returns, Request, RunningHasProcess
<1>1. CASE CancelStep BY <1>1, <1>a DEF CancelStep, Cancel
<1>2. CASE DestroyStep BY <1>2, <1>a DEF DestroyStep, Destroy
<1>3. CASE ReadStep BY <1>3, <1>a DEF ReadStep, ReadOutput
<1>4. CASE FinishStep
  <2>1. /\ process = "exited" /\ Succeeded /\ UNCHANGED <<target, told, dropped, disk, call, bag>>
    BY <1>4 DEF FinishStep, Finish, Finishing
  <2>2. SUFFICES ASSUME NEW b \in Bags, disk[b].there, disk[b].files # Files
                 PROVE  Settled(b)
    BY <2>1 DEF Settled
  <2>3. target = b \/ Settled(b)
    BY <2>2 DEF Settled
  <2>4. QED BY <2>1, <2>2, <2>3 DEF CopyInv
<1>5. CASE FailStep BY <1>5, <1>a DEF FailStep, Fail, Finishing
<1>6. CASE EndLineStep BY <1>6, <1>a DEF EndLineStep, EndLine
<1>7. CASE RsyncExits BY <1>7, <1>a DEF RsyncExits, Exit
<1>8. CASE ListBags BY <1>8, <1>a DEF ListBags
<1>9. CASE Listed BY <1>9, <1>a DEF Listed
<1>10. CASE Deleted BY <1>10, <1>a DEF Deleted, Absent
<1>11. CASE DeleteStops BY <1>11, <1>a DEF DeleteStops
<1>12. ASSUME NEW b \in Remote, StartStep(b) PROVE NothingLostUntold'
  BY <1>12, <1>a DEF StartStep, Start
<1>13. ASSUME NEW line \in Lines, PrintStep(line) PROVE NothingLostUntold'
  BY <1>13, <1>a DEF PrintStep, PrintLine
<1>14. ASSUME NEW f \in Files, CopyStep(f) PROVE NothingLostUntold'
  BY <1>14, <1>a DEF CopyStep, CopyFile
<1>15. ASSUME NEW b \in Bags, ReadEntry(b) PROVE NothingLostUntold'
  BY <1>15, <1>a DEF ReadEntry
<1>16. ASSUME NEW f \in Files, RemoveFile(f) PROVE NothingLostUntold'
  BY <1>16, <1>a DEF RemoveFile
<1>17. ASSUME NEW b \in Bags, DeleteBag(b) PROVE NothingLostUntold'
  BY <1>17, <1>a DEF DeleteBag
<1>18. CASE UNCHANGED vars BY <1>18, <1>a DEF vars
<1>19. QED
  BY <1>1, <1>2, <1>3, <1>4, <1>5, <1>6, <1>7, <1>8, <1>9, <1>10, <1>11, <1>12,
     <1>13, <1>14, <1>15, <1>16, <1>17, <1>18, EveryStep

\* Every step keeps what the listing has seen.
LEMMA ListInvStep == ListInv /\ [Next]_vars => ListInv'
<1> SUFFICES ASSUME ListInv, [Next]_vars PROVE ListInv'
  OBVIOUS
<1>a. Witness /\ UNCHANGED <<call, todo, bags>> => ListInv'
  BY DEF ListInv, Witness, IsBag, IsBagAfter
<1> USE DEF reports, scanner, Returns, Request
<1>1. CASE CancelStep BY <1>1, <1>a DEF CancelStep
<1>2. CASE DestroyStep BY <1>2, <1>a DEF DestroyStep
<1>3. CASE ReadStep BY <1>3, <1>a DEF ReadStep
<1>4. CASE FinishStep BY <1>4, <1>a DEF FinishStep
<1>5. CASE FailStep BY <1>5, <1>a DEF FailStep
<1>6. CASE EndLineStep BY <1>6, <1>a DEF EndLineStep
<1>7. CASE RsyncExits BY <1>7, <1>a DEF RsyncExits
<1>8. CASE ListBags BY <1>8, <1>a DEF ListBags, ListInv, IsBag
<1>9. CASE Listed BY <1>9, <1>a DEF Listed, ListInv
<1>10. CASE Deleted BY <1>10, <1>a DEF Deleted, ListInv
<1>11. CASE DeleteStops BY <1>11, <1>a DEF DeleteStops, ListInv
<1>12. ASSUME NEW b \in Remote, StartStep(b) PROVE ListInv'
  BY <1>12, <1>a DEF StartStep
<1>13. ASSUME NEW line \in Lines, PrintStep(line) PROVE ListInv'
  BY <1>13, <1>a DEF PrintStep
<1>14. ASSUME NEW f \in Files, CopyStep(f) PROVE ListInv'
  BY <1>14, <1>a DEF CopyStep
<1>15. ASSUME NEW b \in Bags, ReadEntry(b) PROVE ListInv'
  BY <1>15, <1>a DEF ReadEntry, ListInv, IsBag
<1>16. ASSUME NEW f \in Files, RemoveFile(f) PROVE ListInv'
  BY <1>16, <1>a DEF RemoveFile, ListInv
<1>17. ASSUME NEW b \in Bags, DeleteBag(b) PROVE ListInv'
  BY <1>17, <1>a DEF DeleteBag, ListInv
<1>18. CASE UNCHANGED vars
  <2>1. UNCHANGED <<call, todo, bags, disk, always, ever>>
    BY <1>18 DEF vars
  <2>2. \A b \in Bags : IsBag(b)' <=> IsBag(b)
    BY <2>1 DEF IsBag
  <2>3. QED BY <2>1, <2>2 DEF ListInv, IsBag
<1>19. QED
  BY <1>1, <1>2, <1>3, <1>4, <1>5, <1>6, <1>7, <1>8, <1>9, <1>10, <1>11, <1>12,
     <1>13, <1>14, <1>15, <1>16, <1>17, <1>18, EveryStep
-----------------------------------------------------------------------------
(***************************************************************************)
(* The numbers: what the panel makes of a report, in integers.             *)
(***************************************************************************)

\* rsync rounds down: the percentage of a report is one of a hundred.
LEMMA PercentRounded ==
  ASSUME NEW r \in Lines \ {Notice}
  PROVE  /\ Percent(r) \in 0..100 /\ r \in Nat
         /\ Percent(r) * Size <= r * 100 /\ r * 100 < Percent(r) * Size + Size
<1>1. Size \in Nat \ {0} /\ r \in 1..Size
  BY SizeAssumption DEF Lines
<1> DEFINE h == r * 100
           p == h \div Size
<1>2. h \in Nat /\ h <= Size * 100 /\ r \in Nat
  BY <1>1
<1> HIDE DEF h
<1>3. p \in Nat /\ p * Size <= h /\ h < p * Size + Size
  BY <1>1, <1>2
<1>4. p <= 100
  BY <1>1, <1>2, <1>3
<1>5. QED BY <1>2, <1>3, <1>4 DEF Percent, h

\* Division is by counting how often the divisor fits.
LEMMA Quotient ==
  ASSUME NEW h \in Nat, NEW p \in Nat \ {0}
  PROVE  h \div p \in Nat /\ (h \div p) * p <= h /\ h < (h \div p) * p + p
  OBVIOUS

\* A product is no larger than another only if its factor is.
LEMMA FactorBelow ==
  ASSUME NEW a \in Nat, NEW b \in Nat, NEW p \in Nat \ {0}, p * a < p * b
  PROVE  a < b
<1>1. SUFFICES ASSUME b <= a PROVE FALSE
  OBVIOUS
<1>2. p * b <= p * a
  BY <1>1
<1>3. QED BY <1>2

\* What is estimated from a report is not below the size, and from one past the half no
\* more than a fiftieth above.
LEMMA EstimateOfReport ==
  ASSUME NEW r \in Lines \ {Notice}, Percent(r) # 0
  PROVE  LET e == (r * 100) \div Percent(r)
         IN e \in Nat /\ Size <= e /\ (Percent(r) >= 50 => 50 * e <= 51 * Size)
<1> DEFINE p == Percent(r)
           h == r * 100
           e == h \div p
<1>1. p \in Nat \ {0} /\ h \in Nat /\ p * Size <= h /\ h < p * Size + Size /\ Size \in Nat
  BY PercentRounded, SizeAssumption
<1> HIDE DEF p, h
<1>2. e \in Nat /\ e * p <= h /\ h < e * p + p
  BY <1>1, Quotient
<1> HIDE DEF e
<1>3. p * Size < p * (e + 1)
  BY <1>1, <1>2
<1>4. Size < e + 1
  BY <1>1, <1>2, <1>3, FactorBelow
<1>5. ASSUME p >= 50 PROVE 50 * e <= 51 * Size
  <2>1. p * e <= p * Size + Size
    BY <1>1, <1>2
  <2>2. 50 * (p * e) <= 50 * (p * Size) + 50 * Size
    BY <1>1, <1>2, <2>1
  <2>3. 50 * Size <= p * Size
    BY <1>1, <1>5
  <2>4. p * (50 * e) <= p * (51 * Size)
    BY <1>1, <1>2, <2>2, <2>3
  <2>5. SUFFICES ASSUME 51 * Size < 50 * e PROVE FALSE
    BY <1>1, <1>2
  <2>6. p * (51 * Size) < p * (50 * e)
    <3> DEFINE x == 51 * Size
               y == 50 * e
    <3>1. x \in Nat /\ y \in Nat /\ x < y
      BY <1>1, <1>2, <2>5
    <3> HIDE DEF x, y
    <3>2. p * x < p * y
      BY <1>1, <3>1
    <3>3. QED BY <3>2 DEF x, y
  <2>7. p * (51 * Size) \in Nat /\ p * (50 * e) \in Nat
    BY <1>1, <1>2
  <2>8. QED BY <2>4, <2>6, <2>7
<1>6. e \in Nat /\ Size <= e /\ (p >= 50 => 50 * e <= 51 * Size)
  BY <1>1, <1>2, <1>4, <1>5
<1>7. QED BY <1>6, Zenon DEF e, h, p

\* Within a twelfth of the true size.
Near(total) == 12 * Distance(total, Size) <= Size

\* So the size that is shown past the half is near the true one, whether it is that
\* estimate or an earlier one that was kept.
LEMMA EstimateIsNear ==
  ASSUME NEW r \in Lines \ {Notice}, NEW total \in Nat
  PROVE  Estimate(total, r) \in Nat /\ (Percent(r) >= 50 => Near(Estimate(total, r)))
<1>1. Percent(r) \in Nat /\ Size \in Nat
  BY PercentRounded, SizeAssumption
<1>2. CASE Percent(r) = 0
  BY <1>2 DEF Estimate
<1>3. CASE Percent(r) # 0
  <2> DEFINE e == (r * 100) \div Percent(r)
  <2>1. e \in Nat /\ Size <= e /\ (Percent(r) >= 50 => 50 * e <= 51 * Size)
    BY <1>3, EstimateOfReport
  <2>2. Estimate(total, r) = IF total = 0 THEN IF Percent(r) >= 5 THEN e ELSE 0
                             ELSE IF 20 * Distance(e, total) > total THEN e ELSE total
    BY <1>3 DEF Estimate
  <2> HIDE DEF e
  <2>3. Estimate(total, r) \in Nat
    BY <2>1, <2>2
  <2>4. ASSUME Percent(r) >= 50 PROVE Near(Estimate(total, r))
    <3>1. Percent(r) >= 5 /\ 50 * e <= 51 * Size
      BY <1>1, <2>1, <2>4
    <3>2. CASE Estimate(total, r) = e
      BY <1>1, <2>1, <3>1, <3>2 DEF Near, Distance
    <3>3. CASE Estimate(total, r) = total /\ 20 * Distance(e, total) <= total
      BY <1>1, <2>1, <3>1, <3>3 DEF Near, Distance
    <3>4. Distance(e, total) \in Nat
      BY <2>1 DEF Distance
    <3>5. 20 * Distance(e, total) > total \/ 20 * Distance(e, total) <= total
      BY <3>4
    <3>6. QED BY <2>2, <3>1, <3>2, <3>3, <3>5
  <2>5. QED BY <2>3, <2>4
<1>4. QED BY <1>1, <1>2, <1>3
-----------------------------------------------------------------------------
(***************************************************************************)
(* The output: a fold over what came, whatever the chunks.                 *)
(***************************************************************************)

\* A set of numbers has a least one.
LEMMA LeastElement ==
  ASSUME NEW S \in SUBSET Nat, S # {}
  PROVE  \E x \in S : \A y \in S : x <= y
<1>1. IsWellFoundedOn(OpToRel(<, Nat), Nat)
  BY NatLessThanWellFounded
<1>2. PICK x \in S : \A y \in S : <<y, x>> \notin OpToRel(<, Nat)
  <2>1. \E x \in S : \A y \in S : ~ (<<y, x>> \in OpToRel(<, Nat))
    BY <1>1, WFMin
  <2>2. QED BY <2>1
<1>3. ASSUME NEW y \in S PROVE x <= y
  <2>1. <<y, x>> \in Nat \X Nat
    OBVIOUS
  <2>2. ~ (y < x)
    BY <1>2, <2>1 DEF OpToRel
  <2>3. QED BY <2>2
<1>4. QED BY <1>3

\* A sequence with one line more.
LEMMA OneLineMore ==
  ASSUME NEW s \in Seq(Lines), NEW n \in Nat, Len(s) = n, NEW line \in Lines
  PROVE  /\ Append(s, line) \in Seq(Lines) /\ Len(Append(s, line)) = n + 1
         /\ \A i \in 1..(n + 1) : Append(s, line)[i] = IF i <= n THEN s[i] ELSE line
  OBVIOUS

\* The first k lines of a sequence.
FirstOf(lines, k) == SubSeq(lines, 1, k)

\* Its length and its lines.
LEMMA FirstLines ==
  ASSUME NEW lines \in Seq(Lines), NEW k \in 0..Len(lines)
  PROVE  /\ FirstOf(lines, k) \in Seq(Lines) /\ Len(FirstOf(lines, k)) = k
         /\ \A i \in 1..k : FirstOf(lines, k)[i] = lines[i]
         /\ FirstOf(lines, Len(lines)) = lines
<1>1. \A i \in 1..k : lines[i] \in Lines
  BY ElementOfSeq
<1>2. k \in Int /\ k >= 0 /\ k - 1 + 1 = k
  BY LenProperties
<1>3. /\ SubSeq(lines, 1, k) \in Seq(Lines)
      /\ Len(SubSeq(lines, 1, k)) = IF 1 <= k THEN k - 1 + 1 ELSE 0
      /\ \A i \in 1..(k - 1 + 1) : SubSeq(lines, 1, k)[i] = lines[1 + i - 1]
  BY <1>1, <1>2, SubSeqProperties
<1>4. QED BY <1>2, <1>3, SubSeqFull DEF FirstOf

\* One line more.
LEMMA NextLine ==
  ASSUME NEW lines \in Seq(Lines), NEW k \in 1..Len(lines)
  PROVE  FirstOf(lines, k) = Append(FirstOf(lines, k - 1), lines[k])
<1> DEFINE s == FirstOf(lines, k)
           f == FirstOf(lines, k - 1)
           t == Append(f, lines[k])
<1>1. k \in 0..Len(lines) /\ k - 1 \in 0..Len(lines) /\ k \in Nat /\ k >= 1
  BY LenProperties
<1>2. s \in Seq(Lines) /\ Len(s) = k /\ \A i \in 1..k : s[i] = lines[i]
  BY <1>1, FirstLines
<1>3. f \in Seq(Lines) /\ Len(f) = k - 1 /\ \A i \in 1..(k - 1) : f[i] = lines[i]
  BY <1>1, FirstLines
<1>4. lines[k] \in Lines
  BY ElementOfSeq
<1> HIDE DEF f, s
<1>5. t \in Seq(Lines) /\ Len(t) = k
      /\ \A i \in 1..k : t[i] = IF i <= k - 1 THEN f[i] ELSE lines[k]
  <2> DEFINE j == k - 1
             x == lines[k]
  <2>1. j \in Nat /\ j + 1 = k /\ x \in Lines /\ Len(f) = j
    BY <1>1, <1>3, <1>4
  <2> HIDE DEF j, x
  <2>2. /\ Append(f, x) \in Seq(Lines) /\ Len(Append(f, x)) = j + 1
        /\ \A i \in 1..(j + 1) : Append(f, x)[i] = IF i <= j THEN f[i] ELSE x
    BY <1>3, <2>1, OneLineMore
  <2>3. QED BY <2>1, <2>2 DEF j, x
<1> HIDE DEF t
<1>6. \A i \in 1..Len(s) : s[i] = t[i]
  BY <1>1, <1>2, <1>3, <1>5
<1>7. s = t
  BY <1>2, <1>5, <1>6, SeqEqual
<1>8. QED BY <1>7 DEF s, t, f

\* The lines of n that are not kept.
Dropped(n) == IF n > TailLength THEN n - TailLength ELSE 0

\* The tail that is kept: its length and its lines.
LEMMA TailLines ==
  ASSUME NEW lines \in Seq(Lines), NEW n \in Nat, Len(lines) = n
  PROVE  /\ Dropped(n) \in Nat /\ n - Dropped(n) \in Nat
         /\ LastOf(lines) \in Seq(Lines) /\ Len(LastOf(lines)) = n - Dropped(n)
         /\ \A i \in 1..(n - Dropped(n)) : LastOf(lines)[i] = lines[Dropped(n) + i]
<1> DEFINE d == Dropped(n)
<1>1. n \in Nat /\ d \in Nat /\ d <= n /\ n - d \in Nat
  BY LinesAssumption DEF Dropped
<1>2. \A i \in (1 + d)..n : lines[i] \in Lines
  BY <1>1, ElementOfSeq
<1>3. LastOf(lines) = SubSeq(lines, 1 + d, n)
  BY DEF LastOf, Dropped
<1> HIDE DEF d
<1>4. /\ SubSeq(lines, 1 + d, n) \in Seq(Lines)
      /\ Len(SubSeq(lines, 1 + d, n)) = IF 1 + d <= n THEN n - (1 + d) + 1 ELSE 0
      /\ \A i \in 1..(n - (1 + d) + 1) : SubSeq(lines, 1 + d, n)[i] = lines[(1 + d) + i - 1]
  BY <1>1, <1>2, SubSeqProperties
<1>5. n - (1 + d) + 1 = n - d /\ (IF 1 + d <= n THEN n - (1 + d) + 1 ELSE 0) = n - d
  BY <1>1
<1>6. \A i \in 1..(n - d) : (1 + d) + i - 1 = d + i
  BY <1>1
<1>7. /\ LastOf(lines) \in Seq(Lines) /\ Len(LastOf(lines)) = n - d
      /\ \A i \in 1..(n - d) : LastOf(lines)[i] = lines[d + i]
  BY <1>3, <1>4, <1>5, <1>6
<1>8. QED BY <1>1, <1>7 DEF d

\* Dropping the first line of a tail that has grown too long keeps it the tail.
LEMMA TailGrows ==
  ASSUME NEW lines \in Seq(Lines), NEW line \in Lines
  PROVE  LET recent == Append(LastOf(lines), line)
         IN SubSeq(recent, 1 + (IF Len(recent) > TailLength THEN 1 ELSE 0), Len(recent))
              = LastOf(Append(lines, line))
<1> DEFINE n == Len(lines)
           d == Dropped(n)
           r == LastOf(lines)
           a == Append(r, line)
           m == Len(a)
           c == IF m > TailLength THEN 1 ELSE 0
           s == SubSeq(a, 1 + c, m)
           all == Append(lines, line)
           d2 == Dropped(n + 1)
           t == LastOf(all)
<1>1. /\ n \in Nat /\ d \in Nat /\ n - d \in Nat
      /\ r \in Seq(Lines) /\ Len(r) = n - d
      /\ \A i \in 1..(n - d) : r[i] = lines[d + i]
  <2>1. n \in Nat
    OBVIOUS
  <2>2. QED BY <2>1, TailLines
<1>2. /\ all \in Seq(Lines) /\ Len(all) = n + 1
      /\ \A i \in 1..n : all[i] = lines[i]
      /\ all[n + 1] = line
  OBVIOUS
<1>3. /\ d2 \in Nat /\ (n + 1) - d2 \in Nat
      /\ t \in Seq(Lines) /\ Len(t) = (n + 1) - d2
      /\ \A i \in 1..((n + 1) - d2) : t[i] = all[d2 + i]
  <2>1. n + 1 \in Nat
    BY <1>1
  <2> HIDE DEF all, n
  <2>2. QED BY <1>2, <2>1, TailLines
<1>4. TailLength \in Nat \ {0}
  BY LinesAssumption
<1>5. d2 = d + c /\ m = n - d + 1 /\ c \in {0, 1} /\ m - (1 + c) + 1 = (n + 1) - d2
  <2> HIDE DEF r
  <2>1. m = n - d + 1
    BY <1>1
  <2> HIDE DEF m
  <2> HIDE DEF n
  <2>2. QED BY <1>1, <1>4, <2>1 DEF Dropped
<1> HIDE DEF r, all, d, d2, n, c, t
<1>6. /\ a \in Seq(Lines) /\ \A i \in 1..(n - d) : a[i] = r[i]
      /\ a[n - d + 1] = line
  BY <1>1
<1>7. m \in Nat /\ \A i \in 1..m : a[i] \in Lines
  BY <1>6, ElementOfSeq, LenProperties
<1> HIDE DEF a, m
<1>8. /\ s \in Seq(Lines)
      /\ Len(s) = IF 1 + c <= m THEN m - (1 + c) + 1 ELSE 0
      /\ \A i \in 1..(m - (1 + c) + 1) : s[i] = a[(1 + c) + i - 1]
  <2>1. 1 + c \in Int /\ m \in Int /\ \A i \in (1 + c)..m : a[i] \in Lines
    BY <1>5, <1>7
  <2>2. QED BY <2>1, SubSeqProperties
<1>9. Len(s) = (n + 1) - d2 /\ Len(t) = Len(s)
  BY <1>3, <1>5, <1>7, <1>8
<1>10. ASSUME NEW i \in 1..((n + 1) - d2) PROVE s[i] = t[i]
  <2>1. s[i] = a[c + i] /\ t[i] = all[d2 + i] /\ c + i \in 1..(n - d + 1) /\ i \in Nat
    <3>1. (1 + c) + i - 1 = c + i /\ i \in 1..(m - (1 + c) + 1) /\ c + i \in 1..(n - d + 1)
      BY <1>1, <1>3, <1>5
    <3>2. QED BY <1>3, <1>8, <3>1
  <2>2. CASE c + i = n - d + 1
    <3>1. d2 + i = n + 1
      BY <1>1, <1>3, <1>5, <2>1, <2>2
    <3>2. QED BY <1>2, <1>6, <2>1, <2>2, <3>1
  <2>3. CASE c + i # n - d + 1
    <3>1. c + i \in 1..(n - d) /\ d + (c + i) = d2 + i /\ d2 + i \in 1..n
      BY <1>1, <1>3, <1>5, <2>1, <2>3
    <3>2. a[c + i] = lines[d2 + i]
      BY <1>1, <1>6, <3>1
    <3>3. QED BY <1>2, <2>1, <3>1, <3>2
  <2>4. QED BY <2>2, <2>3
<1> HIDE DEF s
<1>11. s = t
  BY <1>3, <1>8, <1>9, <1>10, SeqEqual
<1>12. QED BY <1>11 DEF s, t, a, r, m, c, all

\* What is known of what was seen after some lines.
Statuses == {"", "starting", "progress", "cancelled", "failed", "complete"}
SeenWell(seen, lines) ==
  /\ seen \in [recent : Seq(Lines), bytes : Nat, progress : 0..100, total : Nat,
               status : Statuses]
  /\ seen.progress >= 50 => Near(seen.total)
  /\ seen.recent = LastOf(lines)
  /\ seen.status \in {status, "progress"}

\* A notice changes the tail only.
LEMMA NoticeSeenWell ==
  ASSUME NEW seen, NEW lines \in Seq(Lines), SeenWell(seen, lines),
         NEW more \in Seq(Lines), LastOf(more) \in Seq(Lines)
  PROVE  SeenWell([seen EXCEPT !.recent = LastOf(more)], more)
  BY DEF SeenWell

\* A report changes everything.
LEMMA ReportSeenWell ==
  ASSUME NEW lines \in Seq(Lines), LastOf(lines) \in Seq(Lines),
         NEW b \in Nat, NEW p \in 0..100, NEW t \in Nat, p >= 50 => Near(t)
  PROVE  SeenWell([recent |-> LastOf(lines), bytes |-> b, progress |-> p, total |-> t,
                   status |-> "progress"], lines)
  BY DEF SeenWell, Statuses

\* It is known of one line more.
LEMMA LineSeenWell ==
  ASSUME NEW seen, NEW lines \in Seq(Lines), SeenWell(seen, lines), NEW line \in Lines
  PROVE  SeenWell(ParseLine(seen, line), Append(lines, line))
<1> DEFINE recent == Append(seen.recent, line)
           tail == SubSeq(recent, 1 + (IF Len(recent) > TailLength THEN 1 ELSE 0), Len(recent))
<1>1. tail = LastOf(Append(lines, line))
  <2>1. seen.recent = LastOf(lines)
    BY DEF SeenWell
  <2>2. QED BY <2>1, TailGrows
<1>2. LastOf(Append(lines, line)) \in Seq(Lines)
  <2>1. Append(lines, line) \in Seq(Lines)
    OBVIOUS
  <2>2. Len(Append(lines, line)) \in Nat
    OBVIOUS
  <2>3. QED BY <2>1, <2>2, TailLines
<1>3. ParseLine(seen, line) =
        IF line = Notice THEN [seen EXCEPT !.recent = tail]
        ELSE [recent |-> tail, bytes |-> line, progress |-> Percent(line),
              total |-> Estimate(seen.total, line), status |-> "progress"]
  BY DEF ParseLine
<1> HIDE DEF tail
<1>4. CASE line = Notice
  <2>1. Append(lines, line) \in Seq(Lines)
    OBVIOUS
  <2>2. SeenWell([seen EXCEPT !.recent = LastOf(Append(lines, line))], Append(lines, line))
    BY <1>2, <2>1, NoticeSeenWell
  <2>3. QED BY <1>1, <1>3, <1>4, <2>2
<1>5. CASE line # Notice
  <2>1. line \in Lines \ {Notice} /\ seen.total \in Nat
    BY <1>5 DEF SeenWell
  <2>2. /\ line \in Nat /\ Percent(line) \in 0..100 /\ Estimate(seen.total, line) \in Nat
        /\ Percent(line) >= 50 => Near(Estimate(seen.total, line))
    BY <2>1, PercentRounded, EstimateIsNear
  <2>3. Append(lines, line) \in Seq(Lines)
    OBVIOUS
  <2>4. SeenWell([recent |-> LastOf(Append(lines, line)), bytes |-> line,
                  progress |-> Percent(line), total |-> Estimate(seen.total, line),
                  status |-> "progress"], Append(lines, line))
    BY <1>2, <2>2, <2>3, ReportSeenWell
  <2>5. QED BY <1>1, <1>3, <1>5, <2>4
<1>6. QED BY <1>4, <1>5

\* What ParseLines has seen after each part of a chunk.
Parses(chunk, n, g) ==
  g = [i \in 0..n |-> IF i = 0 THEN Seen
                      ELSE IF chunk[i] = Separator THEN g[i - 1]
                      ELSE ParseLine(g[i - 1], chunk[i])]

\* There is such a function, for chunks of any length.
LEMMA ParsesExist ==
  ASSUME NEW chunk, NEW m \in Nat
  PROVE  \E g : Parses(chunk, m, g)
<1> DEFINE Bad == {k \in Nat : \A g : ~Parses(chunk, k, g)}
<1>1. ASSUME Bad # {} PROVE FALSE
  <2>1. PICK n \in Bad : \A k \in Bad : n <= k
    <3>1. Bad \subseteq Nat
      OBVIOUS
    <3> HIDE DEF Bad
    <3>2. QED BY <1>1, <3>1, LeastElement
  <2>2. n \in Nat
    BY <2>1
  <2>3. CASE n = 0
    <3>1. Parses(chunk, 0, [i \in 0..0 |-> Seen])
      BY DEF Parses
    <3>2. QED BY <2>1, <2>3, <3>1
  <2>4. CASE n # 0
    <3>1. n - 1 \in Nat /\ n - 1 \notin Bad
      <4> HIDE DEF Bad
      <4>1. QED BY <2>1, <2>2, <2>4
    <3>2. PICK h : Parses(chunk, n - 1, h)
      BY <3>1
    <3> DEFINE g == [i \in 0..n |-> IF i = 0 THEN Seen
                                    ELSE IF chunk[i] = Separator THEN h[i - 1]
                                    ELSE ParseLine(h[i - 1], chunk[i])]
    <3>3. ASSUME NEW i \in 0..n, i # 0 PROVE g[i - 1] = h[i - 1]
      <4>1. i - 1 \in 0..n /\ i - 1 \in 0..(n - 1)
        BY <2>2, <3>3
      <4>2. \A j \in 0..(n - 1) : h[j] = IF j = 0 THEN Seen
                                         ELSE IF chunk[j] = Separator THEN h[j - 1]
                                         ELSE ParseLine(h[j - 1], chunk[j])
        BY <3>2 DEF Parses
      <4>3. QED BY <4>1, <4>2
    <3>4. Parses(chunk, n, g)
      BY <3>3 DEF Parses
    <3>5. QED BY <2>1, <3>4
  <2>5. QED BY <2>3, <2>4
<1>2. m \notin Bad
  BY <1>1
<1>3. QED BY <1>2

\* The lines that have begun in n characters of output, of which each line and each
\* separator is one.
LinesIn(n) == (n + 1) \div 2

\* They alternate.
LEMMA LinesAlternate ==
  ASSUME NEW n \in Nat
  PROVE  /\ LinesIn(n) \in Nat /\ LinesIn(0) = 0 /\ n % 2 \in {0, 1}
         /\ n % 2 = 0 => (n + 1) % 2 = 1 /\ LinesIn(n + 1) = LinesIn(n) + 1
         /\ n % 2 = 1 => (n + 1) % 2 = 0 /\ LinesIn(n + 1) = LinesIn(n)
         /\ \A i \in 1..n : 1 <= LinesIn(i) /\ LinesIn(i) <= LinesIn(n)
  BY DEF LinesIn

\* The output is the lines from the k-th on with their separators, the last one of which
\* may be missing.
Interleaves(out, lines, k) ==
  /\ k \in Nat /\ k + LinesIn(Len(out)) <= Len(lines)
  /\ \A i \in 1..Len(out) :
       out[i] = IF i % 2 = 1 THEN lines[k + LinesIn(i)] ELSE Separator

\* A separator is no line.
LEMMA SeparatorIsNoLine == Separator \notin Lines
  BY SizeAssumption DEF Separator, Lines, Notice

\* In whatever chunks it comes, each line is seen once and in order.
LEMMA ParsedLines ==
  ASSUME NEW lines \in Seq(Lines), NEW k \in Nat,
         NEW chunk \in Seq(Lines \cup {Separator}), Interleaves(chunk, lines, k),
         SeenWell(Seen, FirstOf(lines, k))
  PROVE  SeenWell(ParseLines(chunk), FirstOf(lines, k + LinesIn(Len(chunk))))
<1> DEFINE n == Len(chunk)
           g == CHOOSE f : Parses(chunk, n, f)
           Good(i) == SeenWell(g[i], FirstOf(lines, k + LinesIn(i)))
           Bad == {i \in 0..n : ~Good(i)}
<1>1. n \in Nat /\ Len(lines) \in Nat
  OBVIOUS
<1>2. Parses(chunk, n, g)
  BY <1>1, ParsesExist
<1>3. ParseLines(chunk) = g[n]
  BY DEF ParseLines, Parses
<1>4. /\ k + LinesIn(n) <= Len(lines)
      /\ \A i \in 1..n : chunk[i] = IF i % 2 = 1 THEN lines[k + LinesIn(i)] ELSE Separator
  BY DEF Interleaves
<1> HIDE DEF g
<1>5. \A i \in 0..n : g[i] = IF i = 0 THEN Seen
                             ELSE IF chunk[i] = Separator THEN g[i - 1]
                             ELSE ParseLine(g[i - 1], chunk[i])
  BY <1>2 DEF Parses
<1> HIDE DEF n
<1>6. Good(0)
  <2>1. g[0] = Seen /\ k + LinesIn(0) = k
    <3>1. 0 \in 0..n /\ LinesIn(0) = 0
      BY <1>1 DEF LinesIn
    <3>2. QED BY <1>5, <3>1
  <2>2. QED BY <2>1
<1>7. ASSUME NEW i \in 1..n, Good(i - 1) PROVE Good(i)
  <2> DEFINE j == i - 1
             l == k + LinesIn(i)
  <2>1. j \in Nat /\ j + 1 = i /\ i \in Nat /\ i \in 0..n
    BY <1>1
  <2>2. LinesIn(i) \in Nat /\ 1 <= LinesIn(i) /\ LinesIn(i) <= LinesIn(n) /\ LinesIn(n) \in Nat
    BY <1>1, <2>1, LinesAlternate
  <2>3. l \in 1..Len(lines)
    <3> HIDE DEF j
    <3>1. QED BY <1>1, <1>4, <2>2
  <2>4. g[i] = IF chunk[i] = Separator THEN g[j] ELSE ParseLine(g[j], chunk[i])
    BY <1>5, <2>1
  <2>5. Good(j)
    BY <1>7
  <2> HIDE DEF j, Good, l
  <2>6. CASE i % 2 = 1
    <3>1. j % 2 = 0 /\ k + LinesIn(j) = l - 1
      <4>1. j % 2 = 0
        BY <2>1, <2>6, LinesAlternate
      <4>2. LinesIn(j + 1) = LinesIn(j) + 1 /\ LinesIn(j) \in Nat
        BY <2>1, <4>1, LinesAlternate
      <4>3. QED BY <2>1, <4>1, <4>2 DEF l
    <3>2. chunk[i] = lines[l] /\ lines[l] \in Lines /\ chunk[i] # Separator
      BY <1>4, <2>3, <2>6, ElementOfSeq, SeparatorIsNoLine DEF l
    <3>3. SeenWell(g[j], FirstOf(lines, l - 1))
      BY <2>5, <3>1 DEF Good
    <3>4. FirstOf(lines, l - 1) \in Seq(Lines)
      <4>1. l - 1 \in 0..Len(lines)
        BY <1>1, <2>3
      <4>2. QED BY <4>1, FirstLines
    <3>5. SeenWell(ParseLine(g[j], lines[l]), Append(FirstOf(lines, l - 1), lines[l]))
      BY <3>2, <3>3, <3>4, LineSeenWell
    <3>6. FirstOf(lines, l) = Append(FirstOf(lines, l - 1), lines[l])
      BY <2>3, NextLine
    <3>7. QED BY <2>4, <3>2, <3>5, <3>6 DEF Good, l
  <2>7. CASE i % 2 # 1
    <3>1. k + LinesIn(j) = k + LinesIn(i)
      <4>1. j % 2 = 1
        BY <2>1, <2>7, LinesAlternate
      <4>2. LinesIn(j + 1) = LinesIn(j)
        BY <2>1, <4>1, LinesAlternate
      <4>3. QED BY <2>1, <4>2
    <3>2. chunk[i] = Separator
      BY <1>4, <2>7
    <3>3. QED BY <2>4, <2>5, <3>1, <3>2 DEF Good
  <2>8. QED BY <2>6, <2>7
<1>8. Bad = {}
  <2>1. SUFFICES ASSUME Bad # {} PROVE FALSE
    OBVIOUS
  <2>2. PICK i \in Bad : \A j \in Bad : i <= j
    <3>1. Bad \in SUBSET Nat
      BY <1>1
    <3> HIDE DEF Bad
    <3>2. QED BY <2>1, <3>1, LeastElement
  <2> HIDE DEF Good
  <2>3. i \in 0..n /\ ~Good(i)
    BY <2>2
  <2>4. i # 0
    BY <1>6, <2>3
  <2>5. i \in 1..n /\ i - 1 \in 0..n /\ ~(i <= i - 1)
    BY <1>1, <2>3, <2>4
  <2>6. Good(i - 1)
    BY <2>2, <2>5
  <2>7. QED BY <1>7, <2>3, <2>5, <2>6
<1>9. n \in 0..n
  BY <1>1
<1>10. Good(n)
  BY <1>8, <1>9
<1>11. QED BY <1>3, <1>10 DEF n
-----------------------------------------------------------------------------
(***************************************************************************)
(* The stream: what rsync has printed is parsed, or waits in readBuffer_   *)
(* or in the pipe.                                                         *)
(***************************************************************************)

\* The output nobody has parsed, and the lines that were.
Out == readBuffer \o pipe
ReadSoFar == Len(printed) - LinesIn(Len(Out))

\* What is printed and not parsed are the last lines, and the tail is of those before.
StreamInv ==
  /\ readBuffer \in Seq(Lines) /\ Len(readBuffer) <= 1
  /\ pipe \in Seq(Lines \cup {Separator}) /\ printed \in Seq(Lines)
  /\ Interleaves(Out, printed, ReadSoFar)
  /\ recentOutput = LastOf(FirstOf(printed, ReadSoFar))

\* The numbers of the view, and the report of a failure.
ViewInv ==
  /\ progress \in 0..100 /\ bytes \in Nat /\ bytesTotal \in Nat /\ status \in Statuses
  /\ running \in BOOLEAN /\ failureOutput \in Seq(Lines)
  /\ running /\ progress >= 50 => Near(bytesTotal)
  /\ status = "failed" => process = "none" /\ failureOutput = LastOf(printed)

\* The output is a sequence, and its lines and those that were parsed are all there are.
LEMMA OutType ==
  ASSUME StreamInv
  PROVE  /\ Out \in Seq(Lines \cup {Separator}) /\ Len(Out) \in Nat /\ Len(printed) \in Nat
         /\ ReadSoFar \in Nat /\ ReadSoFar + LinesIn(Len(Out)) = Len(printed)
<1>1. readBuffer \in Seq(Lines \cup {Separator}) /\ pipe \in Seq(Lines \cup {Separator})
  BY DEF StreamInv
<1>2. Out \in Seq(Lines \cup {Separator}) /\ Len(Out) \in Nat /\ Len(printed) \in Nat
  BY <1>1 DEF Out, StreamInv
<1>3. LinesIn(Len(Out)) \in Nat /\ ReadSoFar \in Nat
  BY <1>2, LinesAlternate DEF StreamInv, Interleaves
<1> DEFINE l == LinesIn(Len(Out))
           m == Len(printed)
<1>4. ReadSoFar = m - l /\ m \in Nat /\ l \in Nat
  BY <1>2, <1>3 DEF ReadSoFar
<1> HIDE DEF l, m
<1>5. ReadSoFar + l = m
  BY <1>4
<1>6. QED BY <1>2, <1>3, <1>5 DEF l, m

\* It grows at the end of the pipe.
LEMMA OutGrows ==
  ASSUME NEW b \in Seq(Lines \cup {Separator}), NEW p \in Seq(Lines \cup {Separator}),
         NEW c \in Lines \cup {Separator}
  PROVE  b \o Append(p, c) = Append(b \o p, c)
  OBVIOUS

\* The tail of nothing.
LEMMA NothingRead ==
  /\ <<>> \in Seq(Lines) /\ Len(<<>>) = 0 /\ LastOf(FirstOf(<<>>, 0)) = <<>>
  /\ Interleaves(<<>>, <<>>, 0)
<1>1. <<>> \in Seq(Lines) /\ Len(<<>>) = 0 /\ LinesIn(0) = 0
  BY LinesAlternate, EmptySeq
<1>2. FirstOf(<<>>, 0) = <<>>
  BY SubSeqEmpty DEF FirstOf
<1>3. LastOf(<<>>) = <<>>
  <2>1. LastOf(<<>>) = SubSeq(<<>>, 1, 0)
    BY <1>1, LinesAssumption DEF LastOf
  <2>2. QED BY <2>1, SubSeqEmpty
<1>4. Interleaves(<<>>, <<>>, 0)
  BY <1>1 DEF Interleaves
<1>5. QED BY <1>1, <1>2, <1>3, <1>4

\* Whether rsync is at the start of a line is the parity of the output.
LEMMA LineStart ==
  ASSUME StreamInv
  PROVE  AtLineStart <=> Len(Out) % 2 = 0
<1> DEFINE n == Len(Out)
<1>1. n \in Nat /\ Out \in Seq(Lines \cup {Separator}) /\ DOMAIN Out = 1..n
  BY OutType
<1>2. AtLineStart <=> (n # 0 => Out[n] = Separator)
  BY <1>1 DEF AtLineStart, Out
<1>3. n # 0 => Out[n] = IF n % 2 = 1 THEN printed[ReadSoFar + LinesIn(n)] ELSE Separator
  BY <1>1 DEF StreamInv, Interleaves
<1>4. n # 0 /\ n % 2 = 1 => printed[ReadSoFar + LinesIn(n)] # Separator
  <2>1. ASSUME n # 0 PROVE printed[ReadSoFar + LinesIn(n)] \in Lines
    <3>1. LinesIn(n) \in Nat /\ 1 <= LinesIn(n)
      <4>1. n \in 1..n
        BY <1>1, <2>1
      <4>2. QED BY <1>1, <4>1, LinesAlternate
    <3>2. ReadSoFar + LinesIn(n) \in 1..Len(printed)
      <4> HIDE DEF n
      <4>1. ReadSoFar \in Nat /\ ReadSoFar + LinesIn(n) = Len(printed) /\ Len(printed) \in Nat
        BY OutType DEF n
      <4>2. QED BY <3>1, <4>1
    <3>3. QED BY <3>2, ElementOfSeq DEF StreamInv
  <2>2. QED BY <2>1, SeparatorIsNoLine
<1>5. n % 2 \in {0, 1} /\ (n = 0 => n % 2 = 0)
  BY <1>1
<1> HIDE DEF n
<1>6. AtLineStart <=> n % 2 = 0
  BY <1>2, <1>3, <1>4, <1>5
<1>7. QED BY <1>6 DEF n

\* rsync prints a line,
LEMMA LinePrinted ==
  ASSUME StreamInv, NEW line \in Lines, PrintLine(line)
  PROVE  StreamInv'
<1> DEFINE n == Len(Out)
           m == Len(printed)
           k == ReadSoFar
<1>1. /\ n \in Nat /\ m \in Nat /\ k \in Nat /\ k + LinesIn(n) = m
      /\ Out \in Seq(Lines \cup {Separator})
  BY OutType
<1>2. n % 2 = 0
  BY LineStart DEF PrintLine
<1>3. LinesIn(n) \in Nat /\ (n + 1) % 2 = 1 /\ LinesIn(n + 1) = LinesIn(n) + 1
  BY <1>1, <1>2, LinesAlternate
<1>4. \A i \in 1..n : 1 <= LinesIn(i) /\ LinesIn(i) <= LinesIn(n) /\ LinesIn(i) \in Nat
  <2>1. \A i \in 1..n : i \in Nat
    BY <1>1
  <2>2. QED BY <1>1, <2>1, LinesAlternate
<1>5. readBuffer' = readBuffer /\ pipe' = Append(pipe, line) /\ printed' = Append(printed, line)
      /\ recentOutput' = recentOutput
  BY DEF PrintLine, output
<1>6. Out' = Append(Out, line)
  <2>1. readBuffer \in Seq(Lines \cup {Separator}) /\ pipe \in Seq(Lines \cup {Separator})
    BY DEF StreamInv
  <2>2. QED BY <1>5, <2>1, OutGrows DEF Out
<1>7. /\ Len(Out') = n + 1 /\ \A i \in 1..n : Out'[i] = Out[i]
      /\ Out'[n + 1] = line
  <2>1. line \in Lines \cup {Separator}
    OBVIOUS
  <2>2. QED BY <1>1, <1>6, <2>1
<1>8. /\ printed' \in Seq(Lines) /\ Len(printed') = m + 1
      /\ \A i \in 1..m : printed'[i] = printed[i]
      /\ printed'[m + 1] = line
  BY <1>5 DEF StreamInv
<1> HIDE DEF n, m, k
<1>9. ReadSoFar' = k
  <2>1. ReadSoFar' = (m + 1) - LinesIn(n + 1)
    BY <1>7, <1>8 DEF ReadSoFar, LinesIn
  <2>2. QED BY <1>1, <1>3, <2>1
<1>10. \A i \in 1..n : Out[i] = IF i % 2 = 1 THEN printed[k + LinesIn(i)] ELSE Separator
  BY DEF StreamInv, Interleaves, n, k
<1>11. ASSUME NEW i \in 1..(n + 1)
       PROVE  Out'[i] = IF i % 2 = 1 THEN printed'[k + LinesIn(i)] ELSE Separator
  <2>1. CASE i = n + 1
    <3>1. k + LinesIn(i) = m + 1 /\ i % 2 = 1
      BY <1>1, <1>3, <2>1
    <3>2. QED BY <1>7, <1>8, <2>1, <3>1
  <2>2. CASE i # n + 1
    <3>1. i \in 1..n
      BY <1>1, <2>2
    <3>2. k + LinesIn(i) \in 1..m
      BY <1>1, <1>3, <1>4, <3>1
    <3>3. QED BY <1>7, <1>8, <1>10, <3>1, <3>2
  <2>3. QED BY <2>1, <2>2
<1>12. Interleaves(Out', printed', k)
  <2>1. k + LinesIn(n + 1) <= m + 1
    BY <1>1, <1>3
  <2>2. QED BY <1>1, <1>7, <1>8, <1>11, <2>1 DEF Interleaves
<1>13. FirstOf(printed', k) = FirstOf(printed, k)
  <2>1. k \in 0..m /\ k \in 0..(m + 1) /\ 1..k \subseteq 1..m
    BY <1>1, <1>3
  <2> DEFINE s == FirstOf(printed', k)
             t == FirstOf(printed, k)
  <2>2. s \in Seq(Lines) /\ Len(s) = k /\ \A i \in 1..k : s[i] = printed'[i]
    BY <1>8, <2>1, FirstLines
  <2>3. t \in Seq(Lines) /\ Len(t) = k /\ \A i \in 1..k : t[i] = printed[i]
    BY <2>1, FirstLines DEF StreamInv, m
  <2> HIDE DEF s, t
  <2>4. s = t
    BY <1>8, <2>1, <2>2, <2>3, SeqEqual
  <2>5. QED BY <2>4 DEF s, t
<1>14. pipe' \in Seq(Lines \cup {Separator})
  BY <1>5 DEF StreamInv
<1>15. recentOutput = LastOf(FirstOf(printed, k))
  BY DEF StreamInv, k
<1>16. /\ Interleaves(Out, printed, ReadSoFar)'
       /\ (recentOutput = LastOf(FirstOf(printed, ReadSoFar)))'
  BY <1>5, <1>9, <1>12, <1>13, <1>15 DEF Interleaves, FirstOf, LastOf, LinesIn
<1>17. QED BY <1>5, <1>8, <1>14, <1>16 DEF StreamInv

\* or its separator.
LEMMA LineEnded ==
  ASSUME StreamInv, EndLine
  PROVE  StreamInv'
<1> DEFINE n == Len(Out)
           m == Len(printed)
           k == ReadSoFar
<1>1. /\ n \in Nat /\ m \in Nat /\ k \in Nat /\ k + LinesIn(n) = m
      /\ Out \in Seq(Lines \cup {Separator})
  BY OutType
<1>2. n % 2 = 1
  <2>1. n % 2 # 0
    BY LineStart DEF EndLine
  <2>2. QED BY <1>1, <2>1
<1>3. LinesIn(n) \in Nat /\ (n + 1) % 2 = 0 /\ LinesIn(n + 1) = LinesIn(n)
  BY <1>1, <1>2, LinesAlternate
<1>4. readBuffer' = readBuffer /\ pipe' = Append(pipe, Separator) /\ printed' = printed
      /\ recentOutput' = recentOutput
  BY DEF EndLine, output
<1>5. Out' = Append(Out, Separator)
  <2>1. readBuffer \in Seq(Lines \cup {Separator}) /\ pipe \in Seq(Lines \cup {Separator})
    BY DEF StreamInv
  <2>2. QED BY <1>4, <2>1, OutGrows DEF Out
<1>6. /\ Len(Out') = n + 1 /\ \A i \in 1..n : Out'[i] = Out[i]
      /\ Out'[n + 1] = Separator
  BY <1>1, <1>5
<1> HIDE DEF n, m, k
<1>7. ReadSoFar' = k
  <2>1. ReadSoFar' = m - LinesIn(n + 1)
    BY <1>4, <1>6 DEF ReadSoFar, LinesIn, m
  <2>2. QED BY <1>1, <1>3, <2>1
<1>8. \A i \in 1..n : Out[i] = IF i % 2 = 1 THEN printed[k + LinesIn(i)] ELSE Separator
  BY DEF StreamInv, Interleaves, n, k
<1>9. ASSUME NEW i \in 1..(n + 1)
      PROVE  Out'[i] = IF i % 2 = 1 THEN printed[k + LinesIn(i)] ELSE Separator
  <2>1. CASE i = n + 1
    BY <1>3, <1>6, <2>1
  <2>2. CASE i # n + 1
    <3>1. i \in 1..n
      BY <1>1, <2>2
    <3>2. QED BY <1>6, <1>8, <3>1
  <2>3. QED BY <2>1, <2>2
<1>10. Interleaves(Out', printed, k)
  <2>1. k + LinesIn(n + 1) <= m
    BY <1>1, <1>3
  <2>2. QED BY <1>1, <1>6, <1>9, <2>1 DEF Interleaves, m
<1>11. pipe' \in Seq(Lines \cup {Separator})
  BY <1>4 DEF StreamInv
<1>12. recentOutput = LastOf(FirstOf(printed, k))
  BY DEF StreamInv, k
<1>13. /\ Interleaves(Out, printed, ReadSoFar)'
       /\ (recentOutput = LastOf(FirstOf(printed, ReadSoFar)))'
  BY <1>4, <1>7, <1>10, <1>12 DEF Interleaves, FirstOf, LastOf, LinesIn
<1>14. QED BY <1>4, <1>11, <1>13 DEF StreamInv

\* What is shown while rsync runs is what is known after the lines read so far.
LEMMA SeenNow ==
  ASSUME StreamInv, ViewInv, running
  PROVE  SeenWell(Seen, FirstOf(printed, ReadSoFar))
<1> DEFINE first == FirstOf(printed, ReadSoFar)
<1>1. first \in Seq(Lines) /\ Len(first) \in Nat
  <2>1. ReadSoFar \in 0..Len(printed)
    <3> DEFINE l == LinesIn(Len(Out))
    <3>1. l \in Nat /\ ReadSoFar \in Nat /\ ReadSoFar + l = Len(printed)
      BY OutType, LinesAlternate
    <3> HIDE DEF l
    <3>2. QED BY <3>1
  <2>2. printed \in Seq(Lines)
    BY DEF StreamInv
  <2> HIDE DEF first
  <2>3. first \in Seq(Lines)
    BY <2>1, <2>2, FirstLines DEF first
  <2>4. QED BY <2>3
<1>2. recentOutput = LastOf(first) /\ recentOutput \in Seq(Lines)
  <2> HIDE DEF first
  <2>1. recentOutput = LastOf(first)
    BY DEF StreamInv, first
  <2>2. QED BY <1>1, <2>1, TailLines
<1>3. Seen \in [recent : Seq(Lines), bytes : Nat, progress : 0..100, total : Nat,
                status : Statuses]
  BY <1>2 DEF Seen, ViewInv
<1>4. Seen.progress >= 50 => Near(Seen.total)
  BY DEF Seen, ViewInv
<1>5. Seen.recent = LastOf(first) /\ Seen.status \in {status, "progress"}
  BY <1>2 DEF Seen
<1>6. QED BY <1>3, <1>4, <1>5 DEF SeenWell

\* What is parsed of the output is up to its last separator.
LEMMA LastSeparator ==
  ASSUME StreamInv
  PROVE  LET ends == {0} \cup {i \in DOMAIN Out : Out[i] = Separator}
             last == CHOOSE i \in ends : \A j \in ends : j <= i
         IN last = 2 * (Len(Out) \div 2)
<1> DEFINE n == Len(Out)
           ends == {0} \cup {i \in DOMAIN Out : Out[i] = Separator}
           last == CHOOSE i \in ends : \A j \in ends : j <= i
           d == 2 * (n \div 2)
<1>1. /\ n \in Nat /\ DOMAIN Out = 1..n /\ printed \in Seq(Lines)
      /\ ReadSoFar \in Nat /\ ReadSoFar + LinesIn(n) = Len(printed) /\ Len(printed) \in Nat
  BY OutType DEF StreamInv
<1>2. \A i \in 1..n : Out[i] = IF i % 2 = 1 THEN printed[ReadSoFar + LinesIn(i)] ELSE Separator
  BY DEF StreamInv, Interleaves
<1>3. ends = {0} \cup {i \in 1..n : Out[i] = Separator}
  BY <1>1
<1> HIDE DEF n, ends
<1>4. d \in Nat /\ d % 2 = 0 /\ d <= n /\ n <= d + 1
  BY <1>1
<1>5. \A i \in 1..n : i % 2 = 1 => Out[i] # Separator
  <2>1. SUFFICES ASSUME NEW i \in 1..n, i % 2 = 1 PROVE printed[ReadSoFar + LinesIn(i)] \in Lines
    BY <1>2, SeparatorIsNoLine
  <2>2. LinesIn(i) \in Nat /\ 1 <= LinesIn(i) /\ LinesIn(i) <= LinesIn(n) /\ LinesIn(n) \in Nat
    <3>1. i \in Nat
      BY <1>1
    <3>2. QED BY <1>1, <3>1, LinesAlternate
  <2>3. ReadSoFar + LinesIn(i) \in 1..Len(printed)
    BY <1>1, <2>2
  <2>4. QED BY <1>1, <2>3, ElementOfSeq
<1> HIDE DEF d
<1>6. d \in ends
  BY <1>1, <1>2, <1>3, <1>4
<1>7. \A j \in ends : j \in Nat /\ j <= d
  <2>1. SUFFICES ASSUME NEW j \in 1..n, Out[j] = Separator PROVE j <= d
    BY <1>1, <1>3, <1>4
  <2>2. j % 2 # 1
    BY <1>5, <2>1
  <2>3. j \in Nat /\ j <= n
    BY <1>1
  <2>4. (d + 1) % 2 = 1
    BY <1>4, LinesAlternate
  <2>5. j <= d \/ j = d + 1
    <3>1. n \in Nat /\ d \in Nat /\ n <= d + 1
      BY <1>1, <1>4
    <3>2. QED BY <2>3, <3>1
  <2>6. QED BY <2>2, <2>4, <2>5
<1>8. last \in ends /\ \A j \in ends : j <= last
  BY <1>6, <1>7
<1>9. last \in Nat /\ last <= d /\ d <= last
  BY <1>6, <1>7, <1>8
<1> HIDE DEF last
<1>10. last = d
  BY <1>4, <1>9
<1>11. QED BY <1>10 DEF last, ends, d, n

\* The part of the output up to there, and the rest.
LEMMA OutputParts ==
  ASSUME StreamInv
  PROVE  LET n == Len(Out)
             d == 2 * (n \div 2)
             chunk == SubSeq(Out, 1, d)
             rest == SubSeq(Out, d + 1, n)
             k == ReadSoFar + LinesIn(d)
         IN /\ chunk \in Seq(Lines \cup {Separator}) /\ Len(chunk) = d
            /\ Interleaves(chunk, printed, ReadSoFar)
            /\ rest \in Seq(Lines) /\ Len(rest) <= 1
            /\ Interleaves(rest, printed, k)
            /\ k = Len(printed) - LinesIn(Len(rest))
<1> DEFINE n == Len(Out)
           d == 2 * (n \div 2)
           m == Len(printed)
           k0 == ReadSoFar
           k == k0 + LinesIn(d)
<1>1. /\ n \in Nat /\ Out \in Seq(Lines \cup {Separator}) /\ printed \in Seq(Lines)
      /\ k0 \in Nat /\ k0 + LinesIn(n) = m /\ m \in Nat
  BY OutType DEF StreamInv
<1>2. \A i \in 1..n : Out[i] = IF i % 2 = 1 THEN printed[k0 + LinesIn(i)] ELSE Separator
  BY DEF StreamInv, Interleaves
<1>3. \A i \in 1..n : Out[i] \in Lines \cup {Separator}
  BY <1>1, ElementOfSeq
<1> HIDE DEF n
<1>4. d \in Nat /\ d % 2 = 0 /\ (n = d \/ n = d + 1)
  BY <1>1
<1> HIDE DEF d, m, k0
<1>5. LinesIn(d) \in Nat /\ (d + 1) % 2 = 1 /\ LinesIn(d + 1) = LinesIn(d) + 1
  BY <1>4, LinesAlternate
<1>6. k \in Nat /\ k + (IF n = d THEN 0 ELSE 1) = m
  <2>1. CASE n = d
    BY <1>1, <1>4, <1>5, <2>1
  <2>2. CASE n = d + 1
    <3>1. n # d /\ LinesIn(n) = LinesIn(d) + 1
      BY <1>4, <1>5, <2>2
    <3>2. k0 \in Nat /\ k0 + LinesIn(n) = m
      BY <1>1
    <3>3. QED BY <1>5, <3>1, <3>2
  <2>3. QED BY <1>4, <2>1, <2>2
<1> DEFINE chunk == SubSeq(Out, 1, d)
<1>7. /\ chunk \in Seq(Lines \cup {Separator}) /\ Len(chunk) = d
      /\ \A i \in 1..d : chunk[i] = Out[i]
  <2>1. 1 \in Int /\ d \in Int /\ d - 1 + 1 = d /\ \A i \in 1..d : Out[i] \in Lines \cup {Separator}
    BY <1>1, <1>3, <1>4
  <2>2. /\ chunk \in Seq(Lines \cup {Separator})
        /\ Len(chunk) = IF 1 <= d THEN d - 1 + 1 ELSE 0
        /\ \A i \in 1..(d - 1 + 1) : chunk[i] = Out[1 + i - 1]
    BY <2>1, SubSeqProperties
  <2> HIDE DEF chunk
  <2>3. QED BY <1>4, <2>1, <2>2
<1>8. Interleaves(chunk, printed, k0)
  <2> HIDE DEF chunk
  <2>1. k0 + LinesIn(d) <= m /\ 1..d \subseteq 1..n
    BY <1>1, <1>4, <1>5, <1>6
  <2>2. QED BY <1>1, <1>2, <1>7, <2>1 DEF Interleaves, m
<1> DEFINE rest == SubSeq(Out, d + 1, n)
<1>9. CASE n = d
  <2>1. rest = <<>>
    BY <1>1, <1>4, <1>9, SubSeqEmpty
  <2> HIDE DEF rest
  <2>2. rest \in Seq(Lines) /\ Len(rest) = 0 /\ LinesIn(0) = 0
    BY <2>1, NothingRead, LinesAlternate
  <2>3. k = m - LinesIn(Len(rest)) /\ k + LinesIn(0) <= m
    BY <1>1, <1>6, <1>9, <2>2
  <2>4. Interleaves(rest, printed, k)
    BY <1>6, <2>2, <2>3 DEF Interleaves, m
  <2>5. QED BY <1>7, <1>8, <2>2, <2>3, <2>4 DEF rest, d, n, m, k0
<1>10. CASE n = d + 1
  <2>1. Out[n] = printed[m] /\ m \in 1..m
    <3>1. n \in 1..n /\ n % 2 = 1 /\ k0 + LinesIn(n) = m /\ m \in 1..m
      BY <1>1, <1>4, <1>5, <1>6, <1>10
    <3>2. QED BY <1>2, <3>1
  <2>2. printed[m] \in Lines
    BY <1>1, <2>1, ElementOfSeq DEF m
  <2>3. /\ rest \in Seq(Lines) /\ Len(rest) = 1 /\ rest[1] = printed[m]
    <3>1. \A i \in n..n : Out[i] \in Lines
      BY <1>1, <2>1, <2>2
    <3>2. /\ SubSeq(Out, n, n) \in Seq(Lines)
          /\ Len(SubSeq(Out, n, n)) = IF n <= n THEN n - n + 1 ELSE 0
          /\ \A i \in 1..(n - n + 1) : SubSeq(Out, n, n)[i] = Out[n + i - 1]
      BY <1>1, <3>1, SubSeqProperties
    <3>3. rest = SubSeq(Out, n, n)
      BY <1>10
    <3> HIDE DEF rest
    <3>4. n - n + 1 = 1 /\ n <= n /\ n + 1 - 1 = n /\ 1 \in 1..1
      BY <1>1
    <3>5. Len(SubSeq(Out, n, n)) = 1 /\ SubSeq(Out, n, n)[1] = Out[n]
      BY <3>2, <3>4
    <3>6. QED BY <2>1, <3>2, <3>3, <3>5
  <2> HIDE DEF rest
  <2>4. LinesIn(1) = 1
    BY DEF LinesIn
  <2>5. k + LinesIn(1) = m /\ k = m - LinesIn(Len(rest)) /\ k + LinesIn(1) <= m
    BY <1>1, <1>4, <1>6, <1>10, <2>3, <2>4
  <2>6. Interleaves(rest, printed, k)
    <3>1. \A i \in 1..1 : i = 1 /\ i % 2 = 1
      OBVIOUS
    <3>2. QED BY <1>6, <2>3, <2>5, <3>1 DEF Interleaves, m
  <2>7. QED BY <1>7, <1>8, <2>3, <2>5, <2>6 DEF rest, d, n, m, k0
<1>11. QED BY <1>4, <1>9, <1>10

\* The output is read and parsed.
LEMMA OutputRead ==
  ASSUME StreamInv, ViewInv, RunningHasProcess, ReadOutput
  PROVE  StreamInv' /\ ViewInv' /\ recentOutput' \in Seq(Lines)
<1> DEFINE n == Len(Out)
           d == 2 * (n \div 2)
           chunk == SubSeq(Out, 1, d)
           rest == SubSeq(Out, d + 1, n)
           k == ReadSoFar + LinesIn(d)
           seen == ParseLines(chunk)
<1>1. /\ chunk \in Seq(Lines \cup {Separator}) /\ Len(chunk) = d
      /\ Interleaves(chunk, printed, ReadSoFar)
      /\ rest \in Seq(Lines) /\ Len(rest) <= 1
      /\ Interleaves(rest, printed, k)
      /\ k = Len(printed) - LinesIn(Len(rest))
  BY OutputParts
<1>2. running /\ process # "none"
  BY DEF ReadOutput, RunningHasProcess
<1>3. SeenWell(Seen, FirstOf(printed, ReadSoFar)) /\ ReadSoFar \in Nat /\ printed \in Seq(Lines)
  BY <1>2, SeenNow, OutType DEF StreamInv
<1>4. /\ pipe' = <<>> /\ readBuffer' = rest /\ recentOutput' = seen.recent
      /\ bytes' = seen.bytes /\ progress' = seen.progress /\ bytesTotal' = seen.total
      /\ status' = seen.status
      /\ UNCHANGED <<running, failureOutput, process, printed>>
  BY LastSeparator DEF ReadOutput, Out
<1> HIDE DEF d, n
<1>5. SeenWell(seen, FirstOf(printed, k))
  <2> HIDE DEF chunk
  <2>1. SeenWell(ParseLines(chunk), FirstOf(printed, ReadSoFar + LinesIn(Len(chunk))))
    BY <1>1, <1>3, ParsedLines
  <2>2. QED BY <1>1, <2>1
<1> HIDE DEF chunk, rest, seen
<1>6. Out' = rest
  BY <1>1, <1>4, ConcatEmptySeq DEF Out
<1>7. ReadSoFar' = k
  BY <1>1, <1>4, <1>6 DEF ReadSoFar, LinesIn
<1>8. StreamInv'
  <2>1. recentOutput' = LastOf(FirstOf(printed, k))
    BY <1>4, <1>5 DEF SeenWell
  <2>2. (recentOutput = LastOf(FirstOf(printed, ReadSoFar)))'
    BY <1>4, <1>7, <2>1 DEF FirstOf, LastOf
  <2>3. Interleaves(Out, printed, ReadSoFar)'
    BY <1>1, <1>4, <1>6, <1>7 DEF Interleaves, LinesIn
  <2>4. pipe' \in Seq(Lines \cup {Separator}) /\ printed' \in Seq(Lines)
    BY <1>3, <1>4
  <2>5. readBuffer' \in Seq(Lines) /\ Len(readBuffer') <= 1
    BY <1>1, <1>4
  <2>6. QED BY <2>2, <2>3, <2>4, <2>5 DEF StreamInv
<1>9. status # "failed"
  BY <1>2 DEF ViewInv
<1>10. /\ seen.bytes \in Nat /\ seen.progress \in 0..100 /\ seen.total \in Nat
       /\ seen.status \in Statuses /\ seen.status \in {status, "progress"}
       /\ seen.progress >= 50 => Near(seen.total)
       /\ seen.recent \in Seq(Lines)
  BY <1>5 DEF SeenWell
<1>11. ViewInv'
  BY <1>4, <1>9, <1>10 DEF ViewInv, Near, Distance
<1>12. QED BY <1>4, <1>8, <1>10, <1>11

\* At the end of rsync the line that was not ended is parsed, and all lines were seen.
LEMMA RestParsed ==
  ASSUME StreamInv, ViewInv, RunningHasProcess, Finishing
  PROVE  SeenWell(ParseLines(readBuffer), printed)
<1>1. running /\ pipe = <<>>
  BY DEF Finishing, RunningHasProcess
<1>2. Out = readBuffer /\ readBuffer \in Seq(Lines \cup {Separator}) /\ printed \in Seq(Lines)
  BY <1>1, ConcatEmptySeq DEF Out, StreamInv
<1>3. ReadSoFar \in Nat /\ ReadSoFar + LinesIn(Len(readBuffer)) = Len(printed)
  BY <1>2, OutType
<1>4. SeenWell(ParseLines(readBuffer), FirstOf(printed, ReadSoFar + LinesIn(Len(readBuffer))))
  BY <1>1, <1>2, <1>3, SeenNow, ParsedLines DEF StreamInv
<1>5. FirstOf(printed, Len(printed)) = printed
  BY <1>2, SubSeqFull DEF FirstOf
<1>6. QED BY <1>3, <1>4, <1>5

\* Nothing is left of the output then.
LEMMA NothingLeft ==
  ASSUME StreamInv, ViewInv, RunningHasProcess, Finishing,
         recentOutput' = ParseLines(readBuffer).recent
  PROVE  StreamInv' /\ recentOutput' = LastOf(printed) /\ recentOutput' \in Seq(Lines)
<1>1. SeenWell(ParseLines(readBuffer), printed)
  BY RestParsed
<1>2. /\ readBuffer' = <<>> /\ pipe' = <<>> /\ printed' = printed /\ printed \in Seq(Lines)
  BY DEF Finishing, StreamInv
<1>3. Out' = <<>> /\ Len(Out') = 0 /\ LinesIn(0) = 0 /\ Len(printed) \in Nat
  <2>1. Out' = <<>> \o <<>>
    BY <1>2 DEF Out
  <2>2. QED BY <1>2, <2>1, NothingRead, LinesAlternate
<1>4. ReadSoFar' = Len(printed)
  BY <1>2, <1>3 DEF ReadSoFar, LinesIn
<1>5. recentOutput' = LastOf(printed) /\ recentOutput' \in Seq(Lines)
  BY <1>1 DEF SeenWell
<1>6. FirstOf(printed, Len(printed)) = printed
  BY <1>2, SubSeqFull DEF FirstOf
<1>7. (recentOutput = LastOf(FirstOf(printed, ReadSoFar)))'
  BY <1>2, <1>4, <1>5, <1>6 DEF FirstOf, LastOf
<1>8. Interleaves(Out, printed, ReadSoFar)'
  BY <1>2, <1>3, <1>4 DEF Interleaves, LinesIn
<1>9. readBuffer' \in Seq(Lines) /\ Len(readBuffer') <= 1
      /\ pipe' \in Seq(Lines \cup {Separator})
  BY <1>2
<1>10. QED BY <1>2, <1>5, <1>7, <1>8, <1>9 DEF StreamInv

\* No output, as at first and after start().
NoneOutput == readBuffer = <<>> /\ pipe = <<>> /\ printed = <<>> /\ recentOutput = <<>>

\* Then it is so, too.
LEMMA NoOutput == NoneOutput => StreamInv
<1> SUFFICES ASSUME NoneOutput PROVE StreamInv
  OBVIOUS
<1> USE DEF NoneOutput
<1>1. Out = <<>> /\ Len(Out) = 0 /\ LinesIn(0) = 0 /\ Len(printed) = 0
  BY NothingRead, LinesAlternate DEF Out
<1>2. ReadSoFar = 0
  BY <1>1 DEF ReadSoFar
<1>3. Interleaves(Out, printed, ReadSoFar) /\ recentOutput = LastOf(FirstOf(printed, ReadSoFar))
  BY <1>1, <1>2, NothingRead
<1>4. QED BY <1>3 DEF StreamInv

\* Nothing of the stream changes where neither rsync nor a signal of it is concerned,
LEMMA StreamStays ==
  ASSUME StreamInv, UNCHANGED <<readBuffer, pipe, printed, recentOutput>>
  PROVE  StreamInv'
<1>1. Out' = Out /\ ReadSoFar' = ReadSoFar
  BY DEF Out, ReadSoFar, LinesIn
<1>2. Interleaves(Out, printed, ReadSoFar)'
  BY <1>1 DEF StreamInv, Interleaves, LinesIn
<1>3. (recentOutput = LastOf(FirstOf(printed, ReadSoFar)))'
  BY <1>1 DEF StreamInv, LastOf, FirstOf
<1>4. QED BY <1>2, <1>3 DEF StreamInv

\* nor of the view.
LEMMA ViewStays ==
  ASSUME ViewInv, UNCHANGED <<progress, bytes, bytesTotal, running, failureOutput>>,
         \/ UNCHANGED <<status, process, printed>>
         \/ status' \in Statuses \ {"failed"}
         \/ process # "none" /\ status' = status
  PROVE  ViewInv'
<1>1. /\ (progress \in 0..100 /\ bytes \in Nat /\ bytesTotal \in Nat /\ status \in Statuses)'
      /\ (running \in BOOLEAN /\ failureOutput \in Seq(Lines))'
  BY DEF ViewInv
<1>2. (running /\ progress >= 50 => Near(bytesTotal))'
  BY DEF ViewInv, Near, Distance
<1>3. (status = "failed" => process = "none" /\ failureOutput = LastOf(printed))'
  BY DEF ViewInv, LastOf
<1>4. QED BY <1>1, <1>2, <1>3 DEF ViewInv

\* A view that begins afresh,
NewView ==
  /\ progress = 0 /\ bytes = 0 /\ bytesTotal = 0 /\ status \in Statuses \ {"failed"}
  /\ running \in BOOLEAN /\ failureOutput \in Seq(Lines)

\* shows nothing that is wrong.
LEMMA FreshView == NewView => ViewInv
BY DEF NewView, ViewInv

\* Every step keeps both.
LEMMA TransferStep ==
  WorkInv /\ StreamInv /\ ViewInv /\ [Next]_vars => StreamInv' /\ ViewInv'
<1> SUFFICES ASSUME WorkInv, StreamInv, ViewInv, [Next]_vars PROVE StreamInv' /\ ViewInv'
  OBVIOUS
<1>a. RunningHasProcess
  BY DEF WorkInv
<1>b. UNCHANGED transferVars => StreamInv' /\ ViewInv'
  BY StreamStays, ViewStays DEF transferVars, view, output, rsync
<1>c. <<>> \in Seq(Lines)
  OBVIOUS
<1>1. CASE CancelStep
  <2>1. UNCHANGED <<readBuffer, pipe, printed, recentOutput, progress, bytes, bytesTotal,
                    running, failureOutput>> /\ status' = "cancelled"
    BY <1>1 DEF CancelStep, Cancel, output
  <2>2. QED BY <2>1, StreamStays, ViewStays DEF Statuses
<1>2. CASE DestroyStep
  <2>1. /\ readBuffer' = <<>> /\ pipe' = <<>> /\ printed' = <<>> /\ recentOutput' = <<>>
        /\ progress' = 0 /\ bytes' = 0 /\ bytesTotal' = 0 /\ status' = "" /\ running' = FALSE
        /\ failureOutput' = <<>>
    BY <1>2 DEF DestroyStep, Destroy
  <2>2. StreamInv'
    <3>1. NoneOutput'
      BY <2>1 DEF NoneOutput
    <3>2. QED BY <3>1, NoOutput, PTL
  <2>3. ViewInv'
    <3>1. NewView'
      BY <1>c, <2>1 DEF NewView, Statuses
    <3>2. QED BY <3>1, FreshView, PTL
  <2>4. QED BY <2>2, <2>3
<1>3. CASE ReadStep
  BY <1>3, <1>a, OutputRead DEF ReadStep
<1>4. CASE FinishStep
  <2>1. /\ Finishing /\ recentOutput' = ParseLines(readBuffer).recent
        /\ running' = FALSE /\ bytes' = ParseLines(readBuffer).bytes /\ bytesTotal' = bytes'
        /\ progress' = 100 /\ status' = "complete" /\ failureOutput' = failureOutput
    BY <1>4 DEF FinishStep, Finish
  <2>2. StreamInv'
    BY <1>a, <2>1, NothingLeft
  <2>3. bytes' \in Nat
    <3>1. SeenWell(ParseLines(readBuffer), printed)
      BY <1>a, <2>1, RestParsed
    <3>2. QED BY <2>1, <3>1 DEF SeenWell
  <2>4. (/\ progress \in 0..100 /\ bytes \in Nat /\ bytesTotal \in Nat /\ status \in Statuses
         /\ running \in BOOLEAN /\ failureOutput \in Seq(Lines))'
    <3>1. failureOutput' \in Seq(Lines)
      BY <2>1 DEF ViewInv
    <3>2. progress' \in 0..100
      <4>1. progress' = 100
        BY <2>1
      <4>2. QED BY <4>1
    <3>3. bytesTotal' \in Nat /\ running' \in BOOLEAN
      <4>1. bytesTotal' = bytes' /\ running' = FALSE
        BY <2>1
      <4>2. QED BY <2>3, <4>1
    <3>4. status' \in Statuses
      BY <2>1 DEF Statuses
    <3>5. QED BY <2>3, <3>1, <3>2, <3>3, <3>4
  <2>5. (running /\ progress >= 50 => Near(bytesTotal))'
    BY <2>1
  <2>6. (status = "failed" => process = "none" /\ failureOutput = LastOf(printed))'
    BY <2>1
  <2>7. ViewInv'
    BY <2>4, <2>5, <2>6 DEF ViewInv
  <2>8. QED BY <2>2, <2>7
<1>5. CASE FailStep
  <2>1. /\ Finishing /\ recentOutput' = ParseLines(readBuffer).recent
        /\ failureOutput' = recentOutput' /\ running' = FALSE
        /\ progress' = 0 /\ bytes' = 0 /\ bytesTotal' = 0 /\ status' = "failed"
    BY <1>5 DEF FailStep, Fail
  <2>2. StreamInv' /\ recentOutput' = LastOf(printed) /\ recentOutput' \in Seq(Lines)
    BY <1>a, <2>1, NothingLeft
  <2>3. process' = "none" /\ printed' = printed
    BY <2>1 DEF Finishing
  <2>4. failureOutput' = LastOf(printed')
    BY <2>1, <2>2, <2>3
  <2>5. (/\ progress \in 0..100 /\ bytes \in Nat /\ bytesTotal \in Nat /\ status \in Statuses
         /\ running \in BOOLEAN /\ failureOutput \in Seq(Lines))'
    <3>1. progress' = 0 /\ bytes' = 0 /\ bytesTotal' = 0
      BY <2>1
    <3>2. progress' \in 0..100 /\ bytes' \in Nat /\ bytesTotal' \in Nat
      BY <3>1
    <3>3. status' \in Statuses /\ running' \in BOOLEAN /\ failureOutput' \in Seq(Lines)
      BY <2>1, <2>2 DEF Statuses
    <3>4. QED BY <3>2, <3>3
  <2>6. (running /\ progress >= 50 => Near(bytesTotal))'
    BY <2>1
  <2>7. (LastOf(printed))' = LastOf(printed')
    BY DEF LastOf
  <2>8. (status = "failed" => process = "none" /\ failureOutput = LastOf(printed))'
    BY <2>3, <2>4, <2>7
  <2>9. ViewInv'
    BY <2>5, <2>6, <2>8 DEF ViewInv
  <2>10. QED BY <2>2, <2>9
<1>6. CASE EndLineStep
  <2>1. EndLine /\ process # "none"
    BY <1>6 DEF EndLineStep, EndLine
  <2>2. UNCHANGED <<progress, bytes, bytesTotal, running, failureOutput, status>>
    BY <2>1 DEF EndLine, view, output
  <2>3. QED BY <2>1, <2>2, LineEnded, ViewStays
<1>7. CASE RsyncExits
  <2>1. /\ process # "none"
        /\ UNCHANGED <<readBuffer, pipe, printed, recentOutput, progress, bytes, bytesTotal,
                       running, failureOutput, status>>
    BY <1>7 DEF RsyncExits, Exit, view, output
  <2>2. QED BY <2>1, StreamStays, ViewStays
<1>8. CASE ListBags \/ Listed \/ Deleted \/ DeleteStops
  BY <1>8, <1>b DEF ListBags, Listed, Deleted, DeleteStops
<1>9. ASSUME NEW b \in Remote, StartStep(b) PROVE StreamInv' /\ ViewInv'
  <2>1. /\ readBuffer' = <<>> /\ pipe' = <<>> /\ printed' = <<>> /\ recentOutput' = <<>>
        /\ progress' = 0 /\ bytes' = 0 /\ bytesTotal' = 0 /\ status' = "starting"
        /\ running' = TRUE /\ failureOutput' = <<>>
    BY <1>9 DEF StartStep, Start
  <2>2. StreamInv'
    <3>1. NoneOutput'
      BY <2>1 DEF NoneOutput
    <3>2. QED BY <3>1, NoOutput, PTL
  <2>3. ViewInv'
    <3>1. NewView'
      BY <1>c, <2>1 DEF NewView, Statuses
    <3>2. QED BY <3>1, FreshView, PTL
  <2>4. QED BY <2>2, <2>3
<1>10. ASSUME NEW line \in Lines, PrintStep(line) PROVE StreamInv' /\ ViewInv'
  <2>1. PrintLine(line) /\ process # "none"
    BY <1>10 DEF PrintStep, PrintLine
  <2>2. UNCHANGED <<progress, bytes, bytesTotal, running, failureOutput, status>>
    BY <2>1 DEF PrintLine, view, output
  <2>3. QED BY <2>1, <2>2, LinePrinted, ViewStays
<1>11. ASSUME NEW f \in Files, CopyStep(f) PROVE StreamInv' /\ ViewInv'
  <2>1. UNCHANGED <<readBuffer, pipe, printed, recentOutput, progress, bytes, bytesTotal,
                    running, failureOutput, status, process>>
    BY <1>11 DEF CopyStep, CopyFile, view, output
  <2>2. QED BY <2>1, StreamStays, ViewStays
<1>12. ASSUME NEW f \in Files, RemoveFile(f) PROVE UNCHANGED transferVars
  BY <1>12 DEF RemoveFile
<1>13. ASSUME NEW b \in Bags, ReadEntry(b) \/ DeleteBag(b) PROVE UNCHANGED transferVars
  BY <1>13 DEF ReadEntry, DeleteBag
<1>14. CASE UNCHANGED vars BY <1>14, <1>b DEF vars
<1>15. QED
  BY <1>b, <1>1, <1>2, <1>3, <1>4, <1>5, <1>6, <1>7, <1>8, <1>9, <1>10, <1>11, <1>12,
     <1>13, <1>14, EveryStep

\* A count that has not reached its bound has room for one more.
LEMMA OneMore == ASSUME NEW m \in Nat, NEW n \in 0..m, n < m PROVE n + 1 \in 0..m
OBVIOUS

\* The types of the process and of the scanner.
WorkTypes ==
  /\ process \in {"none", "alive", "killed", "not started", "exited"}
  /\ exit \in [crash : BOOLEAN, code : {0, 1}]
  /\ copied \subseteq Files /\ transfers \in 0..MaxTransfers
  /\ call \in {"none", "listing", "deleting"}
  /\ todo \subseteq Bags \cup Files /\ bags \subseteq Bags
  /\ requests \in 0..MaxRequests /\ always \subseteq Bags /\ ever \subseteq Bags

\* Every step keeps them.
LEMMA WorkTypesStep == DiskTypes /\ WorkTypes /\ [Next]_vars => WorkTypes'
<1> SUFFICES ASSUME DiskTypes, WorkTypes, [Next]_vars PROVE WorkTypes'
  OBVIOUS
<1>a. Witness => always' \subseteq Bags /\ ever' \subseteq Bags
  BY DEF Witness, WorkTypes
<1>b. MaxTransfers \in Nat /\ MaxRequests \in Nat
  BY LinesAssumption, RequestsAssumption
<1> USE DEF reports, WorkTypes, transferVars, view, output, rsync, scanner, Returns,
      Request, NoExit
<1>1. CASE CancelStep BY <1>1, <1>a DEF CancelStep, Cancel
<1>2. CASE DestroyStep BY <1>2, <1>a DEF DestroyStep, Destroy
<1>3. CASE ReadStep BY <1>3, <1>a DEF ReadStep, ReadOutput
<1>4. CASE FinishStep BY <1>4, <1>a DEF FinishStep, Finish, Finishing
<1>5. CASE FailStep BY <1>5, <1>a DEF FailStep, Fail, Finishing
<1>6. CASE EndLineStep BY <1>6, <1>a DEF EndLineStep, EndLine
<1>7. CASE RsyncExits
  <2>1. exit' = [crash |-> TRUE, code |-> 0]
          \/ exit' \in [crash : {FALSE}, code : IF copied = Files THEN {0, 1} ELSE {1}]
    BY <1>7 DEF RsyncExits, Exit
  <2>2. exit' \in [crash : BOOLEAN, code : {0, 1}]
    <3>1. CASE exit' = [crash |-> TRUE, code |-> 0]
      BY <3>1
    <3>2. CASE exit' \in [crash : {FALSE}, code : IF copied = Files THEN {0, 1} ELSE {1}]
      BY <3>2
    <3>3. QED BY <2>1, <3>1, <3>2
  <2>3. /\ process' = "exited" /\ copied' = {}
        /\ UNCHANGED <<transfers, call, todo, bags, requests>> /\ Witness
    BY <1>7 DEF RsyncExits, Exit
  <2>4. QED BY <1>a, <2>2, <2>3
<1>8. CASE ListBags
  <2>1. requests' \in 0..MaxRequests
    <3>1. requests' = requests + 1 /\ requests < MaxRequests
      BY <1>8 DEF ListBags
    <3>2. QED BY <1>b, <3>1, OneMore
  <2>2. todo' \subseteq Bags \cup Files /\ bags' \subseteq Bags /\ call' = "listing"
    BY <1>8 DEF ListBags
  <2>3. always' \subseteq Bags /\ ever' \subseteq Bags
    BY <1>8 DEF ListBags
  <2>4. UNCHANGED <<process, exit, copied, transfers>>
    BY <1>8 DEF ListBags
  <2>5. QED BY <2>1, <2>2, <2>3, <2>4
<1>9. CASE Listed BY <1>9 DEF Listed
<1>10. CASE Deleted BY <1>10, <1>a DEF Deleted
<1>11. CASE DeleteStops BY <1>11 DEF DeleteStops
<1>12. ASSUME NEW b \in Remote, StartStep(b) PROVE WorkTypes'
  <2>1. transfers' \in 0..MaxTransfers
    <3>1. transfers' = transfers + 1 /\ transfers < MaxTransfers
      BY <1>12 DEF StartStep, Start
    <3>2. QED BY <1>b, <3>1, OneMore
  <2>2. process' \in {"alive", "not started"} /\ copied' = {}
        /\ UNCHANGED <<exit, call, todo, bags, requests>> /\ Witness
    BY <1>12 DEF StartStep, Start
  <2>3. QED BY <1>a, <2>1, <2>2
<1>13. ASSUME NEW line \in Lines, PrintStep(line) PROVE WorkTypes'
  BY <1>13, <1>a DEF PrintStep, PrintLine
<1>14. ASSUME NEW f \in Files, CopyStep(f) PROVE WorkTypes'
  BY <1>14, <1>a DEF CopyStep, CopyFile
<1>15. ASSUME NEW b \in Bags, ReadEntry(b) PROVE WorkTypes'
  BY <1>15 DEF ReadEntry
<1>16. ASSUME NEW f \in Files, RemoveFile(f) PROVE WorkTypes'
  BY <1>16, <1>a DEF RemoveFile
<1>17. ASSUME NEW b \in Bags, DeleteBag(b) PROVE WorkTypes'
  <2>1. requests' \in 0..MaxRequests
    <3>1. requests' = requests + 1 /\ requests < MaxRequests
      BY <1>17 DEF DeleteBag
    <3>2. QED BY <1>b, <3>1, OneMore
  <2>2. disk[b].files \subseteq Files
    BY DEF DiskTypes
  <2>3. todo' \subseteq Bags \cup Files /\ call' = "deleting"
        /\ UNCHANGED <<process, exit, copied, transfers, bags, always, ever>>
    BY <1>17, <2>2 DEF DeleteBag
  <2>4. QED BY <2>1, <2>3
<1>18. CASE UNCHANGED vars BY <1>18 DEF vars
<1>19. QED
  BY <1>1, <1>2, <1>3, <1>4, <1>5, <1>6, <1>7, <1>8, <1>9, <1>10, <1>11, <1>12,
     <1>13, <1>14, <1>15, <1>16, <1>17, <1>18, EveryStep
-----------------------------------------------------------------------------
\* Together they are inductive.
BrowserInv ==
  /\ DiskTypes /\ WorkTypes /\ WorkInv /\ CopyInv /\ NothingLostUntold /\ ListInv
  /\ StreamInv /\ ViewInv

\* It holds at first: every bag that is there is whole, and nobody works on one.
LEMMA BrowserInvInit == Init => BrowserInv
<1> SUFFICES ASSUME Init PROVE BrowserInv
  OBVIOUS
<1>1. \A b \in Bags : disk[b].there => disk[b].files = Files
  BY DEF Init, Absent
<1>2. DiskTypes
  <2>1. disk \in [Bags -> {Absent, [there |-> TRUE, files |-> Files]}]
    BY DEF Init
  <2>2. {Absent, [there |-> TRUE, files |-> Files]} \subseteq
          [there : BOOLEAN, files : SUBSET Files]
    BY DEF Absent
  <2>3. disk \in [Bags -> [there : BOOLEAN, files : SUBSET Files]]
    BY <2>1, <2>2
  <2>4. target = NoBag /\ bag = NoBag /\ told = {} /\ dropped = {}
    BY DEF Init, TransferInit
  <2>5. QED BY <2>3, <2>4 DEF DiskTypes
<1>3. WorkInv /\ CopyInv /\ ListInv
  BY DEF Init, TransferInit, WorkInv, RunningHasProcess, CopyInv, ListInv
<1>4. WorkTypes
  <2>1. NoExit \in [crash : BOOLEAN, code : {0, 1}]
    BY DEF NoExit
  <2>2. 0 \in 0..MaxTransfers /\ 0 \in 0..MaxRequests
    BY LinesAssumption, RequestsAssumption
  <2>3. process = "none" /\ exit = NoExit /\ copied = {} /\ transfers = 0 /\ call = "none"
        /\ todo = {} /\ bags = {} /\ requests = 0 /\ always = {} /\ ever = {}
    BY DEF Init, TransferInit
  <2>4. QED BY <2>1, <2>2, <2>3 DEF WorkTypes
<1>5. StreamInv
  BY NoOutput DEF Init, TransferInit, NoneOutput
<1>6. ViewInv
  <2>1. <<>> \in Seq(Lines)
    OBVIOUS
  <2>2. NewView
    BY <2>1 DEF Init, TransferInit, Statuses, NewView
  <2>3. QED BY <2>2, FreshView
<1>7. QED BY <1>1, <1>2, <1>3, <1>4, <1>5, <1>6 DEF BrowserInv, NothingLostUntold

\* Every step keeps it.
LEMMA BrowserInvStep == BrowserInv /\ [Next]_vars => BrowserInv'
BY DiskTypesStep, WorkTypesStep, WorkInvStep, CopyInvStep, LostStep, ListInvStep,
   TransferStep DEF BrowserInv

\* It holds always.
LEMMA BrowserInvAlways == Spec => []BrowserInv
BY BrowserInvInit, BrowserInvStep, PTL DEF Spec

\* However the scanner, rsync and the user interleave, and however rsync ends, a local bag
\* that lacks files is being transferred or deleted, or the user was told, or has closed
\* the panel during its transfer, which is where ~BagTransfer leaves it untold.
THEOREM NothingLostEver == Spec => []NothingLostUntold
<1>1. BrowserInv => NothingLostUntold
  BY DEF BrowserInv
<1>2. QED BY <1>1, BrowserInvAlways, PTL

\* The list has every bag that was there all the time listBags took, and none that was
\* not there at any, whatever rsync does to the disk meanwhile.
THEOREM ListAlwaysTrue == Spec => []ListIsTrue
<1>1. BrowserInv => ListIsTrue
  BY DEF BrowserInv, ListInv, ListIsTrue
<1>2. QED BY <1>1, BrowserInvAlways, PTL

\* The types of the whole.
LEMMA TypesFollow == BrowserInv => TypeOK
<1> SUFFICES ASSUME BrowserInv PROVE TypeOK
  OBVIOUS
<1>1. DiskTypes /\ WorkTypes /\ StreamInv /\ ViewInv
  BY DEF BrowserInv
<1>2. recentOutput \in Seq(Lines)
  <2>1. ReadSoFar \in 0..Len(printed) /\ printed \in Seq(Lines)
    <3> DEFINE l == LinesIn(Len(Out))
    <3>1. /\ l \in Nat /\ ReadSoFar \in Nat /\ ReadSoFar + l = Len(printed)
          /\ printed \in Seq(Lines)
      BY <1>1, OutType, LinesAlternate DEF StreamInv
    <3> HIDE DEF l
    <3>2. QED BY <3>1
  <2> DEFINE first == FirstOf(printed, ReadSoFar)
  <2>2. first \in Seq(Lines)
    BY <2>1, FirstLines
  <2> HIDE DEF first
  <2>3. Len(first) \in Nat
    BY <2>2
  <2>4. LastOf(first) \in Seq(Lines)
    BY <2>2, <2>3, TailLines
  <2>5. QED BY <1>1, <2>4 DEF StreamInv, first
<1>3. QED BY <1>1, <1>2 DEF DiskTypes, WorkTypes, StreamInv, ViewInv, Statuses, TypeOK

\* What the panel shows of a transfer is true of it: it runs exactly while there is a
\* process, the report of a failure is the tail of what rsync printed, in whatever chunks
\* it came, and past the half the size is near the true one, whatever the size
\* (BagTransfer::onReadyReadStdout, parseLine, onProcessFinished).
THEOREM TransferAlwaysShown == Spec => []TransferIsShown
<1>1. BrowserInv => RunningHasProcess /\ FailureShowsTail /\ EstimateNearTruth
  BY DEF BrowserInv, WorkInv, ViewInv, Near, FailureShowsTail, EstimateNearTruth
<1>2. BrowserInv => TransferIsShown
  BY <1>1, TypesFollow DEF TransferIsShown
<1>3. QED BY <1>2, BrowserInvAlways, PTL
===============================================================================
