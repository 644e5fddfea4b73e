------------------------------ MODULE BagArchive ------------------------------
(***************************************************************************)
(* What a recorder promises about bags, without processes, requests,       *)
(* configurations or a file system: there is at most one bag being         *)
(* written; it becomes a complete bag when its recording ends in order;    *)
(* complete bags stay until they are deleted, one by one; and no bag is    *)
(* ever placed above, inside or on top of another.  A client that writes   *)
(* among the bags itself loses the promises about their places: a bag it   *)
(* makes may hold others, and is deleted with them.                        *)
(***************************************************************************)
EXTENDS SequencesExt

VARIABLES
  phase,    \* "down": no recorder process; the states of RecorderStatus.msg;
            \* "failed": a recorder that is in recording without an open bag
  current,  \* the bag being written, as a set of at most one directory
  archive,  \* the complete bags
  meddled   \* a client has written among the bags

archiveVars == <<phase, current, archive, meddled>>

Apart(d, bags) ==
  ~meddled => \A b \in bags : d \notin Prefixes(b) /\ b \notin Prefixes(d)

\* One more complete bag, apart from the others.
Gains ==
  \E d \in archive' \ archive : archive' = archive \cup {d} /\ Apart(d, archive)

\* The bags there are when the recorder is first started lie apart.
ArchiveInit ==
  /\ phase = "down" /\ current = {} /\ ~meddled
  /\ \A b \in archive : Apart(b, archive \ {b})

\* A recording begins, or its bag cannot be opened.
Begins ==
  \/ phase' = "failed" /\ current' = {}
  \/ /\ phase' \in {"RECORDING", "PAUSED"}
     /\ \E d \in current' : current' = {d} /\ Apart(d, archive')

\* The recording there is ends in order: its bag is complete.  A recording that
\* failed leaves nothing, or a bag without messages, and so does one whose directory
\* was deleted with a bag around it.
Ends ==
  \/ current # {} /\ archive' = archive \cup current
  \/ meddled /\ UNCHANGED archive
  \/ phase = "failed" /\ (UNCHANGED archive \/ Gains)

Rests(p) == phase' = p /\ current' = {}

Boot == phase = "down" /\ UNCHANGED archive /\ (Rests("IDLE") \/ Begins)
BootAborted == phase = "down" /\ Gains /\ Rests("down")
Start == phase = "IDLE" /\ UNCHANGED archive /\ Begins
Stop == Ends /\ Rests("IDLE")
Restart == Ends /\ Begins
Shutdown == ((phase = "IDLE" /\ UNCHANGED archive) \/ Ends) /\ Rests("down")

\* The process dies: the bag being written is no complete bag.
Crash == phase # "down" /\ UNCHANGED archive /\ Rests("down")

PauseOrResume ==
  /\ {phase, phase'} \subseteq {"RECORDING", "PAUSED"}
  /\ UNCHANGED <<current, archive>>

Delete ==
  /\ \E b \in archive :
       \/ archive' = archive \ {b}
       \/ meddled /\ archive' \subseteq archive \ {b}
  /\ UNCHANGED <<phase, current>>

\* A client writes among the bags: what it writes may be taken for a bag.
Meddle ==
  /\ meddled'
  /\ archive' = archive \/ \E d \in archive' : archive' = archive \cup {d}
  /\ UNCHANGED <<phase, current>>

ArchiveNext ==
  \/ /\ UNCHANGED meddled
     /\ \/ Boot \/ BootAborted \/ Start \/ Stop \/ Restart \/ Shutdown \/ Crash
        \/ PauseOrResume \/ Delete
  \/ Meddle

ArchiveSpec == ArchiveInit /\ [][ArchiveNext]_archiveVars
===============================================================================
