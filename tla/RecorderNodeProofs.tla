-------------------------- MODULE RecorderNodeProofs --------------------------
(***************************************************************************)
(* Proofs about the recorder process, for every disk, configuration,       *)
(* request and clock: the node and the recorder it owns agree, and a       *)
(* recording never begins in a directory that exists.                      *)
(***************************************************************************)
EXTENDS RecorderNodeProperties, SequenceTheorems, TLAPS
-----------------------------------------------------------------------------
(***************************************************************************)
(* Paths, their prefixes and the directories resolveOutputDirectory gives. *)
(***************************************************************************)

\* The directories above a path are paths.
LEMMA PrefixesArePaths ==
  ASSUME NEW p \in Path
  PROVE  /\ Prefixes(p) \subseteq Path
         /\ p \in Prefixes(p)
         /\ Front(p) \in Path
         /\ \A l \in 0..Len(p) : SubSeq(p, 1, l) \in Path /\ Len(SubSeq(p, 1, l)) = l
<1>1. Len(p) \in Nat /\ \A i \in 1..Len(p) : p[i] \in Name
  BY LenProperties, ElementOfSeq DEF Path
<1>2. ASSUME NEW l \in 0..Len(p)
      PROVE  SubSeq(p, 1, l) \in Path /\ Len(SubSeq(p, 1, l)) = l
  <2>1. \A i \in 1..l : p[i] \in Name
    BY <1>1
  <2>2. l \in Int
    BY <1>1
  <2>3. QED BY <1>1, <2>1, <2>2, SubSeqProperties DEF Path
<1>3. Prefixes(p) \subseteq Path
  BY <1>2 DEF Prefixes
<1>4. p \in Prefixes(p)
  BY <1>1, SubSeqFull DEF Prefixes, Path
<1>5. Front(p) \in Path
  <2>1. CASE Len(p) = 0
    <3>1. SubSeq(p, 1, Len(p) - 1) = <<>>
      BY <2>1, SubSeqEmpty
    <3>2. QED BY <3>1, EmptySeq DEF Front, Path
  <2>2. CASE Len(p) # 0
    <3>1. Len(p) - 1 \in 0..Len(p)
      BY <1>1, <2>2
    <3>2. QED BY <1>2, <3>1 DEF Front
  <2>3. QED BY <2>1, <2>2
<1>6. QED BY <1>2, <1>3, <1>4, <1>5

\* The directory that is asked for is a path.
LEMMA TargetIsPath ==
  ASSUME NEW disk, NEW out \in Output, NEW ts \in Name
  PROVE  Target(disk, out, ts) \in Path
<1>1. \A p \in Path : Append(p, ts) \in Path
  BY AppendProperties DEF Path
<1>2. out.path \in Path
  BY DEF Output
<1>3. ParentPath(out) \in Path
  BY <1>2, PrefixesArePaths DEF ParentPath
<1>4. QED BY <1>1, <1>2, <1>3, CwdAssumption DEF Target

\* Making the directories above a path leaves a disk a disk, and removes nothing.
LEMMA WithContainerIsDisk ==
  ASSUME NEW disk \in FileSystem, NEW target \in Path
  PROVE  /\ WithContainer(disk, target) \in FileSystem
         /\ disk.dirs \subseteq WithContainer(disk, target).dirs
         /\ WithContainer(disk, target).bags = disk.bags
         /\ WithContainer(disk, target).files = disk.files
<1>1. Prefixes(Front(target)) \subseteq Path
  BY PrefixesArePaths
<1>2. QED BY <1>1 DEF WithContainer, FileSystem

\* resolveOutputDirectory never gives a directory that exists.
LEMMA TargetIsNew ==
  ASSUME NEW disk, NEW out, NEW ts, ~Refused(disk, out, ts)
  PROVE  Target(disk, out, ts) \notin Existing(disk)
  BY DEF Refused
-----------------------------------------------------------------------------
\* A directory is above or at a path when the path begins with it.
LEMMA PrefixIsBeginning ==
  ASSUME NEW p \in Path, NEW q \in Path
  PROVE  q \in Prefixes(p) <=> Len(q) <= Len(p) /\ \A i \in 1..Len(q) : q[i] = p[i]
<1>1. Len(p) \in Nat /\ Len(q) \in Nat /\ \A i \in 1..Len(p) : p[i] \in Name
  BY LenProperties, ElementOfSeq DEF Path
<1>2. ASSUME NEW l \in 0..Len(p)
      PROVE  \A i \in 1..l : SubSeq(p, 1, l)[i] = p[i]
  <2>1. 1 \in Int /\ l \in Int /\ \A i \in 1..l : p[i] \in Name
    BY <1>1
  <2>2. \A i \in 1..(l - 1 + 1) : SubSeq(p, 1, l)[i] = p[1 + i - 1]
    BY <2>1, SubSeqProperties
  <2>3. QED BY <2>1, <2>2
<1>3. ASSUME q \in Prefixes(p)
      PROVE  Len(q) <= Len(p) /\ \A i \in 1..Len(q) : q[i] = p[i]
  <2>1. PICK l \in 0..Len(p) : q = SubSeq(p, 1, l)
    BY <1>3 DEF Prefixes
  <2>2. Len(q) = l
    BY <2>1, PrefixesArePaths
  <2>3. QED BY <1>1, <1>2, <2>1, <2>2
<1>4. ASSUME Len(q) <= Len(p), \A i \in 1..Len(q) : q[i] = p[i]
      PROVE  q \in Prefixes(p)
  <2> DEFINE s == SubSeq(p, 1, Len(q))
  <2>1. Len(q) \in 0..Len(p)
    BY <1>1, <1>4
  <2>2. s \in Path /\ Len(s) = Len(q)
    BY <2>1, PrefixesArePaths
  <2>3. \A i \in 1..Len(q) : q[i] = s[i]
    BY <1>2, <1>4, <2>1
  <2>4. q = s
    BY <2>2, <2>3, SeqEqual DEF Path
  <2>5. QED BY <2>1, <2>4 DEF Prefixes
<1>5. QED BY <1>3, <1>4

\* What is above a directory above a path is above the path.
LEMMA PrefixesCompose ==
  ASSUME NEW p \in Path, NEW q \in Prefixes(p)
  PROVE  Prefixes(q) \subseteq Prefixes(p)
<1>1. q \in Path /\ Len(p) \in Nat /\ Len(q) \in Nat
  BY PrefixesArePaths, LenProperties DEF Path
<1>2. ASSUME NEW r \in Prefixes(q) PROVE r \in Prefixes(p)
  <2>1. r \in Path /\ Len(r) \in Nat
    BY <1>1, PrefixesArePaths, LenProperties DEF Path
  <2>2. Len(r) <= Len(q) /\ \A i \in 1..Len(r) : r[i] = q[i]
    BY <1>1, <2>1, PrefixIsBeginning
  <2>3. Len(q) <= Len(p) /\ \A i \in 1..Len(q) : q[i] = p[i]
    BY <1>1, PrefixIsBeginning
  <2>4. Len(r) <= Len(p) /\ \A i \in 1..Len(r) : r[i] = p[i]
    BY <1>1, <2>1, <2>2, <2>3
  <2>5. QED BY <2>1, <2>4, PrefixIsBeginning
<1>3. QED BY <1>2

\* Above a path is the path itself, and what is above its container.
LEMMA PrefixesOfFront ==
  ASSUME NEW p \in Path
  PROVE  /\ Prefixes(p) = Prefixes(Front(p)) \cup {p}
         /\ Front(p) \in Prefixes(p)
         /\ p # <<>> => p \notin Prefixes(Front(p))
<1>1. Len(p) \in Nat /\ p \in Prefixes(p) /\ Front(p) \in Path
  BY PrefixesArePaths, LenProperties DEF Path
<1>2. CASE p = <<>>
  <2>1. Len(p) = 0 /\ Front(p) = <<>>
    BY <1>2, EmptySeq, SubSeqEmpty DEF Front
  <2>2. ASSUME NEW q \in Prefixes(p) PROVE q = p
    BY <1>1, <1>2, <2>1, <2>2, PrefixesArePaths, PrefixIsBeginning, SeqEqual,
       LenProperties, EmptySeq DEF Path
  <2>3. QED BY <1>1, <1>2, <2>1, <2>2
<1>3. CASE p # <<>>
  <2>1. Len(p) - 1 \in 0..Len(p)
    BY <1>1, <1>3, EmptySeq DEF Path
  <2>2. Len(Front(p)) = Len(p) - 1 /\ Front(p) \in Prefixes(p)
    BY <2>1, PrefixesArePaths DEF Front, Prefixes
  <2>3. ASSUME NEW q \in Prefixes(p), q # p PROVE q \in Prefixes(Front(p))
    <3>1. q \in Path /\ Len(q) \in Nat
      BY PrefixesArePaths, LenProperties DEF Path
    <3>2. Len(q) <= Len(p) /\ \A i \in 1..Len(q) : q[i] = p[i]
      BY <3>1, PrefixIsBeginning
    <3>3. Len(q) # Len(p)
      BY <2>3, <3>1, <3>2, SeqEqual DEF Path
    <3>4. Len(q) <= Len(Front(p))
      BY <1>1, <2>2, <3>1, <3>2, <3>3
    <3>5. \A i \in 1..Len(Front(p)) : Front(p)[i] = p[i]
      BY <1>1, <2>2, PrefixIsBeginning
    <3>6. \A i \in 1..Len(q) : q[i] = Front(p)[i]
      BY <1>1, <2>1, <2>2, <3>1, <3>2, <3>4, <3>5
    <3>7. QED BY <1>1, <3>1, <3>4, <3>6, PrefixIsBeginning
  <2>4. Prefixes(Front(p)) \subseteq Prefixes(p)
    BY <2>2, PrefixesCompose
  <2>5. p \notin Prefixes(Front(p))
    BY <1>1, <2>2, PrefixIsBeginning
  <2>6. QED BY <1>1, <2>2, <2>3, <2>4, <2>5
<1>4. QED BY <1>2, <1>3
-----------------------------------------------------------------------------
\* A disk as programs leave it: what exists is in directories that exist, and no
\* bag is in another.
Orderly(disk) ==
  /\ disk \in FileSystem
  /\ disk.bags \subseteq disk.dirs
  /\ \A p \in Existing(disk) : Prefixes(p) \ {p} \subseteq disk.dirs
  /\ \A b \in disk.bags : Prefixes(b) \cap disk.bags = {b}

\* A directory with no bag at it or above it, and nothing inside.
Alone(dir, disk) ==
  /\ Prefixes(dir) \cap disk.bags = {}
  /\ \A p \in Existing(disk) : dir \in Prefixes(p) => p = dir

\* A target is never the root of the disk.
LEMMA TargetIsNotRoot ==
  ASSUME NEW disk, NEW out \in Output, NEW ts \in Name
  PROVE  Target(disk, out, ts) # <<>>
<1>1. \A p \in Path : Append(p, ts) # <<>>
  BY AppendProperties DEF Path
<1>2. out.path \in Path /\ ParentPath(out) \in Path
  BY PrefixesArePaths DEF ParentPath, Output
<1>3. out = [path |-> out.path, slash |-> out.slash] /\ out.slash \in BOOLEAN
  BY DEF Output
<1>4. out # Unset /\ ~out.slash => out.path # <<>>
  BY <1>3 DEF Unset
<1>5. QED BY <1>1, <1>2, <1>4, CwdAssumption DEF Target

\* A directory resolveOutputDirectory gives stands alone, on a disk that stays
\* orderly when the directories above it are made.
LEMMA TargetStandsAlone ==
  ASSUME NEW disk, Orderly(disk), NEW out \in Output, NEW ts \in Name,
         ~Refused(disk, out, ts)
  PROVE  LET target == Target(disk, out, ts)
             made == WithContainer(disk, target)
         IN  /\ target \in Path \ {<<>>}
             /\ Orderly(made) /\ made.bags = disk.bags
             /\ Alone(target, made)
             /\ Prefixes(Front(target)) \subseteq made.dirs
<1> DEFINE target == Target(disk, out, ts)
           made == WithContainer(disk, target)
<1>1. target \in Path /\ Front(target) \in Path /\ target # <<>>
  BY TargetIsPath, PrefixesArePaths, TargetIsNotRoot
<1>2. /\ made \in FileSystem
      /\ made.dirs = disk.dirs \cup Prefixes(Front(target))
      /\ made.bags = disk.bags /\ made.files = disk.files
  BY <1>1, WithContainerIsDisk DEF Orderly, WithContainer, FileSystem
<1>3. target \notin Existing(disk) /\ Prefixes(Front(target)) \cap disk.bags = {}
  BY DEF Refused, InsideBag
<1> HIDE DEF target, made
<1>4. Prefixes(target) \cap made.bags = {}
  BY <1>1, <1>2, <1>3, PrefixesOfFront DEF Orderly, Existing
<1>5. \A p \in Existing(disk) : target \notin Prefixes(p)
  BY <1>3 DEF Orderly, Existing
<1>6. ASSUME NEW p \in Prefixes(Front(target)) PROVE target \notin Prefixes(p)
  BY <1>1, PrefixesOfFront, PrefixesCompose
<1>7. Alone(target, made)
  BY <1>2, <1>4, <1>5, <1>6 DEF Alone, Existing
<1>8. ASSUME NEW p \in Existing(made) PROVE Prefixes(p) \ {p} \subseteq made.dirs
  <2>1. CASE p \in Existing(disk)
    BY <1>2, <2>1 DEF Orderly
  <2>2. CASE p \in Prefixes(Front(target))
    BY <1>1, <1>2, <2>2, PrefixesCompose
  <2>3. QED BY <1>2, <2>1, <2>2 DEF Existing
<1>9. Orderly(made)
  BY <1>2, <1>8 DEF Orderly
<1>10. QED BY <1>1, <1>2, <1>7, <1>9 DEF target, made

\* Making such a directory keeps the disk orderly and the directory alone.
LEMMA MadeDirectoryStandsAlone ==
  ASSUME NEW disk, Orderly(disk), NEW dir \in Path, Alone(dir, disk),
         Prefixes(Front(dir)) \subseteq disk.dirs
  PROVE  LET made == [disk EXCEPT !.dirs = @ \cup {dir}]
         IN  Orderly(made) /\ Alone(dir, made)
<1> DEFINE made == [disk EXCEPT !.dirs = @ \cup {dir}]
<1>1. /\ made \in FileSystem /\ made.dirs = disk.dirs \cup {dir}
      /\ made.bags = disk.bags /\ made.files = disk.files
  BY DEF Orderly, FileSystem
<1> HIDE DEF made
<1>2. Prefixes(dir) \ {dir} \subseteq made.dirs
  BY <1>1, PrefixesOfFront
<1>3. Alone(dir, made)
  BY <1>1 DEF Alone, Existing
<1>4. Orderly(made)
  BY <1>1, <1>2 DEF Orderly, Existing
<1>5. QED BY <1>3, <1>4 DEF made

\* A bag that is completed in a directory that stands alone is apart from all others.
LEMMA CompletedBagStandsAlone ==
  ASSUME NEW disk, Orderly(disk), NEW dir \in disk.dirs, Alone(dir, disk)
  PROVE  Orderly([disk EXCEPT !.bags = @ \cup {dir}])
<1> DEFINE complete == [disk EXCEPT !.bags = @ \cup {dir}]
<1>1. /\ complete \in FileSystem /\ complete.bags = disk.bags \cup {dir}
      /\ complete.dirs = disk.dirs /\ complete.files = disk.files
  BY DEF Orderly, FileSystem
<1>2. dir \in Path /\ dir \in Prefixes(dir)
  BY PrefixesArePaths DEF Orderly, FileSystem
<1> HIDE DEF complete
<1>3. ASSUME NEW b \in complete.bags PROVE Prefixes(b) \cap complete.bags = {b}
  <2>1. CASE b = dir
    BY <1>1, <1>2, <2>1 DEF Alone
  <2>2. CASE b # dir
    <3>1. b \in disk.bags /\ b \in Existing(disk)
      BY <1>1, <2>2 DEF Orderly, Existing
    <3>2. dir \notin Prefixes(b)
      BY <2>2, <3>1 DEF Alone
    <3>3. QED BY <1>1, <3>1, <3>2 DEF Orderly
  <2>3. QED BY <2>1, <2>2
<1>4. Orderly(complete)
  BY <1>1, <1>3 DEF Orderly, Existing
<1>5. QED BY <1>4 DEF complete
-----------------------------------------------------------------------------
(***************************************************************************)
(* Types.                                                                  *)
(***************************************************************************)

\* The types of the recorder's variables.
RecorderTypes ==
  /\ recorder \in BOOLEAN /\ in_recording \in BOOLEAN /\ paused \in BOOLEAN
  /\ writer_open \in BOOLEAN
  /\ bag_dir \in Output
  /\ running \in Configs

Disk == {d \in FileSystem : d.bags \subseteq d.dirs}

\* The constants: configurations, outputs and stamps.
LEMMA Constants ==
  /\ Unset \in Output
  /\ \A p \in Path : Plain(p) \in Output
  /\ BootConfig \in Configs
  /\ \A c \in Configs : c.output \in Output /\ c.startPaused \in BOOLEAN
  /\ 0..MaxTime \subseteq DOMAIN Stamp
  /\ \A t \in 0..MaxTime : Stamp[t] \in Name
<1>1. <<>> \in Path
  BY EmptySeq DEF Path
<1>2. QED
  BY <1>1, ConfigAssumption, TimeAssumption, StampAssumption
  DEF Unset, Plain, Output, Config

\* Dropping the recorder, and constructing another, keeps the types.
LEMMA NoRecorderTypes == NoRecorder => RecorderTypes'
  BY Constants DEF NoRecorder, RecorderTypes

\* So does starting one, on whatever the disk then holds.
LEMMA CreateAndStartTypes ==
  ASSUME NEW dir \in Path, NEW c \in Configs, NEW disk \in Disk, NEW opening,
         CreateAndStart(dir, c, disk, opening)
  PROVE  RecorderTypes' /\ fs' \in Disk
<1>1. CASE opening = "badOptions"
  BY <1>1, NoRecorderTypes DEF CreateAndStart
<1>2. CASE opening # "badOptions"
  <2>1. RecorderTypes'
    BY <1>2, Constants DEF CreateAndStart, RecorderTypes
  <2>2. fs' \in Disk
    BY <1>2 DEF CreateAndStart, Disk, FileSystem
  <2>3. QED BY <2>1, <2>2
<1>3. QED BY <1>1, <1>2

\* A disk with the directories above a target is a disk.
LEMMA DiskWithContainer ==
  ASSUME NEW disk \in Disk, NEW target \in Path
  PROVE  WithContainer(disk, target) \in Disk
  BY WithContainerIsDisk DEF Disk

\* So is one on which a bag is closed.
LEMMA ClosedDiskIsDisk ==
  ASSUME TypeOK
  PROVE  \A disk \in ClosedDisks : disk \in Disk
  BY DEF TypeOK, ClosedDisks, Disk, FileSystem

\* What the process is started with.
LEMMA BootTypes ==
  ASSUME TypeOK
  PROVE  /\ CliTarget \in Path
         /\ CliDisk \in Disk
         /\ BootOutput \in Output
         /\ Target(CliDisk, BootOutput, Stamp[now]) \in Path
<1>1. fs \in Disk /\ Stamp[now] \in Name
  BY Constants DEF TypeOK, Disk
<1>2. CliTarget \in Path
  BY <1>1, ConfigAssumption, TargetIsPath DEF CliTarget
<1>3. CliDisk \in Disk
  BY <1>1, <1>2, DiskWithContainer DEF CliDisk
<1>4. BootOutput \in Output
  BY <1>2, Constants, ConfigAssumption DEF BootOutput
<1>5. QED BY <1>1, <1>2, <1>3, <1>4, TargetIsPath

\* Saving a configuration adds a file, which may make a directory a bag, and the
\* directories above it.
LEMMA SavedDiskIsDisk ==
  ASSUME TypeOK, NEW s \in Saves, NEW disk \in SavedDisks(s.dir, s.name)
  PROVE  /\ s.dir \in Path /\ disk \in Disk
         /\ disk.dirs = fs.dirs \cup Prefixes(s.dir)
         /\ \/ disk.bags = fs.bags /\ disk.files = fs.files
            \/ /\ s.name \in Name
               /\ disk.bags = fs.bags
               /\ disk.files = fs.files \cup {Append(s.dir, s.name)}
            \/ /\ s.name = Metadata
               /\ disk.bags = fs.bags \cup {s.dir}
               /\ disk.files = fs.files
<1> DEFINE dir == s.dir
           name == s.name
           made == [fs EXCEPT !.dirs = @ \cup Prefixes(dir)]
<1>1. dir \in Path /\ name \in Name \cup {Metadata}
  BY SaveAssumption
<1> HIDE DEF dir, name
<1>2. Prefixes(dir) \subseteq Path /\ dir \in Prefixes(dir)
  BY <1>1, PrefixesArePaths
<1>3. name \in Name => Append(dir, name) \in Path
  BY <1>1, AppendProperties DEF Path
<1>4. /\ made \in FileSystem /\ made.dirs = fs.dirs \cup Prefixes(dir)
      /\ made.bags = fs.bags /\ made.files = fs.files
      /\ fs.bags \subseteq fs.dirs
  BY <1>2 DEF TypeOK, FileSystem
<1>5. CASE disk = made
  BY <1>1, <1>4, <1>5 DEF Disk, dir, name
<1>6. CASE name = Metadata /\ disk = [made EXCEPT !.bags = @ \cup {dir}]
  <2>1. /\ disk \in FileSystem /\ disk.dirs = made.dirs
        /\ disk.bags = fs.bags \cup {dir} /\ disk.files = fs.files
    BY <1>1, <1>4, <1>6 DEF FileSystem
  <2>2. QED BY <1>1, <1>2, <1>4, <1>6, <2>1 DEF Disk, dir, name
<1>7. CASE name # Metadata /\ disk = [made EXCEPT !.files = @ \cup {Append(dir, name)}]
  <2>1. /\ disk \in FileSystem /\ disk.dirs = made.dirs /\ disk.bags = fs.bags
        /\ disk.files = fs.files \cup {Append(dir, name)}
    BY <1>1, <1>3, <1>4, <1>7 DEF FileSystem
  <2>2. QED BY <1>1, <1>4, <1>7, <2>1 DEF Disk, dir, name
<1>8. QED BY <1>5, <1>6, <1>7 DEF SavedDisks, dir, name

\* Every step preserves the types.
LEMMA TypeOKStep == TypeOK /\ [Next]_vars => TypeOK'
<1> SUFFICES ASSUME TypeOK, [Next]_vars PROVE TypeOK'
  OBVIOUS
<1> USE Constants DEF TypeOK, recVars, nodeVars
<1>m. meddled' \in BOOLEAN
  BY DEF Next, SaveConfig, vars
<1> USE <1>m
<1>a. fs \in Disk /\ Stamp[now] \in Name
  BY DEF Disk
<1>b. ASSUME RecorderTypes', fs' \in Disk, now' \in 0..MaxTime, up' \in BOOLEAN,
             uri' \in Output, raw' \in Output,
             config' \in Configs
      PROVE  TypeOK'
  BY <1>b DEF RecorderTypes, Disk
<1>c. RecorderTypes
  BY DEF RecorderTypes
<1>d. ASSUME NEW c \in Configs, Adopt(c)
      PROVE  config' \in Configs /\ raw' \in Output
  BY <1>d DEF Adopt, RawAfter, ParsedUri
<1>1. CASE NoChange BY <1>1 DEF NoChange, vars
<1>2. ASSUME NEW request \in Requests \cup {Unset}, NEW opening \in Openings,
             Start(request, opening)
      PROVE  TypeOK'
  <2> DEFINE out == IF request = Unset THEN raw ELSE request
             dir == Target(fs, out, Stamp[now])
             disk == WithContainer(fs, dir)
  <2>1. out \in Output
    BY ConfigAssumption
  <2>2. dir \in Path /\ disk \in Disk
    BY <1>a, <2>1, TargetIsPath, DiskWithContainer
  <2>3. CreateAndStart(dir, config, disk, opening)
    BY <1>2 DEF Start
  <2>4. RecorderTypes' /\ fs' \in Disk
    BY <2>2, <2>3, CreateAndStartTypes
  <2>5. uri' \in Output
    BY <1>2, <2>2 DEF Start
  <2> HIDE DEF TypeOK
  <2>6. now' = now /\ up' = up /\ raw' = raw /\ config' = config
    BY <1>2 DEF Start
  <2>7. QED BY <1>b, <2>4, <2>5, <2>6 DEF TypeOK
<1>3. CASE Stop
  <2>1. RecorderTypes' /\ fs' \in Disk
    BY <1>3, NoRecorderTypes, ClosedDiskIsDisk DEF Stop
  <2>2. QED BY <1>3, <1>b, <2>1 DEF Stop
<1>4. CASE StopFails BY <1>4 DEF StopFails
<1>5. CASE Pause BY <1>5 DEF Pause
<1>6. CASE Resume BY <1>6 DEF Resume
<1>7. ASSUME NEW c \in Configs, ApplyIdle(c) PROVE TypeOK'
  BY <1>7, <1>d DEF ApplyIdle
<1>8. ASSUME NEW c \in Configs, ApplyHot(c) PROVE TypeOK'
  BY <1>8, <1>d DEF ApplyHot
<1>9. ASSUME NEW c \in Configs, NEW disk \in ClosedDisks, ApplyRestartRefused(c, disk)
      PROVE  TypeOK'
  <2>1. RecorderTypes' /\ fs' \in Disk
    BY <1>9, NoRecorderTypes, ClosedDiskIsDisk DEF ApplyRestartRefused
  <2>2. QED BY <1>9, <1>b, <1>d, <2>1 DEF ApplyRestartRefused
<1>10. ASSUME NEW c \in Configs, NEW disk \in ClosedDisks, NEW opening \in Openings,
              ApplyRestart(c, disk, opening)
       PROVE  TypeOK'
  <2> DEFINE dir == Target(disk, RawAfter(c), Stamp[now])
             made == WithContainer(disk, dir)
  <2>1. RawAfter(c) \in Output /\ disk \in Disk
    BY ClosedDiskIsDisk DEF RawAfter, ParsedUri
  <2>2. dir \in Path /\ made \in Disk
    BY <1>a, <2>1, TargetIsPath, DiskWithContainer
  <2>3. CreateAndStart(dir, c, made, opening)
    BY <1>10 DEF ApplyRestart
  <2>4. RecorderTypes' /\ fs' \in Disk
    BY <2>2, <2>3, CreateAndStartTypes
  <2>5. config' \in Configs /\ raw' \in Output
    BY <1>10, <1>d DEF ApplyRestart
  <2>6. uri' \in Output /\ now' = now /\ up' = up
    BY <1>10, <2>2 DEF ApplyRestart
  <2>7. QED BY <1>b, <2>4, <2>5, <2>6
<1>11. ASSUME NEW p \in fs.dirs, DeleteBag(p) PROVE TypeOK'
  <2>1. fs' \in Disk
    BY <1>11, <1>a DEF DeleteBag, Disk, FileSystem
  <2>2. QED BY <1>11, <2>1 DEF DeleteBag, Disk
<1>12. ASSUME NEW p \in fs.dirs, DeleteBagPartly(p) PROVE TypeOK'
  <2>1. fs' \in Disk
    BY <1>12, <1>a DEF DeleteBagPartly, Disk, FileSystem
  <2>2. QED BY <1>12, <2>1 DEF DeleteBagPartly, Disk
<1>13. CASE BootIdle
  <2>1. RecorderTypes' /\ fs' \in Disk
    BY <1>13, NoRecorderTypes, BootTypes DEF BootIdle
  <2>2. QED BY <1>13, <1>b, <2>1, BootTypes DEF BootIdle
<1>14. CASE BootRefused
  <2>1. fs' \in Disk
    BY <1>14, <1>a, BootTypes DEF BootRefused
  <2>2. QED BY <1>14, <2>1 DEF BootRefused, Disk
<1>15. CASE BootRecording
  <2> DEFINE dir == Target(CliDisk, BootOutput, Stamp[now])
             made == WithContainer(CliDisk, dir)
  <2>1. dir \in Path /\ made \in Disk
    BY BootTypes, DiskWithContainer
  <2>2. CreateAndStart(dir, BootConfig, made, "opened")
    BY <1>15 DEF BootRecording
  <2>3. RecorderTypes' /\ fs' \in Disk
    BY <2>1, <2>2, CreateAndStartTypes
  <2>4. /\ now' = now /\ up' = TRUE /\ config' = BootConfig
        /\ uri' = Plain(dir) /\ raw' \in {Plain(dir), BootOutput}
    BY <1>15 DEF BootRecording
  <2>5. QED BY <1>b, <2>1, <2>3, <2>4, BootTypes
<1>16. ASSUME NEW opening \in Openings, BootFails(opening) PROVE TypeOK'
  <2> DEFINE dir == Target(CliDisk, BootOutput, Stamp[now])
             disk == WithContainer(CliDisk, dir)
             made == [disk EXCEPT !.dirs = @ \cup {dir}]
             complete == [made EXCEPT !.bags = @ \cup {dir}]
  <2>1. dir \in Path /\ disk \in Disk
    BY BootTypes, DiskWithContainer
  <2>2. made \in Disk /\ complete \in Disk
    BY <2>1 DEF Disk, FileSystem
  <2>3. fs' \in {disk, made, complete}
    BY <1>16 DEF BootFails
  <2>4. QED BY <1>16, <2>1, <2>2, <2>3 DEF BootFails, Disk
<1>17. CASE Shutdown
  <2>1. RecorderTypes' /\ fs' \in Disk
    BY <1>17, NoRecorderTypes, ClosedDiskIsDisk DEF Shutdown, NoNode
  <2>2. QED BY <1>17, <1>b, <2>1 DEF Shutdown, NoNode
<1>18. CASE Crash
  <2>1. RecorderTypes'
    BY <1>18, NoRecorderTypes DEF Crash, NoNode
  <2>2. QED BY <1>18, <1>a, <1>b, <2>1 DEF Crash, NoNode
<1>19. CASE Tick BY <1>19, TimeAssumption DEF Tick
<1>20. CASE UNCHANGED vars BY <1>20 DEF vars
<1>21. ASSUME NEW s \in Saves, SaveConfig(s.dir, s.name) PROVE TypeOK'
  <2>1. fs' \in Disk
    BY <1>21, SavedDiskIsDisk DEF SaveConfig
  <2>2. QED BY <1>21, <2>1 DEF SaveConfig, Disk
<1>22. QED
  BY <1>1, <1>2, <1>3, <1>4, <1>5, <1>6, <1>7, <1>8, <1>9, <1>10, <1>11, <1>12,
     <1>13, <1>14, <1>15, <1>16, <1>17, <1>18, <1>19, <1>20, <1>21
  DEF Next, Services, Process

\* The types hold, and every bag has its directory.
THEOREM TypeCorrect == Spec => []TypeOK
<1>1. Init => TypeOK
  <2>1. 0 \in 0..MaxTime
    BY TimeAssumption
  <2>2. InitialFs \in FileSystem /\ InitialFs.bags \subseteq InitialFs.dirs
    BY FsAssumption
  <2>3. QED BY <2>1, <2>2, Constants DEF Init, TypeOK
<1>2. QED BY <1>1, TypeOKStep, PTL DEF Spec
-----------------------------------------------------------------------------
\* Constructing a recorder leaves one that records in the given directory with
\* the given options, or none.
LEMMA CreateAndStartMatches ==
  ASSUME NEW dir, NEW c, NEW disk, NEW opening, CreateAndStart(dir, c, disk, opening),
         up' = TRUE, uri' = Plain(dir), config' = c
  PROVE  RecorderMatchesNode'
<1>1. CASE opening = "badOptions"
  BY <1>1 DEF CreateAndStart, NoRecorder, RecorderMatchesNode
<1>2. CASE opening # "badOptions"
  BY <1>2 DEF CreateAndStart, RecorderMatchesNode
<1>3. QED BY <1>1, <1>2

\* Every step preserves the agreement.
LEMMA RecorderMatchesNodeStep ==
  RecorderMatchesNode /\ [Next]_vars => RecorderMatchesNode'
<1> SUFFICES ASSUME RecorderMatchesNode, [Next]_vars PROVE RecorderMatchesNode'
  OBVIOUS
<1> USE DEF RecorderMatchesNode, Recording, recVars, nodeVars
<1>1. CASE NoChange BY <1>1 DEF NoChange, vars
<1>2. ASSUME NEW request \in Requests \cup {Unset}, NEW opening \in Openings,
             Start(request, opening)
      PROVE  RecorderMatchesNode'
  <2> DEFINE out == IF request = Unset THEN raw ELSE request
             dir == Target(fs, out, Stamp[now])
             disk == WithContainer(fs, dir)
  <2>1. CreateAndStart(dir, config, disk, opening)
    BY <1>2 DEF Start
  <2>2. up' = TRUE /\ uri' = Plain(dir) /\ config' = config
    BY <1>2 DEF Start
  <2>3. QED BY <2>1, <2>2, CreateAndStartMatches
<1>3. CASE Stop BY <1>3 DEF Stop, NoRecorder
<1>4. CASE StopFails BY <1>4 DEF StopFails
<1>5. CASE Pause BY <1>5 DEF Pause
<1>6. CASE Resume BY <1>6 DEF Resume
<1>7. ASSUME NEW c \in Configs, ApplyIdle(c) PROVE RecorderMatchesNode'
  BY <1>7 DEF ApplyIdle, Adopt
<1>8. ASSUME NEW c \in Configs, ApplyHot(c) PROVE RecorderMatchesNode'
  BY <1>8 DEF ApplyHot, Adopt
<1>9. ASSUME NEW c \in Configs, NEW disk \in ClosedDisks, ApplyRestartRefused(c, disk)
      PROVE  RecorderMatchesNode'
  BY <1>9 DEF ApplyRestartRefused, NoRecorder
<1>10. ASSUME NEW c \in Configs, NEW disk \in ClosedDisks, NEW opening \in Openings,
              ApplyRestart(c, disk, opening)
       PROVE  RecorderMatchesNode'
  <2> DEFINE dir == Target(disk, RawAfter(c), Stamp[now])
             made == WithContainer(disk, dir)
  <2>1. CreateAndStart(dir, c, made, opening)
    BY <1>10 DEF ApplyRestart
  <2>2. up' = TRUE /\ uri' = Plain(dir) /\ config' = c
    BY <1>10 DEF ApplyRestart, Adopt
  <2>3. QED BY <2>1, <2>2, CreateAndStartMatches
<1>11. ASSUME NEW p \in fs.dirs, DeleteBag(p) PROVE RecorderMatchesNode'
  BY <1>11 DEF DeleteBag
<1>12. ASSUME NEW p \in fs.dirs, DeleteBagPartly(p) PROVE RecorderMatchesNode'
  BY <1>12 DEF DeleteBagPartly
<1>13. CASE BootIdle BY <1>13 DEF BootIdle, NoRecorder
<1>14. CASE BootRefused BY <1>14 DEF BootRefused
<1>15. CASE BootRecording
  <2> DEFINE dir == Target(CliDisk, BootOutput, Stamp[now])
             made == WithContainer(CliDisk, dir)
  <2>1. CreateAndStart(dir, BootConfig, made, "opened")
    BY <1>15 DEF BootRecording
  <2>2. up' = TRUE /\ uri' = Plain(dir) /\ config' = BootConfig
    BY <1>15 DEF BootRecording
  <2>3. QED BY <2>1, <2>2, CreateAndStartMatches
<1>16. ASSUME NEW opening \in Openings, BootFails(opening) PROVE RecorderMatchesNode'
  BY <1>16 DEF BootFails
<1>17. CASE Shutdown BY <1>17 DEF Shutdown, NoNode, NoRecorder
<1>18. CASE Crash BY <1>18 DEF Crash, NoNode, NoRecorder
<1>19. CASE Tick BY <1>19 DEF Tick
<1>20. CASE UNCHANGED vars BY <1>20 DEF vars
<1>21. ASSUME NEW s \in Saves, SaveConfig(s.dir, s.name) PROVE RecorderMatchesNode'
  BY <1>21 DEF SaveConfig
<1>22. QED
  BY <1>1, <1>2, <1>3, <1>4, <1>5, <1>6, <1>7, <1>8, <1>9, <1>10, <1>11, <1>12,
     <1>13, <1>14, <1>15, <1>16, <1>17, <1>18, <1>19, <1>20, <1>21
  DEF Next, Services, Process

\* The node never holds a recorder that is not recording, and what it reports of
\* the recording is what the recorder works with.
THEOREM RecorderAlwaysMatchesNode == Spec => []RecorderMatchesNode
<1>1. Init => RecorderMatchesNode
  BY DEF Init, RecorderMatchesNode
<1>2. QED BY <1>1, RecorderMatchesNodeStep, PTL DEF Spec
-----------------------------------------------------------------------------
\* A recording begins in a directory that did not exist.
Fresh ==
  writer_open' /\ (~writer_open \/ bag_dir' # bag_dir)
    => bag_dir'.path \notin Existing(fs)

\* Closing a bag, and making the directories above the next, removes nothing.
LEMMA DisksGrow ==
  ASSUME TypeOK
  PROVE  /\ \A disk \in ClosedDisks : Existing(disk) = Existing(fs)
         /\ Existing(fs) \subseteq Existing(CliDisk)
<1>1. ASSUME NEW disk \in ClosedDisks PROVE disk.dirs = fs.dirs /\ disk.files = fs.files
  BY DEF ClosedDisks, TypeOK, FileSystem
<1>2. fs.dirs \subseteq CliDisk.dirs /\ CliDisk.files = fs.files
  BY BootTypes, WithContainerIsDisk DEF CliDisk, TypeOK
<1>3. QED BY <1>1, <1>2 DEF Existing

\* The recorder that is constructed in a new directory is fresh.
LEMMA CreateAndStartFresh ==
  ASSUME NEW dir, NEW c, NEW disk, NEW opening, CreateAndStart(dir, c, disk, opening),
         dir \notin Existing(fs)
  PROVE  Fresh
<1>1. CASE opening = "badOptions"
  BY <1>1 DEF CreateAndStart, NoRecorder, Fresh
<1>2. CASE opening # "badOptions"
  BY <1>2 DEF CreateAndStart, Fresh, Plain
<1>3. QED BY <1>1, <1>2

\* A recording always begins in a directory that did not exist before, so it
\* never writes over an older bag.
THEOREM AlwaysFreshDirectory == Spec => FreshDirectory
<1>1. ASSUME TypeOK, [Next]_vars PROVE [Fresh]_vars
  <2> USE DEF Fresh, recVars, nodeVars
  <2>1. CASE NoChange BY <2>1 DEF NoChange
  <2>2. ASSUME NEW request \in Requests \cup {Unset}, NEW opening \in Openings,
               Start(request, opening)
        PROVE  Fresh
    <3> DEFINE out == IF request = Unset THEN raw ELSE request
               dir == Target(fs, out, Stamp[now])
               disk == WithContainer(fs, dir)
    <3>1. CreateAndStart(dir, config, disk, opening) /\ ~Refused(fs, out, Stamp[now])
      BY <2>2 DEF Start
    <3>2. QED BY <3>1, TargetIsNew, CreateAndStartFresh
  <2>3. CASE Stop BY <2>3 DEF Stop, NoRecorder
  <2>4. CASE StopFails BY <2>4 DEF StopFails
  <2>5. CASE Pause BY <2>5 DEF Pause
  <2>6. CASE Resume BY <2>6 DEF Resume
  <2>7. ASSUME NEW c \in Configs, ApplyIdle(c) PROVE Fresh
    BY <2>7 DEF ApplyIdle
  <2>8. ASSUME NEW c \in Configs, ApplyHot(c) PROVE Fresh
    BY <2>8 DEF ApplyHot
  <2>9. ASSUME NEW c \in Configs, NEW disk \in ClosedDisks, ApplyRestartRefused(c, disk)
        PROVE  Fresh
    BY <2>9 DEF ApplyRestartRefused, NoRecorder
  <2>10. ASSUME NEW c \in Configs, NEW disk \in ClosedDisks, NEW opening \in Openings,
                ApplyRestart(c, disk, opening)
         PROVE  Fresh
    <3> DEFINE dir == Target(disk, RawAfter(c), Stamp[now])
               made == WithContainer(disk, dir)
    <3>1. CreateAndStart(dir, c, made, opening) /\ ~Refused(disk, RawAfter(c), Stamp[now])
      BY <2>10 DEF ApplyRestart
    <3>2. dir \notin Existing(fs)
      BY <1>1, <3>1, TargetIsNew, DisksGrow
    <3>3. QED BY <3>1, <3>2, CreateAndStartFresh
  <2>11. ASSUME NEW p \in fs.dirs, DeleteBag(p) PROVE Fresh
    BY <2>11 DEF DeleteBag
  <2>12. ASSUME NEW p \in fs.dirs, DeleteBagPartly(p) PROVE Fresh
    BY <2>12 DEF DeleteBagPartly
  <2>13. CASE BootIdle BY <2>13 DEF BootIdle, NoRecorder
  <2>14. CASE BootRefused BY <2>14 DEF BootRefused
  <2>15. CASE BootRecording
    <3> DEFINE dir == Target(CliDisk, BootOutput, Stamp[now])
               made == WithContainer(CliDisk, dir)
    <3>1. /\ CreateAndStart(dir, BootConfig, made, "opened")
          /\ ~Refused(CliDisk, BootOutput, Stamp[now])
      BY <2>15 DEF BootRecording
    <3>2. dir \notin Existing(fs)
      BY <1>1, <3>1, TargetIsNew, DisksGrow
    <3>3. QED BY <3>1, <3>2, CreateAndStartFresh
  <2>16. ASSUME NEW opening \in Openings, BootFails(opening) PROVE Fresh
    BY <2>16 DEF BootFails
  <2>17. CASE Shutdown BY <2>17 DEF Shutdown, NoNode, NoRecorder
  <2>18. CASE Crash BY <2>18 DEF Crash, NoNode, NoRecorder
  <2>19. CASE Tick BY <2>19 DEF Tick
  <2>20. ASSUME NEW s \in Saves, SaveConfig(s.dir, s.name) PROVE Fresh
    BY <2>20 DEF SaveConfig
  <2>21. QED
    BY <1>1, <2>1, <2>2, <2>3, <2>4, <2>5, <2>6, <2>7, <2>8, <2>9, <2>10, <2>11,
       <2>12, <2>13, <2>14, <2>15, <2>16, <2>17, <2>18, <2>19, <2>20
    DEF Next, Services, Process
<1>2. QED BY <1>1, TypeCorrect, PTL DEF Spec, FreshDirectory, Fresh
-----------------------------------------------------------------------------
\* The disk is orderly, and whatever directory a recorder has stands alone, also
\* when its bag could not be opened: it may become a bag when it is closed.
BagsInv ==
  /\ Orderly(fs)
  /\ recorder => bag_dir.path # <<>> /\ Alone(bag_dir.path, fs)
  /\ writer_open => bag_dir.path \in fs.dirs

\* As long as no client saves a configuration among the bags.
BagsInvUnlessMeddled == ~meddled => BagsInv

\* Bags and the directory of the recorder stay apart: the invariant implies it.
LEMMA BagsInvKeepsApart == RecorderMatchesNode /\ BagsInvUnlessMeddled => BagsStayApart
  BY DEF RecorderMatchesNode, BagsInvUnlessMeddled, BagsInv, BagsStayApart,
         NoNestedBags, ActiveBagSafe, Orderly, Alone

\* Without a recorder only the disk matters.
LEMMA BagsInvWithoutRecorder == NoRecorder /\ Orderly(fs') => BagsInv'
  BY DEF NoRecorder, BagsInv

\* The recorder that is constructed in a directory that stands alone.
LEMMA CreateAndStartStandsAlone ==
  ASSUME NEW dir \in Path \ {<<>>}, NEW c, NEW disk, NEW opening,
         CreateAndStart(dir, c, disk, opening),
         Orderly(disk), Alone(dir, disk), Prefixes(Front(dir)) \subseteq disk.dirs
  PROVE  BagsInv'
<1> DEFINE made == [disk EXCEPT !.dirs = @ \cup {dir}]
<1>1. Orderly(made) /\ Alone(dir, made) /\ dir \in made.dirs
  BY MadeDirectoryStandsAlone DEF Orderly, FileSystem
<1> HIDE DEF made
<1>2. CASE opening = "badOptions"
  BY <1>2, BagsInvWithoutRecorder DEF CreateAndStart
<1>3. CASE opening = "openFailed"
  <2>1. bag_dir'.path = dir
    BY <1>3 DEF CreateAndStart, Plain
  <2>2. fs' = disk
    BY <1>3 DEF CreateAndStart
  <2>3. ~writer_open'
    BY <1>3 DEF CreateAndStart
  <2>4. QED BY <2>1, <2>2, <2>3 DEF BagsInv
<1>4. CASE opening \notin {"badOptions", "openFailed"}
  <2>1. fs' = made /\ bag_dir'.path = dir
    BY <1>4 DEF CreateAndStart, Plain, made
  <2>2. QED BY <1>1, <2>1 DEF BagsInv
<1>5. QED BY <1>2, <1>3, <1>4

\* The same in a directory resolveOutputDirectory gives on an orderly disk.
LEMMA StartsStandAlone ==
  ASSUME NEW disk, Orderly(disk), NEW out \in Output, NEW ts \in Name,
         ~Refused(disk, out, ts), NEW c, NEW opening,
         CreateAndStart(Target(disk, out, ts), c,
                        WithContainer(disk, Target(disk, out, ts)), opening)
  PROVE  BagsInv'
  BY TargetStandsAlone, CreateAndStartStandsAlone

\* Constructing a recorder completes no bag.
LEMMA CreateAndStartKeepsBags ==
  ASSUME NEW dir, NEW c, NEW disk \in FileSystem, NEW opening,
         CreateAndStart(dir, c, disk, opening)
  PROVE  fs'.bags = disk.bags
<1>1. CASE opening \in {"badOptions", "openFailed"}
  BY <1>1 DEF CreateAndStart
<1>2. CASE opening \notin {"badOptions", "openFailed"}
  BY <1>2 DEF CreateAndStart, FileSystem
<1>3. QED BY <1>1, <1>2

\* Closing a bag keeps the disk orderly.
LEMMA ClosedDiskIsOrderly ==
  ASSUME BagsInv
  PROVE  \A disk \in ClosedDisks : Orderly(disk)
<1> SUFFICES ASSUME NEW disk \in ClosedDisks PROVE Orderly(disk)
  OBVIOUS
<1> DEFINE complete == [fs EXCEPT !.bags = @ \cup ({bag_dir.path} \cap fs.dirs)]
<1>1. CASE disk = fs
  BY <1>1 DEF BagsInv
<1>2. CASE recorder /\ disk = complete
  <2>1. CASE bag_dir.path \in fs.dirs
    <3>1. {bag_dir.path} \cap fs.dirs = {bag_dir.path}
      BY <2>1
    <3>2. QED BY <1>2, <2>1, <3>1, CompletedBagStandsAlone DEF BagsInv
  <2>2. CASE bag_dir.path \notin fs.dirs
    <3>1. {bag_dir.path} \cap fs.dirs = {}
      BY <2>2
    <3>2. complete = fs
      BY <3>1 DEF BagsInv, Orderly, FileSystem
    <3>3. QED BY <1>1, <1>2, <3>2
  <2>3. QED BY <2>1, <2>2
<1>3. QED BY <1>1, <1>2 DEF ClosedDisks

\* The disk a process is started on.
LEMMA BootDiskIsOrderly ==
  ASSUME TypeOK, BagsInv, ~CliRefused
  PROVE  Orderly(CliDisk) /\ CliDisk.bags = fs.bags
<1>1. Stamp[now] \in Name /\ CliOutput \in Output
  BY Constants, ConfigAssumption DEF TypeOK
<1>2. QED
  BY <1>1, TargetStandsAlone DEF BagsInv, CliRefused, CliDisk, CliTarget

\* Deleting a bag, with everything in it, takes nothing else away.
LEMMA DeletionTakesOneBag ==
  ASSUME Orderly(fs), NEW p \in fs.bags, DeleteBag(p)
  PROVE  /\ Orderly(fs')
         /\ fs'.bags = fs.bags \ {p}
         /\ \A dir \in Path : Alone(dir, fs) => /\ Alone(dir, fs')
                                                /\ dir \in fs.dirs => dir \in fs'.dirs
<1>1. /\ fs'.dirs = fs.dirs \ Beneath(p) /\ fs'.bags = fs.bags \ Beneath(p)
      /\ fs'.files = fs.files \ Beneath(p) /\ fs' \in FileSystem
  BY DEF DeleteBag, Orderly, FileSystem
<1>2. Existing(fs) \subseteq Path /\ fs.bags \subseteq Existing(fs)
  BY DEF Orderly, FileSystem, Existing
<1>3. \A b \in fs.bags : b \in Beneath(p) <=> b = p
  BY <1>2, PrefixesArePaths DEF Orderly, Beneath
<1>4. \A b \in fs'.bags : Prefixes(b) \cap fs'.bags = {b}
  BY <1>1 DEF Orderly
<1>5. ASSUME NEW q \in Existing(fs') PROVE Prefixes(q) \ {q} \subseteq fs'.dirs
  <2>1. q \in Existing(fs) /\ q \in Path /\ p \notin Prefixes(q)
    BY <1>1, <1>2, <1>5 DEF Existing, Beneath
  <2>2. ASSUME NEW r \in Prefixes(q) \ {q} PROVE r \in fs'.dirs
    <3>1. r \in fs.dirs
      BY <2>1 DEF Orderly
    <3>2. p \notin Prefixes(r)
      BY <2>1, PrefixesCompose
    <3>3. QED BY <1>1, <3>1, <3>2 DEF Beneath
  <2>3. QED BY <2>2
<1>6. Orderly(fs')
  BY <1>1, <1>4, <1>5 DEF Orderly
<1>7. ASSUME NEW dir \in Path, Alone(dir, fs)
      PROVE  Alone(dir, fs') /\ (dir \in fs.dirs => dir \in fs'.dirs)
  <2>1. Alone(dir, fs')
    BY <1>1, <1>7 DEF Alone, Existing
  <2>2. p \notin Prefixes(dir)
    BY <1>7 DEF Alone
  <2>3. QED BY <1>1, <2>1, <2>2 DEF Beneath
<1>8. QED BY <1>1, <1>3, <1>6, <1>7

\* A file is in its directory.
LEMMA PrefixesOfFile ==
  ASSUME NEW dir \in Path, NEW name \in Name
  PROVE  Prefixes(Append(dir, name)) = Prefixes(dir) \cup {Append(dir, name)}
<1> DEFINE file == Append(dir, name)
<1>1. Len(dir) \in Nat /\ file \in Path /\ Len(file) = Len(dir) + 1
  BY AppendProperties, LenProperties DEF Path
<1>2. \A i \in 1..Len(dir) : file[i] = dir[i]
  BY AppendProperties DEF Path
<1>3. /\ Front(file) = SubSeq(file, 1, Len(dir)) /\ Len(dir) \in 0..Len(file)
      /\ Front(file) \in Path
  <2> HIDE DEF file
  <2>1. Len(file) - 1 = Len(dir) /\ Len(dir) \in 0..Len(file)
    BY <1>1
  <2>2. Front(file) = SubSeq(file, 1, Len(dir))
    BY <2>1 DEF Front
  <2>3. QED BY <1>1, <2>1, <2>2, PrefixesArePaths
<1>4. Len(Front(file)) = Len(dir) /\ Front(file) \in Prefixes(file)
  BY <1>1, <1>3, PrefixesArePaths DEF Prefixes
<1> HIDE DEF file
<1>5. \A i \in 1..Len(dir) : Front(file)[i] = file[i]
  BY <1>1, <1>3, <1>4, PrefixIsBeginning
<1>6. Front(file) = dir
  BY <1>1, <1>2, <1>3, <1>4, <1>5, SeqEqual DEF Path
<1>7. QED BY <1>1, <1>6, PrefixesOfFront DEF file

\* A configuration that is saved away from the bags leaves them as they are.
LEMMA SavingElsewhere ==
  ASSUME TypeOK, BagsInv, NEW s \in Saves, SaveConfig(s.dir, s.name), ~meddled'
  PROVE  BagsInv'
<1> DEFINE dir == s.dir
           file == Append(s.dir, s.name)
           bag == bag_dir.path
<1>1. /\ dir \in Path /\ fs' \in Disk /\ fs'.dirs = fs.dirs \cup Prefixes(dir)
      /\ fs'.bags = fs.bags
      /\ \/ fs'.files = fs.files
         \/ s.name \in Name /\ fs'.files = fs.files \cup {file}
  BY SavedDiskIsDisk DEF SaveConfig, AmongBags
<1>2. s.name \in Name => Prefixes(file) = Prefixes(dir) \cup {file}
  BY <1>1, PrefixesOfFile
<1>3. /\ recorder => bag \notin Prefixes(dir)
      /\ UNCHANGED recVars
  BY DEF SaveConfig, AmongBags
<1> HIDE DEF dir, file
<1>4. \A p \in Existing(fs') : \/ p \in Existing(fs)
                               \/ p \in Prefixes(dir)
                               \/ p = file /\ s.name \in Name
  BY <1>1 DEF Existing
<1>5. ASSUME NEW p \in Existing(fs') PROVE Prefixes(p) \ {p} \subseteq fs'.dirs
  <2>1. CASE p \in Existing(fs)
    BY <1>1, <2>1 DEF BagsInv, Orderly
  <2>2. CASE p \in Prefixes(dir)
    BY <1>1, <2>2, PrefixesCompose
  <2>3. CASE p = file /\ s.name \in Name
    BY <1>1, <1>2, <2>3
  <2>4. QED BY <1>4, <2>1, <2>2, <2>3
<1>6. Orderly(fs')
  BY <1>1, <1>5 DEF BagsInv, Orderly, Disk
<1>7. ASSUME recorder PROVE bag # <<>> /\ Alone(bag, fs')
  <2>1. ASSUME NEW p \in Existing(fs'), bag \in Prefixes(p) PROVE p = bag
    <3>1. CASE p \in Existing(fs)
      BY <1>7, <2>1, <3>1 DEF BagsInv, Alone
    <3>2. CASE p \in Prefixes(dir)
      BY <1>1, <1>3, <1>7, <2>1, <3>2, PrefixesCompose
    <3>3. CASE p = file /\ s.name \in Name
      BY <1>2, <1>3, <1>7, <2>1, <3>3
    <3>4. QED BY <1>4, <3>1, <3>2, <3>3
  <2>2. QED BY <1>1, <1>7, <2>1 DEF BagsInv, Alone
<1>8. QED BY <1>1, <1>3, <1>6, <1>7 DEF BagsInv, recVars

\* Every step preserves the invariant.
LEMMA BagsInvStep ==
  TypeOK /\ RecorderMatchesNode /\ BagsInvUnlessMeddled /\ [Next]_vars
    => BagsInvUnlessMeddled'
<1> SUFFICES ASSUME TypeOK, RecorderMatchesNode, BagsInvUnlessMeddled, [Next]_vars,
                    ~meddled'
             PROVE  BagsInv'
  BY DEF BagsInvUnlessMeddled
<1>m. BagsInv
  BY DEF Next, SaveConfig, vars, BagsInvUnlessMeddled
<1> USE <1>m
<1> USE DEF recVars, nodeVars, Recording
<1>a. Stamp[now] \in Name /\ bag_dir.path \in Path
  BY Constants DEF TypeOK, Output
<1>b. Orderly(fs)
  BY DEF BagsInv
<1>c. ASSUME UNCHANGED <<fs, recVars>> PROVE BagsInv'
  BY <1>c DEF BagsInv, Orderly, Alone, Existing
<1>d. ~up => ~recorder /\ ~writer_open
  BY DEF RecorderMatchesNode
<1>e. ASSUME ~recorder, Orderly(fs'), UNCHANGED recVars PROVE BagsInv'
  BY <1>e DEF BagsInv, RecorderMatchesNode
<1>1. CASE NoChange BY <1>1, <1>c DEF NoChange, vars
<1>2. ASSUME NEW request \in Requests \cup {Unset}, NEW opening \in Openings,
             Start(request, opening)
      PROVE  BagsInv'
  <2> DEFINE out == IF request = Unset THEN raw ELSE request
             target == Target(fs, out, Stamp[now])
  <2>1. out \in Output
    BY ConfigAssumption DEF TypeOK
  <2>2. /\ ~Refused(fs, out, Stamp[now])
        /\ CreateAndStart(target, config, WithContainer(fs, target), opening)
    BY <1>2 DEF Start
  <2> HIDE DEF out
  <2>3. QED BY <1>a, <1>b, <2>1, <2>2, StartsStandAlone
<1>3. CASE Stop
  BY <1>3, ClosedDiskIsOrderly, BagsInvWithoutRecorder DEF Stop
<1>4. CASE StopFails BY <1>4 DEF StopFails, BagsInv
<1>5. CASE Pause BY <1>5 DEF Pause, BagsInv
<1>6. CASE Resume BY <1>6 DEF Resume, BagsInv
<1>7. ASSUME NEW c \in Configs, ApplyIdle(c) PROVE BagsInv'
  BY <1>7, <1>c DEF ApplyIdle
<1>8. ASSUME NEW c \in Configs, ApplyHot(c) PROVE BagsInv'
  BY <1>8 DEF ApplyHot, BagsInv
<1>9. ASSUME NEW c \in Configs, NEW disk \in ClosedDisks, ApplyRestartRefused(c, disk)
      PROVE  BagsInv'
  BY <1>9, ClosedDiskIsOrderly, BagsInvWithoutRecorder DEF ApplyRestartRefused
<1>10. ASSUME NEW c \in Configs, NEW disk \in ClosedDisks, NEW opening \in Openings,
              ApplyRestart(c, disk, opening)
       PROVE  BagsInv'
  <2> DEFINE target == Target(disk, RawAfter(c), Stamp[now])
  <2>1. RawAfter(c) \in Output
    BY Constants DEF TypeOK, RawAfter, ParsedUri
  <2>2. /\ ~Refused(disk, RawAfter(c), Stamp[now])
        /\ CreateAndStart(target, c, WithContainer(disk, target), opening)
    BY <1>10 DEF ApplyRestart
  <2>3. Orderly(disk)
    BY ClosedDiskIsOrderly
  <2>4. QED BY <1>a, <2>1, <2>2, <2>3, StartsStandAlone
<1>11. ASSUME NEW p \in fs.dirs, DeleteBag(p) PROVE BagsInv'
  <2>1. p \in fs.bags /\ UNCHANGED recVars
    BY <1>11 DEF DeleteBag
  <2>2. Orderly(fs') /\ (Alone(bag_dir.path, fs) =>
          /\ Alone(bag_dir.path, fs')
          /\ bag_dir.path \in fs.dirs => bag_dir.path \in fs'.dirs)
    BY <1>11, <1>a, <1>b, <2>1, DeletionTakesOneBag
  <2>3. QED BY <2>1, <2>2 DEF BagsInv, RecorderMatchesNode
<1>12. ASSUME NEW p \in fs.dirs, DeleteBagPartly(p) PROVE BagsInv'
  <2>1. /\ fs'.dirs = fs.dirs /\ fs'.bags = fs.bags \ {p} /\ fs'.files = fs.files
        /\ fs' \in FileSystem /\ UNCHANGED recVars
    BY <1>12, <1>b DEF DeleteBagPartly, Orderly, FileSystem
  <2>2. Orderly(fs')
    BY <1>b, <2>1 DEF Orderly, Existing
  <2>3. Alone(bag_dir.path, fs) => Alone(bag_dir.path, fs')
    BY <2>1 DEF Alone, Existing
  <2>4. QED BY <2>1, <2>2, <2>3 DEF BagsInv
<1>13. CASE BootIdle
  BY <1>13, BootDiskIsOrderly, BagsInvWithoutRecorder DEF BootIdle
<1>14. CASE BootRefused
  <2>1. ~recorder /\ UNCHANGED recVars
    BY <1>14, <1>d DEF BootRefused
  <2>2. Orderly(fs')
    BY <1>14, <1>b, BootDiskIsOrderly DEF BootRefused
  <2>3. QED BY <1>e, <2>1, <2>2
<1>15. CASE BootRecording
  <2> DEFINE target == Target(CliDisk, BootOutput, Stamp[now])
  <2>1. /\ ~CliRefused /\ ~Refused(CliDisk, BootOutput, Stamp[now])
        /\ CreateAndStart(target, BootConfig, WithContainer(CliDisk, target), "opened")
    BY <1>15 DEF BootRecording
  <2>2. QED BY <1>a, <2>1, BootDiskIsOrderly, BootTypes, StartsStandAlone
<1>16. ASSUME NEW opening \in Openings, BootFails(opening) PROVE BagsInv'
  <2> DEFINE target == Target(CliDisk, BootOutput, Stamp[now])
             disk == WithContainer(CliDisk, target)
             made == [disk EXCEPT !.dirs = @ \cup {target}]
             complete == [made EXCEPT !.bags = @ \cup {target}]
  <2>1. /\ ~CliRefused /\ ~Refused(CliDisk, BootOutput, Stamp[now])
        /\ fs' \in {disk, made, complete} /\ ~recorder /\ UNCHANGED recVars
    BY <1>16, <1>d DEF BootFails
  <2>2. /\ target \in Path /\ Orderly(disk) /\ Alone(target, disk)
        /\ Prefixes(Front(target)) \subseteq disk.dirs
    BY <1>a, <2>1, BootDiskIsOrderly, BootTypes, TargetStandsAlone
  <2> HIDE DEF target, disk
  <2>3. Orderly(made) /\ Alone(target, made) /\ target \in made.dirs
    BY <2>2, MadeDirectoryStandsAlone DEF Orderly, FileSystem
  <2> HIDE DEF made
  <2>4. Orderly(complete)
    BY <2>3, CompletedBagStandsAlone
  <2>5. QED BY <1>e, <2>1, <2>2, <2>3, <2>4
<1>17. CASE Shutdown
  BY <1>17, ClosedDiskIsOrderly, BagsInvWithoutRecorder DEF Shutdown, NoNode
<1>18. CASE Crash
  BY <1>18, <1>b, BagsInvWithoutRecorder DEF Crash, NoNode
<1>19. CASE Tick BY <1>19, <1>c DEF Tick
<1>20. CASE UNCHANGED vars BY <1>20, <1>c DEF vars
<1>21. ASSUME NEW s \in Saves, SaveConfig(s.dir, s.name) PROVE BagsInv'
  BY <1>21, SavingElsewhere
<1>22. QED
  BY <1>1, <1>2, <1>3, <1>4, <1>5, <1>6, <1>7, <1>8, <1>9, <1>10, <1>11, <1>12,
     <1>13, <1>14, <1>15, <1>16, <1>17, <1>18, <1>19, <1>20, <1>21
  DEF Next, Services, Process

\* The invariant holds.
LEMMA BagsInvHolds ==
  Spec => [](TypeOK /\ RecorderMatchesNode /\ BagsInvUnlessMeddled)
<1>1. Init => BagsInvUnlessMeddled
  BY FsAssumption DEF Init, BagsInvUnlessMeddled, BagsInv, Orderly
<1>2. QED
  BY <1>1, BagsInvStep, TypeCorrect, RecorderAlwaysMatchesNode, PTL DEF Spec

\* No complete bag, nor the one being written, lies in another, and the one being
\* written keeps its directory, whatever is deleted, and wherever a configuration is
\* saved but as a metadata.yaml or into that directory.
THEOREM BagsAlwaysApart == Spec => []BagsStayApart
  BY BagsInvKeepsApart, BagsInvHolds, PTL
-----------------------------------------------------------------------------
\* A directory that stands alone is apart from the bags on an orderly disk.
LEMMA AloneIsApart ==
  ASSUME NEW disk, Orderly(disk), NEW dir, Alone(dir, disk)
  PROVE  Archive!Apart(dir, disk.bags)
<1>1. ASSUME NEW b \in disk.bags PROVE dir \notin Prefixes(b) /\ b \notin Prefixes(dir)
  <2>1. b \in Existing(disk) /\ b \in Prefixes(b)
    BY PrefixesArePaths DEF Orderly, FileSystem, Existing
  <2>2. QED BY <2>1 DEF Alone
<1>2. QED BY <1>1 DEF Archive!Apart, Archive!Prefixes, Prefixes

\* The recorder's part of a step of the archive: there is no recording any more,
LEMMA StepRests ==
  ASSUME RecorderMatchesNode', ~recorder'
  PROVE  IF up' THEN Archive!Rests("IDLE") ELSE Archive!Rests("down")
  BY DEF Archive!Rests, RecorderMatchesNode, Recording, StatusState

\* or there is a new one, which may have failed,
LEMMA StepBegins ==
  ASSUME RecorderMatchesNode', BagsInvUnlessMeddled', meddled' = meddled, recorder'
  PROVE  Archive!Begins
<1>1. up' /\ Recording'
  BY DEF RecorderMatchesNode, Recording
<1>2. CASE ~writer_open'
  BY <1>1, <1>2 DEF Archive!Begins
<1>3. CASE writer_open'
  <2>1. Archive!Apart(bag_dir'.path, fs'.bags)
    <3>1. CASE meddled
      BY <3>1 DEF Archive!Apart
    <3>2. CASE ~meddled
      <4>1. Orderly(fs') /\ Alone(bag_dir'.path, fs')
        BY <3>2 DEF BagsInvUnlessMeddled, BagsInv
      <4>2. QED BY <4>1, AloneIsApart
    <3>3. QED BY <3>1, <3>2
  <2>2. StatusState' \in {"RECORDING", "PAUSED"}
    BY <1>1 DEF StatusState
  <2>3. QED BY <1>1, <1>3, <2>1, <2>2 DEF Archive!Begins
<1>4. QED BY <1>2, <1>3

\* and the one there was is over, with a complete bag or, if it failed, without.
LEMMA StepEnds ==
  ASSUME TypeOK, RecorderMatchesNode, BagsInvUnlessMeddled, recorder,
         NEW disk \in ClosedDisks, fs'.bags = disk.bags
  PROVE  Archive!Ends
<1>1. up /\ Recording
  BY DEF RecorderMatchesNode, Recording
<1>2. fs'.bags \in {fs.bags, fs.bags \cup ({bag_dir.path} \cap fs.dirs)}
  BY DEF ClosedDisks, TypeOK, FileSystem
<1>3. CASE writer_open
  <2>1. fs'.bags = fs.bags \cup ({bag_dir.path} \cap fs.dirs)
    BY <1>3 DEF ClosedDisks, TypeOK, FileSystem
  <2>2. bag_dir.path \in fs.dirs \/ meddled
    BY <1>3 DEF BagsInvUnlessMeddled, BagsInv
  <2>3. QED BY <1>3, <2>1, <2>2 DEF Archive!Ends
<1>4. CASE ~writer_open
  <2>1. CASE fs'.bags = fs.bags
    BY <1>1, <1>4, <2>1 DEF Archive!Ends
  <2>2. CASE fs'.bags # fs.bags
    <3>1. bag_dir.path \in fs'.bags \ fs.bags /\ fs'.bags = fs.bags \cup {bag_dir.path}
      BY <1>2, <2>2
    <3>2. Archive!Apart(bag_dir.path, fs.bags)
      BY AloneIsApart DEF BagsInvUnlessMeddled, BagsInv, Archive!Apart
    <3>3. Archive!Gains
      BY <3>1, <3>2 DEF Archive!Gains
    <3>4. QED BY <1>1, <1>4, <3>3 DEF Archive!Ends
  <2>3. QED BY <2>1, <2>2
<1>5. QED BY <1>3, <1>4

\* Starting a process takes no bag away and adds none.
LEMMA BootDiskKeepsBags ==
  ASSUME TypeOK
  PROVE  CliDisk.bags = fs.bags
  BY BootTypes, WithContainerIsDisk DEF CliDisk, TypeOK

\* Every step is one of the archive's, or changes nothing the archive knows.
LEMMA ArchiveStep ==
  ASSUME TypeOK, RecorderMatchesNode, BagsInvUnlessMeddled, [Next]_vars,
         TypeOK', RecorderMatchesNode', BagsInvUnlessMeddled'
  PROVE  [Archive!ArchiveNext]_(Archive!archiveVars)
<1>21. ASSUME NEW s \in Saves, SaveConfig(s.dir, s.name)
       PROVE  [Archive!ArchiveNext]_(Archive!archiveVars)
  <2>1. /\ UNCHANGED <<up, recorder, in_recording, paused, writer_open, bag_dir>>
        /\ meddled' = (meddled \/ AmongBags(s.dir, s.name))
    BY <1>21 DEF SaveConfig, recVars, nodeVars
  <2>2. fs'.bags = fs.bags \/ (fs'.bags = fs.bags \cup {s.dir} /\ s.name = Metadata)
    BY <1>21, SavedDiskIsDisk DEF SaveConfig
  <2>3. CASE meddled'
    <3>1. fs'.bags = fs.bags \/ \E d \in fs'.bags : fs'.bags = fs.bags \cup {d}
      BY <2>2
    <3>2. Archive!Meddle
      BY <2>1, <2>3, <3>1 DEF Archive!Meddle, Recording, StatusState
    <3>3. QED BY <3>2 DEF Archive!ArchiveNext
  <2>4. CASE ~meddled'
    <3>1. fs'.bags = fs.bags /\ meddled' = meddled
      BY <2>1, <2>2, <2>4 DEF AmongBags, TypeOK
    <3>2. QED BY <2>1, <3>1 DEF Archive!archiveVars, Recording, StatusState
  <2>5. QED BY <2>3, <2>4
<1>m. CASE meddled' # meddled
  BY <1>m, <1>21 DEF Next, vars
<1> SUFFICES ASSUME meddled' = meddled
             PROVE  [Archive!ArchiveNext]_(Archive!archiveVars)
  BY <1>m
<1> USE DEF recVars, nodeVars, Archive!ArchiveNext
<1>a. Stamp[now] \in Name
  BY Constants DEF TypeOK
<1>b. recorder <=> in_recording
  BY DEF RecorderMatchesNode
<1>c. ASSUME UNCHANGED <<up, recorder, in_recording, paused, writer_open, bag_dir>>,
             fs'.bags = fs.bags
      PROVE  UNCHANGED Archive!archiveVars
  BY <1>c DEF Archive!archiveVars, Recording, StatusState
<1>d. ASSUME up, ~recorder, up', fs'.bags = fs.bags
      PROVE  [Archive!ArchiveNext]_(Archive!archiveVars)
  <2>1. CASE recorder'
    BY <1>d, <2>1, StepBegins DEF Archive!Start, Recording, StatusState
  <2>2. CASE ~recorder'
    BY <1>d, <2>2 DEF Archive!archiveVars, RecorderMatchesNode, Recording, StatusState
  <2>3. QED BY <2>1, <2>2
<1>e. ASSUME recorder, NEW disk \in ClosedDisks, fs'.bags = disk.bags, up'
      PROVE  Archive!ArchiveNext
  <2>1. Archive!Ends
    BY <1>e, StepEnds
  <2>2. CASE recorder'
    BY <2>1, <2>2, StepBegins DEF Archive!Restart
  <2>3. CASE ~recorder'
    BY <1>e, <2>1, <2>3, StepRests DEF Archive!Stop
  <2>4. QED BY <2>2, <2>3
<1>f. ASSUME up, up', Recording, UNCHANGED <<fs, recorder, in_recording, writer_open, bag_dir>>
      PROVE  [Archive!ArchiveNext]_(Archive!archiveVars)
  <2>1. CASE writer_open
    <3>1. Archive!PauseOrResume
      BY <1>f, <2>1 DEF Archive!PauseOrResume, Recording, StatusState
    <3>2. QED BY <3>1
  <2>2. CASE ~writer_open
    BY <1>f, <2>2 DEF Archive!archiveVars, Recording
  <2>3. QED BY <2>1, <2>2
<1>g. ASSUME ~up, up', fs'.bags = fs.bags
      PROVE  Archive!ArchiveNext
  BY <1>g, StepBegins, StepRests DEF Archive!Boot
<1>1. CASE NoChange BY <1>1, <1>c DEF NoChange, vars
<1>2. ASSUME NEW request \in Requests \cup {Unset}, NEW opening \in Openings,
             Start(request, opening)
      PROVE  [Archive!ArchiveNext]_(Archive!archiveVars)
  <2> DEFINE out == IF request = Unset THEN raw ELSE request
             target == Target(fs, out, Stamp[now])
  <2>1. out \in Output
    BY ConfigAssumption DEF TypeOK
  <2>2. /\ up /\ ~recorder /\ up' /\ ~Refused(fs, out, Stamp[now])
        /\ CreateAndStart(target, config, WithContainer(fs, target), opening)
    BY <1>2, <1>b DEF Start, Recording
  <2> HIDE DEF out
  <2>3. /\ WithContainer(fs, target).bags = fs.bags
        /\ WithContainer(fs, target) \in FileSystem
    BY <1>a, <2>1, TargetIsPath, WithContainerIsDisk DEF TypeOK
  <2>4. fs'.bags = fs.bags
    BY <2>2, <2>3, CreateAndStartKeepsBags
  <2>5. QED BY <1>d, <2>2, <2>4
<1>3. CASE Stop
  BY <1>3, <1>e DEF Stop, Recording
<1>4. CASE StopFails BY <1>4, <1>f DEF StopFails
<1>5. CASE Pause BY <1>5, <1>f DEF Pause
<1>6. CASE Resume BY <1>6, <1>f DEF Resume
<1>7. ASSUME NEW c \in Configs, ApplyIdle(c)
      PROVE  [Archive!ArchiveNext]_(Archive!archiveVars)
  BY <1>7, <1>c DEF ApplyIdle
<1>8. ASSUME NEW c \in Configs, ApplyHot(c)
      PROVE  [Archive!ArchiveNext]_(Archive!archiveVars)
  BY <1>8, <1>c DEF ApplyHot
<1>9. ASSUME NEW c \in Configs, NEW disk \in ClosedDisks, ApplyRestartRefused(c, disk)
      PROVE  [Archive!ArchiveNext]_(Archive!archiveVars)
  BY <1>9, <1>e DEF ApplyRestartRefused, Recording
<1>10. ASSUME NEW c \in Configs, NEW disk \in ClosedDisks, NEW opening \in Openings,
              ApplyRestart(c, disk, opening)
       PROVE  [Archive!ArchiveNext]_(Archive!archiveVars)
  <2> DEFINE target == Target(disk, RawAfter(c), Stamp[now])
  <2>1. RawAfter(c) \in Output
    BY Constants DEF TypeOK, RawAfter, ParsedUri
  <2>2. /\ recorder /\ up' /\ ~Refused(disk, RawAfter(c), Stamp[now])
        /\ CreateAndStart(target, c, WithContainer(disk, target), opening)
    BY <1>10 DEF ApplyRestart, Recording
  <2>3. /\ WithContainer(disk, target).bags = disk.bags
        /\ WithContainer(disk, target) \in FileSystem
    BY <1>a, <2>1, ClosedDiskIsDisk, TargetIsPath, WithContainerIsDisk DEF Disk
  <2>4. fs'.bags = disk.bags
    BY <2>2, <2>3, CreateAndStartKeepsBags
  <2>5. QED BY <1>e, <2>2, <2>4
<1>11. ASSUME NEW p \in fs.dirs, DeleteBag(p)
       PROVE  [Archive!ArchiveNext]_(Archive!archiveVars)
  <2>1. /\ p \in fs.bags /\ fs'.bags \subseteq fs.bags \ {p}
        /\ ~meddled => fs'.bags = fs.bags \ {p}
    <3>1. p \in Beneath(p) /\ fs'.bags = fs.bags \ Beneath(p)
      BY <1>11, PrefixesArePaths DEF DeleteBag, Beneath, Existing, TypeOK, FileSystem
    <3>2. ASSUME ~meddled PROVE fs'.bags = fs.bags \ {p}
      BY <1>11, <3>2, DeletionTakesOneBag DEF DeleteBag, BagsInvUnlessMeddled, BagsInv
    <3>3. QED BY <1>11, <3>1, <3>2 DEF DeleteBag
  <2>2. Archive!Delete
    BY <1>11, <2>1 DEF DeleteBag, Archive!Delete, Recording, StatusState
  <2>3. QED BY <2>2
<1>12. ASSUME NEW p \in fs.dirs, DeleteBagPartly(p)
       PROVE  [Archive!ArchiveNext]_(Archive!archiveVars)
  <2>1. p \in fs.bags /\ fs'.bags = fs.bags \ {p}
    BY <1>12 DEF DeleteBagPartly, TypeOK, FileSystem
  <2>2. Archive!Delete
    BY <1>12, <2>1 DEF DeleteBagPartly, Archive!Delete, Recording, StatusState
  <2>3. QED BY <2>2
<1>13. CASE BootIdle
  BY <1>13, <1>g, BootDiskKeepsBags DEF BootIdle
<1>14. CASE BootRefused
  BY <1>14, <1>c, BootDiskKeepsBags DEF BootRefused
<1>15. CASE BootRecording
  <2> DEFINE target == Target(CliDisk, BootOutput, Stamp[now])
  <2>1. /\ ~up /\ up' /\ ~CliRefused /\ ~Refused(CliDisk, BootOutput, Stamp[now])
        /\ CreateAndStart(target, BootConfig, WithContainer(CliDisk, target), "opened")
    BY <1>15 DEF BootRecording
  <2>2. /\ WithContainer(CliDisk, target).bags = fs.bags
        /\ WithContainer(CliDisk, target) \in FileSystem
    BY BootDiskKeepsBags, BootTypes, WithContainerIsDisk DEF Disk
  <2>3. fs'.bags = fs.bags
    BY <2>1, <2>2, CreateAndStartKeepsBags
  <2>4. QED BY <1>g, <2>1, <2>3
<1>16. ASSUME NEW opening \in Openings, BootFails(opening)
       PROVE  [Archive!ArchiveNext]_(Archive!archiveVars)
  <2> DEFINE target == Target(CliDisk, BootOutput, Stamp[now])
             disk == WithContainer(CliDisk, target)
             made == [disk EXCEPT !.dirs = @ \cup {target}]
             complete == [made EXCEPT !.bags = @ \cup {target}]
  <2>1. /\ ~up /\ ~CliRefused /\ ~Refused(CliDisk, BootOutput, Stamp[now])
        /\ fs' \in {disk, made, complete}
        /\ UNCHANGED <<up, recorder, in_recording, paused, writer_open, bag_dir>>
    BY <1>16 DEF BootFails
  <2>2. disk \in FileSystem /\ disk.bags = fs.bags
    BY BootDiskKeepsBags, BootTypes, WithContainerIsDisk DEF Disk
  <2>a. Archive!Apart(target, fs.bags)
    <3>1. CASE meddled
      BY <3>1 DEF Archive!Apart
    <3>2. CASE ~meddled
      <4>1. Orderly(disk) /\ Alone(target, disk)
        BY <1>a, <2>1, <3>2, BootDiskIsOrderly, BootTypes, TargetStandsAlone
        DEF BagsInvUnlessMeddled
      <4>2. QED BY <2>2, <4>1, AloneIsApart
    <3>3. QED BY <3>1, <3>2
  <2> HIDE DEF target, disk
  <2>3. made.bags = fs.bags /\ complete.bags = fs.bags \cup {target}
    BY <2>2 DEF FileSystem
  <2> HIDE DEF made, complete
  <2>4. CASE fs'.bags = fs.bags
    BY <1>c, <2>1, <2>4
  <2>5. CASE fs'.bags # fs.bags
    <3>1. fs'.bags = fs.bags \cup {target} /\ target \in fs'.bags \ fs.bags
      BY <2>1, <2>2, <2>3, <2>5
    <3>2. Archive!Gains
      BY <2>a, <3>1 DEF Archive!Gains
    <3>3. Archive!Rests("down")
      BY <2>1, StepRests DEF RecorderMatchesNode
    <3>4. Archive!BootAborted
      BY <2>1, <3>2, <3>3 DEF Archive!BootAborted
    <3>5. QED BY <3>4
  <2>6. QED BY <2>4, <2>5
<1>17. CASE Shutdown
  <2>1. up /\ ~up' /\ fs' \in ClosedDisks /\ ~recorder'
    BY <1>17 DEF Shutdown, NoNode, NoRecorder
  <2>2. Archive!Rests("down")
    BY <2>1, StepRests
  <2>3. CASE recorder
    BY <2>1, <2>2, <2>3, StepEnds DEF Archive!Shutdown
  <2>4. CASE ~recorder
    BY <2>1, <2>2, <2>4 DEF Archive!Shutdown, ClosedDisks, Recording, StatusState
  <2>5. QED BY <2>3, <2>4
<1>18. CASE Crash
  <2>1. up /\ ~up' /\ fs' = fs /\ ~recorder'
    BY <1>18 DEF Crash, NoNode, NoRecorder
  <2>2. Archive!Rests("down")
    BY <2>1, StepRests
  <2>3. Archive!Crash
    BY <2>1, <2>2 DEF Archive!Crash, Recording, StatusState
  <2>4. QED BY <2>3
<1>19. CASE Tick BY <1>19, <1>c DEF Tick
<1>20. CASE UNCHANGED vars BY <1>20, <1>c DEF vars
<1>22. QED
  BY <1>1, <1>2, <1>3, <1>4, <1>5, <1>6, <1>7, <1>8, <1>9, <1>10, <1>11, <1>12,
     <1>13, <1>14, <1>15, <1>16, <1>17, <1>18, <1>19, <1>20, <1>21
  DEF Next, Services, Process

\* The process implements the archive: there is at most one bag being written, it
\* becomes complete when its recording ends in order, complete bags stay until they
\* are deleted one by one, and no bag is placed above, inside or on top of another,
\* until a client saves a configuration among them.
THEOREM ArchiveImplemented == Spec => ImplementsBagArchive
<1>1. Init => Archive!ArchiveInit
  <2>1. ASSUME NEW b \in InitialFs.bags
        PROVE  Archive!Apart(b, InitialFs.bags \ {b})
    <3>1. \A d \in InitialFs.bags \ {b} : b \notin Prefixes(d) /\ d \notin Prefixes(b)
      BY FsAssumption
    <3>2. QED BY <3>1 DEF Archive!Apart, Archive!Prefixes, Prefixes
  <2>2. QED BY <2>1 DEF Init, Archive!ArchiveInit
<1>2. QED
  BY <1>1, ArchiveStep, BagsInvHolds, PTL
  DEF Spec, ImplementsBagArchive, Archive!ArchiveSpec
-----------------------------------------------------------------------------
\* A bag that stopping makes complete is listed beside it.
LEMMA StopIsListed ==
  ASSUME Frontend = "tui", TypeOK, RecorderMatchesNode, BagsInv, Stop
  PROVE  fs'.bags \ fs.bags \subseteq DefaultListing'
<1> DEFINE dir == bag_dir.path
<1>1. recorder /\ uri' = bag_dir /\ dir \in Path
  BY DEF Stop, Recording, RecorderMatchesNode, nodeVars, TypeOK, Output
<1>2. dir # <<>> /\ Prefixes(dir) \cap fs.bags = {}
  BY <1>1 DEF BagsInv, Alone
<1>3. fs'.bags \subseteq fs.bags \cup {dir}
  BY DEF Stop, ClosedDisks, BagsInv, Orderly, FileSystem
<1> HIDE DEF dir
<1>4. Front(dir) \in Prefixes(dir) /\ Front(dir) # dir
  BY <1>1, <1>2, PrefixesOfFront, PrefixesArePaths
<1>5. Front(dir) \notin fs'.bags
  BY <1>2, <1>3, <1>4
<1>6. DefaultListing' = {b \in fs'.bags \ {<<>>} : Front(b) = Front(dir)}
  BY <1>1, <1>5 DEF DefaultListing, ListedBags, dir
<1>7. QED BY <1>2, <1>3, <1>6

\* A client of the TUI that stops a recording finds its bag, whatever was applied
\* to the recorder meanwhile, as long as no configuration is saved among the bags.
THEOREM StoppedBagAlwaysListed ==
  ASSUME Frontend = "tui"
  PROVE  Spec => StoppedBagListed
<1>1. ASSUME TypeOK, RecorderMatchesNode, BagsInvUnlessMeddled
      PROVE  [Stop /\ ~meddled => fs'.bags \ fs.bags \subseteq DefaultListing']_vars
  BY <1>1, StopIsListed DEF BagsInvUnlessMeddled
<1>2. QED BY <1>1, BagsInvHolds, PTL DEF Spec, StoppedBagListed
===============================================================================
