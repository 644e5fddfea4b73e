--------------------------- MODULE OutputDirectory ---------------------------
(***************************************************************************)
(* Where the next bag goes: resolveOutputDirectory of the recorder         *)
(* (hector_recorder/src/utils.cpp), over an explicit file system.          *)
(*                                                                         *)
(* A path is the sequence of its components from the root; the root is     *)
(* <<>>.  An output setting is a path plus whether the text ended in '/',  *)
(* because the function gives a trailing separator a meaning of its own.   *)
(* Paths are absolute: '~', environment variables and the current          *)
(* directory have been applied to them.                                    *)
(***************************************************************************)
EXTENDS Sequences, Naturals, SequencesExt

CONSTANTS
  Name,     \* the names a directory entry may have
  Cwd,      \* the current working directory of the process
  Stamp     \* Stamp[t]: the folder name make_timestamped_folder_name gives
            \* at second t (names may repeat: the local time can be set back)

Path == Seq(Name)

ASSUME CwdAssumption == Cwd \in Path
ASSUME StampAssumption == \A t \in DOMAIN Stamp : Stamp[t] \in Name

Output == [path : Path, slash : BOOLEAN]

\* The empty string: no output configured.
Unset == [path |-> <<>>, slash |-> FALSE]

\* A resolved directory, used as an output setting again.
Plain(p) == [path |-> p, slash |-> FALSE]

\* dirs: the directories; bags: those of them that hold a metadata.yaml;
\* files: the regular files.
FileSystem == [dirs : SUBSET Path, bags : SUBSET Path, files : SUBSET Path]

Existing(fs) == fs.dirs \cup fs.files

\* find_rosbag_ancestor: the path itself counts as its own ancestor.
InsideBag(fs, p) == Prefixes(p) \cap fs.bags # {}

\* std::filesystem's parent_path drops the last component; a path that ends in
\* '/' has an empty last component, and its parent_path is the path itself.
ParentPath(out) == IF out.slash THEN out.path ELSE Front(out.path)

\* The directory that is asked for, before the checks on it.
Target(fs, out, ts) ==
  IF out = Unset THEN Append(Cwd, ts)
  ELSE IF out.path \in fs.bags THEN Append(ParentPath(out), ts)
  ELSE IF out.path \in fs.dirs \/ out.slash THEN Append(out.path, ts)
  ELSE out.path

\* Faults for the checks below to detect: Refused without its test for a bag
\* above the target, and without its test that the target is new.
RefusedNestingForgotten(fs, out, ts) ==
  LET target == Target(fs, out, ts)
  IN \/ out # Unset /\ out.path \in fs.files
     \/ target \in Existing(fs)
     \/ Prefixes(Front(target)) \cap fs.files # {}

RefusedExistingForgotten(fs, out, ts) ==
  LET container == Front(Target(fs, out, ts))
  IN \/ out # Unset /\ out.path \in fs.files
     \/ InsideBag(fs, container)
     \/ Prefixes(container) \cap fs.files # {}

\* Every reason the function throws: the output or its parent is a file, the
\* new bag would lie inside another one, its directory exists, or a directory
\* above it cannot be made because a file is in the way.
Refused(fs, out, ts) ==
  LET target == Target(fs, out, ts)
      container == Front(target)
  IN \/ out # Unset /\ out.path \in fs.files
     \/ InsideBag(fs, container)
     \/ target \in Existing(fs)
     \/ Prefixes(container) \cap fs.files # {}

\* create_directories(container): the bag directory itself is left to rosbag2.
WithContainer(fs, target) ==
  [fs EXCEPT !.dirs = @ \cup Prefixes(Front(target))]
=============================================================================
