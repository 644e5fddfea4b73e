----------------------------- MODULE RecorderNode -----------------------------
(***************************************************************************)
(* The recorder process as its clients see it: the service handlers of     *)
(* RecorderNode and TerminalUI (service_handlers.cpp, recorder_node.cpp,   *)
(* terminal_ui.cpp), the life of the RecorderImpl they own, and the bag    *)
(* directories on disk.                                                    *)
(*                                                                         *)
(* Both executables spin one node on a single-threaded executor, and every *)
(* handler that touches the recorder holds data_mutex_ from its first line *)
(* to its last, so a handler is one action.  What happens between          *)
(* handlers, and inside RecorderImpl, is nondeterministic: time passes, a  *)
(* bag cannot be opened or closed, the process dies and is started again.  *)
(***************************************************************************)
EXTENDS OutputDirectory

CONSTANTS
  Frontend,    \* "headless" (RecorderNode) or "tui" (TerminalUI)
  AutoStart,   \* the headless node starts recording from its constructor
  Configs,     \* the YAML configurations clients apply
  BootConfig,  \* the configuration the process is started with
  CliOutput,   \* its --output argument (Unset when there is a --config file)
  Requests,    \* the output_dir values of StartRecording requests
  Metadata,    \* the name "metadata.yaml"
  Saves,       \* the files clients save a configuration to
  InitialFs,   \* the disk before the first start
  MaxTime,     \* bound: the clock stops here
  MaxDepth     \* bound: how deep bag directories are nested

\* hasOutput/output: the 'output' key; startPaused: start_paused; clash:
\* use_sim_time together with is_discovery_disabled, which the constructor of
\* RecorderImpl rejects; id: everything else.
Config == [id : STRING, hasOutput : BOOLEAN, output : Output,
           startPaused : BOOLEAN, clash : BOOLEAN]

ASSUME FrontendAssumption == Frontend \in {"headless", "tui"}
ASSUME ConfigAssumption ==
  /\ AutoStart \in BOOLEAN
  /\ Configs \subseteq Config
  /\ BootConfig \in Configs
  /\ CliOutput \in Output
  /\ Requests \subseteq Output
ASSUME SaveAssumption ==
  /\ Metadata \notin Name
  /\ Saves \subseteq [dir : Path, name : Name \cup {Metadata}]
ASSUME FsAssumption ==
  /\ InitialFs \in FileSystem
  /\ InitialFs.bags \subseteq InitialFs.dirs
  /\ InitialFs.dirs \cap InitialFs.files = {}
  /\ <<>> \in InitialFs.dirs
  /\ \A p \in Existing(InitialFs) : Prefixes(p) \ {p} \subseteq InitialFs.dirs
  /\ \A b \in InitialFs.bags : Prefixes(b) \cap InitialFs.bags = {b}
ASSUME TimeAssumption == MaxTime \in Nat /\ 0..MaxTime \subseteq DOMAIN Stamp
ASSUME DepthAssumption == MaxDepth \in Nat

VARIABLES
  now,           \* the system clock, in seconds
  fs,            \* the disk
  up,            \* the process is alive
  uri,           \* storage_options_.uri
  raw,           \* raw_output_uri_
  config,        \* record_options_ and custom_options_
  recorder,      \* recorder_ is not null
  in_recording,  \* RecorderImpl::in_recording_
  paused,        \* RecorderImpl::paused_
  writer_open,   \* the writer has an open bag
  bag_dir,       \* RecorderImpl::storage_options_.uri
  running,       \* RecorderImpl::record_options_
  meddled        \* history: a client has saved a configuration among the bags

recVars == <<recorder, in_recording, paused, writer_open, bag_dir, running>>
nodeVars == <<up, uri, raw, config>>
vars == <<now, fs, up, uri, raw, config, recorder, in_recording, paused,
          writer_open, bag_dir, running, meddled>>

Recording == recorder /\ in_recording
-----------------------------------------------------------------------------
(***************************************************************************)
(* The parts the handlers are built from.                                  *)
(***************************************************************************)

\* RecorderImpl's members once it is destroyed.
NoRecorder ==
  /\ recorder' = FALSE /\ in_recording' = FALSE /\ paused' = FALSE
  /\ writer_open' = FALSE /\ bag_dir' = Unset /\ running' = BootConfig

\* The node's members before it is constructed and once the process is gone.
NoNode ==
  /\ up' = FALSE
  /\ uri' = Unset /\ raw' = Unset
  /\ config' = BootConfig
  /\ NoRecorder

\* The outcomes of constructing a RecorderImpl and calling record() on it.
Openings == {"opened",       \* recording
             "badOptions",   \* the constructor throws; recorder_ stays as it was
             "openFailed",   \* writer_->open throws before it made the directory
             "openPartly",   \* writer_->open throws after it made the directory
             "lateFailed"}   \* a topic of the first subscription round throws

\* createAndStartRecorder (and the constructors' own copy of it) in the bag
\* directory dir with configuration c.  disk is the disk at that moment.
\* record() sets in_recording_ first and no error path resets it.
CreateAndStart(dir, c, disk, opening) ==
  /\ opening \in Openings
  /\ Len(dir) <= MaxDepth
  /\ c.clash <=> opening = "badOptions"
  /\ IF opening = "badOptions" THEN NoRecorder
     ELSE /\ recorder' = TRUE
          /\ in_recording' = TRUE
          /\ paused' = c.startPaused
          /\ writer_open' = (opening \in {"opened", "lateFailed"})
          /\ bag_dir' = Plain(dir)
          /\ running' = c
  /\ fs' = IF opening \in {"badOptions", "openFailed"} THEN disk
           ELSE [disk EXCEPT !.dirs = @ \cup {dir}]

\* writer_->close(): an open bag gets its metadata.yaml.  The writer of a bag
\* that was never opened may leave one too, where its directory exists.
ClosedDisks ==
  IF ~recorder THEN {fs}
  ELSE LET complete == [fs EXCEPT !.bags = @ \cup ({bag_dir.path} \cap fs.dirs)]
       IN IF writer_open THEN {complete} ELSE {fs, complete}

\* parseYamlNode's treatment of 'output': without the key the copy of
\* storage_options keeps the uri it has.
ParsedUri(c) == IF c.hasOutput THEN c.output ELSE uri
-----------------------------------------------------------------------------
(***************************************************************************)
(* The service handlers.                                                   *)
(***************************************************************************)

\* Requests that change nothing here: the early returns ("Already recording. Stop
\* first.", an output directory that is refused, "Not currently recording.", a
\* preset that is not there, YAML that does not parse, a deletion that is not
\* confirmed or not of a bag, a configuration saved where a directory is or below a
\* file), the reading services, and onSplitBag, which starts a new file in the same
\* bag directory (module SplitEvents).
NoChange ==
  /\ up
  /\ UNCHANGED vars

\* handleStartRecording: the directory is resolved, and stays in
\* storage_options.uri whatever the recorder does with it.
Start(request, opening) ==
  LET out == IF request = Unset THEN raw ELSE request
      target == Target(fs, out, Stamp[now])
  IN /\ up /\ ~Recording
     /\ ~Refused(fs, out, Stamp[now])
     /\ uri' = Plain(target)
     /\ CreateAndStart(target, config, WithContainer(fs, target), opening)
     /\ UNCHANGED <<now, up, raw, config>>

\* Fault: the recorder is dropped without closing its writer.
StopNotClosed ==
  /\ up /\ Recording
  /\ NoRecorder
  /\ UNCHANGED <<now, fs, nodeVars>>

\* handleStopRecording
Stop ==
  /\ up /\ Recording
  /\ fs' \in ClosedDisks
  /\ NoRecorder
  /\ UNCHANGED <<now, nodeVars>>

\* handleStopRecording, or the restart of handleApplyConfig: writer_->close()
\* throws in the middle of stop(), after pause().
StopFails ==
  /\ up /\ Recording
  /\ paused' = TRUE
  /\ UNCHANGED <<now, fs, recorder, in_recording, writer_open, bag_dir, running,
                 nodeVars>>

\* onPauseRecording
Pause ==
  /\ up /\ Recording
  /\ paused' = TRUE
  /\ UNCHANGED <<now, fs, recorder, in_recording, writer_open, bag_dir, running,
                 nodeVars>>

\* onResumeRecording
Resume ==
  /\ up /\ Recording
  /\ paused' = FALSE
  /\ UNCHANGED <<now, fs, recorder, in_recording, writer_open, bag_dir, running,
                 nodeVars>>

\* handleApplyConfig's new raw_output_uri_.
RawAfter(c) == IF ParsedUri(c) = Unset THEN raw ELSE ParsedUri(c)

\* handleApplyConfig takes over the new configuration.
Adopt(c) == config' = c /\ raw' = RawAfter(c)

\* handleApplyConfig while nothing is recorded: "Config applied."
ApplyIdle(c) ==
  /\ up /\ ~Recording
  /\ Adopt(c)
  /\ UNCHANGED <<now, fs, up, uri, recVars>>

\* Fault: the active bag path is not preserved.
ApplyHotLosesBag(c) ==
  /\ up /\ Recording
  /\ Adopt(c)
  /\ running' = c
  /\ uri' = ParsedUri(c)
  /\ UNCHANGED <<now, fs, up, recorder, in_recording, paused, writer_open,
                 bag_dir>>

\* handleApplyConfig without restart: the recorder goes on with the new options
\* in the same bag.  update_record_options leaves paused_ alone.
ApplyHot(c) ==
  /\ up /\ Recording
  /\ Adopt(c)
  /\ running' = c
  /\ UNCHANGED <<now, fs, up, uri, recorder, in_recording, paused, writer_open,
                 bag_dir>>

\* Fault: the running recorder is replaced without being stopped.
ApplyRestartNotStopped(c, disk, opening) ==
  LET target == Target(fs, RawAfter(c), Stamp[now])
  IN /\ up /\ Recording
     /\ ~Refused(fs, RawAfter(c), Stamp[now])
     /\ Adopt(c)
     /\ uri' = Plain(target)
     /\ CreateAndStart(target, c, WithContainer(fs, target), opening)
     /\ UNCHANGED <<now, up>>

\* handleApplyConfig with restart: the recorder is stopped and destroyed before
\* the new configuration is assigned and the new directory resolved.
ApplyRestart(c, disk, opening) ==
  LET target == Target(disk, RawAfter(c), Stamp[now])
  IN /\ up /\ Recording
     /\ disk \in ClosedDisks
     /\ ~Refused(disk, RawAfter(c), Stamp[now])
     /\ Adopt(c)
     /\ uri' = Plain(target)
     /\ CreateAndStart(target, c, WithContainer(disk, target), opening)
     /\ UNCHANGED <<now, up>>

\* ... and resolveOutputDirectory throws: the old recording is over, the new
\* configuration is in place, and there is no new recording.
ApplyRestartRefused(c, disk) ==
  /\ up /\ Recording
  /\ disk \in ClosedDisks
  /\ Refused(disk, RawAfter(c), Stamp[now])
  /\ Adopt(c)
  /\ NoRecorder
  /\ fs' = disk
  /\ UNCHANGED <<now, up, uri>>

\* handleDeleteBag, confirmed: any directory with a metadata.yaml, wherever it
\* is, and everything below it.
Beneath(p) == {q \in Existing(fs) : p \in Prefixes(q)}

DeleteBag(p) ==
  /\ up
  /\ p \in fs.bags
  /\ fs' = [dirs |-> fs.dirs \ Beneath(p), bags |-> fs.bags \ Beneath(p),
            files |-> fs.files \ Beneath(p)]
  /\ UNCHANGED <<now, recVars, nodeVars>>

\* handleDeleteBag: remove_all stops at an error after it took the metadata.yaml.
DeleteBagPartly(p) ==
  /\ up
  /\ p \in fs.bags
  /\ fs' = [fs EXCEPT !.bags = @ \ {p}]
  /\ UNCHANGED <<now, recVars, nodeVars>>

\* handleSaveConfig, which nothing keeps away from the bags: the directories above
\* the file are made, and the file is written if it can be opened.  A file called
\* metadata.yaml makes a bag of its directory.
SavedDisks(dir, name) ==
  LET made == [fs EXCEPT !.dirs = @ \cup Prefixes(dir)]
  IN {made, IF name = Metadata THEN [made EXCEPT !.bags = @ \cup {dir}]
            ELSE [made EXCEPT !.files = @ \cup {Append(dir, name)}]}

\* The file is, or may become, part of a bag: it is a metadata.yaml, or lies in the
\* directory of the recording there is.
AmongBags(dir, name) ==
  \/ name = Metadata
  \/ recorder /\ bag_dir.path \in Prefixes(dir)

SaveConfig(dir, name) ==
  /\ up
  /\ Prefixes(dir) \cap fs.files = {}
  /\ Append(dir, name) \notin fs.dirs
  /\ fs' \in SavedDisks(dir, name)
  /\ meddled' = (meddled \/ AmongBags(dir, name))
  /\ UNCHANGED <<now, recVars, nodeVars>>
-----------------------------------------------------------------------------
(***************************************************************************)
(* The process.                                                            *)
(***************************************************************************)

\* parseCommandLineArguments resolves the --output argument, given or not, before
\* any configuration file is read: it may refuse, and it makes the directories
\* above the target.
CliTarget == Target(fs, CliOutput, Stamp[now])
CliRefused == Refused(fs, CliOutput, Stamp[now])
CliDisk == WithContainer(fs, CliTarget)

\* storage_options.uri when the node is constructed, and what the user wrote.
BootOutput ==
  IF BootConfig.hasOutput THEN BootConfig.output ELSE Plain(CliTarget)

\* main_headless and the constructor of RecorderNode: no recorder yet.
BootIdle ==
  /\ ~up
  /\ Frontend = "headless" /\ ~AutoStart
  /\ ~CliRefused
  /\ fs' = CliDisk
  /\ up' = TRUE
  /\ uri' = BootOutput /\ raw' = BootOutput
  /\ config' = BootConfig
  /\ NoRecorder
  /\ UNCHANGED now

\* The TUI's main, and the headless constructor when it starts by itself: the
\* directory is resolved and the recording started before the node is spun.
\* The TUI hands the resolved directory to the node as its output setting.
BootRecording ==
  LET target == Target(CliDisk, BootOutput, Stamp[now])
  IN /\ ~up
     /\ Frontend = "tui" \/ AutoStart
     /\ ~CliRefused /\ ~Refused(CliDisk, BootOutput, Stamp[now])
     /\ CreateAndStart(target, BootConfig, WithContainer(CliDisk, target), "opened")
     /\ up' = TRUE
     /\ uri' = Plain(target)
     /\ raw' = IF Frontend = "tui" THEN Plain(target) ELSE BootOutput
     /\ config' = BootConfig
     /\ UNCHANGED now

\* ... and an exception leaves the constructor and main(), which does not catch it:
\* the process is gone.  Whether the recorder it had is destroyed on the way, which
\* closes the writer, is up to the implementation (std::terminate).
BootFails(opening) ==
  LET target == Target(CliDisk, BootOutput, Stamp[now])
      disk == WithContainer(CliDisk, target)
      made == [disk EXCEPT !.dirs = @ \cup {target}]
      complete == [made EXCEPT !.bags = @ \cup {target}]
  IN /\ ~up
     /\ Frontend = "tui" \/ AutoStart
     /\ ~CliRefused /\ ~Refused(CliDisk, BootOutput, Stamp[now])
     /\ opening \in Openings \ {"opened"}
     /\ BootConfig.clash <=> opening = "badOptions"
     /\ \/ opening \in {"badOptions", "openFailed"} /\ fs' = disk
        \/ opening \in {"openPartly", "lateFailed"} /\ fs' \in {made, complete}
     /\ UNCHANGED <<now, recVars, nodeVars>>

\* ... or a directory is refused: the process exits before there is a node.
BootRefused ==
  /\ ~up
  /\ \/ CliRefused /\ fs' = fs
     \/ /\ ~CliRefused
        /\ Frontend = "tui" \/ AutoStart
        /\ Refused(CliDisk, BootOutput, Stamp[now])
        /\ fs' = CliDisk
  /\ UNCHANGED <<now, recVars, nodeVars>>

\* The destructors stop a running recorder.
Shutdown ==
  /\ up
  /\ fs' \in ClosedDisks
  /\ NoNode
  /\ UNCHANGED now

\* The process dies: an open bag never gets its metadata.yaml.
Crash ==
  /\ up
  /\ NoNode
  /\ UNCHANGED <<now, fs>>

Tick ==
  /\ now < MaxTime
  /\ now' = now + 1
  /\ UNCHANGED <<fs, recVars, nodeVars>>
-----------------------------------------------------------------------------
Init ==
  /\ now = 0
  /\ fs = InitialFs
  /\ up = FALSE
  /\ uri = Unset /\ raw = Unset
  /\ config = BootConfig
  /\ recorder = FALSE /\ in_recording = FALSE /\ paused = FALSE
  /\ writer_open = FALSE /\ bag_dir = Unset /\ running = BootConfig
  /\ meddled = FALSE

\* The service callbacks of both nodes, which lock data_mutex_ and call a handler.
Services ==
  \/ NoChange
  \/ \E request \in Requests \cup {Unset}, opening \in Openings :
       Start(request, opening)
  \/ Stop \/ StopFails \/ Pause \/ Resume
  \/ \E c \in Configs :
       \/ ApplyIdle(c) \/ ApplyHot(c)
       \/ \E disk \in ClosedDisks :
            \/ ApplyRestartRefused(c, disk)
            \/ \E opening \in Openings : ApplyRestart(c, disk, opening)
  \/ \E p \in fs.dirs : DeleteBag(p) \/ DeleteBagPartly(p)

Process ==
  \/ BootIdle \/ BootRefused
  \/ BootRecording \/ \E opening \in Openings : BootFails(opening)
  \/ Shutdown \/ Crash \/ Tick

Next ==
  \/ UNCHANGED meddled /\ (Services \/ Process)
  \/ \E s \in Saves : SaveConfig(s.dir, s.name)

Spec == Init /\ [][Next]_vars
-----------------------------------------------------------------------------
(***************************************************************************)
(* What clients read.                                                      *)
(***************************************************************************)

\* fillRecorderStatus
StatusState ==
  IF ~Recording THEN "IDLE" ELSE IF paused THEN "PAUSED" ELSE "RECORDING"

\* handleListBags: the bags in a directory or, when it is a bag, beside it.
ListedBags(dir) ==
  LET scanned == IF dir \in fs.bags THEN Front(dir) ELSE dir
  IN {b \in fs.bags \ {<<>>} : Front(b) = scanned}

\* onListBags without a path: the TUI lists where the last bag was placed, the
\* headless node what its user configured.
DefaultListing ==
  LET configured == IF raw # Unset THEN raw ELSE uri
  IN IF Frontend = "tui" THEN ListedBags(Front(uri.path))
     ELSE ListedBags(IF configured = Unset THEN Cwd ELSE configured.path)
=============================================================================
