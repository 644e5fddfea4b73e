----------------------------- MODULE Configuration -----------------------------
(***************************************************************************)
(* How the configuration of a headless recorder comes about and changes:   *)
(* the command line or the file it names at the start, the services that   *)
(* read, apply and save configurations (service_handlers.cpp), the presets *)
(* beside the configuration file, and the editor and preset store of the   *)
(* GUI, which works on what it was served earlier.                          *)
(*                                                                         *)
(* A handler is one action (see RecorderNode).  That module has the bag     *)
(* directories; RecordingQos has the subscriptions of the recorder that is   *)
(* configured here, and the next-state relation of the two together.        *)
(***************************************************************************)
EXTENDS CommandLine

CONSTANTS
  ArgLists,      \* the argument lists the process is started with
  Documents,     \* what users type into the editor
  InitialFiles,  \* the *.yaml files in the directory of the configuration file
  NewNames,      \* the names presets are saved under
  MaxRequests    \* bound: requests and edits

\* A file is named by the word that --config uses for it.
Names == DOMAIN InitialFiles \cup NewNames
EmptyDocument == [nodes |-> <<>>, throttles |-> NoThrottle]
NoFile == [none |-> TRUE]

ASSUME RequestAssumption == MaxRequests \in Nat
ASSUME ArgumentAssumption == ArgLists \subseteq Seq(Argument)
ASSUME FileAssumption ==
  /\ Names \subseteq Value /\ EmptyDocument \in Documents
  /\ \A doc \in Documents \cup {InitialFiles[n] : n \in DOMAIN InitialFiles} :
       IsDocument(doc)

VARIABLES
  args,           \* the arguments the process is started with (<<>>: started)
  up,             \* the process is alive
  options,        \* storage_options_, record_options_, custom_options_
  raw,            \* raw_output_uri_
  config_path,    \* custom_options_.config_path ("": none)
  preset_names,   \* custom_options_.preset_names
  active_preset,  \* custom_options_.active_preset
  recording,      \* there is a recorder, and it records
  running,        \* the options the recorder works with
  files,          \* the directory of the configuration file
  store,          \* ~/.ros/hector_recorder_presets of the GUI's user
  editor,         \* the text in the editor
  requests        \* bounded by MaxRequests

nodeVars == <<up, options, raw, config_path, preset_names, active_preset,
              recording, running>>
clientVars == <<store, editor>>
vars == <<args, nodeVars, files, clientVars, requests>>

NoOptions == [members |-> [f \in Fields |-> Default(f)], throttles |-> NoThrottle]
Present(n) == n \in Names /\ files[n] # NoFile

\* The constructor of RecorderImpl throws.
Clash(o) ==
  o.members["use_sim_time"] # "none" /\ o.members["is_discovery_disabled"] # "none"

Asks ==
  /\ up /\ requests < MaxRequests
  /\ requests' = requests + 1
-----------------------------------------------------------------------------
(***************************************************************************)
(* Starting.                                                               *)
(***************************************************************************)

\* main_headless: the process exits on a command line that is not accepted, on an
\* override file that cannot be loaded, and on a configuration file that
\* parseYamlNode rejects.
Parse == Read(args)
Accepts == Outcome(Parse, {n \in Names : files[n] # NoFile}) = "run"
ConfigPath == IF Count(Parse, "config") > 0 THEN Given(Parse, "config") ELSE ""
CliOverridesFail ==
  LET o == "topic_qos_profile_overrides_path"
  IN Count(Parse, o) > 0 /\ OverridesFail(Given(Parse, o))
FileRejected ==
  CliOverridesFail \/ (ConfigPath # "" /\ Rejected(files[ConfigPath]))
CommandLineOptions ==
  [members |-> CommandLineMembers(Parse), throttles |-> NoThrottle]
StartOptions ==
  IF ConfigPath = "" THEN CommandLineOptions
  ELSE Parsed(files[ConfigPath], CommandLineOptions)

\* main_headless starts to record when something to record is named.
AutoStart(o) ==
  \E f \in {"all_topics", "all_services", "topics", "services", "topic_types",
            "regex"} : o.members[f] # "none"

\* scanPresetDir: the names are read once; the configuration file counts as the
\* active preset when there are others.
ScanPresetDir(path) ==
  LET names == IF path = "" THEN {} ELSE {n \in Names : files[n] # NoFile}
  IN /\ preset_names' = names
     /\ active_preset' = IF Cardinality(names) > 1 THEN path ELSE ""

\* The process exits again, with or without a message: nothing was recorded.
Exit ==
  /\ ~up /\ args # <<>>
  /\ \/ ~Accepts
     \/ Accepts /\ FileRejected
     \/ Accepts /\ ~FileRejected /\ AutoStart(StartOptions) /\ Clash(StartOptions)
  /\ args' = <<>>
  /\ UNCHANGED <<nodeVars, files, clientVars, requests>>

\* The constructor of RecorderNode.  A recording resolves the output it is given
\* and keeps what the user wrote in raw_output_uri_.
Boot ==
  LET records == AutoStart(StartOptions)
  IN /\ ~up /\ args # <<>>
     /\ Accepts /\ ~FileRejected
     /\ ~(records /\ Clash(StartOptions))
     /\ up' = TRUE /\ args' = <<>>
     /\ options' = IF records THEN [StartOptions EXCEPT !.members["output"] = "resolved"]
                   ELSE StartOptions
     /\ raw' = StartOptions.members["output"]
     /\ config_path' = ConfigPath
     /\ ScanPresetDir(ConfigPath)
     /\ recording' = records
     /\ running' = IF records THEN options' ELSE NoOptions
     /\ UNCHANGED <<files, clientVars, requests>>

\* The process ends; the next one is started on the same configuration file.
Shutdown ==
  /\ up /\ requests < MaxRequests
  /\ requests' = requests + 1
  /\ up' = FALSE
  /\ args' = IF config_path = "" THEN <<>>
             ELSE <<[kind |-> "long", option |-> "config", value |-> config_path]>>
  /\ options' = NoOptions /\ running' = NoOptions
  /\ raw' = "none" /\ config_path' = "" /\ preset_names' = {}
  /\ active_preset' = "" /\ recording' = FALSE
  /\ UNCHANGED <<files, clientVars>>
-----------------------------------------------------------------------------
(***************************************************************************)
(* The services that change the recorder.                                  *)
(***************************************************************************)

\* createAndStartRecorder, with the options o in a resolved directory.
StartRecorder(o) ==
  LET resolved == [o EXCEPT !.members["output"] = "resolved"]
  IN /\ options' = resolved
     /\ recording' = ~Clash(o)
     /\ running' = IF Clash(o) THEN NoOptions ELSE resolved

\* handleStartRecording; it adds recorded_by to the custom data.
StartRecording ==
  /\ Asks /\ ~recording
  /\ StartRecorder([options EXCEPT !.members["custom_data"] = "two"])
  /\ UNCHANGED <<args, up, raw, config_path, preset_names, active_preset,
                 files, clientVars>>

\* handleStopRecording
StopRecording ==
  /\ Asks /\ recording
  /\ recording' = FALSE /\ running' = NoOptions
  /\ UNCHANGED <<args, up, options, raw, config_path, preset_names, active_preset,
                 files, clientVars>>

\* What record() copies out of record_options_ and nothing reads again.
OnlyAtRecord ==
  {"start_paused", "topic_qos_profile_overrides_path", "rmw_serialization_format"}

\* Fault: a hot update replaces the QoS overrides of subscriptions that exist.
HotUpdatedOverrides(new) ==
  [members |-> [f \in Fields |-> IF f \in RecordKeys THEN new.members[f]
                                 ELSE running.members[f]],
   throttles |-> new.throttles]

\* RecorderImpl after a hot update: the record options and the throttles are the
\* new ones, the storage options those of the bag that is open.
HotUpdated(new) ==
  [members |-> [f \in Fields |-> IF f \in RecordKeys \ OnlyAtRecord
                                 THEN new.members[f] ELSE running.members[f]],
   throttles |-> new.throttles]

\* Fault: a hot update does not pass on the throttles.
ApplyForgetsThrottles(doc, preset, restart) ==
  LET new == Parsed(doc, options)
      kept == [new EXCEPT !.members["output"] = options.members["output"]]
  IN /\ Asks /\ ~Rejected(doc)
     /\ IF restart /\ recording THEN StartRecorder(new)
        ELSE /\ options' = kept
             /\ running' = IF recording THEN [HotUpdated(new) EXCEPT !.throttles =
                                                running.throttles] ELSE running
             /\ UNCHANGED recording
     /\ raw' = IF new.members["output"] = "none" THEN raw ELSE new.members["output"]
     /\ active_preset' = preset
     /\ UNCHANGED <<args, up, config_path, preset_names, files, clientVars>>

\* handleApplyConfig on a document it parses.  Without restart the directory of
\* the bag stays, and so does a recording; with it a recording is stopped before
\* the new options are assigned, and a new one begun.
Apply(doc, preset, restart) ==
  LET new == Parsed(doc, options)
      kept == [new EXCEPT !.members["output"] = options.members["output"]]
  IN /\ Asks /\ ~Rejected(doc)
     /\ IF restart /\ recording THEN StartRecorder(new)
        ELSE /\ options' = kept
             /\ running' = IF recording THEN HotUpdated(new) ELSE running
             /\ UNCHANGED recording
     /\ raw' = IF new.members["output"] = "none" THEN raw ELSE new.members["output"]
     /\ active_preset' = preset
     /\ UNCHANGED <<args, up, config_path, preset_names, files, clientVars>>

\* Fault: the document is parsed into the options themselves, up to the throttles.
ApplyRejectedInPlace(doc) ==
  /\ Asks /\ Rejected(doc)
  /\ options' = [options EXCEPT !.members =
                   [f \in Fields |-> LET m == Member(doc, @[f], f)
                                     IN IF m = "malformed" THEN @[f] ELSE m]]
  /\ UNCHANGED <<args, up, raw, config_path, preset_names, active_preset,
                 recording, running, files, clientVars>>

\* ... and on one it does not: it was parsed into copies.
ApplyRejected(doc) ==
  /\ Asks /\ Rejected(doc)
  /\ UNCHANGED <<args, nodeVars, files, clientVars>>

\* RecorderInterface.applyConfig sends the editor's text, unless it is empty.
ApplyEditor(restart) ==
  /\ editor # EmptyDocument
  /\ Apply(editor, "", restart) \/ ApplyRejected(editor)

\* A preset is looked up beside the configuration file at the time of the call.
ApplyPreset(n, restart) ==
  /\ config_path # "" /\ Present(n)
  /\ Apply(files[n], n, restart) \/ ApplyRejected(files[n])
-----------------------------------------------------------------------------
(***************************************************************************)
(* The services that read and save, and the GUI.                           *)
(***************************************************************************)

\* Fault: the output served is the directory of the bag.
ServedActiveBag == Serialized(options, options.members["output"])

\* handleGetConfig
Served == Serialized(options, IF raw = "none" THEN options.members["output"] ELSE raw)

GetConfig ==
  /\ Asks /\ editor # Served
  /\ editor' = Served
  /\ UNCHANGED <<args, nodeVars, files, store>>

\* handleGetPresetConfig
GetPresetConfig(n) ==
  /\ Asks /\ config_path # "" /\ Present(n)
  /\ editor' = files[n]
  /\ UNCHANGED <<args, nodeVars, files, store>>

\* handleSaveConfig, to a file beside the configuration file.
SaveConfig(n) ==
  /\ Asks
  /\ files' = [files EXCEPT ![n] = editor]
  /\ UNCHANGED <<args, nodeVars, clientVars>>

Edit(doc) ==
  /\ Asks
  /\ editor' = doc
  /\ UNCHANGED <<args, nodeVars, files, store>>

\* PresetStore::save, ::load and ::remove; a name that could leave the directory
\* is refused, and an unreadable file is an empty text.
SavePreset(n) ==
  /\ Asks
  /\ store' = [store EXCEPT ![n] = editor]
  /\ UNCHANGED <<args, nodeVars, files, editor>>

LoadPreset(n) ==
  /\ Asks
  /\ editor' = IF store[n] = NoFile THEN EmptyDocument ELSE store[n]
  /\ UNCHANGED <<args, nodeVars, files, store>>

RemovePreset(n) ==
  /\ Asks /\ store[n] # NoFile
  /\ store' = [store EXCEPT ![n] = NoFile]
  /\ UNCHANGED <<args, nodeVars, files, editor>>
-----------------------------------------------------------------------------
Init ==
  /\ args \in ArgLists
  /\ up = FALSE
  /\ options = NoOptions /\ running = NoOptions
  /\ raw = "none" /\ config_path = "" /\ preset_names = {} /\ active_preset = ""
  /\ recording = FALSE
  /\ files = [n \in Names |-> IF n \in DOMAIN InitialFiles THEN InitialFiles[n]
                              ELSE NoFile]
  /\ store = [n \in NewNames |-> NoFile]
  /\ editor = EmptyDocument
  /\ requests = 0

\* What does not touch a recorder.
Elsewhere ==
  \/ Exit \/ GetConfig
  \/ \E n \in Names : GetPresetConfig(n) \/ SaveConfig(n)
  \/ \E doc \in Documents : Edit(doc)
  \/ \E n \in NewNames : SavePreset(n) \/ LoadPreset(n) \/ RemovePreset(n)
=============================================================================
