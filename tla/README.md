# A verification project for hector_recorder

hector_recorder records ROS 2 topics into rosbag2 bags: as a terminal program
(`bag_recorder`), as a headless node that is remote-controlled by services
(`record_headless`), and with a GUI (`rqml_recorder`) that controls recorders,
records and plays bags itself, and copies bags between machines. This directory
holds TLA+ modules that model its control, the TLC runs that check them on small
instances, and TLAPS proofs of the properties that matter most. Everything is
translated from the sources under `src/`; `PROJECT.json` says which lines each
definition stands for.

## 1. The system

### Recorder process (`hector_recorder`)

| Part | State | Operations | Hard parts |
|---|---|---|---|
| Node services: `RecorderNode`, `TerminalUI`, `service_handlers.cpp` | `recorder_`, `storage_options_`, `raw_output_uri_`, `record_options_`, `custom_options_`, all under `data_mutex_` | start, stop, pause, resume, split, apply config (idle, hot, restart), list, details, delete, save config (to any path), status | one of several steps failing; a value that is both setting and result (`storage_options_.uri`); crashes |
| Output directory: `resolveOutputDirectory` | none, reads and extends the disk | choose the bag directory | slashes, existing bags, same second, files in the way |
| `RecorderImpl` lifecycle | `in_recording_`, `paused_`, `writer_`, `subscriptions_`, `record_options_` | record, stop, pause, resume, update_record_options, destructor | error paths of record() and stop() |
| Topic discovery | `stop_discovery_`, `discovery_future_`, a thread | start_discovery, stop_discovery, topics_discovery | a thread that reads what handlers replace; a wait that times out; a future that blocks |
| Subscription QoS | `topic_qos_profile_overrides`, `topics_warned_about_incompatibility_` | choose a profile, warn | publishers that change between two looks; settings copied once |
| Split events | `bag_split_info_`, two flags, a mutex, a condition variable, a thread, `files_` | write_split callback, event thread, stop | lost notifications, overwritten events, shutdown races |
| Throttling | `throttle_configs_`, `throttle_states_` | throttle_pass, update_throttle_configs | the system clock is set while recording |
| Topic statistics and table | `topics_info_`, sort column, widths | update, sort, fit, draw | a clock that runs between steps, unlocked copies, narrow windows, exceptions nobody catches |
| Configuration | the option structs, files, presets | parse command line, parse YAML, merge, serialise, apply, save | merging into existing values, round trips, half-read documents |

Service calls, timers and subscription callbacks run on one single-threaded
executor. The handlers that touch the recorder hold `data_mutex_` from their
first line to their last, so to each other they are atomic. They are not atomic
to the two threads a recorder starts, discovery and split events, which touch
the recorder's members from outside that mutex.

### GUI (`rqml_recorder`)

| Part | State | Operations | Hard parts |
|---|---|---|---|
| `BagPlayerEngine` | reader, pending message, timing anchor, state | load, play, pause, seek, step, tick | a message that was read and not yet published; reopening the bag fails |
| `BagRecorderEngine` | writer, subscriptions, statistics, executor thread | start, pause, split, stop, callbacks | callbacks beside stop |
| `BagTransfer` | rsync process, progress | start, cancel, output, finished | output in arbitrary pieces, a process that cannot be started |
| `LocalBagScanner` | none, reads and removes directories | list, details, complete, delete | a disk that changes meanwhile; half a deletion |
| `PresetStore`, editor | preset files, a text | save, load, remove, apply | a text older than the recorder it is sent to |
| QML interfaces and elements | the last status of each recorder | service calls, status callbacks | lost and late answers, recorders that are gone |

All engines live on the GUI thread; besides it there are the executor's thread of
`BagRecorderEngine` and the rsync process of `BagTransfer`.

### What makes each part correct

* Node: the directory and options it reports are those of the recorder; a
  recording begins in a new directory; no bag is placed in another; deleting bags
  never harms the one being written; every bag is complete exactly when its
  recording ended in order; a client that stops a recording finds its bag. (Saving a
  configuration writes wherever a client says; the properties name it.)
* Configuration: one document is in force as a whole; what is served can be sent
  back; the preset that is named is the one in force; the recorder follows.
* Discovery: never two discovery threads, and none while the options it reads are
  replaced or the recorder is torn down, but one the handler has given up waiting
  for; handlers return; an available topic is
  subscribed in the end; discovery stops only when there is nothing left to find.
* QoS: overrides are obeyed; otherwise every publisher is heard; whoever is not is
  warned about.
* Split events: the file list is in order and up to date; no notification is
  lost; stop() returns.
* Throttling: rate and bandwidth are bounded and no topic is silenced, also when
  the clock is set and when the throttle is changed.
* Table: rows fit, every recorded topic is shown, silent ones lose their rate, and
  drawing does not end the process.
* Player: every message once and never early; playback ends.
* GUI recorder: what is written belongs to the open bag; the counts are the bag's;
  pausing pauses; no call hangs.
* Transfer and browser: a transfer that started ends; no bag is incomplete without
  the user being told, unless the user closed the panel; the list is of one moment.

## 2. The modules

| Module | Models | Of |
|---|---|---|
| `OutputDirectory` | `resolveOutputDirectory` as operators over an explicit file system | `utils.cpp` |
| `RecorderNode` | both nodes' handlers, the life of their recorder, the disk, crash and restart | `service_handlers.cpp`, `recorder_node.cpp`, `terminal_ui.cpp`, the mains |
| `BagArchive` | the abstract promise about bags that `RecorderNode` implements | - |
| `TopicDiscovery` | discovery and everything that starts, stops or replaces it, step by step | `recorder_impl.cpp` |
| `SplitEvents` | the split callback, the event thread and stop(), down to mutex and condition variable | `recorder_impl.cpp` |
| `Throttle` | `throttle_pass` and `update_throttle_configs` over a clock that may be set | `recorder_impl.cpp` |
| `TopicTable` | topic statistics and `updateUI` | `topic_information.hpp`, `terminal_ui.cpp`, `utils.cpp` |
| `QosOverrides` | files of QoS overrides | `config_yaml.cpp` |
| `ConfigYaml` (extends `QosOverrides`) | parse, merge, reject and serialise a document | `config_yaml.cpp` |
| `CommandLine` (extends `ConfigYaml`) | the options, and what the parser makes of an argument list | `arg_parser.cpp`, `CLI11.hpp` |
| `Configuration` (extends `CommandLine`) | the configuration of a node from its start, presets, editor | `service_handlers.cpp`, `recorder_node.cpp`, `preset_store.cpp` |
| `RecordingQos` (extends `Configuration`) | subscriptions, their QoS and the warnings, under that configuration | `recorder_impl.cpp` |
| `BagPlayer` | the playback engine | `bag_player_engine.cpp` |
| `BagRecorder` | the GUI's own recorder, both of its threads | `bag_recorder_engine.cpp` |
| `BagTransfer` | rsync and the engine that reads it | `bag_transfer.cpp` |
| `BagBrowser` (extends `BagTransfer`) | listing and deleting bags beside a transfer on one disk | `local_bag_scanner.cpp` |

Each runnable one has a `...Properties` module, an `MC...` module with the instance,
and, where proved, a `...Proofs` module; `RecordingStatusProofs` is that of both
`SplitEvents` and `TopicTable`. A definition whose comment begins with
"Fault" is a plausible mistake in the definition that follows it. No action uses
it; it is there to show which property would notice.

### OutputDirectory and RecorderNode

A path is the sequence of its components, an output setting a path plus whether
its text ended in a slash, since `std::filesystem` gives that a meaning
(`parent_path()` of `bag/` is `bag`). The disk is three sets of paths:
directories, those with a `metadata.yaml` (the bags), and files. `Target`,
`Refused` and `WithContainer` are the three things `resolveOutputDirectory` does.

One action of `RecorderNode` is one handler run to its end. `uri`, `raw` and
`config` are `storage_options_.uri`, `raw_output_uri_` and the two option structs;
`recorder`, `in_recording`, `paused`, `writer_open`, `bag_dir` and `running` are
the recorder object's. Failure is part of the
actions: `Openings` are the ways in which constructing a recorder and calling
`record()` ends, each leaving behind what the code leaves behind; `StopFails`,
`ApplyRestartRefused`, `BootFails`, `BootRefused` and `DeleteBagPartly` are the
other ones. `BootFails` either closes the writer or does not, since nothing catches the
exception in `main()`. `Crash` drops the process, and the disk keeps a directory that
never became a bag. `SaveConfig` makes the directories above a file and writes it, at
any path of `Saves`: inside the bag being written, or as a `metadata.yaml` that makes a
bag of its directory. The history variable `meddled` is set where it does one of these,
and only then are bags no longer kept apart. Requests that change nothing (early
returns, reading services, and a split, which stays inside the bag directory) are
`NoChange`.
What `ListBags` answers is an operator (`ListedBags`, `DefaultListing`) that
properties use.

`BagArchive` knows only the reported state, the bag being written and the set of
complete bags. `RecorderNode` implements it under the mapping in
`RecorderNodeProperties` (`ImplementsBagArchive`); its state "failed" is the
recorder that is in recording without a writer. Its action `Meddle` is a saved
configuration that may make any directory a bag.

### TopicDiscovery

The executor's program counter is `handler`: inside `stop_discovery` it waits for
the future (`launch_wait`, `close_wait`), between the wait and the assignment of
the next future it is in `launch` and `assign`, and so on to the destructor
(`join`). `future` names the thread behind `discovery_future_`, `spawned` the one
`std::async` has started and not yet handed over; two threads are enough, because
the assignment blocks on the first. A thread's places are the statements of
`topics_discovery`. `wait_for` may give up at any time while the thread runs
(`WaitTimesOut`), in every run and every proof; the history variable `late` then holds
the thread, until it has returned. `Clear`, `Close` and `CloseFails` are the rest of
`stop()`. `Reuse` lets `record()` be called on a stopped object. Topics come and go, a
subscription may fail, and SIGINT may arrive at any time.

### SplitEvents

The test of the wait's predicate and the going to sleep are separate steps, so
that a notification can fall between them; the mutex is what forbids it.
Spurious wakeups happen. A failed `record()` leaves `in_recording_` set and no
thread, as in the code. `stop()` resets nothing (`Join`); flags, slot and list go with
the object (`Destroy`). `record()` may also be called on a stopped recorder,
which the node never does.

### Throttle

One topic, since topics share nothing. Time is in ticks; `elapsed` is the time that
really passes and `passed` the messages really recorded, neither of which the code can
see; `clock` is the system clock, which follows `elapsed` except where it is set. A
throttle is a type with a period, a window and a limit; `Configure` puts another in its
place, of the same type or not, and keeps `last_time`, the beat and the deque, as
`update_throttle_configs` does; `Unthrottle` erases them. What the new throttle is
judged by is `Carried`: for a rate the last message recorded at the old one, for a
bandwidth all messages, as long as the window does not grow. `allowed` is the greatest
limit since then, `since` the time of the last message under any throttle, `pace` the
period the next beat was computed with. Properties speak of real time. The "frequency"
type is modelled as `throttle_pass` treats it, although the YAML parser does not accept
it.

### Configuration: from argument list to subscription

`ConfigYaml` is a table: the keys, which of them are reset to their default when a
document leaves them out and which keep what they have, which are written by
`serializeConfigToYaml`, and what makes a document be rejected. A value is one of
four, which is enough to tell "not set", "set", "set differently" and "not of this
type". `CommandLine` is the table of options with their kinds and exclusions, and
`Parse`, a fold of the parser's step over the arguments: options with a variable
number of values, values glued to a name, `--`, unknown options, and the outcomes.
`Configuration` begins with any argument list and has one action per service that
reads or writes the configuration; the preset store and the editor of the GUI are
there too, so a document may be older than the recorder it is applied to.
`RecordingQos` adds what that configuration does to subscriptions: publishers come
and go, each round of discovery is a step for its warnings and one for its
subscriptions, `requested` is the profile each topic was subscribed with.
`QosNext` is the next-state relation of the two together.

### TopicTable

A string is its length, the length of its last component and its rank in the
order of strings, which is all that sorting, fitting and clipping look at.
`updateUI` is four steps, since the clock, the discovery thread and messages change
the statistics between copying, sorting, measuring and drawing. Exceptions that
nobody catches lead to `ui = "gone"`. Its initial states, steps, behaviours and
variables are `TableInit`, `TableNext`, `TableSpec`, `FairTable` and `tableVars`, so
that the module can stand beside `SplitEvents`.

### BagPlayer

A tick is a sequence of iterations, between which only time passes. `reader` is the
next message and the filter, `pending` the index of `pendingMsg_`. Every slot is an
action; `LoseReader` is the failure inside `reopenAndSeek()`. `pace`, `passStart`
and the counts of publications are history variables.

### BagRecorder

The GUI thread's calls and the callbacks are cut where a mutex is taken or
released. `callback` is the one the executor runs, with the bag its subscription
was made for: after a stop it may still be anywhere in its code. `startRecording()`
takes no mutex: it makes the writer (`Start`), opens it (`Open`, `OpenFails`), closes it
(`GiveUp`) and destroys it (`OpenFails`, `DropWriter`), while a callback of the last
recording may be in `write()`. That callback is then "dangling", in an object that is
gone: it throws (`WriteFails`), writes nowhere (`WriteLost`) or ends the process
(`WriteCrashes`). When `close()` throws in `startRecording()`, nothing there catches it:
where a caller does, the writer stays (`GiveUpThrows`), otherwise the process ends
(`GiveUpEnds`). `broken` holds the bags that were left so.

### BagTransfer and BagBrowser

rsync prints lines whose separator may come later, copies files in any order, fails
or is killed; `ReadOutput` takes what there is. Deleting removes file by file and
may stop anywhere; a listing reads entry by entry, and the disk changes between its
steps. `told`, `dropped` and the two sets around a listing are history variables: a
failure is told, a transfer that ends with the panel (`Destroy`) is only dropped.
The true size is constant, since rsync runs with `--no-inc-recursive` (`:78`) and knows
it before it begins; a chunk may end between a line and its separator, while one that
ends inside a line leaves it in `readBuffer_`, like the line that has no separator yet.

## 3. The runs

| Run | Question | States |
|---|---|---|
| `MCRecorderNode` | idle headless node, all services, two configurations (one without `output`), requests with and without slash, two seconds, bags two levels deep, a configuration saved into what becomes a bag: is every step one of the archive's, and are bags apart, safe and new? | 630,000 |
| `MCRecorderTui` | the same for the TUI, which records from its constructor, with configurations `RecorderImpl` rejects and one saved as a `metadata.yaml`: is a bag that was stopped listed where its clients look? | 490,000 |
| `MCDiscoveryUpdates` | discovery of named topics, of everything, with sim time and disabled, under hot updates, two topics, one failure (of a subscription or of close()), waits that time out, recorders used again | 110,000 |
| `MCDiscoveryFixed` | named topics with waits that time out and options that stay | 17,000 |
| `MCSplitEvents` | four splits, two spurious wakeups, recorders that are destroyed or used again | 4,200 |
| `MCThrottle` | six throttles, two of each type, put in each other's place, two message sizes, four ticks, the clock set once, by -1 or 3 | 3,300,000 |
| `MCConfiguration` | every argument list of up to four of twelve arguments; six documents, two files, two override files, two publishers of a topic; three requests | 310,000 |
| `MCTopicTable` | two topics with long and short names, a narrow and a wide terminal, messages, discovery, a bag directory that goes away | 260,000 |
| `MCBagPlayer` | two bags, one without messages, one with two topics that can be switched off, two rates, five requests, bags that become unreadable | 210,000 |
| `MCBagRecorder` | three bags of two topics, two messages, three calls, both threads, starts that fail at every step | 630,000 |
| `MCBagBrowser` | two bags of two files, two transfers of two lines at most, deletions and listings between | 150,000 |
| `MCAdaptsToWindow` | violated: does drawing survive a narrow window? | - |

Some properties are conjunctions of named parts, which say one thing each:

* `BagsStayApart`: `NoNestedBags`, `ActiveBagSafe`.
* `StateIsTrue` of the player: `PendingOnlyInPlayback`, `TimerMatchesState`,
  `LostBagIsReported`, `ClockIsPublished`, and its types; `PlaybackProceeds`:
  `PlaybackEnds`, `TickReturns`.
* `ValidConfigInForce`: `RecorderFollowsConfig` and the types; `OneDocumentInForce`:
  `ConfigStandsAlone`, `ActivePresetIsTrue`, `SettingsChangeWhole`; `HeardOrWarned`:
  `HearsAllAtFirst`, `UnheardIsWarned`.
* `EngineMatchesWriter` of the GUI's recorder: `WriterMatchesState`,
  `WritesOnlyOpenBag`, types; `CountsNearBag`: `TotalIsSum`, `TotalNearBag`;
  `OneCallbackLate`: `PauseHolds`, `AtMostOneStray`.
* `TransferIsShown`: `RunningHasProcess`, `FailureShowsTail`, `EstimateNearTruth`,
  types.
* `TableIsSound`: `CellsFit`, `OrderIsStrict`, types; `TableCatchesUp`:
  `TopicIsShown`, `SilentShowsZero`.

### Bounds

The bounds are small and the interesting cases are inside them. Two seconds and two
levels let two recordings want one directory, a bag be the output of the next, and a
deleted bag come back. Two topics let one be subscribed and the other missing. Four
splits let the slot be overwritten while an event is pending and again afterwards. In
`MCThrottle` four ticks are longer than each period and the shorter window plus the step
back, so the conclusions of `NotSilenced` are reached, and the clock goes back behind
what was remembered. Four arguments are an option, its value, a `--` or another option,
and what follows. Three requests are an edit, an application and another one beside it;
the documents differ in a key of every treatment (kept or reset when absent, written or
not). `Half` = 4 stands for the 2^31 of the durations' 32 bits, with values on both
sides of what fits. Two publishers are one that fits and one that does not. In
`MCTopicTable`, 14 columns are one less than the type's column needs, and two messages
are what a rate takes. Two messages of the player's bag are no further apart than the
small gap, one is far away. Three bags and two messages let a callback of the first bag
outlive its recording, meet a start that fails and one that begins. Two lines of rsync
are one more than the tail that is kept. With one request at a time a deletion never
falls into a listing: both hold the GUI thread, so only rsync is beside them.

The bounds the code does not have are the `Max...` constants, `Horizon` (how far the
player's clock is followed) and `Half`.

Deadlock is checked in the runs of `RecorderNode`, `TopicDiscovery`, `SplitEvents` and
`Throttle`, where there is always a request that can come. It is not checked in the
others: a process that died, an engine that was destroyed and a user whose bounded
requests are used up leave nothing to do.

### Fairness

`FairSpec` of `TopicDiscovery`, `SplitEvents` and `BagRecorder` assumes that the
operating system schedules both threads (weak fairness of each thread's steps) and
that a handler goes on once it has begun. A thread's blocking step is enabled for
good once what it waits for has happened, so weak fairness is enough; the mutexes
are released within a few steps of a thread that then waits or looks at its exit
flag, and spurious wakeups are bounded. `FairQosSpec`: the discovery thread wakes up
after each polling interval, so its warnings and its subscriptions go on. `TopicTable`:
the refresh timer fires and time passes; the fairness of `Refreshed` speaks of `ui`
only, because messages may come between any two steps of a refresh. `BagPlayer`: the
event loop runs the timer, a tick goes on, time passes. `BagBrowser`: the GUI thread
takes signals and goes on with a call, and rsync, which either copies or fails, ends.
Nothing is assumed of requests, users, the graph, messages, failures or timeouts.

### What the code does differently from what the repository says

One is shown by a run:

* `MCAdaptsToWindow`: in a terminal of less than 15 columns the first row with a known
  type ends the process (`utils.cpp:193`, `src/README.md:10`).

Three are the exceptions that properties name, or the rule they rest on:

* `update_record_options` says the old thread has completed
  (`recorder_impl.cpp:244`), which a wait that timed out does not ensure: the options
  are replaced under it, its signal to stop is taken back, and the assignment to
  `discovery_future_` blocks, with `data_mutex_` held, for as long as it finds topics
  missing. `HandlerReturns` and `OneDiscoveryThread` name that update and exclude
  nothing else;
* "The record() can be called again after stop()" (`recorder_impl.hpp:86`), but the exit
  flag of the event thread stays set, so that no further file is listed or published
  (`SplitIsListed` is of recorders whose flag is not set). The handlers never do it:
  `RecorderMatchesNode`;
* the total of a transfer is said to be adjusted "only ... if the
  estimate is within 5% of current" (`bag_transfer.cpp:249`); the code adjusts it when
  the estimate is *not* (`drift > 0.05`, `:253`). `EstimateNearTruth` holds of the code
  and would not of the comment, by which a bad first estimate stays.

The others were met while modelling; the model does what the code does.

Recorder:

* after a configuration without `output`, the last bag directory has become the
  output setting, and `ListBags` with an empty path no longer lists the configured
  directory (`service_handlers.cpp:204`); the headless node lists `raw_output_uri_`,
  so a bag that was started with an `output_dir` of its own is not listed either;
* after a start that failed the node counts as recording, and `StopRecording`
  succeeds with a bag that is not there (`recorder_impl.cpp:114`);
* "All requested topics are subscribed" is decided by counting, and other
  subscriptions count (`recorder_impl.cpp:340`);
* `record()` after `stop()` starts no discovery (`recorder_impl.cpp:276`). The
  handlers never do it: `RecorderMatchesNode`;
* a hot update starts discovery that was disabled (`recorder_impl.cpp:247`), accepts
  sim time together with disabled discovery, which only the constructor refuses, and
  takes topic names without a leading slash and without what the constructor expands;
* of two splits in quick succession one file is never listed (`recorder_impl.cpp:140`);
* `SaveConfig` checks no path (`service_handlers.cpp:260`): a `metadata.yaml` makes any
  directory a bag, which is then listed, can be deleted with all that is in it, and is
  no place for a recording;
* an existing bag named with a trailing slash is refused instead of getting a sibling
  (`utils.cpp:82`);
* a "messages" throttle keeps one message per period and not "the first n messages
  per second" (`src/README.md:185`); `bytes_per_sec` is exceeded by up to one message
  (`default.yaml:70`, bounded by `BandwidthKept`); after the clock was set back,
  entries outside the window are not pruned (`recorder_impl.cpp:528`);
* the stale-data timeout of 3 s (`topic_information.hpp:16`) takes at least four,
  because ages are compared in whole seconds (`:83`);
* after a hot update the start flag, the QoS overrides and the serialization format
  are reported and not in force; compression and keyboard settings never are;
* warnings about publishers end with discovery and are not given for topics that are
  no longer selected.

Configuration:

* "frequency" throttles are documented and rejected (`config_yaml.cpp:384`); throttles
  can be added and not removed (`config_yaml.cpp:387`, `src/README.md:143`);
* `GetConfig` and `ApplyConfig` speak of the full configuration; keys that
  `serializeConfigToYaml` does not write are reset or kept when it comes back
  (`config_yaml.cpp:429`); a served configuration can always be applied and is neutral
  in what it names (`ServedConfigIsNeutral`);
* there is no `--start-recording` (`src/README.md:82`), and `--storage` is parsed into
  a variable nobody reads; an option takes its least number of values from whatever
  follows it, an option too; the first of two equal override entries or custom data
  keys is kept; a duration of 2^32 seconds becomes zero, and a negative nsec is
  accepted beside a positive sec.

GUI:

* a transfer that is running when the panel is closed is killed and leaves part of a bag,
  and nobody is told (`bag_transfer.cpp:10`);
* a cancelled transfer ends as failed, with an error dialog
  (`tst_BagTransfer.qml:149` expects "cancelled"); a process that could not be started
  keeps the engine running for good, since only finished() is connected;
* `metadata.yaml` may arrive before the data, so an incomplete bag may be listed; a
  deletion that stops after `metadata.yaml` is gone leaves a directory the GUI can no
  longer delete; a bag can be deleted while it is being transferred;
* after a lost reader the player's publishers stay advertised, and "playing" ticks on
  for ever; a step in "loaded" returns true without publishing; a step is published
  before the message that waits; a seek in "loaded" or "finished" is forgotten by
  play; a bag is opened with the storage id of the one before; looping over nothing
  never returns from its tick;
* a callback that outlived its recording may write one stray message into the next
  bag, or be in `write()` when a start that fails destroys the writer without its mutex
  (`bag_recorder_engine.cpp:220`, `:332`); exceptions of `close()` are swallowed by
  `stopRecording()`, where the bag is announced as finished, and not by
  `startRecording()` (`:331`).

## 4. The proofs

Every theorem holds for all values of the constants that the named assumptions of the
modules allow. The assumptions say what the code says: an argument list is a sequence
of arguments, a document a table of keys and values, the clock is far from 0, messages
of a bag are in the order of their times, a disk is one that programs leave behind,
topics have different names and finitely many of them are named in the options.

| Module | Theorems | Beyond the assumptions of the model |
|---|---|---|
| `RecorderNodeProofs` | `TypeCorrect`, `RecorderAlwaysMatchesNode`, `AlwaysFreshDirectory`, `BagsAlwaysApart`, `ArchiveImplemented` | nothing: both front ends, also the node that starts by itself, which no run covers |
| | `StoppedBagAlwaysListed` | `Frontend = "tui"`: section 3 says why it fails for the headless node |
| `TopicDiscoveryProofs` | `TypeCorrect`, `AtMostOneDiscoveryThread`, `HandlersHaveTheRecorderToThemselves` | nothing: every wait may time out |
| | `EndsOnlyWhenAllSubscribed` | topics are selected by name only and options are not replaced |
| `RecordingStatusProofs` | of `SplitEvents`: `TypeCorrect`, `FilesAlwaysInOrder`, `LastFileAlwaysListed` | nothing: also for recorders that are used again |
| | of `TopicTable`: `TableAlwaysSound`, `DiesOnlyOfKnownCauses` | nothing: all topics, names, types, sizes, windows and messages |
| `ThrottleProofs` | `RateAlwaysKept`, `BandwidthAlwaysKept`, `NeverSilenced` | nothing: all sets of throttles, sizes and settings of the clock |
| `ConfigurationProofs` | `ConfigAlwaysValid`, `ServedAlwaysNeutral`, `OneDocumentAlways`, `OverrideAlwaysRequested`, `AllHeardAtFirst`, `ReadsAlwaysAsGrouped` | nothing: all argument lists, files, documents and override files |
| `BagPlayerProofs` | `PanelAlwaysTrue`, `MessagesPlayedOnce`, `NeverTooEarly` | nothing: all bags, filters and rates |
| `BagRecorderProofs` | `WriterAlwaysMatches`, `OneLateAtMost`, `CountsStayNear` | nothing: all sets of topics |
| `BagBrowserProofs` | `NothingLostEver`, `ListAlwaysTrue`, `TransferAlwaysShown` | nothing: all bags, sizes and outputs of rsync |

Each proof has the same form: an inductive invariant, a step for every action, and the
property as its consequence. What had to be added to the property to make it inductive
is what its argument is:

*Recorder node.* `TypeOK` and `RecorderMatchesNode` are inductive; the types rest on
lemmas about paths and `resolveOutputDirectory` at the beginning of the module.
`FreshDirectory` is an action property: a recording begins only in `CreateAndStart`,
whose directory was not refused, so it did not exist (`TargetIsNew`). `BagsStayApart`
needs two facts about the disk (`BagsInv`). It stays `Orderly`: what exists lies in
directories that exist, so a new directory has nothing inside. And the directory of
every recorder is `Alone`, also of one whose bag could not be opened, since closing it
may make it a bag. Both hold until `meddled`: a saved configuration is inside a
recording's directory or makes a bag, and anything else it writes is a file or a directory
in directories that exist. From there `ImplementsBagArchive` follows step by step: each
handler is one action of `BagArchive` or leaves it alone. `BagArchive` may start with
any bags that lie apart.

*Discovery.* The properties are not inductive: that no thread runs in the
destructor depends on which of `future` and `spawned` owns it and on when the flag
is set. `Owned` says every running thread is one of these two, and in which handler
states the flag is set; `Waited` says that the thread has returned, or is `late`,
wherever the handler has waited for it and wherever it will not wait because the flag is
still set, and that no subscription comes back without a late thread. For
`EndsWhenAllSubscribed` the strengthening `Named` says that nothing but named topics
is subscribed or about to be; the count is then the test it claims to be, by the
cardinality of finite sets.

*Split events.* `ThreadExists` ties files and events to the life of the thread;
`Pending` says that the last listed file is the open one unless an event is in the
slot or on its way there, for each position of the executor between the writer's
split and the end of the callback. Order follows because what is appended is newer
than everything listed.

*Table.* `TableInv` adds two facts to the types. `StatisticsKept`: there is an interval
to take a mean of as soon as a rate is asked for, no interval is zero, and a rolling
window that is never shorter than one does not lose the last. `RowsMeasured`: while
rows are drawn each column is at least as wide as the cells *are*, which is not what was
measured, since the clock goes on and discovery adds topics. It survives because what
changes between measuring and drawing are ages only; a rate can then only fall to zero
(`AgedRate`), a bandwidth with it, and the text of zero is the shortest there is
(`ZeroRateShortest`, `ZeroBandwidthShortest`), so no cell grows (`AgedCell`). Messages
and the look at the publishers come when nothing is drawn. The widths come from
`DistributeRemaining`: what the name and the type are given together is no more than
what was left (`Distributed`), and the sum of the columns is that of the fold in
`TableWidth` (`TableWidths`). A type column that is not dropped has room for the three
dots because a table of six columns is at least 15 wide (`SixColumns`); a dropped one,
which is clipped all the same, has it from 15 columns on, for any names and types. So
`DiesOnlyOf` holds with that number, and the run `MCAdaptsToWindow` shows 14 are too few.
`OrderIsStrict` is the lexicographic order of key, size and name: strict and total since
every key is a number and names are different.

*Throttle.* The bounds speak of real time, which the code does not know. For a rate the
invariant says of each earlier message: it has as many successors as the bound allows,
and either the clock still shows how long ago the last one was, or there is room for one
more, which is what setting the clock costs (`MessagesInv`; `FrequencyInv` says it of
the next beat). A new rate keeps the last message alone (`MessagesCarry`, `PaceCarry`),
of which both still hold, whatever the new period. For a bandwidth there is a message
`k` from which on the deque holds exactly what was recorded, and before which every
setting of the clock has cost one budget (`BandFrom`); a shorter window or another limit
leaves that as it is, since the budget is that of the greatest limit (`BandChanged`).
`NotSilenced` follows from bounds on how far what is remembered may lie in the clock's
future (`MessagesQuiet`, `FrequencyQuiet`, `SentInv`). They are over `since` and `pace`,
not over the messages carried, so they survive every change of throttle. `ClockInv`
keeps the clock from being set before 0, the time of a state that was never used; that
is what `ClockAssumption` is for.

*Configuration.* `IsWhole` says what options are wherever they are kept: every member
has a value, and the override file it names has been loaded once. It holds of what
`Parse` makes of any argument list, carried through the fold of its steps, and of every
merge with a document. `RunningInv` says the recorder has the node's configuration;
`RequestedInv` that a subscribed topic with an override has that override, which
survives a hot update because the path of the override file is not among what one
changes. `ServedConfigIsNeutral` goes key by key through what is written and read.
`OneDocumentInForce` and `AllHeardAtFirst` are action properties over the same
invariant; the latter is the safety half of `HeardOrWarned`.
`ReadsAsGrouped` compares a parser that looks at one argument at a time with a grouping
of all of them. Groups are intervals (`GroupIsSegment`), so a grouping of a prefix is a
shorter one and a last piece (`PieceAdded`, `LastPiece`). After every argument
`FollowsReading` says that the parser knows all a grouping of the prefix lets one know,
whose turn it is and how many values are missing, and `ReadsOn` that what it accepted
so far is the beginning of one. Both pass from an argument to the next (`FollowsOn`,
`ReadsFurther`), which needs that no earlier error is ever made up for (`NothingMends`)
and that no option but the one at its turn has half a pair (`BalancedStays`).

*Player.* `PassInv`: what lies between the place the pass started from and the reader,
and passes the filter, was published once or waits in `pendingMsg_`. `PaceInv`: the
bag may be ahead by the small gap for each message that was timed, at the greatest rate;
the time since the last message counts as playing time already, so it survives pauses
and changes of rate, which move the anchor. `Horizon` is where the player's clock is no
longer followed, and no bag is longer.

*GUI recorder.* `CallInv` says what the call of the GUI thread has done at each of its
places, `Books` which bag is open and which one the writer is of, also where a start
failed or its `close()` threw, `CallbackInv` and `LateInv` what the one callback may still
do, by its stage and by the bag it was made for; a dangling one is never of the bag that
is recorded. `NearInv` bounds the total for each stage of the
callback: an own one writes first and counts then, one that was left behind counts
without having written. That the total is the sum of the topics' counts (`SumInv`)
needs that a sum may begin with any element of a finite set, which is proved for
`MapThenSumSet` from a least counterexample.

*Browser.* `CopyInv`: what rsync has copied is in the directory unless somebody deleted
from it, so that it succeeds only on a whole bag; the rest of `NothingLostUntold` is who
is told of which end, and that nobody is told of the one with the panel (`dropped`).
`ListInv` carries the sets around a listing through the changes of the disk.
`TransferIsShown` has three parts. `StreamInv`: what is in `readBuffer_` and in the pipe
are alternately the lines not yet parsed and their separators, and the tail that is kept
is the one of the lines before; so parsing up to the last separator loses no line and
takes none twice, in whatever chunks they come. The numbers: percentages that are
rounded down by up to one, divided back, and kept within a twentieth, stay within a
twelfth of the size, for every size, from `Estimate` in integers (`EstimateIsNear`). And
a process is there exactly while the engine runs.

The library's induction over data is out of reach, since its theorems take an operator
as a parameter. Where a fold or a recursive function is followed (the parser's
arguments, rsync's lines, the bytes in a window, sums, the digits of a number), the
proof takes the least counterexample instead.

Model-checked only is all liveness, which the prover does not reach: `HandlerReturns`,
`AvailableIsSubscribed`, `SplitIsListed`, `StopReturns`, `PlaybackProceeds`,
`CallsReturn`, `TransferEnds`, `TableCatchesUp`, and `UnheardIsWarned`, the other half
of `HeardOrWarned`. Every safety invariant and every action property of the passing
runs is a theorem.

No module uses a recursive operator; `Digits` is a recursive function.

## 5. Not modelled

* Message contents, formats, rendering and logging; the insides of rosbag2, rclcpp,
  Qt and yaml-cpp (external definitions say what is assumed of them: closing a writer
  writes `metadata.yaml`, possibly also for a bag that failed to open; a process
  reports its end once).
* Texts: relative paths, `~` and environment variables, `ensureLeadingSlash`, the
  spelling of values. Values are told apart, not spelled.
* Unlocked reads whose outcomes lie below this level: `files_` read by the status
  while the event thread appends (`recorder_impl.cpp:633`), `subscriptions_.size()` in
  a log line (`:256`), the copy of the topics (`terminal_ui.cpp:292`; the model lets
  it miss any of them, a crash it does not have).
* A split reported from inside `close()`; duplicate names in a topic list; disk errors
  while directories are made; equal time stamps in the statistics.
* `onStatsTick` of the GUI's recorder (display only), and speed, remaining time and
  commands of a transfer.
* The QML interfaces and elements: bindings and forwarded calls, whose timing is that of
  the external Ros2 plugin. What a lossy status does to the GUI's picture of a
  recorder depends on that plugin's behaviour, which this repository does not define.
* The parts of CLI11 the recorder never reaches (subcommands, configuration files, help
  text), and the message definitions.

## 6. Plan

1. Done: all modules above, and the proofs of section 4.
2. Done: a theorem for every invariant and action property of the passing runs.
3. Left: nothing that these tools reach. Liveness stays with the runs, the GUI's picture
   of a remote recorder waits for a definition of the plugin it is made with.
