------------------------------ MODULE CommandLine ------------------------------
(***************************************************************************)
(* The command line: the options arg_parser.cpp declares, and what         *)
(* CLI::App::parse (CLI11.hpp) makes of the arguments before --ros-args.   *)
(* The arguments are read one by one, as _parse_single and _parse_arg do;  *)
(* then the help flag, the values and the exclusions are checked, and what *)
(* no option took is an error.                                             *)
(***************************************************************************)
EXTENDS ConfigYaml, SequencesExt

\* The options, under the name of the member they set where there is one.  The
\* others are the local variables of parseCommandLineArguments and --help.
FlagOptions ==
  {"all", "all_topics", "all_services", "include_unpublished_topics",
   "include_hidden_topics", "is_discovery_disabled", "publish_status",
   "ignore_leaf_topics", "disable_keyboard_controls", "start_paused",
   "use_sim_time", "snapshot_mode", "help"}
ListOptions ==
  {"topics", "services", "topic_types", "exclude_topic_types",
   "exclude_topics", "exclude_service_events"}
PairOptions == {"custom_data"}
NumberOptions ==
  {"topic_polling_interval", "max_bag_size", "max_bag_size_gb",
   "max_bag_duration", "max_cache_size", "compression_queue_size",
   "compression_threads", "compression_threads_priority"}
ChoiceOptions == {"storage", "compression_mode"}
FileOptions == {"topic_qos_profile_overrides_path", "config"}
StringOptions ==
  {"output", "regex", "exclude_regex", "rmw_serialization_format", "node_name",
   "compression_format", "publish_status_topic"}
Options ==
  FlagOptions \cup ListOptions \cup PairOptions \cup NumberOptions \cup ChoiceOptions \cup FileOptions \cup StringOptions

\* Every option but --config itself excludes --config, and the two sizes exclude
\* each other; excludes() is symmetric.
Excludes(a, b) ==
  \/ a # b /\ "config" \in {a, b}
  \/ {a, b} = {"max_bag_size", "max_bag_size_gb"}

\* An argument.  "long": --option or, with a value, --option=value; "short":
\* -o, or -ovalue; "mark": --; "word": anything else, a negative number too.  An
\* option the parser does not know is "unknown".
Argument ==
  [kind : {"long", "short"}, option : Options \cup {"unknown"},
   value : {""} \cup Value]
  \cup [kind : {"word"}, text : Value]
  \cup [kind : {"mark"}]

\* App::_recognize
IsWord(arg) == arg.kind = "word"
IsMark(arg) == arg.kind = "mark"

\* An argument taken as a value, whatever it looks like.
Text(arg) == IF IsWord(arg) THEN arg.text ELSE "text"
-----------------------------------------------------------------------------
(***************************************************************************)
(* Reading.  taking is the option whose values are being read ("" : none), *)
(* missing the number of values it must still get, results what add_result *)
(* collected, extras the number of arguments nobody took.                  *)
(***************************************************************************)
Start ==
  [taking |-> "", missing |-> 0, onlyWords |-> FALSE,
   results |-> [o \in Options |-> <<>>], extras |-> 0, broken |-> FALSE]

\* The values an option takes at once: type_size times expected.
AtLeast(o) == IF o \in FlagOptions THEN 0 ELSE IF o \in PairOptions THEN 2 ELSE 1

\* An option that goes on taking words when it has its minimum.
Unbounded(o) == o \in ListOptions \cup PairOptions

AddResult(parse, o, text) == [parse EXCEPT !.results[o] = Append(@, text)]

\* An argument nobody takes (_move_to_missing).
LeftOver(parse) == [parse EXCEPT !.extras = @ + 1]

\* _parse_positional: there are no positional arguments and no subcommands, so a
\* word by itself is left over.
ReadPositional(parse) == LeftOver(parse)

\* An option of a type with two parts that got an odd number of them (PartialType).
Partial(parse) ==
  parse.taking \in PairOptions /\ Len(parse.results[parse.taking]) % 2 = 1

\* The option's turn is over.
Close(parse) ==
  [parse EXCEPT !.taking = "", !.missing = 0, !.broken = @ \/ Partial(parse)]

\* A flag takes a value only after '=': get_flag_value makes it TRUE without one,
\* and what follows its letter is pushed back as an argument of its own, which
\* nobody knows.
FlagValue(arg) == IF arg.kind = "long" /\ arg.value # "" THEN arg.value ELSE "one"
ReadFlag(parse, arg) ==
  LET read == AddResult(parse, arg.option, FlagValue(arg))
  IN IF arg.kind = "short" /\ arg.value # "" THEN LeftOver(read) ELSE read

\* --option=value or -ovalue gives an option its first value, and counts for its
\* minimum.
ReadGlued(parse, arg) ==
  IF arg.value = "" THEN parse ELSE AddResult(parse, arg.option, arg.value)

\* _parse_arg on an argument that names an option.
ReadOption(parse, arg) ==
  LET o == arg.option
      glued == arg.value # ""
  IN IF o = "unknown" THEN LeftOver(parse)
     ELSE IF o \in FlagOptions THEN ReadFlag(parse, arg)
     ELSE [ReadGlued(parse, arg) EXCEPT
             !.taking = IF glued /\ ~Unbounded(o) THEN "" ELSE o,
             !.missing = AtLeast(o) - (IF glued THEN 1 ELSE 0)]

\* Fault: an option's minimum is not taken from arguments that look like options.
ReadArgumentCarefully(parse, arg) ==
  IF parse.taking # "" /\ IsWord(arg)
  THEN [AddResult(parse, parse.taking, Text(arg)) EXCEPT
          !.taking = IF Unbounded(@) THEN @ ELSE "", !.missing = 0]
  ELSE IF IsWord(arg) THEN ReadPositional(parse)
  ELSE IF IsMark(arg) THEN [Close(parse) EXCEPT !.onlyWords = TRUE]
  ELSE ReadOption(Close(parse), arg)

\* An option that misses values takes the next argument whatever it is.
TakeMinimum(parse, arg) ==
  LET read == AddResult(parse, parse.taking, Text(arg))
  IN IF parse.missing = 1 /\ ~Unbounded(parse.taking) THEN Close(read)
     ELSE [read EXCEPT !.missing = @ - 1]

\* One that can take more takes words, and swallows the -- that ends them.
TakeOptional(parse, arg) ==
  IF IsWord(arg) THEN AddResult(parse, parse.taking, Text(arg)) ELSE Close(parse)

\* _parse_single; after a -- of its own everything is a positional argument.
ReadArgument(parse, arg) ==
  IF parse.missing > 0 THEN TakeMinimum(parse, arg)
  ELSE IF parse.taking # "" /\ (IsWord(arg) \/ IsMark(arg)) THEN TakeOptional(parse, arg)
  ELSE IF parse.onlyWords \/ IsWord(arg) THEN ReadPositional(parse)
  ELSE IF IsMark(arg) THEN [parse EXCEPT !.onlyWords = TRUE]
  ELSE ReadOption(Close(parse), arg)

\* App::_parse, up to _process: running out of arguments before the minimum is
\* met is an error (TypedAtLeast).
Read(args) ==
  LET parse == FoldLeft(ReadArgument, Start, args)
  IN [Close(parse) EXCEPT !.broken = @ \/ parse.missing > 0]
-----------------------------------------------------------------------------
(***************************************************************************)
(* Checking.  files are the words that name an existing configuration file. *)
(***************************************************************************)
Count(parse, o) == Len(parse.results[o])

\* The validators of an option accept every value (IsMember, ExistingFile).
Validated(o, results, files) ==
  CASE o \in ChoiceOptions -> \A i \in DOMAIN results : results[i] # "text"
    [] o \in FileOptions ->
         \A i \in DOMAIN results :
           results[i] \in (IF o = "config" THEN files ELSE DOMAIN OverrideFiles)
    [] OTHER -> TRUE

\* What MultiOptionPolicy leaves: a flag's last value, all values of a list, and
\* nothing of an option that may be there once and was there twice.
Reduced(o, results) ==
  IF o \in FlagOptions THEN {<<Last(results)>>}
  ELSE IF o \in ListOptions \cup PairOptions \/ Len(results) = 1 THEN {results}
  ELSE {}

\* The conversion to the type of the member: "text" is neither a number nor true
\* or false.
Converted(o, results) ==
  o \in FlagOptions \cup NumberOptions => results[1] # "text"

\* Option::run_callback
Accepted(o, results, files) ==
  /\ Validated(o, results, files)
  /\ \E reduced \in Reduced(o, results) : Converted(o, reduced)

\* _process_callbacks, for the options that are there: one that is not has run its
\* callback with its default when it was declared.
ValueRejected(parse, files) ==
  \E o \in Options : Count(parse, o) > 0 /\ ~Accepted(o, parse.results[o], files)

\* _process_requirements
Excluded(parse) ==
  \E a, b \in Options : Excludes(a, b) /\ Count(parse, a) > 0 /\ Count(parse, b) > 0

\* _process_help_flags
HelpAsked(parse) == Count(parse, "help") > 0

\* _process_extras
SomeLeftOver(parse) == parse.extras > 0

\* App::_process: --help comes first, before errors in the values.
\* parseCommandLineArguments exits on every outcome but "run".
Outcome(parse, files) ==
  IF parse.broken THEN "error"
  ELSE IF HelpAsked(parse) THEN "help"
  ELSE IF ValueRejected(parse, files) \/ Excluded(parse) \/ SomeLeftOver(parse)
  THEN "error"
  ELSE "run"
-----------------------------------------------------------------------------
(***************************************************************************)
(* The result.                                                             *)
(***************************************************************************)

\* The members before the arguments count: default_val runs the callbacks.  A
\* list with default "" holds one empty type.
Default(f) ==
  CASE f \in {"max_cache_size", "exclude_topic_types"} -> "two"
    [] f \in {"compression_queue_size", "compression_mode", "node_name",
              "publish_status_topic"} -> "one"
    [] OTHER -> "none"

\* What the callback of option o leaves in its variable: a list is known by its
\* first word, a flag by its last value.
Given(parse, o) ==
  IF o \in FlagOptions THEN IF Last(parse.results[o]) = "none" THEN "none" ELSE "one"
  ELSE parse.results[o][1]

\* parseCommandLineArguments after the parse: --all sets both flags, a positive
\* size in gigabytes replaces the size in bytes, --storage goes nowhere, and the
\* output is resolved, given or not.
CommandLineMembers(parse) ==
  LET set(o) == Count(parse, o) > 0 /\ Given(parse, o) # "none"
  IN [f \in Fields |->
        IF f = "output" THEN "resolved"
        ELSE IF f \in {"all_topics", "all_services"} /\ set("all") THEN "one"
        ELSE IF f = "max_bag_size" /\ set("max_bag_size_gb")
        THEN Given(parse, "max_bag_size_gb")
        ELSE IF f \in Options /\ Count(parse, f) > 0 THEN Given(parse, f)
        ELSE Default(f)]
=============================================================================
