---------------------------- MODULE MCRecorderNode ----------------------------
EXTENDS RecorderNodeProperties

Dir(p) == [path |-> p, slash |-> FALSE]
DirSlash(p) == [path |-> p, slash |-> TRUE]

MCName == {"R", "D", "t0", "t1", "t2"}
MCCwd == <<"R">>
MCStamp == (0 :> "t0") @@ (1 :> "t1") @@ (2 :> "t2")

\* "R" is the output directory of the configuration file.
Boot == [id |-> "boot", hasOutput |-> TRUE, output |-> Dir(<<"R">>),
         startPaused |-> FALSE, clash |-> FALSE]
NoOutput == [id |-> "no output", hasOutput |-> FALSE, output |-> Unset,
             startPaused |-> TRUE, clash |-> FALSE]
Clash == [id |-> "clash", hasOutput |-> FALSE, output |-> Unset,
          startPaused |-> FALSE, clash |-> TRUE]
\* Services on the headless node: a one-off directory "D", also with a slash.
MCConfigs == {Boot, NoOutput}
MCRequests == {Dir(<<"D">>), DirSlash(<<"D">>)}

\* The TUI and the self-starting node: configurations that cannot be recorded.
ClashConfigs == {Boot, NoOutput, Clash}
NoRequests == {}

\* Configurations saved into a bag to be, and as a bag's metadata.yaml.
SavesAmongBags == {[dir |-> <<"R", "t0">>, name |-> "D"]}
SavesByBags == {[dir |-> <<"R">>, name |-> "metadata.yaml"]}

MCInitialFs == [dirs |-> {<<>>, <<"R">>}, bags |-> {}, files |-> {}]
=============================================================================
