------------------------------ MODULE RunLobster ------------------------------
(***************************************************************************)
(* src/lobster_replay.cpp: the command line is read word by word, the      *)
(* replay runs in the mode it selects, and what came of it is reported.    *)
(* The sentences printed are records of what they claim.                   *)
(***************************************************************************)
EXTENDS LobsterReplay

CONSTANT CommandLines  \* argument lists

Flag == {"--recover", "--resync", "--published-features"}
\* Every path, and the number of levels, is "file", except the empty path.
Word == Flag \cup {"--emit-features", "--unknown", "file", "empty"}

ASSUME CommandLineAssumption == CommandLines \subseteq Seq(Word)

VARIABLES
  phase,       \* parse, replay, exited
  argv,
  arg_i,       \* i of main: the next word to read
  positional,  \* how many file names were read
  exit,        \* the exit status
  said         \* the claims that were printed

cliVars == <<phase, argv, arg_i, positional, exit, said>>

Option(word) ==
  CASE word = "--recover" -> "recover"
    [] word = "--resync" -> "resync"
    [] word = "--published-features" -> "published"
    [] word = "--emit-features" -> "emit"

\* opts is all a command line decides of the replay.
Parsing == phase = "parse" /\ UNCHANGED <<venueVars, pc, rec, st, row, err, agreed, first, trackerVars>>
MoreWords == arg_i <= Len(argv)

\* Mutant of ReadFlag: the last option replaces those before it.
ReadFlag_LastWins ==
  /\ Parsing /\ MoreWords /\ argv[arg_i] \in Flag
  /\ opts' = {Option(argv[arg_i])}
  /\ arg_i' = arg_i + 1
  /\ UNCHANGED <<phase, argv, positional, exit, said>>

ReadFlag ==
  /\ Parsing /\ MoreWords /\ argv[arg_i] \in Flag
  /\ opts' = opts \cup {Option(argv[arg_i])}
  /\ arg_i' = arg_i + 1
  /\ UNCHANGED <<phase, argv, positional, exit, said>>

\* The word after the option is its path, whatever it is; an empty one sets no sink.
ReadEmitFeatures ==
  /\ Parsing /\ arg_i < Len(argv) /\ argv[arg_i] = "--emit-features"
  /\ opts' = IF argv[arg_i + 1] = "empty" THEN opts \ {"emit"} ELSE opts \cup {"emit"}
  /\ arg_i' = arg_i + 2
  /\ UNCHANGED <<phase, argv, positional, exit, said>>

\* Only the first two words that are read here are looked at: an empty name among
\* them is left to RejectInput, the number of levels is Levels.
ReadFileName ==
  /\ Parsing /\ MoreWords /\ argv[arg_i] \in {"file", "empty"}
  /\ positional' = positional + 1
  /\ arg_i' = arg_i + 1
  /\ UNCHANGED <<opts, phase, argv, exit, said>>

\* A missing path, an unknown option, too few file names, or a features file
\* that cannot be opened.
Refuse ==
  /\ Parsing
  /\ \/ MoreWords /\ argv[arg_i] = "--emit-features" /\ arg_i = Len(argv)
     \/ MoreWords /\ argv[arg_i] = "--unknown"
     \/ ~MoreWords /\ positional < 2
     \/ ~MoreWords /\ "emit" \in opts
  /\ phase' = "exited" /\ exit' = 2
  /\ UNCHANGED <<opts, argv, arg_i, positional, said>>

StartReplay ==
  /\ Parsing /\ ~MoreWords /\ positional >= 2
  /\ phase' = "replay"
  /\ UNCHANGED <<opts, argv, arg_i, positional, exit, said>>

Replay == phase = "replay" /\ Running /\ UNCHANGED cliVars

-----------------------------------------------------------------------------
Claim(what, n) == [what |-> what, messages |-> n]

OfPublished ==
  IF st.first_divergence # 0 THEN Claim("matched exactly for the first", st.first_divergence)
  ELSE Claim("matched throughout", st.messages)

ReportFailure ==
  /\ phase = "replay" /\ pc = "failed" /\ err # "exception"
  /\ said' = {Claim("failed after", st.messages)}
             \cup IF opts \cap {"recover", "published"} = {}
                  THEN {Claim("strict reconstruction horizon", st.messages)} ELSE {}
  /\ phase' = "exited" /\ exit' = 1
  /\ UNCHANGED <<vars, argv, arg_i, positional>>

\* Nothing catches what the replay throws: the program aborts and reports nothing.
Abort ==
  /\ phase = "replay" /\ pc = "failed" /\ err = "exception"
  /\ phase' = "exited" /\ exit' = 134
  /\ UNCHANGED <<vars, argv, arg_i, positional, said>>

ReportSuccess ==
  /\ phase = "replay" /\ pc = "passed"
  /\ said' = {Claim("reconciled with zero divergences", st.messages)}
             \cup IF Continues THEN {OfPublished} ELSE {}
  /\ phase' = "exited" /\ exit' = 0
  /\ UNCHANGED <<vars, argv, arg_i, positional>>

Exited == phase = "exited" /\ UNCHANGED <<vars, cliVars>>

RunInit ==
  /\ Init
  /\ phase = "parse" /\ argv \in CommandLines /\ arg_i = 1 /\ positional = 0
  /\ exit = 0 /\ said = {}

RunNext ==
  \/ ReadFlag \/ ReadEmitFeatures \/ ReadFileName \/ Refuse \/ StartReplay
  \/ Replay
  \/ ReportFailure \/ Abort \/ ReportSuccess
  \/ Exited

RunSpec == RunInit /\ [][RunNext]_<<vars, cliVars>>

-----------------------------------------------------------------------------
ExitsWith(status) == phase = "exited" /\ exit = status

(* An exit status of 0 without --published-features is what a script may   *)
(* take it for: after every message our top levels were the venue's, and   *)
(* the engine never traded (lobster_replay.cpp:9-10, LobsterReplay.hpp:684)*)
SuccessIsHonest ==
  ExitsWith(0) /\ ~Continues => agreed = st.messages /\ ~(rec.unexpected_trades > 0)

(* What the printed sentences say, taken at their word: the first N        *)
(* messages "matched exactly", N messages are the horizon, N messages       *)
(* reconciled "with zero divergences"; after each of the N our top levels   *)
(* were the venue's (lobster_replay.cpp:131-132, 149-150, 157-159; the     *)
(* horizons of README.md:89-95 are "messages reconciled exactly").         *)
ReportAsPrinted ==
  err \notin BadInput =>
    \A c \in said : c.what # "failed after" => agreed >= c.messages

(* An option that the command line names takes effect, wherever it stands, *)
(* unless it stands where --emit-features takes its path from              *)
(* (lobster_replay.cpp:30-60).                                             *)
OptionsTakeEffect ==
  phase = "replay" =>
    \A k \in DOMAIN argv : argv[k] \in Flag /\ Option(argv[k]) \notin opts =>
      k > 1 /\ argv[k - 1] = "--emit-features"
=============================================================================
