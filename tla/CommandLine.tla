----------------------------- MODULE CommandLine -----------------------------
(***************************************************************************)
(* One invocation: upstream's flag surface, read a token at a time as      *)
(* commons-cli does (compatcli.py), this project's own (cliargs.py), and   *)
(* the exit code each way through cli.py ends with.                        *)
(*                                                                         *)
(* What the run itself comes to is chosen from the outcomes the library    *)
(* can have; modules Requests and Runner are about it.                     *)
(***************************************************************************)
EXTENDS Integers, Sequences, SequencesExt

CONSTANTS
  Argvs,           \* command lines: sequences of tokens
  Plain,           \* the tokens with no hyphen before them, or with nothing after it
  Targets,         \* the tokens that are inputs that exist, or URLs, which are not looked at yet
  Directories,     \* those that are directories
  None

VARIABLES
  argv, args,                     \* the command line, and what is left to read of it
  pending, present, values,       \* compatcli.parse
  pc, request,                    \* the stage, and the request made
  outcome, exit                   \* what became of it

vars == <<argv, args, pending, present, values, pc, request, outcome, exit>>

COMPAT_FLAG == "--compat"
EQUAL_MESSAGE_ABORT_FLAG == "--upstream-equal-message-abort"
OPTIONS == {"-gtfs", "-gtfsRealtimePath", "-sort", "-plainText", "-stats", "-ignoreShapes"}
UPSTREAM_SPELLINGS == {"-gtfsRealtimePath", "-sort", "-ignoreShapes", "-plainText", "-stats"}
COMPAT_ONLY_FLAGS == {EQUAL_MESSAGE_ABORT_FLAG}
ROLES == {"-tu", "-vp", "-sa"}
ROLE_ORDER == <<"-tu", "-vp", "-sa", "-rt">>

EXIT_OK == 0
EXIT_USAGE == 1
EXIT_FINDINGS == 1
EXIT_UPSTREAM_CRASH == 1
EXIT_RUNNER == 255
EXIT_TRACEBACK == 1               \* what Python ends with on what nothing catches

Parsing == <<pending, present, values>>

Init ==
  /\ argv \in Argvs /\ args = argv
  /\ pending = None /\ present = {} /\ values = <<>>
  /\ pc = "main" /\ request = None /\ outcome = None /\ exit = None

Ends(code) == pc' = "ended" /\ exit' = code

UsageError == Ends(EXIT_USAGE) /\ UNCHANGED <<request, outcome>>

\* The flag is looked for wherever it stands, before anything is parsed.
main ==
  /\ pc = "main"
  /\ IF COMPAT_FLAG \in Range(argv)
     THEN args' = RemoveFirst(RemoveFirst(argv, COMPAT_FLAG), EQUAL_MESSAGE_ABORT_FLAG) /\ pc' = "parse"
     ELSE pc' = "modern" /\ UNCHANGED args
  /\ UNCHANGED <<argv, Parsing, request, outcome, exit>>

-----------------------------------------------------------------------------
(* Compat.                                                                 *)

setdefault(option, token) == values @@ (option :> token)

MissingArgument == pending # None

\* An option, the value one waits for, or a token of its own.
parse ==
  /\ pc = "parse" /\ args # <<>>
  /\ LET token == Head(args)
     IN  IF token \in OPTIONS
         THEN IF MissingArgument THEN UsageError /\ UNCHANGED Parsing
              ELSE present' = present \cup {token} /\ pending' = token /\ UNCHANGED <<values, pc, request, outcome, exit>>
         ELSE IF pending # None
         THEN values' = setdefault(pending, token) /\ pending' = None /\ UNCHANGED <<present, pc, request, outcome, exit>>
         ELSE IF token \notin Plain THEN UsageError /\ UNCHANGED Parsing
         ELSE UNCHANGED <<Parsing, pc, request, outcome, exit>>
  /\ args' = Tail(args)
  /\ UNCHANGED argv

Value(option) == IF option \in DOMAIN values THEN values[option] ELSE None

from_cli(value) == IF value = "name" THEN "name" ELSE "date"

\* The parse is over: main's getters, in its order.
_compat ==
  /\ pc = "parse" /\ args = <<>>
  /\ IF pending # None \/ None \in {Value("-gtfs"), Value("-gtfsRealtimePath")} \/ Value("-plainText") # None \/ "-stats" \in present
     THEN UsageError
     ELSE IF Value("-gtfsRealtimePath") \notin Targets
     THEN outcome' = "OSError" /\ Ends(EXIT_OK) /\ UNCHANGED request
     ELSE /\ request' = [mode |-> "compat", gtfs |-> Value("-gtfs"), inputs |-> <<Value("-gtfsRealtimePath")>>, directory_replay |-> TRUE,
                         sort_by |-> from_cli(Value("-sort")), ignore_shapes |-> "-ignoreShapes" \in present,
                         abort_on_equal_message |-> EQUAL_MESSAGE_ABORT_FLAG \in Range(argv), fail_on_error |-> FALSE]
          /\ pc' = "run" /\ UNCHANGED <<outcome, exit>>
  /\ UNCHANGED <<argv, args, Parsing>>

-----------------------------------------------------------------------------
(* Modern: argparse, as build_parser sets it up.                           *)

Valued == {"-gtfs", "-rt", "--sort", "--at", "--out"} \cup ROLES
Switches == {"--ignore-shapes", "--fail-on-error"}

\* A flag without its value fails where it stands, a token too many at the end.
fails_at(i) ==
  args[i] \in Valued /\ ~(i < Len(args) /\ args[i + 1] \in Plain /\ (args[i] = "--sort" => args[i + 1] \in {"name", "date"}))
shows_version == \E i \in DOMAIN args : args[i] = "--version" /\ \A j \in 1..(i - 1) : ~fails_at(j)
parse_args ==
  \A i \in DOMAIN args : /\ ~fails_at(i)
                         /\ args[i] \in Switches \cup Valued \/ (args[i] \in Plain /\ i > 1 /\ args[i - 1] \in Valued)

\* The last of a flag given twice stands.
Namespace(flag) ==
  LET at == {i \in DOMAIN args : args[i] = flag}
  IN  IF at = {} THEN None ELSE args[(CHOOSE i \in at : \A j \in at : j <= i) + 1]

roles == {r \in ROLES : Namespace(r) # None}

\* One shape of input and all of it there; a role is one message and not a
\* directory of them.
resolve == Namespace("-rt") # None /\ roles = {} /\ Namespace("-rt") \in Targets
resolve_roles == Namespace("-rt") = None /\ roles # {} /\ \A r \in roles : Namespace(r) \in Targets \ Directories
_modern_inputs == resolve \/ resolve_roles

\* An instant, and not a wall time.
_moment == Namespace("--at") \in {None, "instant"}

reject == \E i \in DOMAIN args : args[i] \in UPSTREAM_SPELLINGS \cup COMPAT_ONLY_FLAGS

_modern ==
  /\ pc = "modern"
  /\ IF reject THEN UsageError
     ELSE IF shows_version THEN Ends(EXIT_OK) /\ UNCHANGED <<request, outcome>>
     ELSE IF ~parse_args \/ Namespace("-gtfs") = None \/ ~_modern_inputs \/ ~_moment THEN UsageError
     ELSE /\ request' = [mode |-> "modern", gtfs |-> Namespace("-gtfs"),
                         inputs |-> LET given == SelectSeq(ROLE_ORDER, LAMBDA f : Namespace(f) # None)
                                    IN  [k \in DOMAIN given |-> Namespace(given[k])],
                         directory_replay |-> Namespace("-rt") \in Directories,
                         sort_by |-> IF Namespace("--sort") = None THEN "date" ELSE Namespace("--sort"),
                         ignore_shapes |-> "--ignore-shapes" \in Range(args), abort_on_equal_message |-> FALSE,
                         fail_on_error |-> "--fail-on-error" \in Range(args)]
          /\ pc' = "run" /\ UNCHANGED <<outcome, exit>>
  /\ UNCHANGED <<argv, args, Parsing>>

-----------------------------------------------------------------------------
(* The run, and what main makes of how it ended.                           *)

Outcomes == {"clean", "errors found", "OSError", "StaticLoadError"}
            \cup (IF request.mode = "compat" THEN {"CompatAbort"} ELSE {})
            \cup (IF request.abort_on_equal_message THEN {"EqualMessage"} ELSE {})

code(end) ==
  CASE end = "clean" -> EXIT_OK
    [] end = "errors found" -> IF request.fail_on_error THEN EXIT_FINDINGS ELSE EXIT_OK
    [] end = "CompatAbort" \/ end = "EqualMessage" -> EXIT_UPSTREAM_CRASH
    [] end = "StaticLoadError" -> EXIT_RUNNER
    [] end = "OSError" -> IF request.mode = "compat" THEN EXIT_OK ELSE EXIT_TRACEBACK

validate ==
  /\ pc = "run"
  /\ \E end \in Outcomes : outcome' = end /\ Ends(code(end))
  /\ UNCHANGED <<argv, args, Parsing, request>>

Next == main \/ parse \/ _compat \/ _modern \/ validate

Spec == Init /\ [][Next]_vars /\ WF_vars(Next)

-----------------------------------------------------------------------------
Compat == COMPAT_FLAG \in Range(argv)

\* A run has a request, and only what has ended has an exit code.
TypeOK ==
  /\ (exit # None) <=> pc = "ended"
  /\ outcome # None => pc = "ended"
  /\ pc = "run" => request # None
  /\ pending # None => pending \in OPTIONS

\* What is left to parse when the two flags are taken out.
Given == RemoveFirst(RemoveFirst(argv, COMPAT_FLAG), EQUAL_MESSAGE_ABORT_FLAG)

\* The token loop comes to a request, or to an input it could not read, from lines
\* only in which each of the six is followed by something that is none of them
\* and no other hyphen stands by itself; and from every such line that has both
\* the required ones, with neither -stats nor -plainText, which never make a
\* request.  The archive is then the first -gtfs given, and -ignoreShapes is on
\* whatever its value says, wherever the two flags stood (compatcli.parse, and
\* the two quirks its doc keeps).
CompatReadsWhatCommonsCliDoes ==
  LET wellFormed == \A i \in DOMAIN Given :
        /\ Given[i] \in OPTIONS => i < Len(Given) /\ Given[i + 1] \notin OPTIONS
        /\ Given[i] \notin OPTIONS /\ Given[i] \notin Plain => i > 1 /\ Given[i - 1] \in OPTIONS
  IN  Compat /\ pc \in {"run", "ended"} =>
        /\ request # None \/ outcome = "OSError" => wellFormed
        /\ request # None =>
             /\ \E i \in DOMAIN Given : /\ Given[i] = "-gtfs" /\ request.gtfs = Given[i + 1]
                                        /\ \A j \in 1..(i - 1) : Given[j] # "-gtfs"
             /\ request.ignore_shapes <=> "-ignoreShapes" \in Range(Given)
             /\ \A i \in DOMAIN Given : Given[i] \notin {"-stats", "-plainText"}
        /\ wellFormed /\ {"-gtfs", "-gtfsRealtimePath"} \subseteq Range(Given) /\ {"-stats", "-plainText"} \cap Range(Given) = {}
             => request # None \/ outcome = "OSError"

\* A line is on one surface: what belongs to the other makes no request, so the
\* abort is never asked of a modern run (reject_upstream_spellings,
\* reject_compat_only_flags); a directory is a replay or it is refused
\* (inputs.py); and the exit code is not 0 where nothing was run
\* but for --version and an input compat could not read.
OneSurface ==
  /\ request # None => (request.mode = "compat" <=> Compat)
  /\ request # None /\ request.mode = "modern" =>
       /\ ~request.abort_on_equal_message
       /\ Range(argv) \cap (UPSTREAM_SPELLINGS \cup COMPAT_ONLY_FLAGS) = {}
  /\ request # None /\ ~request.directory_replay => Range(request.inputs) \cap Directories = {}
  /\ exit = EXIT_OK /\ request = None => (IF Compat THEN outcome = "OSError" ELSE "--version" \in Range(argv))

\* The line has come to an exit code (the token loop reads each token once).
Answered == pc = "ended"
=============================================================================
