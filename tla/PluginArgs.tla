------------------------------ MODULE PluginArgs ------------------------------
(***************************************************************************)
(* module_init(): the argument string of the plugin is cut into an argv by *)
(* hh_dp_utils.c, getopt_long() reads it, and process_plugin_opt() sets    *)
(* the socket paths, which hh_dp_comm.c keeps in fixed buffers.            *)
(*                                                                         *)
(* A token is what stands between two spaces.  Its kind is how getopt      *)
(* reads it: an option whose argument is the next token ("l", "r"), one    *)
(* that carries its argument ("l="), an unknown option or a plain word.    *)
(***************************************************************************)
EXTENDS Integers, FiniteSets, SequencesExt

CONSTANTS
  Tokens,        \* bound: the tokens of the argument string
  MaxTokens,     \* bound: its length
  MAX_ARGS,      \* size of argv, 64 in the code
  MAX_SUN_PATH,  \* octets of sun_path, 108 in the code
  DefaultPath,   \* DFLT_LOC_DPSOCK_PATH and DFLT_REM_DPSOCK_PATH
  MaxAllocFails, \* bound: calls of strdup() that fail
  SaveptrKept    \* does the build keep saveptr from one turn to the next?

NUL == "NUL"

\* A C string: a sequence of octets, none of which is NUL.
NoNul(p) == p \in Seq(Range(p)) /\ NUL \notin Range(p)

ASSUME ArgsConstantsOK ==
  /\ \A t \in Tokens : /\ t.kind \in {"l", "r", "l=", "unknown", "word"}
                      /\ NoNul(t.text)
  /\ NoNul(DefaultPath)
  /\ MaxTokens \in Nat /\ MaxAllocFails \in Nat
  /\ MAX_ARGS \in Nat /\ MAX_ARGS > 2
  /\ MAX_SUN_PATH \in Nat /\ Len(DefaultPath) < MAX_SUN_PATH

VARIABLES
  phase,    \* "init", "tokenize", "getopt", "parsed", "rejected", "crashed",
            \* and those of PluginStart
  input,    \* the tokens of load_args
  scan,     \* the tokens strtok_r() finds from the start of dup
  rest,     \* the tokens it finds from saveptr
  argv,     \* argv[1 .. argc - 1]; argv[0] is the name of the plugin
  argc,
  optind,
  allocFails,
  path,     \* plugin_sock_path ("l") and dp_sock_path ("r")
  given     \* history: the last path accepted for each

argsVars == <<phase, input, scan, rest, argv, argc, optind, allocFails, path,
              given>>

Buffer(p) == [i \in 1..(MAX_SUN_PATH + 1) |->
                IF i <= Len(p) THEN p[i] ELSE NUL]

\* The C string in a buffer.
CString(buf) ==
  LET ends == {i \in DOMAIN buf : buf[i] = NUL}
  IN  [i \in {j \in DOMAIN buf : \A e \in ends : j < e} |-> buf[i]]

ArgsInit ==
  /\ phase = "init"
  /\ input \in UNION {[1..n -> Tokens] : n \in 0..MaxTokens}
  /\ scan = input /\ rest = <<>> /\ argv = <<>> /\ argc = 0 /\ optind = 1
  /\ allocFails = 0
  /\ path = [o \in {"l", "r"} |-> Buffer(DefaultPath)]
  /\ given = [o \in {"l", "r"} |-> DefaultPath]

\* strdup() succeeds or, at most MaxAllocFails times, fails.
StrDup(ok) ==
  /\ ok \/ allocFails < MaxAllocFails
  /\ allocFails' = IF ok THEN allocFails ELSE allocFails + 1

-----------------------------------------------------------------------------
\* plugin_args_init() and the copy of the string.  A name that could not be
\* pushed goes unnoticed.
TokenizeStart(named, copied) ==
  /\ phase = "init"
  /\ allocFails' = Cardinality({i \in {1, 2} : ~<<named, copied>>[i]})
  /\ allocFails' <= MaxAllocFails
  /\ copied \/ input # <<>>
  /\ argc' = IF named THEN 1 ELSE 0
  /\ phase' = IF input = <<>> THEN "getopt"
              ELSE IF copied THEN "tokenize" ELSE "rejected"
  /\ UNCHANGED <<input, scan, rest, argv, optind, path, given>>

Mut_no_room_for_null(n) == n < MAX_ARGS

HasRoom(n) == n < MAX_ARGS - 1

\* One turn of the loop: a token was found, and is pushed if strdup() and
\* argv allow it.
Push(t, ok) ==
  /\ StrDup(ok)
  /\ LET pushed == ok /\ HasRoom(argc)
         n == IF pushed THEN argc + 1 ELSE argc
     IN  /\ argv' = IF pushed THEN Append(argv, t) ELSE argv
         /\ argc' = n
         /\ phase' = IF HasRoom(n) THEN "tokenize" ELSE "getopt"

\* With argc = 1 the scan starts at dup, where strtok_r() writes a NUL
\* behind the token it returns: a second such scan finds only that token.
TokenizeFirst(ok) ==
  /\ phase = "tokenize"
  /\ argc = 1
  /\ Push(Head(scan), ok)
  /\ scan' = <<Head(scan)>>
  /\ rest' = Tail(scan)
  /\ UNCHANGED <<input, optind, path, given>>

TokenizeNext(ok) ==
  /\ phase = "tokenize"
  /\ argc > 1 /\ SaveptrKept /\ rest # <<>>
  /\ Push(Head(rest), ok)
  /\ rest' = Tail(rest)
  /\ UNCHANGED <<input, scan, optind, path, given>>

TokenizeDone ==
  /\ phase = "tokenize"
  /\ argc > 1 /\ SaveptrKept /\ rest = <<>>
  /\ phase' = "getopt"
  /\ UNCHANGED <<input, scan, rest, argv, argc, optind, allocFails, path, given>>

\* saveptr lives for one turn: later turns read a variable never written.
\* A build may still find the old value there (SaveptrKept), or follow a
\* wild pointer.  Without argv[0] no turn has written it.
TokenizeWild ==
  /\ phase = "tokenize"
  /\ argc = 0 \/ (argc > 1 /\ ~SaveptrKept)
  /\ phase' = "crashed"
  /\ UNCHANGED <<input, scan, rest, argv, argc, optind, allocFails, path, given>>

-----------------------------------------------------------------------------
Mut_any_length(p) == Len(p) > 0

is_valid_unix_path(p) == Len(p) > 0 /\ Len(p) <= MAX_SUN_PATH

Mut_memcpy(buf, p) == [i \in DOMAIN buf |-> IF i <= Len(p) THEN p[i] ELSE buf[i]]

\* strncpy() of MAX_SUN_PATH octets: it fills up with NULs, and never
\* touches the last octet of the buffer.
strncpy(buf, p) ==
  [i \in DOMAIN buf |-> IF i <= Len(p) THEN p[i]
                        ELSE IF i <= MAX_SUN_PATH THEN NUL ELSE buf[i]]

Mut_writes_local(o, p, next) ==
  IF is_valid_unix_path(p)
  THEN /\ path' = [path EXCEPT !["l"] = strncpy(path["l"], p)]
       /\ given' = [given EXCEPT !["l"] = p]
       /\ optind' = next
       /\ UNCHANGED phase
  ELSE phase' = "rejected" /\ UNCHANGED <<path, given, optind>>

\* set_dp_sock_local_path() and set_dp_sock_remote_path(): process_plugin_opt
\* reports a bad path, and the parsing stops there.
SetPath(o, p, next) ==
  IF is_valid_unix_path(p)
  THEN /\ path' = [path EXCEPT ![o] = strncpy(path[o], p)]
       /\ given' = [given EXCEPT ![o] = p]
       /\ optind' = next
       /\ UNCHANGED phase
  ELSE phase' = "rejected" /\ UNCHANGED <<path, given, optind>>

\* plugin_getopts(): getopt_long() takes the next option; the argument of a
\* short one is the next token, whatever it looks like.
plugin_getopts ==
  /\ phase = "getopt"
  /\ UNCHANGED <<input, scan, rest, argv, argc, allocFails>>
  /\ IF optind > Len(argv)
     THEN phase' = "parsed" /\ UNCHANGED <<path, given, optind>>
     ELSE LET t == argv[optind] IN
          CASE t.kind = "word" ->
                 optind' = optind + 1 /\ UNCHANGED <<phase, path, given>>
            [] t.kind = "l=" -> SetPath("l", t.text, optind + 1)
            [] t.kind \in {"l", "r"} /\ optind < Len(argv) ->
                 SetPath(t.kind, argv[optind + 1].text, optind + 2)
            [] OTHER ->
                 phase' = "rejected" /\ UNCHANGED <<path, given, optind>>

ArgsNext ==
  \/ \E named, copied \in BOOLEAN : TokenizeStart(named, copied)
  \/ \E ok \in BOOLEAN : TokenizeFirst(ok) \/ TokenizeNext(ok)
  \/ TokenizeDone
  \/ TokenizeWild
  \/ plugin_getopts

ArgsSpec == ArgsInit /\ [][ArgsNext]_argsVars
=============================================================================
