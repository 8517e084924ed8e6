----------------------------- MODULE PluginStart -----------------------------
(***************************************************************************)
(* From the loading of the module to its end: the arguments are parsed     *)
(* (PluginArgs), the provider is registered, zd_hh_start() acquires what   *)
(* init_dplane_rpc() needs one thing after another, any of which may fail, *)
(* and fini_dplane_rpc() releases it.  What the running plugin does is     *)
(* DpPlugin.                                                               *)
(***************************************************************************)
EXTENDS PluginArgs

CONSTANT MayFail   \* which steps may fail, among Steps

Steps == {"register", "fmt", "socket", "bind", "chmod", "buffers"}

ASSUME StartConstantsOK == MayFail \subseteq Steps

VARIABLES
  fb,        \* is fb set?
  sock,      \* is the socket open in the kernel?
  dp_sock,   \* does dp_sock hold it?
  bound,     \* the name it has in the file system, or NoPath
  buffers,   \* tx_buff and rx_buff
  cache,     \* is the message cache initialized?
  misused,   \* functions called on what was not initialized
  tooLong    \* a path that was accepted was refused for its length

ownVars == <<fb, sock, dp_sock, bound, buffers, cache, misused, tooLong>>
startVars == <<argsVars, ownVars>>

NoPath == <<>>

StartInit ==
  /\ ArgsInit
  /\ fb = FALSE /\ sock = FALSE /\ dp_sock = FALSE /\ bound = NoPath
  /\ buffers = FALSE /\ cache = FALSE /\ misused = {} /\ tooLong = FALSE

\* phase moves from here to there; the arguments stay.
Phase(here, there) ==
  /\ phase = here
  /\ phase' = there
  /\ UNCHANGED <<input, scan, rest, argv, argc, optind, allocFails, path, given>>

\* dplane_provider_register(): without it, the plugin is never called.
Register(ok) ==
  /\ ok \/ "register" \in MayFail
  /\ Phase("parsed", IF ok THEN "fmt" ELSE "unregistered")
  /\ UNCHANGED ownVars

InitFmtBuff(ok) ==
  /\ ok \/ "fmt" \in MayFail
  /\ Phase("fmt", IF ok THEN "socket" ELSE "aborted")
  /\ fb' = ok
  /\ UNCHANGED <<sock, dp_sock, bound, buffers, cache, misused, tooLong>>

\* dp_unix_sock_open(): each failure closes the socket, and init_dplane_rpc
\* goes to its label fail.
OpenSocket(ok) ==
  LET fits == Len(CString(path["l"])) < MAX_SUN_PATH IN
  /\ ok \/ "socket" \in MayFail
  /\ Phase("socket", IF ok /\ fits THEN "bind" ELSE "fail")
  /\ sock' = (ok /\ fits)
  /\ tooLong' = (tooLong \/ (ok /\ ~fits))
  /\ UNCHANGED <<fb, dp_sock, bound, buffers, cache, misused>>

BindSocket(ok) ==
  /\ ok \/ "bind" \in MayFail
  /\ Phase("bind", IF ok THEN "chmod" ELSE "fail")
  /\ bound' = IF ok THEN CString(path["l"]) ELSE NoPath
  /\ sock' = ok
  /\ UNCHANGED <<fb, dp_sock, buffers, cache, misused, tooLong>>

ChmodSocket(ok) ==
  /\ ok \/ "chmod" \in MayFail
  /\ Phase("chmod", IF ok THEN "buffers" ELSE "fail")
  /\ sock' = ok
  /\ dp_sock' = ok
  /\ UNCHANGED <<fb, bound, buffers, cache, misused, tooLong>>

-----------------------------------------------------------------------------
Mut_name_left ==
  /\ sock' = (sock /\ ~dp_sock)
  /\ dp_sock' = FALSE
  /\ bound' = IF dp_sock THEN NoPath ELSE bound

\* dp_unix_sock_close(): the name is removed whether or not dp_sock is set.
dp_unix_sock_close ==
  /\ sock' = (sock /\ ~dp_sock)
  /\ dp_sock' = FALSE
  /\ bound' = NoPath

fini_dplane_rpc ==
  /\ dp_unix_sock_close
  /\ buffers' = FALSE
  /\ misused' = IF cache THEN misused ELSE misused \cup {"fini_dp_msg_cache"}
  /\ cache' = FALSE
  /\ fb' = FALSE

\* init_rpc_buffers() finalizes everything when it fails; init_dplane_rpc
\* then still goes to fail.
InitBuffers(ok) ==
  /\ ok \/ "buffers" \in MayFail
  /\ Phase("buffers", IF ok THEN "cache" ELSE "fail")
  /\ IF ok THEN buffers' = TRUE /\ UNCHANGED <<fb, sock, dp_sock, bound, cache, misused>>
     ELSE fini_dplane_rpc
  /\ UNCHANGED tooLong

InitCache ==
  /\ Phase("cache", "connect")
  /\ cache' = TRUE
  /\ UNCHANGED <<fb, sock, dp_sock, bound, buffers, misused, tooLong>>

\* The first dp_connect().  Whether it succeeds matters not, only that a
\* path which does not fit sun_path can never be connected to.
FirstConnect ==
  /\ Phase("connect", "running")
  /\ tooLong' = (tooLong \/ Len(CString(path["r"])) >= MAX_SUN_PATH)
  /\ UNCHANGED <<fb, sock, dp_sock, bound, buffers, cache, misused>>

\* The label fail of init_dplane_rpc(); zd_hh_start() then aborts.
Fail ==
  /\ Phase("fail", "aborted")
  /\ dp_unix_sock_close
  /\ misused' = IF fb THEN misused ELSE misused \cup {"fini_fmt_buff"}
  /\ fb' = FALSE
  /\ UNCHANGED <<buffers, cache, tooLong>>

FiniLate ==
  /\ Phase("running", "stopped")
  /\ fini_dplane_rpc
  /\ UNCHANGED tooLong

StartNext ==
  \/ ArgsNext /\ UNCHANGED ownVars
  \/ \E ok \in BOOLEAN :
       \/ Register(ok)
       \/ InitFmtBuff(ok)
       \/ OpenSocket(ok)
       \/ BindSocket(ok)
       \/ ChmodSocket(ok)
       \/ InitBuffers(ok)
  \/ InitCache
  \/ FirstConnect
  \/ Fail
  \/ FiniLate

StartSpec == StartInit /\ [][StartNext]_startVars

-----------------------------------------------------------------------------
(***************************************************************************)
(* argv holds the first tokens of the string, in order, and a NULL behind  *)
(* them (hh_dp_utils.c:22-26): none is lost or repeated while strdup()     *)
(* succeeds, and only a string that does not fit loses its end.            *)
(***************************************************************************)
ArgvFaithful ==
  /\ argc < MAX_ARGS
  /\ allocFails = 0 => IsPrefix(argv, input)
  /\ phase \in {"getopt", "parsed"} /\ allocFails = 0 =>
       Len(argv) = IF Len(input) < MAX_ARGS - 2 THEN Len(input) ELSE MAX_ARGS - 2

(***************************************************************************)
(* Through any sequence of longer and shorter paths, a buffer reads back   *)
(* exactly as the last one it was given (hh_dp_comm.c:82, 95), and the     *)
(* socket has that name.                                                   *)
(***************************************************************************)
PathsReadBack ==
  /\ \A o \in {"l", "r"} : CString(path[o]) = given[o]
  /\ bound # NoPath => bound = given["l"]

(***************************************************************************)
(* Once the arguments are parsed, the last -l and -r among them are the    *)
(* paths in use (hh_dp_plugin.c:36-44): every option counts, none takes    *)
(* another's place.                                                        *)
(***************************************************************************)
\* Where the scan goes on behind the token at i: a short option takes the
\* next token, whatever it looks like, for its argument.
Behind(i) == IF argv[i].kind \in {"l", "r"} THEN i + 2 ELSE i + 1

\* Where getopt_long() looks for an option: the least set that has the first
\* token and is closed under Behind().
Looked ==
  {i \in DOMAIN argv :
     \A S \in SUBSET DOMAIN argv :
       1 \in S /\ (\A j \in S : Behind(j) \in DOMAIN argv => Behind(j) \in S)
         => i \in S}

OptionsFor(o) == {i \in Looked : argv[i].kind \in IF o = "l" THEN {"l", "l="} ELSE {o}}

OptArg(i) == IF argv[i].kind = "l=" THEN argv[i].text ELSE argv[i + 1].text

LastGiven(options) == IF options = {} THEN DefaultPath ELSE OptArg(Max(options))

PathsAsConfigured ==
  phase \notin {"init", "tokenize", "getopt", "rejected", "crashed"} =>
    \A o \in {"l", "r"} : CString(path[o]) = LastGiven(OptionsFor(o))

(***************************************************************************)
(* Wherever the start fails, and when the plugin ends, the socket is       *)
(* closed, its name is removed and the buffers are freed                   *)
(* (hh_dp_comm.c:597-601).  A plugin that ran finalizes nothing that it    *)
(* had not initialized; one whose buffers cannot be allocated does, its    *)
(* cache and its format buffer (hh_dp_comm.c:554, 600).                    *)
(***************************************************************************)
NothingLeft ==
  /\ phase \in {"aborted", "stopped"} =>
       ~sock /\ ~dp_sock /\ ~buffers /\ ~fb /\ bound = NoPath
  /\ phase = "stopped" => misused = {}

(***************************************************************************)
(* A path that is_valid_unix_path() finds valid (hh_dp_comm.c:67) is later *)
(* refused for its length, by dp_unix_sock_open() or dp_unix_connect(), in *)
(* one case only: it is as long as sun_path, which leaves no room for the  *)
(* NUL (hh_dp_comm.c:160, 214).                                            *)
(***************************************************************************)
RefusedOnlyAtLimit ==
  tooLong => \E o \in {"l", "r"} : Len(given[o]) = MAX_SUN_PATH

(***************************************************************************)
(* The argument string is cut into an argv (hh_dp_utils.c:63).             *)
(***************************************************************************)
TokenizeSafe == phase # "crashed"
=============================================================================
