------------------------------ MODULE StartProofs ------------------------------
(***************************************************************************)
(* The start of the plugin, for arguments, limits and failures of any      *)
(* kind: argv holds the tokens of the string, the socket paths read back   *)
(* as given, and nothing acquired outlives the plugin.                     *)
(***************************************************************************)
EXTENDS PluginStart, FiniteSetTheorems, SequenceTheorems, TLAPS

ArgsPhases == {"init", "tokenize", "getopt", "parsed", "rejected", "crashed"}

(***************************************************************************)
(* The last octet of a buffer is always NUL.                               *)
(***************************************************************************)
BufferOK(buf) ==
  /\ DOMAIN buf = 1..(MAX_SUN_PATH + 1)
  /\ buf[MAX_SUN_PATH + 1] = NUL

(***************************************************************************)
(* A buffer whose first octets are a path and whose next one is NUL reads  *)
(* back as the path.                                                       *)
(***************************************************************************)
LEMMA ReadsBack ==
  ASSUME NEW buf, DOMAIN buf = 1..(MAX_SUN_PATH + 1),
         NEW p, NoNul(p), Len(p) <= MAX_SUN_PATH,
         \A i \in 1..Len(p) : buf[i] = p[i],
         buf[Len(p) + 1] = NUL
  PROVE  CString(buf) = p
<1> DEFINE n == Len(p)
           ends == {i \in DOMAIN buf : buf[i] = NUL}
           dom == {j \in DOMAIN buf : \A e \in ends : j < e}
<1>1. n \in Nat /\ DOMAIN p = 1..n /\ p = [i \in 1..n |-> p[i]] /\ MAX_SUN_PATH \in Nat
  BY ArgsConstantsOK DEF NoNul
<1>2. \A i \in 1..n : p[i] # NUL
  BY <1>1 DEF NoNul, Range
<1>3. n + 1 \in ends
  BY <1>1
<1>4. \A e \in ends : e > n
  BY <1>1, <1>2
<1>5. dom = 1..n
  <2>1. ASSUME NEW j \in dom PROVE j \in 1..n
    BY <1>1, <1>3
  <2>2. ASSUME NEW j \in 1..n PROVE j \in dom
    <3>1. j \in DOMAIN buf
      BY <1>1
    <3>2. \A e \in ends : j < e
      BY <1>1, <1>4
    <3> QED
      BY <3>1, <3>2
  <2> QED
    BY <2>1, <2>2
<1>6. CString(buf) = [i \in dom |-> buf[i]]
  BY DEF CString
<1> QED
  BY <1>1, <1>5, <1>6

(***************************************************************************)
(* strncpy() of a path that fits leaves nothing of the path before         *)
(* (hh_dp_comm.c:82), even when it fills sun_path.                         *)
(***************************************************************************)
LEMMA StrncpyReadsBack ==
  ASSUME NEW buf, BufferOK(buf), NEW p, NoNul(p), Len(p) <= MAX_SUN_PATH
  PROVE  BufferOK(strncpy(buf, p)) /\ CString(strncpy(buf, p)) = p
<1> DEFINE b == strncpy(buf, p)
<1>1. Len(p) \in Nat /\ MAX_SUN_PATH \in Nat
  BY ArgsConstantsOK DEF NoNul
<1>2. DOMAIN b = 1..(MAX_SUN_PATH + 1)
  BY DEF BufferOK, strncpy
<1>3. /\ b[MAX_SUN_PATH + 1] = NUL
      /\ \A i \in 1..Len(p) : b[i] = p[i]
      /\ b[Len(p) + 1] = NUL
  BY <1>1 DEF BufferOK, strncpy
<1> HIDE DEF b
<1>4. CString(b) = p
  BY <1>2, <1>3, ReadsBack
<1> QED
  BY <1>2, <1>3, <1>4 DEF BufferOK, b

(***************************************************************************)
(* So does a buffer with its initial contents.                             *)
(***************************************************************************)
LEMMA InitialReadsBack ==
  ASSUME NEW p, NoNul(p), Len(p) <= MAX_SUN_PATH
  PROVE  BufferOK(Buffer(p)) /\ CString(Buffer(p)) = p
<1> DEFINE b == Buffer(p)
<1>1. Len(p) \in Nat /\ MAX_SUN_PATH \in Nat
  BY ArgsConstantsOK DEF NoNul
<1>2. DOMAIN b = 1..(MAX_SUN_PATH + 1)
  BY DEF Buffer
<1>3. /\ b[MAX_SUN_PATH + 1] = NUL
      /\ \A i \in 1..Len(p) : b[i] = p[i]
      /\ b[Len(p) + 1] = NUL
  BY <1>1 DEF Buffer
<1> HIDE DEF b
<1>4. CString(b) = p
  BY <1>2, <1>3, ReadsBack
<1> QED
  BY <1>2, <1>3, <1>4 DEF BufferOK, b

-----------------------------------------------------------------------------
(***************************************************************************)
(* The invariant: what the phase says of the tokens, of the paths and of   *)
(* what has been acquired.                                                 *)
(***************************************************************************)
TokensInv ==
  /\ input \in Seq(Tokens) /\ scan \in Seq(Tokens) /\ rest \in Seq(Tokens)
  /\ argv \in Seq(Tokens)
  /\ optind \in Nat \ {0}
  /\ phase = "init" => scan = input
  /\ phase = "tokenize" => scan # <<>>

PathsInv ==
  /\ DOMAIN path = {"l", "r"} /\ DOMAIN given = {"l", "r"}
  /\ \A o \in {"l", "r"} : /\ BufferOK(path[o]) /\ CString(path[o]) = given[o]
                            /\ Len(given[o]) \in 0..MAX_SUN_PATH
  /\ bound # NoPath => bound = given["l"]

Nothing == ~sock /\ ~dp_sock /\ ~buffers /\ bound = NoPath

AcquiredInv ==
  /\ sock \in BOOLEAN /\ dp_sock \in BOOLEAN /\ buffers \in BOOLEAN
  /\ phase \in ArgsPhases \cup {"unregistered", "fmt", "aborted", "stopped"}
       => Nothing /\ ~fb
  /\ phase = "socket" => Nothing
  /\ phase = "bind" => sock /\ ~dp_sock /\ ~buffers /\ bound = NoPath
  /\ phase = "chmod" => ~dp_sock /\ ~buffers
  /\ phase = "buffers" => (sock <=> dp_sock) /\ ~buffers
  /\ phase \in {"cache", "connect", "running"} => (sock <=> dp_sock)
  /\ phase = "fail" => ~sock /\ ~dp_sock /\ ~buffers
  /\ phase \in {"connect", "running"} => cache
  /\ misused # {} => phase \in {"fail", "aborted"}

LimitInv ==
  /\ tooLong \in BOOLEAN
  /\ phase \in ArgsPhases => ~tooLong
  /\ tooLong => \E o \in {"l", "r"} : Len(given[o]) = MAX_SUN_PATH

StartInv == TokensInv /\ PathsInv /\ AcquiredInv /\ LimitInv

LEMMA StartInitially == StartInit => StartInv
<1> SUFFICES ASSUME StartInit PROVE StartInv
  OBVIOUS
<1>1. TokensInv
  <2>1. PICK n \in 0..MaxTokens : input \in [1..n -> Tokens]
    BY DEF StartInit, ArgsInit
  <2>2. input \in Seq(Tokens)
    BY <2>1, ArgsConstantsOK
  <2>3. phase = "init" /\ scan = input /\ rest = <<>> /\ argv = <<>> /\ optind = 1
    BY DEF StartInit, ArgsInit
  <2>4. <<>> \in Seq(Tokens)
    OBVIOUS
  <2> QED
    BY <2>2, <2>3, <2>4 DEF TokensInv
<1>2. PathsInv
  <2>1. Len(DefaultPath) \in 0..MAX_SUN_PATH
    BY ArgsConstantsOK DEF NoNul
  <2> QED
    BY <2>1, InitialReadsBack, ArgsConstantsOK DEF StartInit, ArgsInit, PathsInv
<1>3. AcquiredInv
  BY DEF StartInit, ArgsInit, AcquiredInv, Nothing, ArgsPhases
<1>4. LimitInv
  BY DEF StartInit, LimitInv
<1> QED
  BY <1>1, <1>2, <1>3, <1>4 DEF StartInv

-----------------------------------------------------------------------------
(***************************************************************************)
(* The parsing of the arguments.                                           *)
(***************************************************************************)
LEMMA AppendTyped ==
  ASSUME NEW S, NEW s \in Seq(S), NEW e \in S
  PROVE  Append(s, e) \in Seq(S)
OBVIOUS

LEMMA ArgsKeepTokens == TokensInv /\ ArgsNext => TokensInv'
<1> SUFFICES ASSUME TokensInv, ArgsNext PROVE TokensInv'
  OBVIOUS
<1>1. ASSUME NEW named \in BOOLEAN, NEW copied \in BOOLEAN, TokenizeStart(named, copied)
      PROVE  TokensInv'
  BY <1>1 DEF TokenizeStart, TokensInv
<1>2. ASSUME NEW ok \in BOOLEAN, TokenizeFirst(ok) PROVE TokensInv'
  <2>1. Head(scan) \in Tokens /\ Tail(scan) \in Seq(Tokens)
    BY <1>2 DEF TokenizeFirst, TokensInv
  <2>2. /\ argv' = argv \/ argv' = Append(argv, Head(scan))
        /\ phase' = "tokenize" \/ phase' = "getopt"
    BY <1>2 DEF TokenizeFirst, Push
  <2>3. /\ scan' = <<Head(scan)>> /\ rest' = Tail(scan)
        /\ UNCHANGED <<input, optind>>
    BY <1>2 DEF TokenizeFirst
  <2>4. argv' \in Seq(Tokens)
    <3>1. argv \in Seq(Tokens) /\ Append(argv, Head(scan)) \in Seq(Tokens)
      BY <2>1, AppendTyped DEF TokensInv
    <3> QED
      BY <2>2, <3>1
  <2>5. scan' \in Seq(Tokens) /\ scan' # <<>>
    BY <2>1, <2>3
  <2>6. input' \in Seq(Tokens) /\ optind' \in Nat \ {0}
    BY <2>3 DEF TokensInv
  <2>7. rest' \in Seq(Tokens)
    BY <2>1, <2>3
  <2>8. phase' # "init"
    BY <2>2
  <2> QED
    BY <2>4, <2>5, <2>6, <2>7, <2>8 DEF TokensInv
<1>3. ASSUME NEW ok \in BOOLEAN, TokenizeNext(ok) PROVE TokensInv'
  <2>1. Head(rest) \in Tokens /\ Tail(rest) \in Seq(Tokens)
    BY <1>3 DEF TokenizeNext, TokensInv
  <2>2. /\ argv' = argv \/ argv' = Append(argv, Head(rest))
        /\ phase' = "tokenize" \/ phase' = "getopt"
    BY <1>3 DEF TokenizeNext, Push
  <2>3. rest' = Tail(rest) /\ UNCHANGED <<input, scan, optind>> /\ phase = "tokenize"
    BY <1>3 DEF TokenizeNext
  <2>4. argv' \in Seq(Tokens)
    <3>1. argv \in Seq(Tokens) /\ Append(argv, Head(rest)) \in Seq(Tokens)
      BY <2>1, AppendTyped DEF TokensInv
    <3> QED
      BY <2>2, <3>1
  <2>5. /\ input' \in Seq(Tokens) /\ optind' \in Nat \ {0}
        /\ scan' \in Seq(Tokens) /\ scan' # <<>>
    BY <2>3 DEF TokensInv
  <2>6. rest' \in Seq(Tokens)
    BY <2>1, <2>3
  <2>7. phase' # "init"
    BY <2>2
  <2> QED
    BY <2>4, <2>5, <2>6, <2>7 DEF TokensInv
<1>4. CASE TokenizeDone
  BY <1>4 DEF TokenizeDone, TokensInv
<1>5. CASE TokenizeWild
  BY <1>5 DEF TokenizeWild, TokensInv
<1>6. CASE plugin_getopts
  <2>1. phase = "getopt" /\ UNCHANGED <<input, scan, rest, argv>>
    BY <1>6 DEF plugin_getopts
  <2>2. phase' \in {"getopt", "parsed", "rejected"}
    BY <1>6 DEF plugin_getopts, SetPath
  <2>3. optind' \in {optind, optind + 1, optind + 2}
    BY <1>6 DEF plugin_getopts, SetPath
  <2> QED
    BY <2>1, <2>2, <2>3 DEF TokensInv
<1> QED
  BY <1>1, <1>2, <1>3, <1>4, <1>5, <1>6 DEF ArgsNext

LEMMA SetPathReadsBack ==
  ASSUME PathsInv, bound = NoPath, bound' = bound,
         NEW o \in {"l", "r"}, NEW t \in Tokens, NEW next, SetPath(o, t.text, next)
  PROVE  PathsInv'
<1>1. CASE is_valid_unix_path(t.text)
  <2>1. /\ path' = [path EXCEPT ![o] = strncpy(path[o], t.text)]
        /\ given' = [given EXCEPT ![o] = t.text]
    BY <1>1 DEF SetPath
  <2>2. NoNul(t.text) /\ Len(t.text) <= MAX_SUN_PATH
    BY <1>1, ArgsConstantsOK DEF is_valid_unix_path
  <2>6. Len(t.text) \in 0..MAX_SUN_PATH
    BY <2>2, ArgsConstantsOK DEF NoNul
  <2>3. /\ BufferOK(strncpy(path[o], t.text))
        /\ CString(strncpy(path[o], t.text)) = t.text
    BY <2>2, StrncpyReadsBack DEF PathsInv
  <2>4. DOMAIN path' = {"l", "r"} /\ DOMAIN given' = {"l", "r"}
    BY <2>1 DEF PathsInv
  <2>5. ASSUME NEW q \in {"l", "r"}
        PROVE  /\ BufferOK(path'[q]) /\ CString(path'[q]) = given'[q]
               /\ Len(given'[q]) \in 0..MAX_SUN_PATH
    BY <2>1, <2>3, <2>6 DEF PathsInv
  <2> QED
    BY <2>4, <2>5 DEF PathsInv
<1>2. CASE ~is_valid_unix_path(t.text)
  BY <1>2 DEF SetPath, PathsInv
<1> QED
  BY <1>1, <1>2

LEMMA ArgsKeepPaths ==
  TokensInv /\ PathsInv /\ bound = NoPath /\ bound' = bound /\ ArgsNext => PathsInv'
<1> SUFFICES ASSUME TokensInv, PathsInv, bound = NoPath, bound' = bound, ArgsNext
             PROVE  PathsInv'
  OBVIOUS
<1>1. CASE UNCHANGED <<path, given>>
  BY <1>1 DEF PathsInv
<1>2. CASE plugin_getopts
  <2>1. CASE optind > Len(argv)
    BY <1>1, <1>2, <2>1 DEF plugin_getopts
  <2>2. CASE ~(optind > Len(argv))
    <3> DEFINE t == argv[optind]
    <3>1. t \in Tokens
      BY <2>2 DEF TokensInv
    <3>2. CASE t.kind = "word"
      BY <1>1, <1>2, <2>2, <3>2 DEF plugin_getopts
    <3>3. CASE t.kind = "l="
      <4>1. SetPath("l", t.text, optind + 1)
        BY <1>2, <2>2, <3>3 DEF plugin_getopts
      <4> QED
        BY <3>1, <4>1, SetPathReadsBack
    <3>4. CASE t.kind \in {"l", "r"} /\ optind < Len(argv)
      <4>1. SetPath(t.kind, argv[optind + 1].text, optind + 2)
        BY <1>2, <2>2, <3>4 DEF plugin_getopts
      <4>2. argv[optind + 1] \in Tokens
        BY <3>4 DEF TokensInv
      <4> QED
        BY <3>4, <4>1, <4>2, SetPathReadsBack
    <3>5. CASE /\ t.kind # "word" /\ t.kind # "l="
               /\ ~(t.kind \in {"l", "r"} /\ optind < Len(argv))
      BY <1>1, <1>2, <2>2, <3>5 DEF plugin_getopts
    <3> QED
      BY <3>2, <3>3, <3>4, <3>5
  <2> QED
    BY <2>1, <2>2
<1>3. ArgsNext => plugin_getopts \/ UNCHANGED <<path, given>>
  BY DEF ArgsNext, TokenizeStart, TokenizeFirst, TokenizeNext, TokenizeDone,
         TokenizeWild
<1> QED
  BY <1>1, <1>2, <1>3

LEMMA ArgsPhase == ArgsNext => phase \in ArgsPhases /\ phase' \in ArgsPhases
<1> SUFFICES ASSUME ArgsNext PROVE phase \in ArgsPhases /\ phase' \in ArgsPhases
  OBVIOUS
<1>1. CASE plugin_getopts
  BY <1>1 DEF plugin_getopts, SetPath, ArgsPhases
<1>2. CASE ~plugin_getopts
  BY <1>2 DEF ArgsNext, TokenizeStart, TokenizeFirst, TokenizeNext, TokenizeDone,
         TokenizeWild, Push, ArgsPhases
<1> QED
  BY <1>1, <1>2

-----------------------------------------------------------------------------
(***************************************************************************)
(* A step of the start leaves the arguments alone, and keeps the name of   *)
(* the socket, removes it, or takes it from the buffer.                    *)
(***************************************************************************)
OwnStep ==
  /\ UNCHANGED <<input, scan, rest, argv, optind, path, given>>
  /\ phase' \notin {"init", "tokenize"}
  /\ bound' \in {bound, NoPath, CString(path["l"])}

LEMMA OwnStepKeeps == TokensInv /\ PathsInv /\ OwnStep => TokensInv' /\ PathsInv'
<1> SUFFICES ASSUME TokensInv, PathsInv, OwnStep PROVE TokensInv' /\ PathsInv'
  OBVIOUS
<1>1. TokensInv'
  BY DEF TokensInv, OwnStep
<1>2. PathsInv'
  BY DEF PathsInv, OwnStep
<1> QED
  BY <1>1, <1>2

LEMMA StartStep == StartInv /\ [StartNext]_startVars => StartInv'
<1> SUFFICES ASSUME StartInv, [StartNext]_startVars PROVE StartInv'
  OBVIOUS
<1> USE DEF StartInv
<1>1. CASE ArgsNext /\ UNCHANGED ownVars
  <2>1. phase \in ArgsPhases /\ phase' \in ArgsPhases
    BY <1>1, ArgsPhase
  <2>2. Nothing /\ ~fb
    BY <2>1 DEF AcquiredInv
  <2>3. bound = NoPath /\ bound' = bound
    BY <1>1, <2>2 DEF Nothing, ownVars
  <2>4. TokensInv' /\ PathsInv'
    BY <1>1, <2>3, ArgsKeepTokens, ArgsKeepPaths
  <2>5. AcquiredInv'
    BY <1>1, <2>1, <2>2 DEF AcquiredInv, Nothing, ownVars, ArgsPhases
  <2>6. LimitInv'
    BY <1>1, <2>1 DEF LimitInv, ownVars
  <2> QED
    BY <2>4, <2>5, <2>6
<1>2. ASSUME NEW ok \in BOOLEAN, Register(ok) PROVE StartInv'
  <2>1. OwnStep
    BY <1>2 DEF Register, Phase, OwnStep, ownVars
  <2>2. AcquiredInv'
    BY <1>2 DEF Register, Phase, AcquiredInv, Nothing, ArgsPhases, ownVars
  <2>3. LimitInv'
    BY <1>2 DEF Register, Phase, ownVars, LimitInv, ArgsPhases
  <2> QED
    BY <2>1, <2>2, <2>3, OwnStepKeeps
<1>3. ASSUME NEW ok \in BOOLEAN, InitFmtBuff(ok) PROVE StartInv'
  <2>1. OwnStep
    BY <1>3 DEF InitFmtBuff, Phase, OwnStep
  <2>2. AcquiredInv'
    BY <1>3 DEF InitFmtBuff, Phase, AcquiredInv, Nothing, ArgsPhases
  <2>3. LimitInv'
    BY <1>3 DEF InitFmtBuff, Phase, LimitInv, ArgsPhases
  <2> QED
    BY <2>1, <2>2, <2>3, OwnStepKeeps
<1>4. ASSUME NEW ok \in BOOLEAN, OpenSocket(ok) PROVE StartInv'
  <2>1. OwnStep
    BY <1>4 DEF OpenSocket, Phase, OwnStep
  <2>2. AcquiredInv'
    BY <1>4 DEF OpenSocket, Phase, AcquiredInv, Nothing, ArgsPhases
  <2>3. LimitInv'
    <3>1. given' = given /\ phase' \notin ArgsPhases
      BY <1>4 DEF OpenSocket, Phase, ArgsPhases
    <3>2. /\ Len(CString(path["l"])) = Len(given["l"])
          /\ Len(given["l"]) \in 0..MAX_SUN_PATH /\ MAX_SUN_PATH \in Nat
      BY ArgsConstantsOK DEF PathsInv
    <3>3. CASE Len(given["l"]) = MAX_SUN_PATH
      <4>1. tooLong' \in BOOLEAN
        BY <1>4 DEF OpenSocket, Phase, LimitInv
      <4> QED
        BY <3>1, <3>3, <4>1 DEF LimitInv
    <3>4. CASE Len(given["l"]) < MAX_SUN_PATH
      <4>1. tooLong' = tooLong
        BY <1>4, <3>2, <3>4 DEF OpenSocket, Phase, LimitInv
      <4> QED
        BY <3>1, <4>1 DEF LimitInv
    <3> QED
      BY <3>2, <3>3, <3>4
  <2> QED
    BY <2>1, <2>2, <2>3, OwnStepKeeps
<1>5. ASSUME NEW ok \in BOOLEAN, BindSocket(ok) PROVE StartInv'
  <2>1. OwnStep
    BY <1>5 DEF BindSocket, Phase, OwnStep
  <2>2. AcquiredInv'
    BY <1>5 DEF BindSocket, Phase, AcquiredInv, Nothing, ArgsPhases
  <2>3. LimitInv'
    BY <1>5 DEF BindSocket, Phase, LimitInv, ArgsPhases
  <2> QED
    BY <2>1, <2>2, <2>3, OwnStepKeeps
<1>6. ASSUME NEW ok \in BOOLEAN, ChmodSocket(ok) PROVE StartInv'
  <2>1. OwnStep
    BY <1>6 DEF ChmodSocket, Phase, OwnStep
  <2>2. AcquiredInv'
    BY <1>6 DEF ChmodSocket, Phase, AcquiredInv, Nothing, ArgsPhases
  <2>3. LimitInv'
    BY <1>6 DEF ChmodSocket, Phase, LimitInv, ArgsPhases
  <2> QED
    BY <2>1, <2>2, <2>3, OwnStepKeeps
<1>7. ASSUME NEW ok \in BOOLEAN, InitBuffers(ok) PROVE StartInv'
  <2>1. OwnStep
    BY <1>7 DEF InitBuffers, fini_dplane_rpc, dp_unix_sock_close, Phase, OwnStep
  <2>2. AcquiredInv'
    BY <1>7 DEF InitBuffers, fini_dplane_rpc, dp_unix_sock_close, Phase,
                AcquiredInv, Nothing, ArgsPhases
  <2>3. LimitInv'
    BY <1>7 DEF InitBuffers, Phase, LimitInv, ArgsPhases
  <2> QED
    BY <2>1, <2>2, <2>3, OwnStepKeeps
<1>8. CASE InitCache
  <2>1. OwnStep
    BY <1>8 DEF InitCache, Phase, OwnStep
  <2>2. AcquiredInv'
    BY <1>8 DEF InitCache, Phase, AcquiredInv, Nothing, ArgsPhases
  <2>3. LimitInv'
    BY <1>8 DEF InitCache, Phase, LimitInv, ArgsPhases
  <2> QED
    BY <2>1, <2>2, <2>3, OwnStepKeeps
<1>9. CASE FirstConnect
  <2>1. OwnStep
    BY <1>9 DEF FirstConnect, Phase, OwnStep
  <2>2. AcquiredInv'
    BY <1>9 DEF FirstConnect, Phase, AcquiredInv, Nothing, ArgsPhases
  <2>3. LimitInv'
    <3>1. given' = given /\ phase' \notin ArgsPhases
      BY <1>9 DEF FirstConnect, Phase, ArgsPhases
    <3>2. /\ Len(CString(path["r"])) = Len(given["r"])
          /\ Len(given["r"]) \in 0..MAX_SUN_PATH /\ MAX_SUN_PATH \in Nat
      BY ArgsConstantsOK DEF PathsInv
    <3>3. CASE Len(given["r"]) = MAX_SUN_PATH
      <4>1. tooLong' \in BOOLEAN
        BY <1>9 DEF FirstConnect, Phase, LimitInv
      <4> QED
        BY <3>1, <3>3, <4>1 DEF LimitInv
    <3>4. CASE Len(given["r"]) < MAX_SUN_PATH
      <4>1. tooLong' = tooLong
        BY <1>9, <3>2, <3>4 DEF FirstConnect, Phase, LimitInv
      <4> QED
        BY <3>1, <4>1 DEF LimitInv
    <3> QED
      BY <3>2, <3>3, <3>4
  <2> QED
    BY <2>1, <2>2, <2>3, OwnStepKeeps
<1>10. CASE Fail
  <2>1. OwnStep
    BY <1>10 DEF Fail, dp_unix_sock_close, Phase, OwnStep
  <2>2. AcquiredInv'
    BY <1>10 DEF Fail, dp_unix_sock_close, Phase, AcquiredInv, Nothing, ArgsPhases
  <2>3. LimitInv'
    BY <1>10 DEF Fail, Phase, LimitInv, ArgsPhases
  <2> QED
    BY <2>1, <2>2, <2>3, OwnStepKeeps
<1>11. CASE FiniLate
  <2>1. OwnStep
    BY <1>11 DEF FiniLate, fini_dplane_rpc, dp_unix_sock_close, Phase, OwnStep
  <2>2. AcquiredInv'
    BY <1>11 DEF FiniLate, fini_dplane_rpc, dp_unix_sock_close, Phase,
                 AcquiredInv, Nothing, ArgsPhases
  <2>3. LimitInv'
    BY <1>11 DEF FiniLate, Phase, LimitInv, ArgsPhases
  <2> QED
    BY <2>1, <2>2, <2>3, OwnStepKeeps
<1>12. CASE UNCHANGED startVars
  BY <1>12 DEF startVars, argsVars, ownVars, TokensInv, PathsInv, AcquiredInv,
               LimitInv, Nothing
<1> QED
  BY <1>1, <1>2, <1>3, <1>4, <1>5, <1>6, <1>7, <1>8, <1>9, <1>10, <1>11, <1>12
  DEF StartNext

(***************************************************************************)
(* The invariant of the start.                                             *)
(***************************************************************************)
THEOREM StartInvariant == StartSpec => []StartInv
<1>1. StartInit => StartInv
  BY StartInitially
<1>2. StartInv /\ [StartNext]_startVars => StartInv'
  BY StartStep
<1> QED
  BY <1>1, <1>2, PTL DEF StartSpec

(***************************************************************************)
(* For any limit and any options, a path is read back as it was given      *)
(* (hh_dp_comm.c:82, 95).                                                  *)
(***************************************************************************)
THEOREM PathsAlwaysReadBack == StartSpec => []PathsReadBack
<1>1. StartInv => PathsReadBack
  BY DEF StartInv, PathsInv, PathsReadBack
<1> QED
  BY <1>1, StartInvariant, PTL

(***************************************************************************)
(* Whichever steps of the start fail, nothing is left of it                *)
(* (hh_dp_comm.c:597-601).                                                 *)
(***************************************************************************)
THEOREM NothingEverLeft == StartSpec => []NothingLeft
<1>1. StartInv => NothingLeft
  BY DEF StartInv, AcquiredInv, NothingLeft, Nothing
<1> QED
  BY <1>1, StartInvariant, PTL

(***************************************************************************)
(* Whatever the limit, a path that is accepted is refused for its length   *)
(* only when it is as long as sun_path (hh_dp_comm.c:67, 160, 214).        *)
(***************************************************************************)
THEOREM RefusedAlwaysAtLimit == StartSpec => []RefusedOnlyAtLimit
<1>1. StartInv => RefusedOnlyAtLimit
  BY DEF StartInv, LimitInv, RefusedOnlyAtLimit
<1> QED
  BY <1>1, StartInvariant, PTL

-----------------------------------------------------------------------------
(***************************************************************************)
(* The argument vector, while no strdup() has failed: what is in it and    *)
(* what is still to be scanned make up the string.                         *)
(***************************************************************************)
Beginning ==
  /\ Len(argv) <= Len(input)
  /\ \A i \in 1..Len(argv) : argv[i] = input[i]

Remaining ==
  /\ Len(rest) = Len(input) - Len(argv)
  /\ \A i \in 1..Len(rest) : rest[i] = input[Len(argv) + i]

ArgvInv ==
  /\ argc \in 0..(MAX_ARGS - 1)
  /\ allocFails \in Nat
  /\ phase = "init" => argc = 0 /\ argv = <<>> /\ allocFails = 0
  /\ allocFails = 0 =>
       /\ Beginning
       /\ phase # "init" => argc = Len(argv) + 1
       /\ phase = "tokenize" => /\ Len(argv) < MAX_ARGS - 2
                                /\ IF argc = 1 THEN scan = input ELSE Remaining
       /\ phase \in {"getopt", "parsed"} =>
            Len(argv) = IF Len(input) < MAX_ARGS - 2 THEN Len(input)
                        ELSE MAX_ARGS - 2

(***************************************************************************)
(* It holds when the module is loaded.                                     *)
(***************************************************************************)
LEMMA ArgvInitially == StartInit => ArgvInv
<1> SUFFICES ASSUME StartInit PROVE ArgvInv
  OBVIOUS
<1>1. TokensInv
  BY StartInitially DEF StartInv
<1>2. /\ phase = "init" /\ argv = <<>> /\ argc = 0 /\ allocFails = 0
  BY DEF StartInit, ArgsInit
<1>3. Len(argv) = 0 /\ Len(input) \in Nat
  BY <1>1, <1>2 DEF TokensInv
<1> QED
  BY <1>2, <1>3, ArgsConstantsOK DEF ArgvInv, Beginning

(***************************************************************************)
(* Push() of the next token of the string: argv grows by it, and while no  *)
(* strdup() has failed the phase says whether argv is full.                *)
(***************************************************************************)
LEMMA ArgvPushed ==
  ASSUME TokensInv, ArgvInv, phase = "tokenize", NEW ok \in BOOLEAN,
         NEW t \in Tokens, Push(t, ok),
         allocFails = 0 => Len(argv) < Len(input) /\ t = input[Len(argv) + 1]
  PROVE  /\ argc' \in 0..(MAX_ARGS - 1) /\ allocFails' \in Nat
         /\ phase' \in {"tokenize", "getopt"}
         /\ allocFails' = 0 =>
              /\ argv' = Append(argv, t)
              /\ argv' \in Seq(Tokens) /\ Len(argv') = Len(argv) + 1
              /\ \A i \in 1..Len(argv) : argv'[i] = argv[i]
              /\ argv'[Len(argv) + 1] = t
              /\ allocFails = 0 /\ argc = Len(argv) + 1 /\ argc' = argc + 1
              /\ phase' = "tokenize" => Len(argv') < MAX_ARGS - 2
              /\ phase' = "getopt" => Len(argv') = MAX_ARGS - 2
<1>1. /\ argv \in Seq(Tokens) /\ Len(argv) \in Nat /\ Len(input) \in Nat
      /\ MAX_ARGS \in Nat /\ MAX_ARGS > 2 /\ argc \in 0..(MAX_ARGS - 1)
      /\ allocFails \in Nat
  BY ArgsConstantsOK DEF TokensInv, ArgvInv
<1>2. /\ allocFails' = IF ok THEN allocFails ELSE allocFails + 1
      /\ argv' = IF ok /\ argc < MAX_ARGS - 1 THEN Append(argv, t) ELSE argv
      /\ argc' = IF ok /\ argc < MAX_ARGS - 1 THEN argc + 1 ELSE argc
      /\ phase' = IF argc' < MAX_ARGS - 1 THEN "tokenize" ELSE "getopt"
  BY DEF Push, StrDup, HasRoom
<1>3. argc' \in 0..(MAX_ARGS - 1) /\ allocFails' \in Nat
  BY <1>1, <1>2
<1>4. ASSUME allocFails' = 0
      PROVE  /\ ok /\ allocFails = 0 /\ argc = Len(argv) + 1 /\ argc < MAX_ARGS - 1
             /\ argc' = argc + 1 /\ argv' = Append(argv, t)
  BY <1>1, <1>2, <1>4 DEF ArgvInv
<1>5. /\ Append(argv, t) \in Seq(Tokens) /\ Len(Append(argv, t)) = Len(argv) + 1
      /\ \A i \in 1..Len(argv) : Append(argv, t)[i] = argv[i]
      /\ Append(argv, t)[Len(argv) + 1] = t
  BY <1>1, AppendProperties
<1>6. ASSUME allocFails' = 0
      PROVE  /\ phase' = "tokenize" => Len(argv') < MAX_ARGS - 2
             /\ phase' = "getopt" => Len(argv') = MAX_ARGS - 2
  BY <1>1, <1>2, <1>4, <1>5, <1>6
<1> QED
  BY <1>2, <1>3, <1>4, <1>5, <1>6

(***************************************************************************)
(* Every step keeps it: the string is scanned once, front to back.         *)
(***************************************************************************)
LEMMA ArgvStep == StartInv /\ ArgvInv /\ [StartNext]_startVars => ArgvInv'
<1> SUFFICES ASSUME StartInv, ArgvInv, [StartNext]_startVars PROVE ArgvInv'
  OBVIOUS
<1>t. TokensInv
  BY DEF StartInv
<1>n. /\ Len(argv) \in Nat /\ Len(input) \in Nat /\ Len(rest) \in Nat
      /\ MAX_ARGS \in Nat /\ MAX_ARGS > 2
  BY <1>t, ArgsConstantsOK DEF TokensInv
<1>1. ASSUME UNCHANGED <<input, argv, argc, allocFails>>,
             phase' \notin {"init", "tokenize"},
             phase' \in {"getopt", "parsed"} => phase \in {"getopt", "parsed"},
             phase # "init"
      PROVE  ArgvInv'
  BY <1>1 DEF ArgvInv, Beginning
<1>2. ASSUME NEW named \in BOOLEAN, NEW copied \in BOOLEAN, TokenizeStart(named, copied)
      PROVE  ArgvInv'
  <2> DEFINE F == {i \in {1, 2} : ~<<named, copied>>[i]}
  <2>1. /\ phase = "init" /\ allocFails' = Cardinality(F)
        /\ argc' = IF named THEN 1 ELSE 0
        /\ phase' = IF input = <<>> THEN "getopt"
                    ELSE IF copied THEN "tokenize" ELSE "rejected"
        /\ UNCHANGED <<input, scan, rest, argv>>
    BY <1>2 DEF TokenizeStart
  <2>2. IsFiniteSet(F) /\ (1 \in F <=> ~named)
    <3>1. IsFiniteSet({1, 2})
      <4>1. IsFiniteSet({1})
        BY FS_Singleton
      <4>2. {1, 2} = {1} \cup {2}
        OBVIOUS
      <4> QED
        BY <4>1, <4>2, FS_AddElement
    <3> QED
      BY <3>1, FS_Subset
  <2> HIDE DEF F
  <2>3. Cardinality(F) \in Nat /\ (Cardinality(F) = 0 => named)
    BY <2>2, FS_CardinalityType, FS_EmptySet
  <2>4. argv = <<>> /\ Len(argv) = 0 /\ scan = input
    BY <1>t, <2>1 DEF ArgvInv, TokensInv
  <2>5. input = <<>> => Len(input) = 0
    OBVIOUS
  <2> QED
    BY <1>n, <2>1, <2>3, <2>4, <2>5 DEF ArgvInv, Beginning
<1>3. ASSUME NEW ok \in BOOLEAN, TokenizeFirst(ok)
      PROVE  ArgvInv'
  <2>1. /\ phase = "tokenize" /\ argc = 1 /\ Push(Head(scan), ok)
        /\ rest' = Tail(scan) /\ input' = input
    BY <1>3 DEF TokenizeFirst
  <2>2. /\ Head(scan) \in Tokens /\ Head(scan) = scan[1]
        /\ Len(scan) \in Nat \ {0} /\ Len(Tail(scan)) = Len(scan) - 1
        /\ \A i \in 1..(Len(scan) - 1) : Tail(scan)[i] = scan[i + 1]
    BY <1>t, <2>1 DEF TokensInv
  <2>3. allocFails = 0 => Len(argv) = 0 /\ scan = input
    BY <1>n, <2>1 DEF ArgvInv
  <2>4. allocFails = 0 => Len(argv) < Len(input) /\ Head(scan) = input[Len(argv) + 1]
    BY <2>2, <2>3
  <2>5. /\ argc' \in 0..(MAX_ARGS - 1) /\ allocFails' \in Nat
        /\ phase' \in {"tokenize", "getopt"}
        /\ allocFails' = 0 =>
              /\ Len(argv') = Len(argv) + 1
              /\ argv'[Len(argv) + 1] = Head(scan)
              /\ allocFails = 0 /\ argc = Len(argv) + 1 /\ argc' = argc + 1
              /\ phase' = "tokenize" => Len(argv') < MAX_ARGS - 2
              /\ phase' = "getopt" => Len(argv') = MAX_ARGS - 2
    BY <1>t, <2>1, <2>2, <2>4, ArgvPushed
  <2>6. ASSUME allocFails' = 0
        PROVE  /\ Len(argv') = 1 /\ argv'[1] = input[1] /\ argc' = 2
               /\ 1 <= Len(input)
               /\ Len(rest') = Len(input) - 1
               /\ \A i \in 1..Len(rest') : rest'[i] = input[1 + i]
    BY <2>1, <2>2, <2>3, <2>5, <2>6
  <2> QED
    BY <1>n, <2>1, <2>5, <2>6 DEF ArgvInv, Beginning, Remaining
<1>4. ASSUME NEW ok \in BOOLEAN, TokenizeNext(ok)
      PROVE  ArgvInv'
  <2>1. /\ phase = "tokenize" /\ argc > 1 /\ rest # <<>> /\ Push(Head(rest), ok)
        /\ rest' = Tail(rest) /\ input' = input
    BY <1>4 DEF TokenizeNext
  <2>2. /\ Head(rest) \in Tokens /\ Head(rest) = rest[1]
        /\ Len(rest) \in Nat \ {0} /\ Len(Tail(rest)) = Len(rest) - 1
        /\ \A i \in 1..(Len(rest) - 1) : Tail(rest)[i] = rest[i + 1]
    BY <1>t, <2>1 DEF TokensInv
  <2>3. allocFails = 0 => Remaining /\ Beginning
    BY <2>1 DEF ArgvInv
  <2>4. allocFails = 0 => Len(argv) < Len(input) /\ Head(rest) = input[Len(argv) + 1]
    BY <1>n, <2>2, <2>3 DEF Remaining
  <2>5. /\ argc' \in 0..(MAX_ARGS - 1) /\ allocFails' \in Nat
        /\ phase' \in {"tokenize", "getopt"}
        /\ allocFails' = 0 =>
              /\ Len(argv') = Len(argv) + 1
              /\ \A i \in 1..Len(argv) : argv'[i] = argv[i]
              /\ argv'[Len(argv) + 1] = Head(rest)
              /\ allocFails = 0 /\ argc = Len(argv) + 1 /\ argc' = argc + 1
              /\ phase' = "tokenize" => Len(argv') < MAX_ARGS - 2
              /\ phase' = "getopt" => Len(argv') = MAX_ARGS - 2
    BY <1>t, <2>1, <2>2, <2>4, ArgvPushed
  <2>6. ASSUME allocFails' = 0 PROVE Beginning'
    <3>1. /\ Len(argv') = Len(argv) + 1 /\ Len(argv) < Len(input) /\ input' = input
          /\ argv'[Len(argv) + 1] = input[Len(argv) + 1]
      BY <2>1, <2>4, <2>5, <2>6
    <3>2. Len(argv') <= Len(input')
      BY <1>n, <3>1
    <3>3. ASSUME NEW i \in 1..Len(argv') PROVE argv'[i] = input'[i]
      <4>1. CASE i \in 1..Len(argv)
        <5>1. argv'[i] = argv[i] /\ argv[i] = input[i]
          BY <2>3, <2>5, <2>6, <4>1 DEF Beginning
        <5> QED
          BY <3>1, <5>1
      <4>2. CASE i \notin 1..Len(argv)
        <5>1. i = Len(argv) + 1
          BY <1>n, <3>1, <4>2
        <5> QED
          BY <3>1, <5>1
      <4> QED
        BY <4>1, <4>2
    <3> QED
      BY <3>2, <3>3 DEF Beginning
  <2>7. ASSUME allocFails' = 0 PROVE Remaining'
    <3>1. Len(rest') = Len(input') - Len(argv')
      <4>1. Len(rest) = Len(input) - Len(argv)
        BY <2>3, <2>5, <2>7 DEF Remaining
      <4>2. /\ Len(rest') = Len(rest) - 1 /\ Len(argv') = Len(argv) + 1
            /\ input' = input
        BY <2>1, <2>2, <2>5, <2>7
      <4> QED
        BY <1>n, <4>1, <4>2
    <3>2. ASSUME NEW i \in 1..Len(rest') PROVE rest'[i] = input'[Len(argv') + i]
      <4>1. i + 1 \in 1..Len(rest) /\ rest'[i] = rest[i + 1]
        BY <2>1, <2>2
      <4>2. rest[i + 1] = input[Len(argv) + (i + 1)]
        BY <2>3, <2>5, <2>7, <4>1 DEF Remaining
      <4>3. Len(argv) + (i + 1) = Len(argv') + i
        BY <1>n, <2>5, <2>7
      <4> QED
        BY <2>1, <4>1, <4>2, <4>3
    <3> QED
      BY <3>1, <3>2 DEF Remaining
  <2>8. ASSUME allocFails' = 0 PROVE argc' # 1 /\ argc' = Len(argv') + 1
    BY <1>n, <2>1, <2>5, <2>8
  <2>9. ASSUME allocFails' = 0, phase' = "getopt"
        PROVE  Len(argv') = IF Len(input') < MAX_ARGS - 2 THEN Len(input')
                            ELSE MAX_ARGS - 2
    BY <1>n, <2>1, <2>4, <2>5, <2>9
  <2> QED
    BY <2>5, <2>6, <2>7, <2>8, <2>9 DEF ArgvInv
<1>5. CASE TokenizeDone
  <2>1. /\ phase = "tokenize" /\ argc > 1 /\ rest = <<>> /\ phase' = "getopt"
        /\ UNCHANGED <<input, argv, argc, allocFails>>
    BY <1>5 DEF TokenizeDone
  <2>2. allocFails = 0 => Len(argv) = Len(input) /\ Len(argv) < MAX_ARGS - 2
    BY <1>n, <2>1 DEF ArgvInv, Remaining
  <2> QED
    BY <1>n, <2>1, <2>2 DEF ArgvInv, Beginning
<1>6. CASE TokenizeWild
  BY <1>1, <1>6 DEF TokenizeWild
<1>7. CASE plugin_getopts
  <2>1. /\ phase = "getopt" /\ UNCHANGED <<input, argv, argc, allocFails>>
        /\ phase' \in {"getopt", "parsed", "rejected"}
    BY <1>7 DEF plugin_getopts, SetPath
  <2> QED
    BY <1>1, <2>1
<1>8. ASSUME NEW here, NEW there, Phase(here, there),
             here \notin {"init", "tokenize", "getopt"},
             there \notin {"init", "tokenize", "getopt", "parsed"}
      PROVE  ArgvInv'
  BY <1>1, <1>8 DEF Phase
<1>9. ASSUME NEW ok \in BOOLEAN,
             \/ Register(ok) \/ InitFmtBuff(ok) \/ OpenSocket(ok)
             \/ BindSocket(ok) \/ ChmodSocket(ok) \/ InitBuffers(ok)
      PROVE  ArgvInv'
  BY <1>8, <1>9 DEF Register, InitFmtBuff, OpenSocket, BindSocket, ChmodSocket,
    InitBuffers
<1>10. CASE InitCache \/ FirstConnect \/ Fail \/ FiniLate
  BY <1>8, <1>10 DEF InitCache, FirstConnect, Fail, FiniLate
<1>11. CASE UNCHANGED startVars
  BY <1>11 DEF startVars, argsVars, ArgvInv, Beginning, Remaining
<1> QED
  BY <1>2, <1>3, <1>4, <1>5, <1>6, <1>7, <1>9, <1>10, <1>11 DEF StartNext, ArgsNext

(***************************************************************************)
(* Whatever the string and the size of argv, argv has room for the NULL    *)
(* behind it and holds the first tokens of the string, in order            *)
(* (hh_dp_utils.c:22-26), unless a strdup() has failed.                    *)
(***************************************************************************)
THEOREM ArgvAlwaysFaithful == StartSpec => []ArgvFaithful
<1>1. StartInv /\ ArgvInv => ArgvFaithful
  <2> SUFFICES ASSUME StartInv, ArgvInv PROVE ArgvFaithful
    OBVIOUS
  <2>1. argv \in Seq(Tokens) /\ input \in Seq(Tokens)
    BY DEF StartInv, TokensInv
  <2>2. Len(argv) \in Nat /\ Len(input) \in Nat
    BY <2>1
  <2>3. argc < MAX_ARGS
    BY ArgsConstantsOK DEF ArgvInv
  <2>4. Beginning => IsPrefix(argv, input)
    <3> SUFFICES ASSUME Beginning PROVE IsPrefix(argv, input)
      OBVIOUS
    <3> DEFINE n == Len(argv)
    <3>1. /\ n \in Nat /\ n <= Len(input)
          /\ \A i \in 1..n : argv[i] = input[i] /\ argv[i] \in Tokens /\ input[i] \in Tokens
      BY <2>1, <2>2 DEF Beginning
    <3> HIDE DEF n
    <3>2. SubSeq(argv, 1, n) = SubSeq(input, 1, n)
      BY <3>1
    <3> QED
      BY <3>1, <3>2 DEF IsPrefix, n
  <2> QED
    BY <2>3, <2>4 DEF ArgvInv, ArgvFaithful
<1> QED
  BY <1>1, ArgvInitially, ArgvStep, StartInvariant, PTL DEF StartSpec

-----------------------------------------------------------------------------
(***************************************************************************)
(* The walk of getopt_long().  It stands on a token it looks at, none that *)
(* it has looked at reaches over it, and the paths are those of the last   *)
(* options before it.                                                      *)
(***************************************************************************)
Stands(n) ==
  /\ n \in DOMAIN argv => n \in Looked
  /\ \A i \in Looked : i < n => Behind(i) <= n

OptionsBefore(o, n) == {i \in OptionsFor(o) : i < n}

GetoptInv ==
  /\ phase \in {"init", "tokenize"} =>
       optind = 1 /\ \A o \in {"l", "r"} : given[o] = DefaultPath
  /\ phase = "getopt" =>
       /\ Stands(optind)
       /\ \A o \in {"l", "r"} : given[o] = LastGiven(OptionsBefore(o, optind))
  /\ phase \notin {"init", "tokenize", "getopt", "rejected", "crashed"} =>
       \A o \in {"l", "r"} : given[o] = LastGiven(OptionsFor(o))

(***************************************************************************)
(* The positions looked at: the first is one, what is behind one is one,   *)
(* and each set that is closed contains them.                              *)
(***************************************************************************)
LEMMA LookedLeast ==
  ASSUME argv \in Seq(Tokens)
  PROVE  /\ Looked \subseteq DOMAIN argv /\ DOMAIN argv \subseteq Nat \ {0}
         /\ 1 \in DOMAIN argv => 1 \in Looked
         /\ \A i \in Looked : Behind(i) \in DOMAIN argv => Behind(i) \in Looked
         /\ \A S \in SUBSET DOMAIN argv :
              1 \in S /\ (\A j \in S : Behind(j) \in DOMAIN argv => Behind(j) \in S)
                => Looked \subseteq S
<1>1. DOMAIN argv \subseteq Nat \ {0}
  OBVIOUS
<1>2. ASSUME NEW i \in Looked, Behind(i) \in DOMAIN argv
      PROVE  Behind(i) \in Looked
  BY <1>2 DEF Looked
<1> QED
  BY <1>1, <1>2 DEF Looked

(***************************************************************************)
(* From a token it looks at, the walk goes on to the next: it looks at     *)
(* nothing in between, not even at the argument of a short option.         *)
(***************************************************************************)
LEMMA StandsBehind ==
  ASSUME argv \in Seq(Tokens), NEW k \in Looked, Stands(k)
  PROVE  /\ Stands(Behind(k))
         /\ \A i \in Looked : i < Behind(k) <=> i < k \/ i = k
<1> DEFINE S == {i \in Looked : i <= k} \cup {i \in DOMAIN argv : i >= Behind(k)}
<1>1. /\ Looked \subseteq DOMAIN argv /\ DOMAIN argv \subseteq Nat \ {0}
      /\ 1 \in DOMAIN argv => 1 \in Looked
      /\ \A i \in Looked : Behind(i) \in DOMAIN argv => Behind(i) \in Looked
  BY LookedLeast
<1>2. \A i \in DOMAIN argv : Behind(i) \in {i + 1, i + 2}
  BY DEF Behind
<1>3. k \in Nat \ {0} /\ Behind(k) \in Nat /\ Behind(k) > k
  BY <1>1, <1>2
<1>4. 1 \in S
  <2>1. 1 \in DOMAIN argv
    BY <1>1
  <2> QED
    BY <1>1, <1>3, <2>1
<1>5. ASSUME NEW j \in S, Behind(j) \in DOMAIN argv PROVE Behind(j) \in S
  <2>1. CASE j \in Looked /\ j < k
    BY <1>1, <1>5, <2>1 DEF Stands
  <2>2. CASE j = k
    BY <1>3, <1>5, <2>2
  <2>3. CASE j \in DOMAIN argv /\ j >= Behind(k)
    BY <1>1, <1>2, <1>3, <1>5, <2>3
  <2> QED
    BY <1>1, <1>3, <2>1, <2>2, <2>3
<1>6. Looked \subseteq S
  <2>1. S \in SUBSET DOMAIN argv
    BY <1>1
  <2> QED
    BY <1>4, <1>5, <2>1, LookedLeast
<1>7. ASSUME NEW i \in Looked PROVE i < Behind(k) <=> i < k \/ i = k
  <2>1. i \in Nat /\ i \in S
    BY <1>1, <1>6
  <2> QED
    BY <1>3, <2>1
<1>8. ASSUME NEW i \in Looked, i < Behind(k) PROVE Behind(i) <= Behind(k)
  <2>1. i \in Nat /\ Behind(i) \in Nat
    BY <1>1, <1>2
  <2>2. CASE i < k
    <3>1. Behind(i) <= k
      BY <2>2 DEF Stands
    <3> QED
      BY <1>3, <2>1, <3>1
  <2>3. CASE i = k
    BY <1>3, <2>3
  <2> QED
    BY <1>7, <1>8, <2>2, <2>3
<1> QED
  BY <1>1, <1>7, <1>8 DEF Stands

(***************************************************************************)
(* The option at k comes last among those up to it.                        *)
(***************************************************************************)
LEMMA LastOption ==
  ASSUME argv \in Seq(Tokens), NEW k \in Looked, Stands(k), NEW o \in {"l", "r"}
  PROVE  LastGiven(OptionsBefore(o, Behind(k))) =
           IF k \in OptionsFor(o) THEN OptArg(k) ELSE LastGiven(OptionsBefore(o, k))
<1>1. /\ k \in Nat /\ OptionsFor(o) \subseteq Looked /\ Looked \subseteq Nat
      /\ \A i \in Looked : i < Behind(k) <=> i < k \/ i = k
  BY LookedLeast, StandsBehind DEF OptionsFor
<1>2. CASE k \notin OptionsFor(o)
  <2>1. OptionsBefore(o, Behind(k)) = OptionsBefore(o, k)
    BY <1>1, <1>2 DEF OptionsBefore
  <2> QED
    BY <1>2, <2>1
<1>3. CASE k \in OptionsFor(o)
  <2> DEFINE B == OptionsBefore(o, Behind(k))
  <2>1. k \in B /\ \A i \in B : i \in Nat /\ i <= k
    BY <1>1, <1>3 DEF OptionsBefore
  <2> HIDE DEF B
  <2>2. Max(B) = k
    <3>1. k \in B /\ \A y \in B : k >= y
      BY <1>1, <2>1
    <3>2. \A x \in B : (\A y \in B : x >= y) => x = k
      BY <1>1, <2>1
    <3> QED
      BY <3>1, <3>2, Zenon DEF Max
  <2> QED
    BY <1>3, <2>1, <2>2 DEF LastGiven, B
<1> QED
  BY <1>2, <1>3

-----------------------------------------------------------------------------
(***************************************************************************)
(* Behind an option that is in order, the path given is its argument.      *)
(***************************************************************************)
LEMMA OptionGiven ==
  ASSUME TokensInv, PathsInv, GetoptInv, phase = "getopt", argv' = argv,
         optind \in DOMAIN argv, optind' = Behind(optind), phase' = "getopt",
         \A o \in {"l", "r"} :
           given'[o] = IF optind \in OptionsFor(o) THEN OptArg(optind) ELSE given[o]
  PROVE  GetoptInv'
<1> DEFINE k == optind
<1>1. argv \in Seq(Tokens) /\ k \in Looked /\ Stands(k)
  BY DEF TokensInv, GetoptInv, Stands
<1>2. Stands(Behind(k))
  BY <1>1, StandsBehind
<1>3. \A o \in {"l", "r"} : given'[o] = LastGiven(OptionsBefore(o, Behind(k)))
  <2> SUFFICES ASSUME NEW o \in {"l", "r"}
               PROVE  given'[o] = LastGiven(OptionsBefore(o, Behind(k)))
    OBVIOUS
  <2>1. given[o] = LastGiven(OptionsBefore(o, k))
    BY DEF GetoptInv
  <2>2. LastGiven(OptionsBefore(o, Behind(k))) =
          IF k \in OptionsFor(o) THEN OptArg(k) ELSE LastGiven(OptionsBefore(o, k))
    BY <1>1, LastOption
  <2> QED
    BY <2>1, <2>2
<1>4. Stands(optind)'
  BY <1>2 DEF Stands, Looked, Behind
<1>5. \A o \in {"l", "r"} : given'[o] = LastGiven(OptionsBefore(o, optind))'
  BY <1>3 DEF LastGiven, OptionsBefore, OptionsFor, OptArg, Looked, Behind
<1> QED
  BY <1>4, <1>5 DEF GetoptInv

(***************************************************************************)
(* plugin_getopts() keeps it: SetPath() stores the argument of the option  *)
(* under the option's own name.                                            *)
(***************************************************************************)
LEMMA GetoptLooks ==
  ASSUME TokensInv, PathsInv, GetoptInv, plugin_getopts PROVE GetoptInv'
<1>1. phase = "getopt" /\ argv' = argv /\ argv \in Seq(Tokens) /\ optind \in Nat \ {0}
  BY DEF plugin_getopts, TokensInv
<1>2. CASE phase' = "rejected"
  BY <1>2 DEF GetoptInv
<1>3. CASE optind > Len(argv)
  <2>1. phase' = "parsed" /\ given' = given /\ optind' = optind
    BY <1>3 DEF plugin_getopts
  <2>2. \A i \in Looked : i < optind
    <3>1. \A i \in Looked : i \in 1..Len(argv)
      BY <1>1, LookedLeast
    <3> QED
      BY <1>1, <1>3, <3>1
  <2>3. \A o \in {"l", "r"} : OptionsBefore(o, optind) = OptionsFor(o)
    BY <2>2 DEF OptionsBefore, OptionsFor
  <2>4. \A o \in {"l", "r"} : given[o] = LastGiven(OptionsFor(o))
    BY <1>1, <2>3 DEF GetoptInv
  <2>5. \A o \in {"l", "r"} : LastGiven(OptionsFor(o))' = LastGiven(OptionsFor(o))
    BY <1>1 DEF LastGiven, OptionsFor, OptArg, Looked, Behind
  <2> QED
    BY <2>1, <2>4, <2>5 DEF GetoptInv
<1>4. CASE ~(optind > Len(argv)) /\ phase' # "rejected"
  <2> DEFINE k == optind
             t == argv[k]
  <2>1. k \in DOMAIN argv /\ k \in Looked /\ t \in Tokens
    BY <1>1, <1>4 DEF GetoptInv, Stands
  <2>2. \A o \in {"l", "r"} :
          k \in OptionsFor(o) <=> t.kind = o \/ (o = "l" /\ t.kind = "l=")
    BY <2>1 DEF OptionsFor
  <2>3. DOMAIN given = {"l", "r"}
    BY DEF PathsInv
  <2>4. CASE t.kind = "word"
    <3>1. optind' = k + 1 /\ phase' = "getopt" /\ given' = given
      BY <1>1, <1>4, <2>4 DEF plugin_getopts
    <3>2. Behind(k) = k + 1 /\ \A o \in {"l", "r"} : k \notin OptionsFor(o)
      BY <2>2, <2>4 DEF Behind
    <3> QED
      BY <1>1, <2>1, <3>1, <3>2, OptionGiven
  <2>5. CASE t.kind = "l="
    <3>1. SetPath("l", t.text, k + 1)
      BY <1>1, <1>4, <2>5 DEF plugin_getopts
    <3>2. optind' = k + 1 /\ phase' = "getopt" /\ given' = [given EXCEPT !["l"] = t.text]
      BY <1>1, <1>4, <3>1 DEF SetPath
    <3>3. /\ Behind(k) = k + 1 /\ OptArg(k) = t.text
          /\ k \in OptionsFor("l") /\ k \notin OptionsFor("r")
      BY <2>2, <2>5 DEF Behind, OptArg
    <3>4. given'["l"] = OptArg(k) /\ given'["r"] = given["r"]
      BY <2>3, <3>2, <3>3
    <3> QED
      BY <1>1, <2>1, <3>2, <3>3, <3>4, OptionGiven
  <2>6. CASE t.kind \in {"l", "r"} /\ k < Len(argv)
    <3>1. SetPath(t.kind, argv[k + 1].text, k + 2)
      BY <1>1, <1>4, <2>6 DEF plugin_getopts
    <3>2. /\ optind' = k + 2 /\ phase' = "getopt"
          /\ given' = [given EXCEPT ![t.kind] = argv[k + 1].text]
      BY <1>1, <1>4, <3>1 DEF SetPath
    <3>3. /\ Behind(k) = k + 2 /\ OptArg(k) = argv[k + 1].text
          /\ \A o \in {"l", "r"} : k \in OptionsFor(o) <=> o = t.kind
      BY <2>2, <2>6 DEF Behind, OptArg
    <3>4. \A o \in {"l", "r"} : given'[o] = IF o = t.kind THEN OptArg(k) ELSE given[o]
      BY <2>3, <3>2, <3>3
    <3> QED
      BY <1>1, <2>1, <3>2, <3>3, <3>4, OptionGiven
  <2>7. CASE t.kind # "word" /\ t.kind # "l=" /\ ~(t.kind \in {"l", "r"} /\ k < Len(argv))
    BY <1>1, <1>4, <2>7 DEF plugin_getopts
  <2> QED
    BY <2>4, <2>5, <2>6, <2>7
<1> QED
  BY <1>2, <1>3, <1>4

(***************************************************************************)
(* So does every other step: before the walk it has the defaults, behind   *)
(* it nothing changes the argument vector or the paths.                    *)
(***************************************************************************)
LEMMA GetoptStep == StartInv /\ GetoptInv /\ [StartNext]_startVars => GetoptInv'
<1> SUFFICES ASSUME StartInv, GetoptInv, [StartNext]_startVars PROVE GetoptInv'
  OBVIOUS
<1>1. ASSUME UNCHANGED <<argv, optind, given>>,
             \/ phase' = phase
             \/ /\ phase' \notin {"init", "tokenize", "getopt"}
                /\ phase \notin {"init", "tokenize", "getopt", "rejected", "crashed"}
      PROVE  GetoptInv'
  <2>1. /\ Stands(optind)' = Stands(optind)
        /\ \A o \in {"l", "r"} :
             /\ LastGiven(OptionsBefore(o, optind))' = LastGiven(OptionsBefore(o, optind))
             /\ LastGiven(OptionsFor(o))' = LastGiven(OptionsFor(o))
    BY <1>1 DEF Stands, LastGiven, OptionsBefore, OptionsFor, OptArg, Looked, Behind
  <2> QED
    BY <1>1, <2>1 DEF GetoptInv
<1>2. ASSUME phase \in {"init", "tokenize"}, UNCHANGED <<optind, given>>,
             phase' \in {"init", "tokenize", "getopt", "rejected", "crashed"}
      PROVE  GetoptInv'
  <2>1. argv' \in Seq(Tokens)
    BY StartStep DEF StartInv, TokensInv
  <2>2. optind' = 1 /\ \A o \in {"l", "r"} : given'[o] = DefaultPath
    BY <1>2 DEF GetoptInv
  <2>3. /\ Stands(1)'
        /\ \A o \in {"l", "r"} : LastGiven(OptionsBefore(o, 1))' = DefaultPath
    <3>1. \A i \in DOMAIN argv' : i \in Nat \ {0}
      BY <2>1
    <3>2. \A o \in {"l", "r"} : OptionsBefore(o, 1)' = {}
      BY <3>1 DEF OptionsBefore, OptionsFor, Looked
    <3>3. Stands(1)'
      BY <3>1 DEF Stands, Looked
    <3> QED
      BY <3>2, <3>3 DEF LastGiven
  <2> QED
    BY <1>2, <2>2, <2>3 DEF GetoptInv
<1>3. CASE ArgsNext /\ ~plugin_getopts
  <2>1. /\ phase \in {"init", "tokenize"} /\ UNCHANGED <<optind, given>>
        /\ phase' \in {"init", "tokenize", "getopt", "rejected", "crashed"}
    BY <1>3 DEF ArgsNext, TokenizeStart, TokenizeFirst, TokenizeNext, TokenizeDone,
      TokenizeWild, Push
  <2> QED
    BY <1>2, <2>1
<1>4. CASE plugin_getopts
  BY <1>4, GetoptLooks DEF StartInv
<1>5. ASSUME NEW here, NEW there, Phase(here, there),
             here \notin {"init", "tokenize", "getopt", "rejected", "crashed"},
             there \notin {"init", "tokenize", "getopt"}
      PROVE  GetoptInv'
  BY <1>1, <1>5 DEF Phase
<1>6. ASSUME NEW ok \in BOOLEAN,
             \/ Register(ok) \/ InitFmtBuff(ok) \/ OpenSocket(ok)
             \/ BindSocket(ok) \/ ChmodSocket(ok) \/ InitBuffers(ok)
      PROVE  GetoptInv'
  BY <1>5, <1>6 DEF Register, InitFmtBuff, OpenSocket, BindSocket, ChmodSocket,
    InitBuffers
<1>7. CASE InitCache \/ FirstConnect \/ Fail \/ FiniLate
  BY <1>5, <1>7 DEF InitCache, FirstConnect, Fail, FiniLate
<1>8. CASE UNCHANGED startVars
  BY <1>1, <1>8 DEF startVars, argsVars
<1> QED
  BY <1>3, <1>4, <1>6, <1>7, <1>8 DEF StartNext

(***************************************************************************)
(* Whatever the arguments, once they are parsed the last -l and -r that    *)
(* getopt_long() finds among them are the paths in use                     *)
(* (hh_dp_plugin.c:36-44).                                                 *)
(***************************************************************************)
THEOREM PathsAlwaysAsConfigured == StartSpec => []PathsAsConfigured
<1>1. StartInit => GetoptInv
  BY DEF StartInit, ArgsInit, GetoptInv
<1>2. StartInv /\ GetoptInv => PathsAsConfigured
  BY DEF StartInv, PathsInv, GetoptInv, PathsAsConfigured
<1> QED
  BY <1>1, <1>2, GetoptStep, StartInvariant, PTL DEF StartSpec
=============================================================================
