---------------------------- MODULE DpConvProofs ----------------------------
(***************************************************************************)
(* The conversation with the dataplane, for every value of the constants:  *)
(* what is answered, by whom, and what a purge may answer for it; then,    *)
(* for a dataplane that answers in order, that responses and requests are  *)
(* never shifted against each other.                                       *)
(***************************************************************************)
EXTENDS DpConnProofs, DpRefinement

(***************************************************************************)
(* The Object messages of a queue, and what Append() and Tail() make of    *)
(* them.                                                                   *)
(***************************************************************************)
ObjsOf(q) == {q[i] : i \in {j \in DOMAIN q : q[j].op = "Object"}}

OneConnect(q) ==
  \A i, j \in DOMAIN q : q[i].op = "Connect" /\ q[j].op = "Connect" => i = j

LEMMA ObjsAppend ==
  ASSUME NEW S, NEW s \in Seq(S), NEW e \in S
  PROVE  ObjsOf(Append(s, e)) = ObjsOf(s) \cup (IF e.op = "Object" THEN {e} ELSE {})
<1>1. /\ DOMAIN s = 1..Len(s) /\ Len(s) \in Nat
      /\ DOMAIN Append(s, e) = 1..(Len(s) + 1)
      /\ \A i \in 1..Len(s) : Append(s, e)[i] = s[i]
      /\ Append(s, e)[Len(s) + 1] = e
  BY AppendProperties, LenProperties
<1> DEFINE t == Append(s, e)
<1> HIDE DEF t
<1>2. /\ DOMAIN t = 1..(Len(s) + 1)
      /\ \A i \in 1..Len(s) : t[i] = s[i]
      /\ t[Len(s) + 1] = e
  BY <1>1 DEF t
<1>3. ASSUME NEW m \in ObjsOf(t)
      PROVE  m \in ObjsOf(s) \cup (IF e.op = "Object" THEN {e} ELSE {})
  BY <1>1, <1>2 DEF ObjsOf
<1>4. ObjsOf(s) \subseteq ObjsOf(t)
  <2> SUFFICES ASSUME NEW i \in DOMAIN s, s[i].op = "Object" PROVE s[i] \in ObjsOf(t)
    BY DEF ObjsOf
  <2>1. i \in DOMAIN t /\ t[i] = s[i]
    BY <1>1, <1>2
  <2> QED
    BY <2>1 DEF ObjsOf
<1>5. e.op = "Object" => e \in ObjsOf(t)
  <2>1. Len(s) + 1 \in DOMAIN t
    BY <1>1, <1>2
  <2> QED
    BY <1>2, <2>1 DEF ObjsOf
<1> QED
  BY <1>3, <1>4, <1>5 DEF t

LEMMA ObjsAppendOther ==
  ASSUME NEW S, NEW s \in Seq(S), NEW e \in S, e.op # "Object"
  PROVE  ObjsOf(Append(s, e)) = ObjsOf(s)
<1>1. ObjsOf(Append(s, e)) = ObjsOf(s) \cup {}
  BY ObjsAppend
<1> QED
  BY <1>1

LEMMA ObjsTail ==
  ASSUME NEW S, NEW s \in Seq(S), s # <<>>
  PROVE  /\ ObjsOf(Tail(s)) \subseteq ObjsOf(s)
         /\ Head(s).op = "Object" => Head(s) \in ObjsOf(s)
<1>1. /\ 1 \in DOMAIN s /\ Head(s) = s[1]
      /\ \A i \in DOMAIN Tail(s) : i + 1 \in DOMAIN s /\ Tail(s)[i] = s[i + 1]
  BY QueueElems
<1> QED
  BY <1>1 DEF ObjsOf

LEMMA ObjsEmpty == ObjsOf(<<>>) = {}
BY DEF ObjsOf

LEMMA ObjsType ==
  ASSUME NEW S, NEW s \in Seq(S), NEW m \in ObjsOf(s)
  PROVE  m \in S /\ m.op = "Object"
<1>1. \A i \in DOMAIN s : s[i] \in S
  BY ElementOfSeq, LenProperties
<1> QED
  BY <1>1 DEF ObjsOf

LEMMA OneConnectKept ==
  ASSUME NEW S, NEW s \in Seq(S)
  PROVE  /\ OneConnect(<<>>)
         /\ \A e \in S : OneConnect(s) /\ (e.op = "Connect" => ~ConnectIn(s))
              => OneConnect(Append(s, e))
         /\ s # <<>> /\ OneConnect(s) =>
              /\ OneConnect(Tail(s))
              /\ Head(s).op = "Connect" => ~ConnectIn(Tail(s))
<1>1. OneConnect(<<>>)
  BY DEF OneConnect
<1>2. ASSUME NEW e \in S, OneConnect(s), e.op = "Connect" => ~ConnectIn(s)
      PROVE  OneConnect(Append(s, e))
  <2> DEFINE t == Append(s, e)
  <2>1. /\ DOMAIN s = 1..Len(s) /\ Len(s) \in Nat /\ DOMAIN t = 1..(Len(s) + 1)
        /\ \A i \in 1..Len(s) : t[i] = s[i]
        /\ t[Len(s) + 1] = e
    BY AppendProperties, LenProperties
  <2> HIDE DEF t
  <2>2. SUFFICES ASSUME NEW i \in DOMAIN t, NEW j \in DOMAIN t,
                        t[i].op = "Connect", t[j].op = "Connect"
                 PROVE  i = j
    BY DEF OneConnect, t
  <2>3. CASE e.op = "Connect"
    BY <1>2, <2>1, <2>2, <2>3 DEF ConnectIn
  <2>4. CASE e.op # "Connect"
    BY <1>2, <2>1, <2>2, <2>4 DEF OneConnect
  <2> QED
    BY <2>3, <2>4
<1>3. ASSUME s # <<>>, OneConnect(s)
      PROVE  /\ OneConnect(Tail(s))
             /\ Head(s).op = "Connect" => ~ConnectIn(Tail(s))
  <2> DEFINE t == Tail(s)
  <2>1. /\ DOMAIN s = 1..Len(s) /\ Len(s) \in Nat
        /\ 1 \in DOMAIN s /\ Head(s) = s[1]
        /\ \A i \in DOMAIN t : i + 1 \in DOMAIN s /\ t[i] = s[i + 1] /\ i \in Nat \ {0}
    BY <1>3, QueueElems, LenProperties, HeadTailProperties
  <2> HIDE DEF t
  <2>2. OneConnect(t)
    BY <1>3, <2>1 DEF OneConnect
  <2>3. ASSUME Head(s).op = "Connect", ConnectIn(t) PROVE FALSE
    <3>1. PICK i \in DOMAIN t : t[i].op = "Connect"
      BY <2>3 DEF ConnectIn
    <3>2. i + 1 = 1
      BY <1>3, <2>1, <2>3, <3>1 DEF OneConnect
    <3> QED
      BY <2>1, <3>2
  <2> QED
    BY <2>2, <2>3 DEF t
<1> QED
  BY <1>1, <1>2, <1>3

(***************************************************************************)
(* What the promise to zebra says of the Object requests.                  *)
(***************************************************************************)
LEMMA ObjectFacts ==
  ASSUME TypeOK, CtxOwnedOnce, RequestsInOrder
  PROVE  /\ \A m \in ObjsOf(unsent) :
              m.op = "Object" /\ m.seqn \in Nat /\ m.seqn < seqnum /\ m.ctx \in Ctx
              /\ m.ctx \notin todo
         /\ \A m \in ObjsOf(in_flight) :
              m.op = "Object" /\ m.seqn \in Nat /\ m.seqn < seqnum /\ m.ctx \in Ctx
              /\ m.ctx \notin todo
         /\ \A m \in ObjsOf(in_flight), n \in ObjsOf(unsent) :
              m.seqn < n.seqn /\ m.ctx # n.ctx
         /\ unsent # <<>> /\ Head(unsent).op = "Object" =>
              /\ Head(unsent) \in ObjsOf(unsent)
              /\ \A n \in ObjsOf(Tail(unsent)) : Head(unsent).seqn < n.seqn
<1>1. unsent \in Seq(UnsentMsg) /\ in_flight \in Seq(RequestMsg)
  BY DEF TypeOK, CacheTypeOK
<1>2. \A m \in UnsentMsg \cup RequestMsg :
        m.op = "Object" => m.seqn \in Nat /\ m.ctx \in Ctx /\ m.ctx # NoCtx
  BY ConstantsOK DEF UnsentMsg, RequestMsg, ObjectMsg, ConnectMsg, KeepaliveMsg,
     RefreshMsg
<1>3. /\ \A m \in ObjsOf(unsent) : m \in UnsentMsg /\ m.op = "Object"
      /\ \A m \in ObjsOf(in_flight) : m \in RequestMsg /\ m.op = "Object"
  BY <1>1, ObjsType
<1>4. /\ \A m \in ObjsOf(unsent) : m.seqn < seqnum
      /\ \A m \in ObjsOf(in_flight) : m.seqn < seqnum
      /\ \A m \in ObjsOf(in_flight), n \in ObjsOf(unsent) : m.seqn < n.seqn
  BY DEF ObjsOf, RequestsInOrder, Flow!InOrder, Flow!Below, Flow!Objects
<1>5. /\ \A m \in ObjsOf(unsent) : m.ctx \in CtxsOf(unsent)
      /\ \A m \in ObjsOf(in_flight) : m.ctx \in CtxsOf(in_flight)
  BY <1>2, <1>3 DEF ObjsOf, CtxsOf
<1>6. /\ \A c \in CtxsOf(unsent) \cup CtxsOf(in_flight) : c \notin todo
      /\ \A c \in CtxsOf(in_flight) : c \notin CtxsOf(unsent)
  BY DEF CtxOwnedOnce, Flow!OwnedOnce, Flow!OneOwner, Flow!Apart, Flow!CtxsOf, CtxsOf
<1>7. ASSUME unsent # <<>>, Head(unsent).op = "Object"
      PROVE  /\ Head(unsent) \in ObjsOf(unsent)
             /\ \A n \in ObjsOf(Tail(unsent)) : Head(unsent).seqn < n.seqn
  <2>1. Head(unsent) \in ObjsOf(unsent)
    BY <1>1, <1>7, ObjsTail
  <2>2. /\ 1 \in DOMAIN unsent /\ Head(unsent) = unsent[1]
        /\ \A i \in DOMAIN Tail(unsent) :
             /\ i \in Nat \ {0}
             /\ i + 1 \in DOMAIN unsent /\ Tail(unsent)[i] = unsent[i + 1]
    BY <1>1, <1>7, QueueElems, HeadTailProperties, LenProperties
  <2>3. \A i \in DOMAIN Tail(unsent) :
          Tail(unsent)[i].op = "Object" => Head(unsent).seqn < Tail(unsent)[i].seqn
    <3> TAKE i \in DOMAIN Tail(unsent)
    <3> HAVE Tail(unsent)[i].op = "Object"
    <3>1. 1 \in Flow!Objects(unsent) /\ i + 1 \in Flow!Objects(unsent) /\ 1 < i + 1
      BY <1>7, <2>2 DEF Flow!Objects
    <3> QED
      BY <2>2, <3>1 DEF RequestsInOrder, Flow!InOrder, Flow!Ordered
  <2> QED
    BY <2>1, <2>3 DEF ObjsOf
<1> QED
  BY <1>2, <1>3, <1>4, <1>5, <1>6, <1>7

-----------------------------------------------------------------------------
\* What every step may rely on.
Sound == /\ TypeOK /\ HandshakeInv
         /\ CtxOwnedOnce /\ RequestsInOrder

LEMMA SoundFacts ==
  ASSUME Sound
  PROVE  /\ inc \in Nat /\ peer \in 0..inc /\ (up => inc > 0)
         /\ rxq \in Seq(Incoming) /\ inbox \in Seq(Msg)
         /\ unsent \in Seq(UnsentMsg) /\ in_flight \in Seq(RequestMsg)
         /\ is_ready \in BOOLEAN
         /\ sent_to \in [Ctx -> Nat] /\ applied \in [Ctx -> Nat]
         /\ seqnum \in Nat
         /\ todo \subseteq Ctx
         /\ PeerAlive => peer # 0
BY ConstantsOK DEF Sound, TypeOK, PeerTypeOK, CacheTypeOK, ConnTypeOK, HandshakeInv,
   PeerInv, PeerAlive

-----------------------------------------------------------------------------
(***************************************************************************)
(* The kinds of steps.  A still step neither sends nor receives, and       *)
(* leaves the connection as it is.                                         *)
(***************************************************************************)
Still ==
  /\ UNCHANGED <<peer, inc, up, rxq, inbox, dp_sock, dp_sock_connected,
                 is_ready, synt, in_flight, sent_to, applied, seqnum>>
  /\ ObjsOf(unsent') = ObjsOf(unsent)
  /\ todo' \subseteq todo
  /\ \/ pc' = pc /\ resp' = resp
     \/ /\ pc \notin {"purge", "aborted", "stopped"}
        /\ pc' \notin {"purge", "send_connect", "stopped"}
        /\ pc' = "connect" => ev_connect_timer
        /\ pc' = "aborted" => dp_sock = NO_SOCK

(***************************************************************************)
(* The peer is lost: a send or connect() failed.                           *)
(***************************************************************************)
PeerLost ==
  /\ peer' = 0 /\ rxq' = <<>> /\ is_ready' = FALSE /\ ~dp_sock_connected'
  /\ ~PeerAlive
  /\ is_ready \/ pc \in {"connect", "send_connect"}
  /\ UNCHANGED <<inc, up, inbox, in_flight, synt, sent_to, applied, seqnum, todo>>
  /\ ObjsOf(unsent') = ObjsOf(unsent)
  /\ pc # "stopped" /\ pc' \notin {"stopped", "purge", "send_connect"}

\* A message that is no response is read.
Reads(r) ==
  /\ Received(r) /\ r.op \notin RequestOp
  /\ UNCHANGED <<peer, inc, up, inbox, dp_sock, dp_sock_connected, is_ready,
                 synt, in_flight, sent_to, applied, seqnum, todo>>
  /\ ObjsOf(unsent') = ObjsOf(unsent)
  /\ pc' \in {"recv", "drain"}

Responds(r) ==
  \/ RecvRestart(r)
  \/ RecvUnsolicited(r)
  \/ RecvMismatch(r)
  \/ RecvConnectResponse(r)
  \/ handle_rpc_ctx_response(r)

Sends ==
  \/ SendConnect("ok") \/ DrainSent

LEMMA PutBack ==
  ASSUME CacheTypeOK, unsent # <<>>
  PROVE  dp_msg_unsent_push_back(Tail(unsent), Head(unsent)) = unsent
BY PutBackSame DEF CacheTypeOK

LEMMA ConnectKinds ==
  ASSUME Sound, Connect
  PROVE  Still \/ PeerLost \/ ConnectSucceeds \/ SendConnect("ok")
<1>t. is_ready \in BOOLEAN /\ dp_sock_connected \in BOOLEAN
  BY DEF Sound, TypeOK, ConnTypeOK
<1>1. CASE ConnectNoSock
  <2>1. pc = "connect" /\ dp_sock = NO_SOCK /\ pc' \in {"idle", "recv", "aborted"}
    BY <1>1, ReturnsQuietly DEF ConnectNoSock
  <2>2. /\ UNCHANGED <<peer, inc, up, rxq, inbox, dp_sock, dp_sock_connected,
                       is_ready, synt, in_flight, sent_to, applied, seqnum>>
        /\ unsent' = unsent /\ todo' = todo
    BY <1>1 DEF ConnectNoSock, connVars, netVars, dpVars, cacheVars, histVars, zebraVars
  <2> QED
    BY <2>1, <2>2 DEF Still
<1>2. ASSUME NEW f \in Fd \cup {NO_SOCK}, ConnectFails(f) PROVE PeerLost
  <2>1. pc = "connect" /\ pc' \in {"idle", "recv", "aborted"}
    BY <1>2, ReturnsQuietly DEF ConnectFails, Abort
  <2>2. /\ ~up /\ peer' = 0 /\ rxq' = <<>> /\ is_ready' = FALSE
        /\ ~dp_sock_connected'
        /\ UNCHANGED <<inc, up, inbox, in_flight, synt, sent_to, applied, seqnum, todo>>
        /\ unsent' = unsent
    BY <1>2 DEF ConnectFails, dpVars, cacheVars, histVars, zebraVars
  <2> QED
    BY <2>1, <2>2 DEF PeerLost, PeerAlive
<1>3. ASSUME NEW o \in {"again", "conn", "error"}, SendConnect(o)
      PROVE  Still \/ PeerLost
  <2>1. /\ pc = "send_connect" /\ SockSend(ConnectMsg, o) /\ ConnectionLost(o)
        /\ pc' \in {"idle", "recv", "aborted", "connect"}
        /\ pc' = "connect" => o = "conn"
        /\ pc' = "aborted" => dp_sock = NO_SOCK
        /\ UNCHANGED <<inc, up, dp_sock, synt, in_flight, sent_to, applied,
                       seqnum, todo, unsent>>
    BY <1>3, ReturnsQuietly DEF SendConnect, SendReturns, zebraVars, histVars
  <2>2. CASE o = "conn"
    BY <2>1, <2>2 DEF PeerLost, SockSend, SendOutcome, Transient, ConnectionLost
  <2>3. CASE o # "conn"
    <3>1. UNCHANGED <<peer, rxq, inbox, is_ready, dp_sock_connected>>
      BY <1>t, <1>3, <2>1, <2>3 DEF SockSend, ConnectionLost
    <3> QED
      BY <2>1, <2>3, <3>1 DEF Still
  <2> QED
    BY <2>2, <2>3
<1> QED
  BY <1>1, <1>2, <1>3 DEF Connect

LEMMA DrainKinds ==
  ASSUME Sound, Drain
  PROVE  Still \/ PeerLost \/ DrainSent
<1>t. is_ready \in BOOLEAN /\ dp_sock_connected \in BOOLEAN /\ CacheTypeOK
  BY DEF Sound, TypeOK, ConnTypeOK
<1>1. CASE DrainDone \/ DrainNotReady
  <2>1. /\ pc = "drain" /\ pc' \in {"idle", "recv", "aborted"}
        /\ pc' = "aborted" => dp_sock = NO_SOCK
    BY <1>1, ReturnsQuietly DEF DrainDone, DrainNotReady, SendReturns
  <2>2. UNCHANGED <<peer, inc, up, rxq, inbox, dp_sock, dp_sock_connected,
                    is_ready, synt, in_flight, sent_to, applied, seqnum, todo>>
    BY <1>1 DEF DrainDone, DrainNotReady, connVars, netVars, dpVars, cacheVars,
       histVars, zebraVars
  <2>3. unsent' = unsent
    BY <1>t, <1>1, PutBack DEF DrainDone, DrainNotReady, cacheVars
  <2> QED
    BY <2>1, <2>2, <2>3 DEF Still
<1>2. CASE DrainFailed
  <2>1. PICK o \in {"again", "conn", "error"} :
          /\ SockSend(Head(unsent), o) /\ ConnectionLost(o)
          /\ pc' \in {"idle", "recv", "aborted", "connect"}
          /\ pc' = "connect" => o = "conn"
          /\ pc' = "aborted" => dp_sock = NO_SOCK
    BY <1>2, ReturnsQuietly DEF DrainFailed, SendReturns
  <2>2. /\ pc = "drain"
        /\ UNCHANGED <<inc, up, dp_sock, synt, in_flight, sent_to, applied,
                       seqnum, todo>>
    BY <1>2 DEF DrainFailed, histVars, zebraVars
  <2>3. unsent' = unsent
    BY <1>t, <1>2, PutBack DEF DrainFailed
  <2>4. CASE o = "conn"
    <3>1. is_ready
      <4>1. Head(unsent).op # "Connect"
        BY <1>t, <1>2, SeqOps DEF DrainFailed, CacheTypeOK, UnsentMsg, ObjectMsg,
           KeepaliveMsg, RefreshMsg
      <4> QED
        BY <1>2, <4>1 DEF DrainFailed, can_send_rpc_request
    <3> QED
      BY <2>1, <2>2, <2>3, <2>4, <3>1 DEF PeerLost, SockSend, SendOutcome,
         Transient, ConnectionLost
  <2>5. CASE o # "conn"
    <3>1. UNCHANGED <<peer, rxq, inbox, is_ready, dp_sock_connected>>
      BY <1>t, <2>1, <2>5 DEF SockSend, ConnectionLost
    <3> QED
      BY <2>1, <2>2, <2>3, <2>5, <3>1 DEF Still
  <2> QED
    BY <2>4, <2>5
<1> QED
  BY <1>1, <1>2 DEF Drain

LEMMA ControlUnsent ==
  ASSUME CacheTypeOK, NEW m \in {KeepaliveMsg, RefreshMsg}, unsent' = Append(unsent, m)
  PROVE  ObjsOf(unsent') = ObjsOf(unsent)
<1>1. m \in UnsentMsg /\ m.op # "Object"
  BY MsgFacts DEF KeepaliveMsg, RefreshMsg
<1> QED
  BY <1>1, ObjsAppendOther DEF CacheTypeOK

LEMMA ReceiveKinds ==
  ASSUME Sound, Receive
  PROVE  \/ Still \/ RecvUndecodable \/ PurgeRequest \/ PurgeConnect \/ PurgeDone
         \/ \E r : Reads(r) \/ Responds(r)
<1>t. CacheTypeOK
  BY DEF Sound, TypeOK
<1>1. CASE RecvNothing
  BY <1>1 DEF RecvNothing, RecvReturns, Still, connVars, netVars, dpVars,
     cacheVars, histVars, zebraVars
<1>2. ASSUME NEW r, RecvIgnored(r) PROVE Reads(r)
  BY <1>2 DEF RecvIgnored, Reads, Received, RequestOp, callVars, connVars, dpVars,
     cacheVars, histVars, zebraVars
<1>3. ASSUME NEW r, handle_rpc_control(r) PROVE Reads(r)
  <2>1. ObjsOf(unsent') = ObjsOf(unsent)
    BY <1>t, <1>3, ControlUnsent DEF handle_rpc_control, dp_msg_cache_unsent
  <2> QED
    BY <1>3, <2>1 DEF handle_rpc_control, Reads, Received, RequestOp, connVars,
       dpVars, histVars, zebraVars
<1> QED
  BY <1>1, <1>2, <1>3 DEF Receive, handle_rpc_msg, Responds

LEMMA EventKinds ==
  ASSUME Sound, Events \/ FiniEarly \/ UNCHANGED vars
  PROVE  Still
<1>t. CacheTypeOK
  BY DEF Sound, TypeOK
<1>1. CASE ConnectTimer \/ dp_sock_send_cb \/ FiniEarly \/ UNCHANGED vars
  <2>1. /\ UNCHANGED <<peer, inc, up, rxq, inbox, dp_sock, dp_sock_connected,
                       is_ready, synt, in_flight, sent_to, applied, seqnum,
                       unsent, todo>>
    BY <1>1 DEF ConnectTimer, dp_sock_send_cb, FiniEarly, vars, callVars, connVars,
       netVars, dpVars, cacheVars, histVars, zebraVars
  <2>2. \/ pc' = pc /\ resp' = resp
        \/ /\ pc = "idle" /\ pc' \in {"idle", "drain", "connect"}
           /\ pc' = "connect" => ev_connect_timer
    BY <1>1 DEF ConnectTimer, dp_sock_send_cb, FiniEarly, vars, callVars
  <2> QED
    BY <2>1, <2>2 DEF Still
<1>2. CASE dp_send_keepalive
  <2>1. ObjsOf(unsent') = ObjsOf(unsent)
    BY <1>t, <1>2, ControlUnsent DEF dp_send_keepalive, dp_msg_cache_unsent
  <2> QED
    BY <1>2, <2>1 DEF dp_send_keepalive, Still, connVars, netVars, dpVars, histVars,
       zebraVars
<1>3. CASE dp_rpc_recv
  BY <1>3 DEF dp_rpc_recv, Abort, Still, connVars, netVars, dpVars, cacheVars,
     histVars, zebraVars
<1> QED
  BY <1>1, <1>2, <1>3 DEF Events

LEMMA ProcessKinds ==
  ASSUME Sound, NEW c \in Ctx, zd_hh_process(c)
  PROVE  Still \/ ProcessQueued(c)
BY DEF zd_hh_process, ProcessAnswered, ProcessFinalizing, Still, callVars, connVars,
   netVars, dpVars, cacheVars, histVars

LEMMA StepKinds ==
  ASSUME Sound, [Next]_vars
  PROVE  \/ Still \/ PeerLost \/ ConnectSucceeds \/ Sends
         \/ RecvUndecodable \/ PurgeRequest \/ PurgeConnect \/ PurgeDone
         \/ \E r : Reads(r) \/ Responds(r)
         \/ \E c \in Ctx : ProcessQueued(c)
         \/ FiniLate
         \/ DpNext
BY ConnectKinds, DrainKinds, ReceiveKinds, EventKinds, ProcessKinds
DEF Next, CallStep, Process, Sends

-----------------------------------------------------------------------------
(***************************************************************************)
(* One Connect at most is unanswered by the live peer; none is once the    *)
(* plugin is ready, nor while it purges for the response of one.           *)
(***************************************************************************)
ConnectInv ==
  /\ OneConnect(rxq) /\ OneConnect(inbox)
  /\ ~(ConnectIn(rxq) /\ ConnectIn(inbox))
  /\ is_ready \/ pc \in {"purge", "send_connect"} =>
       ~ConnectIn(rxq) /\ ~ConnectIn(inbox)
  /\ pc = "send_connect" => ~is_ready

(***************************************************************************)
(* A peer that has not given leave to send owes no answer to an Object     *)
(* request, nor does one whose restart is being purged.                    *)
(***************************************************************************)
ObjectInv ==
  ~is_ready \/ pc = "purge" =>
    /\ ObjsOf(rxq) = {}
    /\ pc # "stopped" => ObjsOf(inbox) = {}

(***************************************************************************)
(* What is in flight was sent to this peer or to an earlier one, and to an *)
(* earlier one, dead since, if the plugin is not ready or purges.          *)
(***************************************************************************)
Bygone(k) ==
  /\ k \in 1..inc
  /\ peer # 0 => k < peer
  /\ peer = 0 /\ up => k < inc

SentInv ==
  \A m \in ObjsOf(in_flight) :
    IF is_ready /\ pc # "purge" THEN sent_to[m.ctx] \in 1..peer
    ELSE Bygone(sent_to[m.ctx])

(***************************************************************************)
(* A success on its way was earned by the request in flight that has its   *)
(* number, and a request being served is the one in flight that has it.    *)
(***************************************************************************)
ServedRight ==
  /\ \A r \in ObjsOf(rxq), m \in ObjsOf(in_flight) :
       r.ok /\ r.seqn = m.seqn => applied[m.ctx] = peer
  /\ \A n \in ObjsOf(inbox), m \in ObjsOf(in_flight) :
       n.seqn = m.seqn => n.ctx = m.ctx

\* No number on its way is one still to be sent.
NumberInv ==
  \A m \in ObjsOf(rxq) \cup ObjsOf(inbox) :
    m.seqn < seqnum /\ \A n \in ObjsOf(unsent) : m.seqn < n.seqn

TodoInv == \A c \in todo : sent_to[c] = 0

TurnInv ==
  /\ ConnectInv
  /\ ObjectInv
  /\ SentInv
  /\ ServedRight
  /\ NumberInv
  /\ TodoInv

LEMMA TurnInit == Init => TurnInv
<1> SUFFICES ASSUME Init PROVE TurnInv
  OBVIOUS
<1>1. /\ rxq = <<>> /\ inbox = <<>> /\ in_flight = <<>> /\ unsent = <<>>
      /\ pc = "connect" /\ ~is_ready
      /\ \A c \in Ctx : sent_to[c] = 0
      /\ todo = Ctx
  BY DEF Init
<1>2. ObjsOf(rxq) = {} /\ ObjsOf(inbox) = {} /\ ObjsOf(in_flight) = {}
  BY <1>1, ObjsEmpty
<1>3. OneConnect(rxq) /\ OneConnect(inbox) /\ ~ConnectIn(rxq)
  BY <1>1 DEF OneConnect, ConnectIn
<1> QED
  BY <1>1, <1>2, <1>3 DEF TurnInv, ConnectInv, ObjectInv, SentInv, ServedRight,
     NumberInv, TodoInv

(***************************************************************************)
(* A calm step takes at most a message from the socket and the oldest      *)
(* request in flight, and neither sends, connects nor gives leave to send. *)
(***************************************************************************)
Calm ==
  /\ UNCHANGED <<peer, inc, up, inbox, is_ready, sent_to, applied, seqnum>>
  /\ rxq' = rxq \/ (rxq # <<>> /\ rxq' = Tail(rxq))
  /\ in_flight' = in_flight \/ (in_flight # <<>> /\ in_flight' = Tail(in_flight))
  /\ ObjsOf(unsent') = ObjsOf(unsent)
  /\ todo' \subseteq todo
  /\ pc' \in {"purge", "send_connect", "stopped"} => pc' = pc
  /\ pc = "stopped" => pc' = pc

LEMMA CalmKeeps ==
  ASSUME Sound, TurnInv, Calm
  PROVE  TurnInv'
<1>t. /\ rxq \in Seq(Incoming) /\ in_flight \in Seq(RequestMsg)
      /\ inc \in Nat /\ peer \in 0..inc
  BY SoundFacts
<1>1. /\ ObjsOf(rxq') \subseteq ObjsOf(rxq)
      /\ ObjsOf(in_flight') \subseteq ObjsOf(in_flight)
  BY <1>t, ObjsTail DEF Calm
<1>2. /\ OneConnect(rxq) => OneConnect(rxq')
      /\ ConnectIn(rxq') => ConnectIn(rxq)
  BY <1>t, OneConnectKept, Connects DEF Calm
<1>3. ConnectInv'
  BY <1>2 DEF TurnInv, ConnectInv, Calm
<1>4. ObjectInv'
  BY <1>1 DEF TurnInv, ObjectInv, Calm
<1>5. SentInv'
  <2> SUFFICES ASSUME NEW m \in ObjsOf(in_flight)
               PROVE  IF is_ready /\ pc' # "purge" THEN sent_to[m.ctx] \in 1..peer
                      ELSE Bygone(sent_to[m.ctx])
    BY <1>1 DEF SentInv, Calm, Bygone
  <2>1. pc = "purge" => peer # 0
    BY DEF Sound, HandshakeInv, PeerInv
  <2>2. IF is_ready /\ pc # "purge" THEN sent_to[m.ctx] \in 1..peer
        ELSE Bygone(sent_to[m.ctx])
    BY DEF TurnInv, SentInv
  <2>3. CASE is_ready /\ pc = "purge" /\ pc' # "purge"
    BY <1>t, <2>1, <2>2, <2>3 DEF Bygone
  <2>4. CASE ~(is_ready /\ pc = "purge" /\ pc' # "purge")
    BY <2>2, <2>4 DEF Calm
  <2> QED
    BY <2>3, <2>4
<1>6. ServedRight'
  BY <1>1 DEF TurnInv, ServedRight, Calm
<1>7. NumberInv'
  BY <1>1 DEF TurnInv, NumberInv, Calm
<1>8. TodoInv'
  BY DEF TurnInv, TodoInv, Calm
<1> QED
  BY <1>3, <1>4, <1>5, <1>6, <1>7, <1>8 DEF TurnInv

(***************************************************************************)
(* The response to Connect is taken from the socket, or given out by a     *)
(* purge: what is in flight besides went to an earlier peer.               *)
(***************************************************************************)
Leave ==
  /\ UNCHANGED <<peer, inc, up, inbox, sent_to, applied, seqnum, unsent, todo>>
  /\ in_flight' = in_flight \/ (in_flight # <<>> /\ in_flight' = Tail(in_flight))
  /\ \/ /\ pc = "recv" /\ rxq # <<>> /\ Head(rxq).op = "Connect" /\ rxq' = Tail(rxq)
        /\ pc' \in {"drain", "purge"}
     \/ /\ pc = "purge" /\ pc' = pc /\ rxq' = rxq

LEMMA LeaveKeeps ==
  ASSUME Sound, TurnInv, Leave
  PROVE  TurnInv'
<1>t. /\ rxq \in Seq(Incoming) /\ in_flight \in Seq(RequestMsg)
      /\ inc \in Nat /\ peer \in 0..inc
  BY SoundFacts
<1>1. /\ ObjsOf(rxq') \subseteq ObjsOf(rxq)
      /\ ObjsOf(in_flight') \subseteq ObjsOf(in_flight)
  BY <1>t, ObjsTail DEF Leave
<1>2. /\ OneConnect(rxq')
      /\ ~ConnectIn(rxq') /\ ~ConnectIn(inbox)
      /\ peer # 0
  <2>1. CASE pc = "purge"
    BY <2>1 DEF Leave, TurnInv, ConnectInv, Sound, HandshakeInv, PeerInv
  <2>2. CASE pc # "purge"
    <3>1. rxq # <<>> /\ Head(rxq).op = "Connect" /\ rxq' = Tail(rxq)
      BY <2>2 DEF Leave
    <3>2. ConnectIn(rxq)
      BY <1>t, <3>1, Connects
    <3>3. OneConnect(rxq') /\ ~ConnectIn(rxq')
      BY <1>t, <3>1, OneConnectKept DEF TurnInv, ConnectInv
    <3> QED
      BY <3>2, <3>3 DEF TurnInv, ConnectInv, Sound, HandshakeInv, PeerInv
  <2> QED
    BY <2>1, <2>2
<1>3. ~is_ready \/ pc = "purge"
  <2>1. pc # "purge" => ConnectIn(rxq)
    BY <1>t, Connects DEF Leave
  <2> QED
    BY <2>1 DEF TurnInv, ConnectInv
<1>4. pc \in {"recv", "purge"} /\ pc' \in {"drain", "purge"} /\ inbox' = inbox
  BY DEF Leave
<1>5. ConnectInv'
  BY <1>2, <1>4 DEF TurnInv, ConnectInv
<1>6. ObjectInv'
  BY <1>1, <1>3, <1>4 DEF TurnInv, ObjectInv
<1>7. SentInv'
  <2> SUFFICES ASSUME NEW m \in ObjsOf(in_flight)
               PROVE  /\ sent_to[m.ctx] \in 1..peer
                      /\ Bygone(sent_to[m.ctx])
    BY <1>1 DEF SentInv, Leave, Bygone
  <2>1. Bygone(sent_to[m.ctx])
    BY <1>3 DEF TurnInv, SentInv
  <2> QED
    BY <1>t, <1>2, <2>1 DEF Bygone
<1>8. ServedRight'
  BY <1>1 DEF TurnInv, ServedRight, Leave
<1>9. NumberInv' /\ TodoInv'
  BY <1>1 DEF TurnInv, NumberInv, TodoInv, Leave
<1> QED
  BY <1>5, <1>6, <1>7, <1>8, <1>9 DEF TurnInv

(***************************************************************************)
(* When the peer is lost, all that is in flight went to it or to an        *)
(* earlier one, and none of them lives.                                    *)
(***************************************************************************)
LEMMA PeerLostKeeps ==
  ASSUME Sound, TurnInv, PeerLost
  PROVE  TurnInv'
<1>t. inc \in Nat /\ peer \in 0..inc
  BY SoundFacts
<1>1. inbox = <<>>
  BY DEF Sound, HandshakeInv, ServedInv, PeerLost
<1>2. /\ ObjsOf(rxq') = {} /\ ObjsOf(inbox') = {}
      /\ OneConnect(rxq') /\ OneConnect(inbox')
      /\ ~ConnectIn(rxq') /\ ~ConnectIn(inbox')
  BY <1>1, ObjsEmpty DEF PeerLost, OneConnect, ConnectIn
<1>3. SentInv'
  <2> SUFFICES ASSUME NEW m \in ObjsOf(in_flight) PROVE Bygone(sent_to[m.ctx])'
    BY DEF SentInv, PeerLost, Bygone
  <2> DEFINE k == sent_to[m.ctx]
  <2>1. k \in 1..peer \/ Bygone(k)
    BY DEF TurnInv, SentInv
  <2> HIDE DEF k
  <2>2. k \in 1..inc /\ (up => k < inc)
    BY <1>t, <2>1 DEF Bygone, PeerLost, PeerAlive
  <2> QED
    BY <2>2 DEF Bygone, PeerLost, k
<1>4. ConnectInv' /\ ObjectInv'
  BY <1>2 DEF ConnectInv, ObjectInv, PeerLost
<1>5. ServedRight' /\ NumberInv' /\ TodoInv'
  BY <1>2 DEF TurnInv, ServedRight, NumberInv, TodoInv, PeerLost
<1> QED
  BY <1>3, <1>4, <1>5 DEF TurnInv

(***************************************************************************)
(* Connecting: to a peer that has not heard of this plugin yet.            *)
(***************************************************************************)
LEMMA ConnectedKeeps ==
  ASSUME Sound, TurnInv, ConnectSucceeds
  PROVE  TurnInv'
<1>t. inc \in Nat /\ peer \in 0..inc /\ (up => inc > 0)
  BY SoundFacts
<1>1. /\ pc = "connect" /\ pc' = "send_connect" /\ up /\ peer' = inc
      /\ UNCHANGED <<inc, up, inbox, is_ready, unsent, in_flight, seqnum, todo,
                     sent_to, applied>>
  BY DEF ConnectSucceeds, cacheVars, zebraVars, dpVars, histVars
<1>2. peer = 0 /\ ~is_ready /\ ~ConnectIn(rxq)
  BY <1>1 DEF Sound, HandshakeInv, PeerInv
<1>3. rxq' = rxq
  BY <1>2 DEF ConnectSucceeds
<1>4. inbox = <<>>
  BY <1>t, <1>1, <1>2 DEF Sound, HandshakeInv, ServedInv, PeerAlive
<1>5. ~ConnectIn(inbox)
  BY <1>4 DEF ConnectIn
<1>6. ConnectInv'
  BY <1>1, <1>2, <1>3, <1>5 DEF TurnInv, ConnectInv
<1>7. ObjectInv'
  BY <1>1, <1>2, <1>3, <1>4, ObjsEmpty DEF TurnInv, ObjectInv
<1>8. SentInv'
  BY <1>t, <1>1, <1>2 DEF TurnInv, SentInv, Bygone
<1>9. ServedRight'
  BY <1>1, <1>2, <1>3 DEF TurnInv, ObjectInv, ServedRight
<1>10. NumberInv' /\ TodoInv'
  BY <1>1, <1>3 DEF TurnInv, NumberInv, TodoInv
<1> QED
  BY <1>6, <1>7, <1>8, <1>9, <1>10 DEF TurnInv

LEMMA ConnectSentKeeps ==
  ASSUME Sound, TurnInv, SendConnect("ok")
  PROVE  TurnInv'
<1>t. /\ inbox \in Seq(Msg) /\ in_flight \in Seq(RequestMsg)
      /\ is_ready \in BOOLEAN
  BY SoundFacts
<1>c. ConnectMsg \in Msg /\ ConnectMsg \in RequestMsg /\ ConnectMsg.op = "Connect"
  BY MsgFacts DEF ConnectMsg
<1>1. /\ pc = "send_connect" /\ SockSend(ConnectMsg, "ok") /\ ConnectionLost("ok")
      /\ in_flight' = Append(in_flight, ConnectMsg)
      /\ UNCHANGED <<inc, up, unsent, seqnum, todo, sent_to, applied>>
  BY DEF SendConnect, dp_msg_cache_inflight, zebraVars, histVars
<1>2. pc' \in {"idle", "recv", "aborted"}
  BY ReturnsQuietly DEF SendConnect
<1>3. inbox' = Append(inbox, ConnectMsg) /\ UNCHANGED <<peer, rxq, is_ready>>
  BY <1>t, <1>1 DEF SockSend, ConnectionLost
<1>4. /\ ~is_ready /\ ~ConnectIn(rxq) /\ ~ConnectIn(inbox)
  BY <1>1 DEF TurnInv, ConnectInv
<1>5. /\ ObjsOf(inbox') = ObjsOf(inbox) /\ ObjsOf(in_flight') = ObjsOf(in_flight)
      /\ OneConnect(inbox')
  <2>1. ObjsOf(Append(inbox, ConnectMsg)) = ObjsOf(inbox)
    BY <1>t, <1>c, ObjsAppendOther
  <2>2. ObjsOf(Append(in_flight, ConnectMsg)) = ObjsOf(in_flight)
    BY <1>t, <1>c, ObjsAppendOther
  <2>3. OneConnect(Append(inbox, ConnectMsg))
    BY <1>t, <1>c, <1>4, OneConnectKept DEF TurnInv, ConnectInv
  <2> QED
    BY <1>1, <1>3, <2>1, <2>2, <2>3
<1>6. ConnectInv'
  BY <1>2, <1>3, <1>4, <1>5 DEF TurnInv, ConnectInv
<1>7. ObjectInv'
  BY <1>1, <1>2, <1>3, <1>4, <1>5 DEF TurnInv, ObjectInv
<1>8. SentInv'
  BY <1>1, <1>2, <1>3, <1>4, <1>5 DEF TurnInv, SentInv, Bygone
<1>9. ServedRight' /\ NumberInv' /\ TodoInv'
  BY <1>1, <1>3, <1>5 DEF TurnInv, ServedRight, NumberInv, TodoInv
<1> QED
  BY <1>6, <1>7, <1>8, <1>9 DEF TurnInv

(***************************************************************************)
(* A message m goes to a live peer that has given leave: an Object         *)
(* request, newer than all that is in flight, or a Control.                *)
(***************************************************************************)
SendsOn(m) ==
  /\ m.op # "Connect"
  /\ IsRequest(m) => m \in RequestMsg /\ m.op = "Object" /\ m.ctx # NoCtx
  /\ ~IsRequest(m) => m.ctx = NoCtx /\ m.op # "Object"
  /\ m.op = "Object" =>
       /\ m \in ObjsOf(unsent)
       /\ \A n \in ObjsOf(Tail(unsent)) : m.seqn < n.seqn
       /\ \A n \in ObjsOf(in_flight) : n.seqn < m.seqn /\ n.ctx # m.ctx
       /\ m.seqn \in Nat /\ m.seqn < seqnum /\ m.ctx \in Ctx /\ m.ctx \notin todo
  /\ pc = "drain" /\ pc' = pc /\ is_ready /\ PeerAlive
  /\ inbox' = Append(inbox, m)
  /\ in_flight' = IF IsRequest(m) THEN Append(in_flight, m) ELSE in_flight
  /\ sent_to' = IF m.ctx # NoCtx THEN [sent_to EXCEPT ![m.ctx] = inc] ELSE sent_to
  /\ unsent # <<>> /\ unsent' = Tail(unsent)
  /\ UNCHANGED <<peer, inc, up, rxq, is_ready, synt, dp_sock, dp_sock_connected,
                 seqnum, todo, applied>>

LEMMA SentFacts ==
  ASSUME Sound, DrainSent
  PROVE  \E m \in Msg : SendsOn(m)
<1>t. unsent \in Seq(UnsentMsg)
  BY SoundFacts
<1> DEFINE m == Head(unsent)
<1>1. /\ m \in UnsentMsg /\ m \in Msg /\ m.op # "Connect"
      /\ IsRequest(m) => m \in RequestMsg /\ m.op = "Object" /\ m.ctx # NoCtx
      /\ ~IsRequest(m) => m.ctx = NoCtx /\ m.op # "Object"
  <2>1. m \in UnsentMsg
    BY <1>t, SeqOps DEF DrainSent
  <2> HIDE DEF m
  <2> QED
    BY <2>1, ConstantsOK DEF UnsentMsg, Msg, RequestMsg, ObjectMsg, KeepaliveMsg,
       RefreshMsg, IsRequest, RequestOp
<1>2. /\ pc = "drain" /\ pc' = pc /\ is_ready
      /\ SockSend(m, "ok") /\ unsent # <<>> /\ unsent' = Tail(unsent)
      /\ in_flight' = IF IsRequest(m) THEN Append(in_flight, m) ELSE in_flight
      /\ sent_to' = IF m.ctx # NoCtx THEN [sent_to EXCEPT ![m.ctx] = inc] ELSE sent_to
      /\ UNCHANGED <<inc, up, is_ready, synt, dp_sock, dp_sock_connected, seqnum,
                     todo, applied>>
  BY <1>1 DEF DrainSent, dp_msg_cache_inflight, can_send_rpc_request, callVars,
     connVars, zebraVars
<1>3. /\ PeerAlive /\ inbox' = Append(inbox, m) /\ UNCHANGED <<peer, rxq>>
  BY <1>2 DEF SockSend, SendOutcome, Transient
<1>4. m.op = "Object" =>
        /\ m \in ObjsOf(unsent)
        /\ \A n \in ObjsOf(Tail(unsent)) : m.seqn < n.seqn
        /\ \A n \in ObjsOf(in_flight) : n.seqn < m.seqn /\ n.ctx # m.ctx
        /\ m.seqn \in Nat /\ m.seqn < seqnum /\ m.ctx \in Ctx /\ m.ctx \notin todo
  <2>1. TypeOK /\ CtxOwnedOnce /\ RequestsInOrder
    BY DEF Sound
  <2> QED
    BY <1>2, <2>1, ObjectFacts
<1> HIDE DEF m
<1>5. SendsOn(m)
  BY <1>1, <1>2, <1>3, <1>4 DEF SendsOn
<1> QED
  BY <1>1, <1>5

LEMMA SentKeepsTurn ==
  ASSUME Sound, TurnInv, DrainSent
  PROVE  TurnInv'
<1>t. /\ inbox \in Seq(Msg) /\ in_flight \in Seq(RequestMsg)
      /\ unsent \in Seq(UnsentMsg)
      /\ inc \in Nat /\ peer \in 0..inc /\ (PeerAlive => peer # 0)
      /\ sent_to \in [Ctx -> Nat]
      /\ todo \subseteq Ctx
  BY SoundFacts
<1> PICK m \in Msg : SendsOn(m)
  BY SentFacts
<1>m. /\ m.op # "Connect"
      /\ IsRequest(m) => m \in RequestMsg /\ m.op = "Object" /\ m.ctx # NoCtx
      /\ ~IsRequest(m) => m.ctx = NoCtx /\ m.op # "Object"
  BY DEF SendsOn
<1>1. /\ pc = "drain" /\ pc' = pc /\ is_ready
      /\ unsent # <<>> /\ unsent' = Tail(unsent)
      /\ in_flight' = IF IsRequest(m) THEN Append(in_flight, m) ELSE in_flight
      /\ sent_to' = IF m.ctx # NoCtx THEN [sent_to EXCEPT ![m.ctx] = inc] ELSE sent_to
      /\ UNCHANGED <<inc, up, is_ready, seqnum, todo, applied>>
  BY DEF SendsOn
<1>2. /\ PeerAlive /\ inbox' = Append(inbox, m) /\ UNCHANGED <<peer, rxq>>
  BY DEF SendsOn
<1>o. /\ \A n \in ObjsOf(in_flight) : n.ctx \in Ctx /\ n.seqn \in Nat
      /\ m.op = "Object" =>
           /\ m \in ObjsOf(unsent)
           /\ \A n \in ObjsOf(Tail(unsent)) : m.seqn < n.seqn
           /\ \A n \in ObjsOf(in_flight) : n.seqn < m.seqn /\ n.ctx # m.ctx
           /\ m.seqn \in Nat /\ m.seqn < seqnum /\ m.ctx \in Ctx /\ m.ctx \notin todo
  BY ObjectFacts DEF Sound, SendsOn
<1>3. /\ ObjsOf(inbox') = ObjsOf(inbox) \cup (IF m.op = "Object" THEN {m} ELSE {})
      /\ ObjsOf(in_flight')
           = ObjsOf(in_flight) \cup (IF m.op = "Object" THEN {m} ELSE {})
      /\ ObjsOf(unsent') \subseteq ObjsOf(unsent)
      /\ OneConnect(inbox) => OneConnect(inbox')
      /\ ConnectIn(inbox') => ConnectIn(inbox)
  <2>1. ObjsOf(inbox') = ObjsOf(inbox) \cup (IF m.op = "Object" THEN {m} ELSE {})
    BY <1>t, <1>m, <1>2, ObjsAppend
  <2>2. ObjsOf(in_flight')
           = ObjsOf(in_flight) \cup (IF m.op = "Object" THEN {m} ELSE {})
    BY <1>t, <1>m, <1>1, ObjsAppend
  <2>3. ObjsOf(unsent') \subseteq ObjsOf(unsent)
    BY <1>t, <1>1, ObjsTail
  <2> QED
    BY <1>t, <1>m, <1>2, <2>1, <2>2, <2>3, OneConnectKept, Connects
<1>4. ConnectInv'
  BY <1>1, <1>2, <1>3 DEF TurnInv, ConnectInv
<1>5. ObjectInv'
  BY <1>1 DEF ObjectInv
<1>6. SentInv'
  <2> SUFFICES ASSUME NEW n \in ObjsOf(in_flight')
               PROVE  sent_to'[n.ctx] \in 1..peer
    BY <1>1, <1>2 DEF SentInv
  <2>1. peer = inc /\ inc \in 1..peer
    BY <1>t, <1>2 DEF PeerAlive
  <2>2. CASE n \in ObjsOf(in_flight)
    <3>1. sent_to[n.ctx] \in 1..peer
      BY <1>1, <2>2 DEF TurnInv, SentInv
    <3>2. sent_to'[n.ctx] \in {sent_to[n.ctx], inc}
      BY <1>t, <1>o, <1>1, <2>2
    <3> QED
      BY <2>1, <3>1, <3>2
  <2>3. CASE n = m /\ m.op = "Object"
    <3>1. sent_to'[n.ctx] = inc
      BY <1>t, <1>m, <1>o, <1>1, <2>3 DEF IsRequest, RequestOp
    <3> QED
      BY <2>1, <3>1
  <2> QED
    BY <1>3, <2>2, <2>3
<1>r. \A n \in ObjsOf(rxq) \cup ObjsOf(inbox) :
        n.seqn \in Int /\ n.seqn < seqnum /\ (m.op = "Object" => n.seqn < m.seqn)
  <2>1. /\ \A n \in ObjsOf(rxq) : n \in Incoming
        /\ \A n \in ObjsOf(inbox) : n \in Msg
    BY ObjsType, SoundFacts
  <2>2. /\ \A n \in Incoming : n.seqn \in Nat
        /\ \A n \in Msg : n.seqn \in Nat
    BY MsgFacts DEF Incoming
  <2> QED
    BY <1>o, <2>1, <2>2 DEF TurnInv, NumberInv
<1>7. ServedRight'
  <2>1. ASSUME NEW r \in ObjsOf(rxq), NEW n \in ObjsOf(in_flight'),
               r.ok, r.seqn = n.seqn
        PROVE  applied[n.ctx] = peer
    <3>1. CASE n \in ObjsOf(in_flight)
      BY <2>1, <3>1 DEF TurnInv, ServedRight
    <3>2. CASE n = m /\ m.op = "Object"
      BY <1>o, <1>r, <2>1, <3>2
    <3> QED
      BY <1>3, <3>1, <3>2
  <2>2. ASSUME NEW r \in ObjsOf(inbox'), NEW n \in ObjsOf(in_flight'),
               r.seqn = n.seqn
        PROVE  r.ctx = n.ctx
    <3>1. CASE r \in ObjsOf(inbox) /\ n \in ObjsOf(in_flight)
      BY <2>2, <3>1 DEF TurnInv, ServedRight
    <3>2. CASE r \in ObjsOf(inbox) /\ n = m /\ m.op = "Object"
      BY <1>o, <1>r, <2>2, <3>2
    <3>3. CASE r = m /\ m.op = "Object" /\ n \in ObjsOf(in_flight)
      BY <1>o, <2>2, <3>3
    <3> QED
      BY <1>3, <3>1, <3>2, <3>3
  <2> QED
    BY <1>1, <1>2, <2>1, <2>2 DEF ServedRight
<1>8. NumberInv'
  <2> SUFFICES ASSUME NEW r \in ObjsOf(rxq) \cup ObjsOf(inbox')
               PROVE  r.seqn < seqnum /\ \A n \in ObjsOf(unsent') : r.seqn < n.seqn
    BY <1>1, <1>2 DEF NumberInv
  <2>1. CASE r \in ObjsOf(rxq) \cup ObjsOf(inbox)
    BY <1>3, <2>1 DEF TurnInv, NumberInv
  <2>2. CASE r = m /\ m.op = "Object"
    BY <1>o, <1>1, <2>2
  <2> QED
    BY <1>3, <2>1, <2>2
<1>9. TodoInv'
  <2> SUFFICES ASSUME NEW c \in todo PROVE sent_to'[c] = 0
    BY <1>1 DEF TodoInv
  <2>1. sent_to[c] = 0 /\ c \in Ctx
    BY <1>t DEF TurnInv, TodoInv
  <2>2. m.ctx # NoCtx => m.op = "Object"
    BY <1>m
  <2> QED
    BY <1>t, <1>o, <1>1, <2>1, <2>2
<1> QED
  BY <1>4, <1>5, <1>6, <1>7, <1>8, <1>9 DEF TurnInv

(***************************************************************************)
(* A new request has the next number.                                      *)
(***************************************************************************)
LEMMA QueuedKeeps ==
  ASSUME Sound, TurnInv, NEW c \in Ctx, ProcessQueued(c)
  PROVE  TurnInv'
<1>t. unsent \in Seq(UnsentMsg) /\ seqnum \in Nat
  BY SoundFacts
<1> DEFINE m == dp_request_new(c)
<1>m. m \in UnsentMsg /\ m.op = "Object" /\ m.seqn = seqnum
  BY <1>t DEF dp_request_new, UnsentMsg, ObjectMsg
<1>1. /\ pc = "idle" /\ pc' = "drain" /\ todo' \subseteq todo
      /\ seqnum' = seqnum + 1 /\ unsent' = Append(unsent, m)
      /\ UNCHANGED <<peer, rxq, inc, up, inbox, is_ready, in_flight, sent_to, applied>>
  BY DEF ProcessQueued, dp_msg_cache_unsent, connVars, netVars, dpVars, histVars
<1> HIDE DEF m
<1>2. ObjsOf(unsent') = ObjsOf(unsent) \cup {m}
  BY <1>t, <1>m, <1>1, ObjsAppend
<1>3. NumberInv'
  <2> SUFFICES ASSUME NEW r \in ObjsOf(rxq) \cup ObjsOf(inbox)
               PROVE  /\ r.seqn < seqnum + 1
                      /\ \A n \in ObjsOf(unsent') : r.seqn < n.seqn
    BY <1>1 DEF NumberInv
  <2>1. r.seqn < seqnum /\ \A n \in ObjsOf(unsent) : r.seqn < n.seqn
    BY DEF TurnInv, NumberInv
  <2>2. r.seqn \in Nat
    <3>1. r \in Incoming \/ r \in Msg
      BY ObjsType, SoundFacts
    <3> QED
      BY <3>1, MsgFacts DEF Incoming
  <2> QED
    BY <1>t, <1>m, <1>2, <2>1, <2>2
<1>4. ConnectInv' /\ ObjectInv' /\ SentInv' /\ ServedRight' /\ TodoInv'
  BY <1>1 DEF TurnInv, ConnectInv, ObjectInv, SentInv, Bygone, ServedRight, TodoInv
<1> QED
  BY <1>3, <1>4 DEF TurnInv

\* The end: nothing is left on the way to the plugin, nor in flight.
LEMMA StoppedKeeps ==
  ASSUME Sound, TurnInv, FiniLate
  PROVE  TurnInv'
<1>1. /\ pc' = "stopped" /\ is_ready' = FALSE /\ rxq' = <<>>
      /\ in_flight' = <<>> /\ unsent' = <<>>
      /\ UNCHANGED <<inc, up, inbox, seqnum, todo, sent_to, applied>>
  BY DEF FiniLate, fini_dp_msg_cache, zebraVars, dpVars, histVars
<1>2. /\ ObjsOf(rxq') = {} /\ ObjsOf(in_flight') = {} /\ ObjsOf(unsent') = {}
      /\ OneConnect(rxq') /\ ~ConnectIn(rxq')
  BY <1>1, ObjsEmpty DEF OneConnect, ConnectIn
<1> QED
  BY <1>1, <1>2 DEF TurnInv, ConnectInv, ObjectInv, SentInv, ServedRight,
     NumberInv, TodoInv

-----------------------------------------------------------------------------
(***************************************************************************)
(* The steps of the dataplane.                                             *)
(***************************************************************************)
DpOnly ==
  UNCHANGED <<pc, resp, dp_sock, dp_sock_connected, is_ready, synt, peer,
              in_flight, unsent, seqnum, todo, sent_to>>

LEMMA DpStepsOnly == DpNext => DpOnly
BY DEF DpNext, DpStart, DpCrash, DpServe, DpServeConnect, DpServeObject,
   DpServeControl, DpRequestRefresh, DpRogue, DpOnly, callVars, connVars, netVars,
   cacheVars, zebraVars, histVars

\* What a message delivered, or not, leaves in the socket's queue.
LEMMA Delivered ==
  ASSUME Sound, NEW r \in Incoming, Deliver(r)
  PROVE  /\ rxq' = rxq \/ rxq' = Append(rxq, r)
         /\ r.op # "Object" => ObjsOf(rxq') = ObjsOf(rxq)
         /\ ObjsOf(rxq') \subseteq ObjsOf(rxq) \cup {r}
         /\ OneConnect(rxq) /\ (r.op = "Connect" => ~ConnectIn(rxq))
              => OneConnect(rxq')
         /\ ConnectIn(rxq') => ConnectIn(rxq) \/ r.op = "Connect"
<1>1. rxq' = rxq \/ rxq' = Append(rxq, r)
  BY DEF Deliver
<1>2. rxq \in Seq(Incoming)
  BY SoundFacts
<1>3. ObjsOf(Append(rxq, r)) = ObjsOf(rxq) \cup (IF r.op = "Object" THEN {r} ELSE {})
  BY <1>2, ObjsAppend
<1>4. ConnectIn(rxq') => ConnectIn(rxq) \/ r.op = "Connect"
  BY <1>1, <1>2, Connects
<1>5. OneConnect(rxq) /\ (r.op = "Connect" => ~ConnectIn(rxq)) => OneConnect(rxq')
  BY <1>1, <1>2, OneConnectKept
<1> QED
  BY <1>1, <1>3, <1>4, <1>5

\* Serving a message that is none of the plugin's requests, or sending one.
LEMMA OtherServed ==
  ASSUME Sound, TurnInv, DpOnly, UNCHANGED <<inc, up, applied>>,
         inbox' = inbox \/ (inbox # <<>> /\ inbox' = Tail(inbox)),
         \/ rxq' = rxq
         \/ \E r \in Incoming : r.op \notin RequestOp /\ Deliver(r)
  PROVE  TurnInv'
<1>t. inbox \in Seq(Msg)
  BY SoundFacts
<1>1. /\ ObjsOf(inbox') \subseteq ObjsOf(inbox)
      /\ OneConnect(inbox) => OneConnect(inbox')
      /\ ConnectIn(inbox') => ConnectIn(inbox)
  BY <1>t, ObjsTail, OneConnectKept, Connects
<1>2. /\ ObjsOf(rxq') = ObjsOf(rxq)
      /\ OneConnect(rxq) => OneConnect(rxq')
      /\ ConnectIn(rxq') => ConnectIn(rxq)
  BY Delivered DEF RequestOp
<1>3. ConnectInv' /\ ObjectInv'
  BY <1>1, <1>2 DEF TurnInv, ConnectInv, ObjectInv, DpOnly
<1>4. SentInv' /\ ServedRight' /\ NumberInv' /\ TodoInv'
  BY <1>1, <1>2 DEF TurnInv, SentInv, Bygone, ServedRight, NumberInv, TodoInv, DpOnly
<1> QED
  BY <1>3, <1>4 DEF TurnInv

LEMMA DpTurn ==
  ASSUME "rogue" \notin FaultKinds, Sound, TurnInv, DpNext
  PROVE  TurnInv'
<1>t. /\ inc \in Nat /\ peer \in 0..inc /\ (up => inc > 0)
      /\ inbox \in Seq(Msg) /\ rxq \in Seq(Incoming)
      /\ in_flight \in Seq(RequestMsg) /\ applied \in [Ctx -> Nat]
  BY SoundFacts
<1>d. DpOnly
  BY DpStepsOnly
<1>r. NoResp \in Incoming /\ NoResp.op = "Other"
      /\ [NoResp EXCEPT !.op = "Refresh"] \in Incoming
      /\ [NoResp EXCEPT !.op = "Refresh"].op = "Refresh"
  BY DEF NoResp, Incoming, NoInfo, RequestOp
<1>1. CASE DpStart
  <2>1. ~up /\ inc' = inc + 1 /\ UNCHANGED <<rxq, inbox, applied>>
    BY <1>1 DEF DpStart, netVars, histVars
  <2>2. SentInv'
    BY <1>t, <1>d, <2>1 DEF TurnInv, SentInv, Bygone, DpOnly
  <2>3. ConnectInv' /\ ObjectInv' /\ ServedRight' /\ NumberInv' /\ TodoInv'
    BY <1>d, <2>1 DEF TurnInv, ConnectInv, ObjectInv, ServedRight, NumberInv,
       TodoInv, DpOnly
  <2> QED
    BY <2>2, <2>3 DEF TurnInv
<1>2. CASE DpCrash
  <2>1. up' = FALSE /\ inbox' = <<>> /\ UNCHANGED <<inc, rxq, applied>>
    BY <1>2 DEF DpCrash, netVars, histVars
  <2>2. ObjsOf(inbox') = {} /\ OneConnect(inbox') /\ ~ConnectIn(inbox')
    BY <2>1, ObjsEmpty DEF OneConnect, ConnectIn
  <2>3. SentInv'
    BY <1>d, <2>1 DEF TurnInv, SentInv, Bygone, DpOnly
  <2>4. ConnectInv' /\ ObjectInv' /\ ServedRight' /\ NumberInv' /\ TodoInv'
    BY <1>d, <2>1, <2>2 DEF TurnInv, ConnectInv, ObjectInv, ServedRight, NumberInv,
       TodoInv, DpOnly
  <2> QED
    BY <2>3, <2>4 DEF TurnInv
<1>3. ASSUME NEW ok \in BOOLEAN, DpServeConnect(ok) PROVE TurnInv'
  <2> DEFINE r == [op |-> "Connect", seqn |-> Head(inbox).seqn,
                   ok |-> ok, info |-> Token(inc)]
  <2>1. /\ inbox # <<>> /\ Head(inbox).op = "Connect" /\ inbox' = Tail(inbox)
        /\ Deliver(r) /\ UNCHANGED <<inc, up, applied>> /\ up
    BY <1>3 DEF DpServeConnect, histVars
  <2>2. r \in Incoming /\ r.op = "Connect"
    <3>1. Head(inbox).seqn \in Nat
      BY <1>t, <2>1, MsgFacts, SeqOps
    <3>2. Token(inc) \in Nat \cup {NoInfo}
      BY <1>t, <2>1, ConstantsOK DEF Sound, TypeOK, PeerTypeOK
    <3> QED
      BY <3>1, <3>2 DEF Incoming, RequestOp
  <2> HIDE DEF r
  <2>3. /\ ConnectIn(inbox) /\ ~ConnectIn(inbox') /\ OneConnect(inbox')
        /\ ObjsOf(inbox') \subseteq ObjsOf(inbox)
    BY <1>t, <2>1, Connects, OneConnectKept, ObjsTail DEF TurnInv, ConnectInv
  <2>4. ~ConnectIn(rxq) /\ ~is_ready /\ pc \notin {"purge", "send_connect"}
    BY <2>3 DEF TurnInv, ConnectInv
  <2>5. ObjsOf(rxq') = ObjsOf(rxq) /\ OneConnect(rxq')
    BY <2>1, <2>2, <2>4, Delivered DEF TurnInv, ConnectInv
  <2>6. ConnectInv'
    BY <1>d, <2>3, <2>4, <2>5 DEF ConnectInv, DpOnly
  <2>7. ObjectInv'
    BY <1>d, <2>3, <2>5 DEF TurnInv, ObjectInv, DpOnly
  <2>8. SentInv' /\ ServedRight' /\ NumberInv' /\ TodoInv'
    BY <1>d, <2>1, <2>3, <2>5 DEF TurnInv, SentInv, Bygone, ServedRight, NumberInv,
       TodoInv, DpOnly
  <2> QED
    BY <2>6, <2>7, <2>8 DEF TurnInv
<1>4. ASSUME NEW ok \in BOOLEAN, DpServeObject(ok) PROVE TurnInv'
  <2> DEFINE m == Head(inbox)
             r == [op |-> "Object", seqn |-> m.seqn, ok |-> ok, info |-> NoInfo]
  <2>1. /\ up /\ inbox # <<>> /\ m.op = "Object" /\ inbox' = Tail(inbox)
        /\ applied' = IF ok THEN [applied EXCEPT ![m.ctx] = inc] ELSE applied
        /\ Deliver(r) /\ UNCHANGED <<inc, up>>
    BY <1>4 DEF DpServeObject
  <2>2. /\ m \in Msg /\ m \in ObjsOf(inbox) /\ m.seqn \in Nat /\ m.ctx \in Ctx
        /\ r \in Incoming /\ r.op = "Object" /\ r.seqn = m.seqn /\ r.ok = ok
    <3>1. m \in Msg /\ m \in ObjsOf(inbox)
      BY <1>t, <2>1, SeqOps, ObjsTail
    <3>2. m.seqn \in Nat /\ m.ctx \in Ctx
      BY <2>1, <3>1 DEF Msg, RequestMsg, UnsentMsg, ObjectMsg, ConnectMsg,
         KeepaliveMsg, RefreshMsg
    <3> QED
      BY <3>1, <3>2 DEF Incoming, RequestOp, NoInfo
  <2> HIDE DEF m, r
  <2>3. /\ OneConnect(inbox) => OneConnect(inbox')
        /\ ConnectIn(inbox') => ConnectIn(inbox)
        /\ ObjsOf(inbox') \subseteq ObjsOf(inbox)
    BY <1>t, <2>1, Connects, OneConnectKept, ObjsTail
  <2>4. /\ ObjsOf(rxq') \subseteq ObjsOf(rxq) \cup {r}
        /\ OneConnect(rxq) => OneConnect(rxq')
        /\ ConnectIn(rxq') => ConnectIn(rxq)
    BY <2>1, <2>2, Delivered
  <2>5. CASE pc = "stopped"
    <3>1. dp_sock = NO_SOCK /\ ~is_ready
      BY <2>5 DEF Sound, HandshakeInv, PeerInv
    <3>2. rxq' = rxq /\ ObjsOf(rxq) = {}
      BY <2>1, <3>1 DEF Deliver, PluginBound, TurnInv, ObjectInv
    <3> QED
      BY <1>d, <2>1, <2>3, <2>5, <3>2 DEF TurnInv, ConnectInv, ObjectInv, SentInv,
         Bygone, ServedRight, NumberInv, TodoInv, DpOnly
  <2>6. CASE pc # "stopped"
    <3>1. peer = inc /\ peer # 0
      BY <1>t, <2>1, <2>6 DEF Sound, HandshakeInv, ServedInv, PeerAlive
    <3>2. is_ready /\ pc # "purge"
      BY <2>2, <2>6 DEF TurnInv, ObjectInv
    <3>3. ConnectInv' /\ ObjectInv'
      BY <1>d, <2>3, <2>4, <3>2 DEF TurnInv, ConnectInv, ObjectInv, DpOnly
    <3>4. \A c \in Ctx : applied'[c] = applied[c] \/ applied'[c] = peer
      BY <1>t, <2>1, <2>2, <3>1
    <3>c. \A n \in ObjsOf(in_flight) : n.ctx \in Ctx
      BY ObjectFacts DEF Sound
    <3>5. ServedRight'
      <4>1. ASSUME NEW q \in ObjsOf(rxq'), NEW n \in ObjsOf(in_flight),
                   q.ok, q.seqn = n.seqn
            PROVE  applied'[n.ctx] = peer
        <5>1. CASE q \in ObjsOf(rxq)
          BY <3>4, <3>c, <4>1, <5>1 DEF TurnInv, ServedRight
        <5>2. CASE q = r
          <6>1. n.ctx = m.ctx
            BY <2>2, <4>1, <5>2 DEF TurnInv, ServedRight
          <6> QED
            BY <1>t, <2>1, <2>2, <3>1, <4>1, <5>2, <6>1
        <5> QED
          BY <2>4, <5>1, <5>2
      <4> QED
        BY <1>d, <2>3, <4>1 DEF TurnInv, ServedRight, DpOnly
    <3>6. NumberInv'
      BY <1>d, <2>2, <2>3, <2>4 DEF TurnInv, NumberInv, DpOnly
    <3>7. SentInv' /\ TodoInv'
      BY <1>d, <2>1 DEF TurnInv, SentInv, Bygone, TodoInv, DpOnly
    <3> QED
      BY <3>3, <3>5, <3>6, <3>7 DEF TurnInv
  <2> QED
    BY <2>5, <2>6
<1>5. CASE DpServeControl
  <2>1. /\ inbox # <<>> /\ inbox' = Tail(inbox) /\ UNCHANGED <<inc, up, applied, rxq>>
    BY <1>5 DEF DpServeControl, netVars, histVars
  <2> QED
    BY <1>d, <2>1, OtherServed
<1>6. CASE DpRequestRefresh
  <2>1. /\ Deliver([NoResp EXCEPT !.op = "Refresh"]) /\ inbox' = inbox
        /\ UNCHANGED <<inc, up, applied>>
    BY <1>6 DEF DpRequestRefresh, histVars
  <2> QED
    BY <1>d, <1>r, <2>1, OtherServed DEF RequestOp
<1>7. ASSUME NEW r \in RogueMsgs, DpRogue(r) PROVE TurnInv'
  <2>1. r.op = "Other"
    BY <1>7 DEF DpRogue, CanFault
  <2>2. r = NoResp
    BY <2>1 DEF RogueMsgs
  <2>3. Deliver(NoResp) /\ inbox' = inbox /\ UNCHANGED <<inc, up, applied>>
    BY <1>7, <2>2 DEF DpRogue, dpVars, histVars
  <2> QED
    BY <1>d, <1>r, <2>3, OtherServed DEF RequestOp
<1> QED
  BY <1>1, <1>2, <1>3, <1>4, <1>5, <1>6, <1>7 DEF DpNext, DpServe

-----------------------------------------------------------------------------
(***************************************************************************)
(* Every step keeps it.                                                    *)
(***************************************************************************)
LEMMA RespondsTurn ==
  ASSUME Sound, TurnInv, NEW r, Responds(r)
  PROVE  TurnInv'
<1>1. /\ pc = "recv" /\ rxq # <<>> /\ r = Head(rxq) /\ rxq' = Tail(rxq)
      /\ UNCHANGED <<peer, inc, up, inbox, sent_to, applied, seqnum, unsent, todo>>
  BY DEF Responds, RecvRestart, RecvUnsolicited, RecvMismatch, RecvConnectResponse,
     handle_rpc_ctx_response, Received, dpVars, histVars, cacheVars, zebraVars
<1>2. in_flight' = in_flight \/ (in_flight # <<>> /\ in_flight' = Tail(in_flight))
  BY DEF Responds, RecvRestart, RecvUnsolicited, RecvMismatch, RecvConnectResponse,
     handle_rpc_ctx_response, cacheVars
<1>3. CASE RecvRestart(r)
  <2>1. pc' = "purge" /\ r.op = "Connect"
    BY <1>3 DEF RecvRestart, RestartDetected
  <2> QED
    BY <1>1, <1>2, <2>1, LeaveKeeps DEF Leave
<1>4. CASE RecvConnectResponse(r) /\ r.ok
  <2>1. pc' = "drain" /\ r.op = "Connect"
    BY <1>4 DEF RecvConnectResponse
  <2> QED
    BY <1>1, <1>2, <2>1, LeaveKeeps DEF Leave
<1>5. CASE RecvConnectResponse(r) /\ ~r.ok
  <2>1. pc' = "aborted" /\ is_ready' = is_ready
    BY <1>5 DEF RecvConnectResponse
  <2> QED
    BY <1>1, <1>2, <2>1, CalmKeeps DEF Calm
<1>6. CASE RecvUnsolicited(r) \/ RecvMismatch(r) \/ handle_rpc_ctx_response(r)
  <2>1. pc' \in {"recv", "aborted"} /\ is_ready' = is_ready
    BY <1>1, <1>6 DEF RecvUnsolicited, RecvMismatch, handle_rpc_ctx_response, Abort,
       connVars, callVars
  <2> QED
    BY <1>1, <1>2, <2>1, CalmKeeps DEF Calm
<1> QED
  BY <1>3, <1>4, <1>5, <1>6 DEF Responds

LEMMA PurgeTurn ==
  ASSUME Sound, TurnInv, PurgeRequest \/ PurgeConnect \/ PurgeDone
  PROVE  TurnInv'
<1>1. /\ pc = "purge" /\ rxq' = rxq
      /\ UNCHANGED <<peer, inc, up, inbox, sent_to, applied, seqnum, unsent, todo>>
      /\ in_flight' = in_flight \/ (in_flight # <<>> /\ in_flight' = Tail(in_flight))
  BY DEF PurgeRequest, PurgeConnect, PurgeDone, netVars, dpVars, histVars, cacheVars,
     zebraVars
<1>2. CASE is_ready' = is_ready
  <2>1. pc' \in {"purge", "aborted", "recv"}
    BY <1>1 DEF PurgeRequest, PurgeConnect, PurgeDone, callVars
  <2> QED
    BY <1>1, <1>2, <2>1, CalmKeeps DEF Calm
<1>3. CASE is_ready' # is_ready
  <2>1. pc' = "purge"
    BY <1>1, <1>3 DEF PurgeRequest, PurgeConnect, PurgeDone, connVars
  <2> QED
    BY <1>1, <2>1, LeaveKeeps DEF Leave
<1> QED
  BY <1>2, <1>3

LEMMA TurnStep ==
  ASSUME "rogue" \notin FaultKinds, Sound, TurnInv, [Next]_vars
  PROVE  TurnInv'
<1>1. CASE Still
  BY <1>1, CalmKeeps DEF Still, Calm
<1>2. ASSUME NEW r, Reads(r) PROVE TurnInv'
  BY <1>2, CalmKeeps DEF Reads, Received, Calm
<1>3. CASE RecvUndecodable
  <2>1. pc = "recv" /\ pc' = "idle" /\ rxq # <<>> /\ rxq' = Tail(rxq)
    BY <1>3 DEF RecvUndecodable, Received, RecvReturns
  <2> QED
    BY <1>3, <2>1, CalmKeeps DEF RecvUndecodable, Calm, dpVars, connVars, cacheVars,
       histVars, zebraVars
<1> QED
  BY <1>1, <1>2, <1>3, StepKinds, PeerLostKeeps, ConnectedKeeps, ConnectSentKeeps,
     SentKeepsTurn, RespondsTurn, PurgeTurn, QueuedKeeps, StoppedKeeps, DpTurn
  DEF Sends

(***************************************************************************)
(* The invariant of the conversation, whatever responses are lost or       *)
(* refused, sync tokens repeated and sends failed.                         *)
(***************************************************************************)
THEOREM TurnInvariant == "rogue" \notin FaultKinds => (Spec => [](Sound /\ TurnInv))
<1> SUFFICES ASSUME "rogue" \notin FaultKinds PROVE Spec => [](Sound /\ TurnInv)
  OBVIOUS
<1>1. Init => TypeOK /\ HandshakeInv /\ TurnInv
  BY InitTypeOK, HandshakeInit, TurnInit
<1>2. /\ TypeOK /\ HandshakeInv /\ TurnInv
      /\ CtxOwnedOnce /\ RequestsInOrder /\ [Next]_vars
      => (TypeOK /\ HandshakeInv /\ TurnInv)'
  BY StepTypeOK, HandshakeStep, TurnStep DEF Sound
<1>3. TypeOK /\ HandshakeInv /\ CtxOwnedOnce /\ RequestsInOrder => Sound
  BY DEF Sound
<1> QED
  BY <1>1, <1>2, <1>3, PluginInvariant, PTL DEF Spec

-----------------------------------------------------------------------------
(***************************************************************************)
(* The steps that answer zebra.                                            *)
(***************************************************************************)
LEMMA AnswerKinds ==
  ASSUME TypeOK, [Next]_vars, NewAnswer
  PROVE  \/ pc = "recv" /\ rxq # <<>> /\ handle_rpc_ctx_response(Head(rxq))
         \/ PurgeRequest
         \/ \E c \in Ctx : ProcessAnswered(c) \/ ProcessFinalizing(c)
<1> DEFINE Silent == out' = out
<1>1. ~Silent
  BY LenProperties DEF NewAnswer, TypeOK, CacheTypeOK
<1>2. Connect \/ Drain \/ Events \/ FiniEarly \/ FiniLate \/ UNCHANGED vars => Silent
  BY DEF Connect, ConnectNoSock, ConnectFails, ConnectSucceeds, SendConnect,
     Drain, DrainDone, DrainNotReady, DrainSent, DrainFailed,
     Events, ConnectTimer, dp_sock_send_cb, dp_send_keepalive, dp_rpc_recv,
     FiniEarly, FiniLate, vars, zebraVars
<1>3. DpNext => Silent
  BY DEF DpNext, DpStart, DpCrash, DpServe, DpServeConnect, DpServeObject,
     DpServeControl, DpRequestRefresh, DpRogue, zebraVars
<1>4. CASE Receive
  BY <1>1, <1>4 DEF Receive, RecvNothing, RecvUndecodable, handle_rpc_msg,
     RecvIgnored, handle_rpc_control, RecvRestart, RecvUnsolicited, RecvMismatch,
     RecvConnectResponse, PurgeConnect, PurgeDone, zebraVars
<1>5. CASE Process
  BY <1>1, <1>5 DEF Process, zd_hh_process, ProcessQueued
<1> QED
  BY <1>1, <1>2, <1>3, <1>4, <1>5 DEF Next, CallStep

\* The answer a step appends is the one it gives.
LEMMA LastAnswer ==
  ASSUME TypeOK, NEW c, NEW d \in Ctx, NEW res \in {"success", "failure"},
         out' = Append(out, <<d, res>>), out'[Len(out')] = <<c, "success">>
  PROVE  c = d /\ res = "success"
<1>1. out \in Seq(Ctx \X {"success", "failure"})
  BY DEF TypeOK, CacheTypeOK
<1>2. Append(out, <<d, res>>)[Len(Append(out, <<d, res>>))] = <<d, res>>
  BY <1>1, AppendProperties, LenProperties
<1>3. <<d, res>> = <<c, "success">>
  BY <1>2
<1> QED
  BY <1>3

(***************************************************************************)
(* Zebra is told of a success only when it was earned: a request that went *)
(* to the live incarnation is answered by its response alone, and a        *)
(* response that says success comes from the incarnation that applied it;  *)
(* what a purge answers went to an incarnation that is dead.               *)
(***************************************************************************)
SuccessEarned ==
  \A c \in Ctx :
    NewAnswer /\ out'[Len(out')] = <<c, "success">> /\ sent_to[c] = inc
    /\ sent_to[c] # 0
      => applied[c] = inc

LEMMA SuccessStep ==
  ASSUME Sound, TurnInv, [Next]_vars
  PROVE  SuccessEarned
<1> SUFFICES ASSUME NEW c \in Ctx, NewAnswer, out'[Len(out')] = <<c, "success">>,
                    sent_to[c] = inc, sent_to[c] # 0
             PROVE  applied[c] = inc
  BY DEF SuccessEarned
<1>t. /\ rxq \in Seq(Incoming) /\ in_flight \in Seq(RequestMsg)
      /\ inc \in Nat /\ peer \in 0..inc /\ todo \subseteq Ctx /\ TypeOK
  BY SoundFacts DEF Sound
<1>o. \A m \in ObjsOf(in_flight) : m.ctx \in Ctx
  BY ObjectFacts DEF Sound
<1>1. CASE pc = "recv" /\ rxq # <<>> /\ handle_rpc_ctx_response(Head(rxq))
  <2> DEFINE r == Head(rxq)
             m == Head(in_flight)
  <2>1. /\ r \in ObjsOf(rxq) /\ m \in ObjsOf(in_flight) /\ r.seqn = m.seqn
        /\ r \in Incoming
    <3>1. r.op = "Object" /\ m.op = "Object" /\ r.seqn = m.seqn /\ in_flight # <<>>
      BY <1>1 DEF handle_rpc_ctx_response, got_expected_response
    <3> QED
      BY <1>t, <1>1, <3>1, ObjsTail, SeqOps
  <2>2. out' = Append(out, <<m.ctx, Result(r.ok)>>)
    BY <1>1 DEF handle_rpc_ctx_response, dp_msg_hand_off
  <2> HIDE DEF r, m
  <2>3. m.ctx \in Ctx /\ Result(r.ok) \in {"success", "failure"}
    BY <1>o, <2>1 DEF Result
  <2>4. c = m.ctx /\ Result(r.ok) = "success"
    BY <1>t, <2>2, <2>3, LastAnswer
  <2>5. r.ok
    BY <2>1, <2>4 DEF Result, Incoming
  <2>6. is_ready /\ pc # "purge"
    BY <1>1, <2>1 DEF TurnInv, ObjectInv
  <2>7. sent_to[c] \in 1..peer
    BY <2>1, <2>4, <2>6 DEF TurnInv, SentInv
  <2>8. applied[c] = peer
    BY <2>1, <2>4, <2>5 DEF TurnInv, ServedRight
  <2> QED
    BY <1>t, <2>7, <2>8
<1>2. CASE PurgeRequest
  <2> DEFINE m == Head(in_flight)
  <2>1. m \in ObjsOf(in_flight)
    <3>1. m \in RequestMsg /\ m.op # "Connect" /\ in_flight # <<>>
      BY <1>t, <1>2, SeqOps DEF PurgeRequest
    <3>2. m.op = "Object"
      BY <3>1 DEF RequestMsg, ObjectMsg, ConnectMsg
    <3> QED
      BY <1>t, <3>1, <3>2, ObjsTail
  <2>2. out' = Append(out, <<m.ctx, Result(TRUE)>>) /\ pc = "purge"
    BY <1>2 DEF PurgeRequest, dp_msg_hand_off
  <2> HIDE DEF m
  <2>3. c = m.ctx
    BY <1>t, <1>o, <2>1, <2>2, LastAnswer DEF Result
  <2>4. peer # 0
    BY <2>2 DEF Sound, HandshakeInv, PeerInv
  <2>5. Bygone(sent_to[c])
    BY <2>1, <2>2, <2>3 DEF TurnInv, SentInv
  <2> QED
    BY <1>t, <2>4, <2>5 DEF Bygone
<1>3. ASSUME NEW d \in Ctx, ProcessAnswered(d) PROVE FALSE
  <2>1. PICK res \in Outcomes : out' = Append(out, <<d, hh_ret_to_zebra(res)>>)
    BY <1>3 DEF ProcessAnswered
  <2>2. hh_ret_to_zebra(res) \in {"success", "failure"}
    BY DEF hh_ret_to_zebra
  <2>3. c = d /\ d \in todo
    BY <1>t, <1>3, <2>1, <2>2, LastAnswer DEF ProcessAnswered
  <2> QED
    BY <2>3 DEF TurnInv, TodoInv
<1>4. ASSUME NEW d \in Ctx, ProcessFinalizing(d) PROVE FALSE
  <2>1. out' = Append(out, <<d, "failure">>)
    BY <1>4 DEF ProcessFinalizing, Result
  <2>2. "failure" = "success"
    BY <1>t, <2>1, LastAnswer
  <2> QED
    BY <2>2
<1> QED
  BY <1>t, <1>1, <1>2, <1>3, <1>4, AnswerKinds

(***************************************************************************)
(* So no step ever reports a success to zebra that the live dataplane has  *)
(* not earned: neither a response nor the successes the purge fakes.       *)
(***************************************************************************)
THEOREM SuccessAlwaysEarned == "rogue" \notin FaultKinds => (Spec => NoFalseSuccess)
<1> SUFFICES ASSUME "rogue" \notin FaultKinds PROVE Spec => NoFalseSuccess
  OBVIOUS
<1>1. (Sound /\ TurnInv) /\ [Next]_vars => [SuccessEarned]_vars
  BY SuccessStep
<1>2. Spec => [][SuccessEarned]_vars
  BY <1>1, TurnInvariant, PTL DEF Spec
<1> QED
  BY <1>2 DEF NoFalseSuccess, SuccessEarned

\* A queue without Connect and Object messages has nothing to be answered.
LEMMA AwaitedNone ==
  ASSUME NEW q, ~ConnectIn(q), ObjsOf(q) = {}
  PROVE  Awaited(q) = {}
<1> SUFFICES ASSUME NEW i \in DOMAIN q, q[i].op \in RequestOp PROVE FALSE
  BY DEF Awaited
<1>1. q[i].op # "Connect"
  BY DEF ConnectIn
<1>2. q[i].op # "Object"
  BY DEF ObjsOf
<1> QED
  BY <1>1, <1>2 DEF RequestOp

(***************************************************************************)
(* A purge repairs the conversation, even one that a lost response had     *)
(* shifted: at its end the live incarnation owes no response.              *)
(***************************************************************************)
THEOREM PurgeAlwaysRealigns == "rogue" \notin FaultKinds => (Spec => []PurgeRealigns)
<1> SUFFICES ASSUME "rogue" \notin FaultKinds PROVE Spec => []PurgeRealigns
  OBVIOUS
<1>1. Sound /\ TurnInv => PurgeRealigns
  BY AwaitedNone DEF PurgeRealigns, TurnInv, ConnectInv, ObjectInv
<1> QED
  BY <1>1, TurnInvariant, PTL

-----------------------------------------------------------------------------
(***************************************************************************)
(* The conversation is never shifted, when the dataplane answers in order  *)
(* and no two of its incarnations report the same sync token.              *)
(***************************************************************************)
TokensDiffer ==
  /\ \A i \in 1..MaxInc : Token(i) # NoInfo /\ Token(i) # 0
  /\ \A i, j \in 1..MaxInc : Token(i) = Token(j) => i = j

AnswersInOrder == {"decode", "rogue"} \cap FaultKinds = {} /\ TokensDiffer

ConnsOf(q) == {q[i] : i \in {j \in DOMAIN q : q[j].op = "Connect"}}

ConnectLast(q) == \A i \in DOMAIN q : q[i].op = "Connect" => i = Len(q)

Nums(q) == {m.seqn : m \in ObjsOf(q)}

Rising(q) ==
  \A i, j \in DOMAIN q :
    q[i].op = "Object" /\ q[j].op = "Object" /\ i < j => q[i].seqn < q[j].seqn

(***************************************************************************)
(* What Append() and Tail() make of them.                                  *)
(***************************************************************************)
LEMMA ConnsKept ==
  ASSUME NEW S, NEW s \in Seq(S)
  PROVE  /\ ConnsOf(<<>>) = {}
         /\ \A e \in S : ConnsOf(Append(s, e)) \subseteq ConnsOf(s) \cup {e}
         /\ \A e \in S : e.op # "Connect" => ConnsOf(Append(s, e)) \subseteq ConnsOf(s)
         /\ s # <<>> =>
              /\ ConnsOf(Tail(s)) \subseteq ConnsOf(s)
              /\ Head(s).op = "Connect" => Head(s) \in ConnsOf(s)
BY QueueElems, EmptySeq DEF ConnsOf

LEMMA ConnectLastKept ==
  ASSUME NEW S, NEW s \in Seq(S)
  PROVE  /\ ConnectLast(<<>>)
         /\ ~ConnectIn(s) => \A e \in S : ConnectLast(Append(s, e))
         /\ s # <<>> /\ ConnectLast(s) =>
              /\ ConnectLast(Tail(s))
              /\ Head(s).op = "Connect" => Tail(s) = <<>>
              /\ Head(s).op # "Connect" /\ ConnectIn(s) => ConnectIn(Tail(s))
<1>1. ConnectLast(<<>>)
  BY DEF ConnectLast
<1>2. ASSUME ~ConnectIn(s), NEW e \in S PROVE ConnectLast(Append(s, e))
  BY <1>2, AppendProperties, LenProperties DEF ConnectLast, ConnectIn
<1>3. ASSUME s # <<>>, ConnectLast(s)
      PROVE  /\ ConnectLast(Tail(s))
             /\ Head(s).op = "Connect" => Tail(s) = <<>>
             /\ Head(s).op # "Connect" /\ ConnectIn(s) => ConnectIn(Tail(s))
  <2> DEFINE t == Tail(s)
  <2>1. /\ DOMAIN s = 1..Len(s) /\ Len(s) \in Nat \ {0}
        /\ Head(s) = s[1]
        /\ DOMAIN t = 1..Len(t) /\ Len(t) = Len(s) - 1
        /\ \A i \in 1..Len(t) : t[i] = s[i + 1]
        /\ t \in Seq(S)
    BY <1>3, HeadTailProperties, LenProperties, EmptySeq
  <2> HIDE DEF t
  <2>2. ConnectLast(t)
    BY <1>3, <2>1 DEF ConnectLast
  <2>3. Head(s).op = "Connect" => t = <<>>
    <3> HAVE Head(s).op = "Connect"
    <3>1. Len(t) = 0
      BY <1>3, <2>1 DEF ConnectLast
    <3> QED
      BY <2>1, <3>1, EmptySeq
  <2>4. ASSUME Head(s).op # "Connect", ConnectIn(s) PROVE ConnectIn(t)
    <3>1. PICK i \in DOMAIN s : s[i].op = "Connect"
      BY <2>4 DEF ConnectIn
    <3>2. i - 1 \in DOMAIN t /\ t[i - 1] = s[i]
      BY <2>1, <2>4, <3>1
    <3> QED
      BY <3>1, <3>2 DEF ConnectIn
  <2> QED
    BY <2>2, <2>3, <2>4 DEF t
<1> QED
  BY <1>1, <1>2, <1>3

LEMMA RisingNone == ASSUME NEW q, ObjsOf(q) = {} PROVE Rising(q)
BY DEF Rising, ObjsOf

LEMMA RisingAppend ==
  ASSUME NEW S, NEW s \in Seq(S), NEW e \in S, Rising(s),
         e.op = "Object" => \A m \in ObjsOf(s) : m.seqn < e.seqn
  PROVE  Rising(Append(s, e))
<1> DEFINE t == Append(s, e)
<1>1. /\ DOMAIN s = 1..Len(s) /\ Len(s) \in Nat
      /\ DOMAIN t = 1..(Len(s) + 1)
      /\ \A i \in 1..Len(s) : t[i] = s[i]
      /\ t[Len(s) + 1] = e
  BY AppendProperties, LenProperties
<1> HIDE DEF t
<1>2. SUFFICES ASSUME NEW i \in DOMAIN t, NEW j \in DOMAIN t, i < j,
                      t[i].op = "Object", t[j].op = "Object"
               PROVE  t[i].seqn < t[j].seqn
  BY DEF Rising, t
<1>3. i \in 1..Len(s) /\ t[i] = s[i]
  BY <1>1, <1>2
<1>4. CASE j \in 1..Len(s)
  BY <1>1, <1>2, <1>3, <1>4 DEF Rising
<1>5. CASE j = Len(s) + 1
  <2>1. s[i] \in ObjsOf(s)
    BY <1>1, <1>2, <1>3 DEF ObjsOf
  <2> QED
    BY <1>1, <1>2, <1>3, <1>5, <2>1
<1> QED
  BY <1>1, <1>4, <1>5

LEMMA RisingTail ==
  ASSUME NEW S, NEW s \in Seq(S), s # <<>>
  PROVE  /\ Rising(s) =>
              /\ Rising(Tail(s))
              /\ Head(s).op = "Object" => \A m \in ObjsOf(Tail(s)) : Head(s).seqn < m.seqn
         /\ ObjsOf(s) = ObjsOf(Tail(s)) \cup (IF Head(s).op = "Object" THEN {Head(s)} ELSE {})
<1> DEFINE t == Tail(s)
<1>1. /\ DOMAIN s = 1..Len(s) /\ Len(s) \in Nat \ {0}
      /\ Head(s) = s[1]
      /\ DOMAIN t = 1..(Len(s) - 1)
      /\ \A i \in 1..(Len(s) - 1) : t[i] = s[i + 1]
  BY HeadTailProperties, LenProperties, EmptySeq
<1> HIDE DEF t
<1>2. Rising(s) => Rising(t)
  <2> SUFFICES ASSUME Rising(s), NEW i \in DOMAIN t, NEW j \in DOMAIN t, i < j,
                      t[i].op = "Object", t[j].op = "Object"
               PROVE  t[i].seqn < t[j].seqn
    BY DEF Rising
  <2>1. i + 1 \in DOMAIN s /\ j + 1 \in DOMAIN s /\ i + 1 < j + 1
        /\ t[i] = s[i + 1] /\ t[j] = s[j + 1]
    BY <1>1
  <2> QED
    BY <2>1 DEF Rising
<1>3. ASSUME Rising(s), Head(s).op = "Object", NEW m \in ObjsOf(t)
      PROVE  Head(s).seqn < m.seqn
  <2>1. PICK i \in DOMAIN t : m = t[i] /\ t[i].op = "Object"
    BY <1>3 DEF ObjsOf
  <2>2. 1 \in DOMAIN s /\ i + 1 \in DOMAIN s /\ 1 < i + 1 /\ t[i] = s[i + 1]
    BY <1>1
  <2> QED
    BY <1>1, <1>3, <2>1, <2>2 DEF Rising
<1>4. ASSUME NEW m \in ObjsOf(s), m \notin ObjsOf(t) PROVE m = Head(s) /\ m.op = "Object"
  <2>1. PICK i \in DOMAIN s : m = s[i] /\ s[i].op = "Object"
    BY <1>4 DEF ObjsOf
  <2>2. ASSUME i # 1 PROVE FALSE
    <3>1. i - 1 \in DOMAIN t /\ t[i - 1] = s[i]
      BY <1>1, <2>2
    <3> QED
      BY <1>4, <2>1, <3>1 DEF ObjsOf
  <2> QED
    BY <1>1, <2>1, <2>2
<1>5. /\ ObjsOf(t) \subseteq ObjsOf(s)
      /\ Head(s).op = "Object" => Head(s) \in ObjsOf(s)
  BY ObjsTail DEF t
<1> QED
  BY <1>2, <1>3, <1>4, <1>5 DEF t

-----------------------------------------------------------------------------
(***************************************************************************)
(* A Connect waits in flight, the last of the requests there, for as long  *)
(* as it or its response is under way.                                     *)
(***************************************************************************)
WaitInv ==
  /\ ConnectIn(in_flight) =>
       /\ ~is_ready /\ peer # 0
       /\ pc \notin {"connect", "send_connect", "aborted", "stopped"}
  /\ ConnectLast(in_flight)
  /\ ConnectIn(rxq) \/ ConnectIn(inbox) => pc = "stopped" \/ ConnectIn(in_flight)
  /\ dp_sock = NO_SOCK => peer = 0
  /\ pc = "aborted" => ~is_ready
  /\ pc = "stopped" => in_flight = <<>>

(***************************************************************************)
(* The sync token remembered is the peer's once the plugin is ready.       *)
(* Until then it is an earlier incarnation's, unless there was none: so a  *)
(* response to Connect reveals a restart whenever requests of before are   *)
(* still in flight.  The purge holds the peer's token.                     *)
(***************************************************************************)
TokenInv ==
  /\ \A r \in ConnsOf(rxq) : r.seqn = 0 /\ r.info = Token(peer)
  /\ pc = "purge" => /\ resp.info = Token(peer)
                     /\ ConnectIn(in_flight) \/ (is_ready /\ in_flight = <<>>)
  /\ is_ready => synt = Token(peer)
  /\ ~is_ready /\ pc # "stopped" =>
       \/ synt = 0 /\ ObjsOf(in_flight) = {}
       \/ \E k \in 1..inc : Bygone(k) /\ synt = Token(k)

(***************************************************************************)
(* Once ready, all that is in flight was sent to the peer; the responses   *)
(* that arrived are those of the oldest requests there, and while the peer *)
(* lives the others are still in its queue.                                *)
(***************************************************************************)
NumsInv ==
  is_ready =>
    /\ Rising(rxq)
    /\ \A m \in ObjsOf(in_flight) : sent_to[m.ctx] = peer
    /\ Nums(rxq) \subseteq Nums(in_flight)
    /\ \A n \in Nums(in_flight), r \in Nums(rxq) : n <= r => n \in Nums(rxq)
    /\ PeerAlive =>
         /\ Rising(inbox)
         /\ \A n \in Nums(inbox), r \in Nums(rxq) : r < n
         /\ Nums(in_flight) = Nums(rxq) \cup Nums(inbox)

AlignInv == WaitInv /\ TokenInv /\ NumsInv

LEMMA AlignInit == Init => AlignInv
<1> SUFFICES ASSUME Init PROVE AlignInv
  OBVIOUS
<1>1. /\ rxq = <<>> /\ inbox = <<>> /\ in_flight = <<>> /\ synt = 0
      /\ pc = "connect" /\ ~is_ready /\ dp_sock # NO_SOCK
  BY ConstantsOK DEF Init, NO_SOCK
<1>2. /\ ~ConnectIn(<<>>) /\ ObjsOf(<<>>) = {} /\ ConnsOf(<<>>) = {}
      /\ ConnectLast(<<>>)
  BY DEF ConnectIn, ObjsOf, ConnsOf, ConnectLast
<1> QED
  BY <1>1, <1>2 DEF AlignInv, WaitInv, TokenInv, NumsInv

LEMMA TokenFacts ==
  ASSUME Sound, TokensDiffer
  PROVE  /\ peer # 0 => /\ Token(peer) # NoInfo /\ Token(peer) # 0
                        /\ Token(peer) \in Nat
         /\ \A k \in 1..inc : Bygone(k) /\ peer # 0 => Token(k) # Token(peer)
         /\ \A k \in 1..inc : Token(k) # 0
<1>1. inc \in Nat /\ peer \in 0..inc /\ inc <= MaxInc /\ MaxInc \in Nat
  BY ConstantsOK, SoundFacts DEF Sound, TypeOK, PeerTypeOK
<1>2. \A k \in 1..inc : k \in 1..MaxInc
  BY <1>1
<1>3. peer # 0 => peer \in 1..inc
  BY <1>1
<1>4. \A k \in 1..inc : Bygone(k) /\ peer # 0 => k # peer
  BY <1>1 DEF Bygone
<1> QED
  BY <1>2, <1>3, <1>4, ConstantsOK DEF TokensDiffer

(***************************************************************************)
(* Steps that leave the conversation as it is, or take from the socket     *)
(* what is no part of it.                                                  *)
(***************************************************************************)
Aside ==
  /\ UNCHANGED <<peer, inc, up, inbox, is_ready, sent_to, in_flight, synt, dp_sock>>
  /\ ObjsOf(rxq') = ObjsOf(rxq)
  /\ ConnsOf(rxq') \subseteq ConnsOf(rxq)
  /\ ConnectIn(rxq') => ConnectIn(rxq)
  /\ Rising(rxq) => Rising(rxq')
  /\ \/ pc' = pc /\ resp' = resp
     \/ /\ pc \notin {"aborted", "stopped"}
        /\ pc' \notin {"purge", "send_connect", "stopped"}
        /\ pc' = "connect" => ev_connect_timer
        /\ pc' = "aborted" => dp_sock = NO_SOCK

LEMMA AsideKeeps ==
  ASSUME Sound, AlignInv, Aside
  PROVE  AlignInv'
<1>1. pc' # pc /\ pc' \in {"connect", "aborted"} => peer = 0
  BY DEF Aside, Sound, HandshakeInv, PeerInv, AlignInv, WaitInv
<1>2. WaitInv'
  BY <1>1 DEF AlignInv, WaitInv, Aside, Sound, HandshakeInv, PeerInv
<1>3. TokenInv'
  BY DEF AlignInv, TokenInv, Aside, Bygone
<1>4. NumsInv'
  BY DEF AlignInv, NumsInv, Aside, Nums, PeerAlive
<1> QED
  BY <1>2, <1>3, <1>4 DEF AlignInv

LEMMA StillAlign ==
  ASSUME Sound, AlignInv, Still
  PROVE  AlignInv'
<1>1. Aside
  BY DEF Aside, Still
<1> QED
  BY <1>1, AsideKeeps

LEMMA ReadsAlign ==
  ASSUME Sound, AlignInv, NEW r, Reads(r)
  PROVE  AlignInv'
<1>t. rxq \in Seq(Incoming)
  BY SoundFacts
<1>1. /\ pc = "recv" /\ rxq # <<>> /\ Head(rxq).op \notin RequestOp /\ rxq' = Tail(rxq)
  BY DEF Reads, Received
<1>2. /\ ObjsOf(Tail(rxq)) = ObjsOf(rxq)
      /\ Rising(rxq) => Rising(Tail(rxq))
  <2>1. Head(rxq).op # "Object"
    BY <1>1 DEF RequestOp
  <2> QED
    BY <1>t, <1>1, <2>1, RisingTail
<1>3. /\ ConnsOf(Tail(rxq)) \subseteq ConnsOf(rxq)
      /\ ConnectIn(Tail(rxq)) => ConnectIn(rxq)
  BY <1>t, <1>1, ConnsKept, Connects
<1>4. Aside
  BY <1>1, <1>2, <1>3 DEF Aside, Reads
<1> QED
  BY <1>4, AsideKeeps

-----------------------------------------------------------------------------
(***************************************************************************)
(* Losing the peer, connecting and sending.                                *)
(***************************************************************************)
LEMMA PeerLostAlign ==
  ASSUME Sound, AlignInv, PeerLost
  PROVE  AlignInv'
<1>t. inc \in Nat /\ peer \in 0..inc
  BY SoundFacts
<1>1. inbox = <<>>
  BY DEF Sound, HandshakeInv, ServedInv, PeerLost
<1>2. ~ConnectIn(rxq') /\ ~ConnectIn(inbox') /\ ConnsOf(rxq') = {}
  BY <1>1 DEF PeerLost, ConnectIn, ConnsOf
<1>3. ~ConnectIn(in_flight)
  BY DEF AlignInv, WaitInv, PeerLost
<1>4. WaitInv'
  BY <1>2, <1>3 DEF AlignInv, WaitInv, PeerLost
<1>5. \A k \in 1..inc : Bygone(k) => Bygone(k)'
  BY <1>t DEF Bygone, PeerLost
<1>6. \A k \in 0..inc : is_ready /\ k = peer => k \in 1..inc /\ Bygone(k)'
  BY <1>t DEF Sound, HandshakeInv, PeerInv, Bygone, PeerLost, PeerAlive
<1>7. TokenInv'
  BY <1>t, <1>2, <1>5, <1>6 DEF AlignInv, TokenInv, PeerLost
<1>8. NumsInv'
  BY DEF NumsInv, PeerLost
<1> QED
  BY <1>4, <1>7, <1>8 DEF AlignInv

LEMMA ConnectedAlign ==
  ASSUME Sound, AlignInv, ConnectSucceeds
  PROVE  AlignInv'
<1>t. inc \in Nat /\ peer \in 0..inc
  BY SoundFacts
<1>1. /\ pc = "connect" /\ pc' = "send_connect" /\ up /\ peer' = inc
      /\ dp_sock # NO_SOCK /\ dp_sock' = dp_sock
      /\ UNCHANGED <<inc, up, inbox, is_ready, in_flight, sent_to, synt>>
  BY DEF ConnectSucceeds, cacheVars, dpVars, histVars
<1>2. peer = 0 /\ ~is_ready /\ ~ConnectIn(rxq)
  BY <1>1 DEF Sound, HandshakeInv, PeerInv
<1>3. rxq' = rxq
  BY <1>2 DEF ConnectSucceeds
<1>4. ConnsOf(rxq') = {}
  BY <1>2, <1>3 DEF ConnsOf, ConnectIn
<1>5. ~ConnectIn(in_flight)
  BY <1>1 DEF AlignInv, WaitInv
<1>6. WaitInv'
  BY <1>1, <1>2, <1>3, <1>5 DEF AlignInv, WaitInv
<1>7. \A k : Bygone(k) => Bygone(k)'
  BY <1>t, <1>1, <1>2 DEF Bygone
<1>8. TokenInv'
  BY <1>1, <1>2, <1>4, <1>7 DEF AlignInv, TokenInv
<1>9. NumsInv'
  BY <1>1, <1>2 DEF NumsInv
<1> QED
  BY <1>6, <1>8, <1>9 DEF AlignInv

\* Only a plugin without a socket aborts when its sending code returns.
LEMMA ReturnsAborting ==
  ASSUME NEW fd, NEW ev, SendReturns(fd, ev), pc' = "aborted"
  PROVE  fd = NO_SOCK
BY DEF SendReturns

LEMMA ConnectSentAlign ==
  ASSUME Sound, TurnInv, AlignInv, SendConnect("ok")
  PROVE  AlignInv'
<1>t. /\ in_flight \in Seq(RequestMsg) /\ is_ready \in BOOLEAN
      /\ inc \in Nat /\ peer \in 0..inc /\ (PeerAlive => peer # 0)
  BY SoundFacts
<1>c. ConnectMsg \in RequestMsg /\ ConnectMsg.op = "Connect"
  BY MsgFacts DEF ConnectMsg
<1>1. /\ pc = "send_connect" /\ SockSend(ConnectMsg, "ok") /\ ConnectionLost("ok")
      /\ in_flight' = Append(in_flight, ConnectMsg)
      /\ UNCHANGED <<inc, up, sent_to, synt, dp_sock>>
  BY DEF SendConnect, dp_msg_cache_inflight, zebraVars, histVars
<1>2. PeerAlive /\ UNCHANGED <<peer, rxq, is_ready>>
  BY <1>t, <1>1 DEF SockSend, SendOutcome, Transient, ConnectionLost
<1>3. ~is_ready /\ dp_sock # NO_SOCK
  BY <1>t, <1>1, <1>2 DEF TurnInv, ConnectInv, AlignInv, WaitInv
<1>4. pc' \in {"idle", "recv"}
  BY <1>3, ReturnsQuietly, ReturnsAborting DEF SendConnect
<1>5. ~ConnectIn(in_flight)
  BY <1>1 DEF AlignInv, WaitInv
<1>6. /\ ConnectLast(in_flight')
      /\ ConnectIn(in_flight')
      /\ ObjsOf(in_flight') = ObjsOf(in_flight)
  <2>1. ConnectLast(Append(in_flight, ConnectMsg))
    BY <1>t, <1>c, <1>5, ConnectLastKept
  <2>2. ConnectIn(Append(in_flight, ConnectMsg))
    BY <1>t, <1>c, AppendProperties, LenProperties DEF ConnectIn
  <2>3. ObjsOf(Append(in_flight, ConnectMsg)) = ObjsOf(in_flight)
    BY <1>t, <1>c, ObjsAppendOther
  <2> QED
    BY <1>1, <2>1, <2>2, <2>3
<1>7. WaitInv'
  BY <1>t, <1>1, <1>2, <1>3, <1>4, <1>6 DEF AlignInv, WaitInv
<1>8. TokenInv'
  BY <1>1, <1>2, <1>3, <1>4, <1>6 DEF AlignInv, TokenInv, Bygone
<1>9. NumsInv'
  BY <1>2, <1>3 DEF NumsInv
<1> QED
  BY <1>7, <1>8, <1>9 DEF AlignInv

LEMMA SentAlign ==
  ASSUME Sound, TurnInv, AlignInv, DrainSent
  PROVE  AlignInv'
<1>t. /\ inbox \in Seq(Msg) /\ in_flight \in Seq(RequestMsg)
      /\ inc \in Nat /\ peer \in 0..inc /\ (PeerAlive => peer # 0)
      /\ sent_to \in [Ctx -> Nat]
  BY SoundFacts
<1> PICK m \in Msg : SendsOn(m)
  BY SentFacts
<1>1. /\ pc = "drain" /\ pc' = pc /\ is_ready /\ PeerAlive /\ peer = inc
      /\ UNCHANGED <<peer, inc, up, rxq, is_ready, synt, dp_sock>>
      /\ m.op # "Connect"
  BY DEF SendsOn, PeerAlive
<1>2. ~ConnectIn(in_flight) /\ ~ConnectIn(rxq) /\ ~ConnectIn(inbox)
  BY <1>1 DEF TurnInv, ConnectInv, AlignInv, WaitInv
<1>3. ~ConnectIn(in_flight') /\ ~ConnectIn(inbox') /\ ConnectLast(in_flight')
  <2>1. ~ConnectIn(in_flight') /\ ~ConnectIn(inbox')
    BY <1>t, <1>1, <1>2, Connects DEF SendsOn
  <2> QED
    BY <2>1 DEF ConnectLast, ConnectIn
<1>4. WaitInv'
  BY <1>1, <1>2, <1>3 DEF AlignInv, WaitInv
<1>5. TokenInv'
  BY <1>1 DEF AlignInv, TokenInv
<1>6. CASE m.op # "Object"
  <2>1. in_flight' = in_flight /\ sent_to' = sent_to
    BY <1>1, <1>6 DEF SendsOn, IsRequest, RequestOp
  <2>2. ObjsOf(inbox') = ObjsOf(inbox) /\ (Rising(inbox) => Rising(inbox'))
    BY <1>t, <1>6, ObjsAppendOther, RisingAppend DEF SendsOn
  <2>3. NumsInv'
    BY <1>1, <2>1, <2>2 DEF AlignInv, NumsInv, Nums, PeerAlive
  <2> QED
    BY <1>4, <1>5, <2>3 DEF AlignInv
<1>7. CASE m.op = "Object"
  <2>1. /\ m \in RequestMsg
        /\ m.seqn \in Nat /\ m.ctx \in Ctx /\ m.ctx # NoCtx
        /\ \A n \in ObjsOf(in_flight) : n.seqn < m.seqn /\ n.ctx # m.ctx /\ n.ctx \in Ctx
        /\ in_flight' = Append(in_flight, m) /\ inbox' = Append(inbox, m)
        /\ sent_to' = [sent_to EXCEPT ![m.ctx] = inc]
    BY <1>7, ObjectFacts DEF SendsOn, IsRequest, RequestOp, Sound
  <2>2. /\ ObjsOf(in_flight') = ObjsOf(in_flight) \cup {m}
        /\ ObjsOf(inbox') = ObjsOf(inbox) \cup {m}
    BY <1>t, <1>7, <2>1, ObjsAppend
  <2>3. /\ Nums(in_flight') = Nums(in_flight) \cup {m.seqn}
        /\ Nums(inbox') = Nums(inbox) \cup {m.seqn}
    BY <2>2 DEF Nums
  <2>4. \A n \in Nums(in_flight) : n < m.seqn
    BY <2>1 DEF Nums
  <2>5. /\ Rising(rxq) /\ Rising(inbox)
        /\ Nums(rxq) \subseteq Nums(in_flight)
        /\ \A n \in Nums(in_flight), r \in Nums(rxq) : n <= r => n \in Nums(rxq)
        /\ \A n \in Nums(inbox), r \in Nums(rxq) : r < n
        /\ Nums(in_flight) = Nums(rxq) \cup Nums(inbox)
    BY <1>1 DEF AlignInv, NumsInv
  <2>i. \A n \in Nums(in_flight) : n \in Nat
    BY ObjectFacts DEF Nums, Sound
  <2>6. Rising(inbox')
    <3>1. \A n \in ObjsOf(inbox) : n.seqn < m.seqn
      BY <2>4, <2>5 DEF Nums
    <3> QED
      BY <1>t, <2>1, <2>5, <3>1, RisingAppend
  <2>7. \A n \in ObjsOf(in_flight') : sent_to'[n.ctx] = peer
    BY <1>t, <1>1, <2>1, <2>2 DEF AlignInv, NumsInv
  <2>8. \A n \in Nums(in_flight'), r \in Nums(rxq) : n <= r => n \in Nums(rxq)
    BY <2>1, <2>3, <2>4, <2>5, <2>i
  <2>9. \A n \in Nums(inbox'), r \in Nums(rxq) : r < n
    BY <2>3, <2>4, <2>5
  <2>10. NumsInv'
    BY <1>1, <2>3, <2>5, <2>6, <2>7, <2>8, <2>9 DEF NumsInv
  <2> QED
    BY <1>4, <1>5, <2>10 DEF AlignInv
<1> QED
  BY <1>6, <1>7

-----------------------------------------------------------------------------
(***************************************************************************)
(* What a response finds.  One to Connect finds its Connect: alone in      *)
(* flight, or behind requests that a restart took, which it reveals.  One  *)
(* to an Object request finds that request, the oldest in flight.          *)
(***************************************************************************)
LEMMA NumsTail ==
  ASSUME NEW S, NEW s \in Seq(S), s # <<>>, Rising(s),
         Head(s).op = "Object", Head(s).seqn \in Nat
  PROVE  Nums(Tail(s)) = Nums(s) \ {Head(s).seqn}
<1> DEFINE h == Head(s)
           t == Tail(s)
<1>1. /\ \A m \in ObjsOf(t) : h.seqn < m.seqn
      /\ ObjsOf(s) = ObjsOf(t) \cup {h}
  BY RisingTail
<1>2. h.seqn \in Nat
  OBVIOUS
<1> HIDE DEF h, t
<1>3. Nums(t) = Nums(s) \ {h.seqn}
  BY <1>1, <1>2 DEF Nums
<1> QED
  BY <1>3 DEF h, t

LEMMA InFlightRising ==
  ASSUME Sound
  PROVE  /\ Rising(in_flight)
         /\ \A n \in Nums(in_flight) : n \in Nat
<1>1. Rising(in_flight)
  BY DEF Sound, RequestsInOrder, Flow!InOrder, Flow!Ordered, Flow!Objects, Rising
<1>2. \A n \in Nums(in_flight) : n \in Nat
  BY ObjectFacts DEF Nums, Sound
<1> QED
  BY <1>1, <1>2

LEMMA ConnectAnswered ==
  ASSUME TokensDiffer, Sound, TurnInv, AlignInv,
         pc = "recv", rxq # <<>>, Head(rxq).op = "Connect"
  PROVE  /\ ~is_ready /\ peer # 0 /\ ConnectIn(in_flight)
         /\ Head(rxq).info = Token(peer)
         /\ ~ConnectIn(Tail(rxq)) /\ ~ConnectIn(inbox)
         /\ \/ RestartDetected(Head(rxq))
            \/ /\ in_flight # <<>> /\ got_expected_response(Head(rxq), Head(in_flight))
               /\ Tail(in_flight) = <<>>
<1>t. rxq \in Seq(Incoming) /\ in_flight \in Seq(RequestMsg)
  BY SoundFacts
<1>1. Head(rxq) \in ConnsOf(rxq) /\ ConnectIn(rxq)
  BY <1>t, ConnsKept, Connects
<1>2. ~ConnectIn(Tail(rxq)) /\ ~ConnectIn(inbox)
  BY <1>t, <1>1, OneConnectKept DEF TurnInv, ConnectInv
<1>3. ~is_ready /\ peer # 0 /\ ConnectIn(in_flight)
  BY <1>1 DEF TurnInv, ConnectInv, AlignInv, WaitInv
<1>4. Head(rxq).seqn = 0 /\ Head(rxq).info = Token(peer)
  BY <1>1 DEF AlignInv, TokenInv
<1>5. CASE synt = 0 /\ ObjsOf(in_flight) = {}
  <2>1. in_flight # <<>>
    BY <1>3 DEF ConnectIn
  <2>2. Head(in_flight) \in RequestMsg /\ Head(in_flight).op # "Object"
    BY <1>t, <1>5, <2>1, SeqOps, ObjsTail
  <2>3. Head(in_flight) = ConnectMsg
    BY <2>2 DEF RequestMsg, ObjectMsg
  <2>4. Head(in_flight).op = "Connect" /\ Head(in_flight).seqn = 0
    BY <2>3 DEF ConnectMsg
  <2>5. Tail(in_flight) = <<>>
    BY <1>t, <2>1, <2>4, ConnectLastKept DEF AlignInv, WaitInv
  <2> QED
    BY <1>2, <1>3, <1>4, <2>1, <2>4, <2>5 DEF got_expected_response
<1>6. CASE \E k \in 1..inc : Bygone(k) /\ synt = Token(k)
  <2>1. synt # 0 /\ synt # Token(peer) /\ Token(peer) # NoInfo
    BY <1>3, <1>6, TokenFacts
  <2>2. RestartDetected(Head(rxq))
    BY <1>4, <2>1 DEF RestartDetected
  <2> QED
    BY <1>2, <1>3, <1>4, <2>2
<1> QED
  BY <1>3, <1>5, <1>6 DEF AlignInv, TokenInv

LEMMA ObjectAnswered ==
  ASSUME Sound, TurnInv, AlignInv,
         pc = "recv", rxq # <<>>, Head(rxq).op = "Object"
  PROVE  /\ is_ready
         /\ in_flight # <<>> /\ Head(in_flight).op = "Object"
         /\ Head(in_flight).seqn \in Nat /\ Head(in_flight).seqn = Head(rxq).seqn
<1>t. rxq \in Seq(Incoming) /\ in_flight \in Seq(RequestMsg)
  BY SoundFacts
<1> DEFINE r == Head(rxq)
           m == Head(in_flight)
<1>1. r \in ObjsOf(rxq) /\ r.seqn \in Nums(rxq)
  BY <1>t, ObjsTail DEF Nums
<1>2. is_ready
  BY <1>1 DEF TurnInv, ObjectInv
<1>3. /\ Rising(rxq)
      /\ Nums(rxq) \subseteq Nums(in_flight)
      /\ \A n \in Nums(in_flight), q \in Nums(rxq) : n <= q => n \in Nums(rxq)
      /\ ~ConnectIn(in_flight)
  BY <1>2 DEF AlignInv, NumsInv, WaitInv
<1>4. in_flight # <<>>
  BY <1>1, <1>3, ObjsEmpty DEF Nums
<1>5. m \in RequestMsg /\ m.op = "Object"
  <2>1. m \in RequestMsg /\ m.op # "Connect"
    BY <1>t, <1>3, <1>4, SeqOps, Connects
  <2> QED
    BY <2>1 DEF RequestMsg, ObjectMsg, ConnectMsg
<1>6. m \in ObjsOf(in_flight) /\ m.seqn \in Nums(in_flight)
  BY <1>t, <1>4, <1>5, ObjsTail DEF Nums
<1>7. /\ \A n \in ObjsOf(in_flight) : n = m \/ m.seqn < n.seqn
      /\ \A n \in ObjsOf(rxq) : n = r \/ r.seqn < n.seqn
  BY <1>t, <1>3, <1>4, <1>5, InFlightRising, RisingTail
<1> HIDE DEF r, m
<1>8. m.seqn \in Nat /\ r.seqn \in Nat
  BY <1>1, <1>3, <1>6, InFlightRising
<1>9. m.seqn <= r.seqn
  BY <1>1, <1>3, <1>7, <1>8 DEF Nums
<1>10. m.seqn \in Nums(rxq)
  BY <1>1, <1>3, <1>6, <1>9
<1>11. m.seqn = r.seqn
  BY <1>7, <1>8, <1>9, <1>10 DEF Nums
<1> QED
  BY <1>2, <1>4, <1>5, <1>8, <1>11 DEF r, m

LEMMA Expected ==
  ASSUME TokensDiffer, Sound, TurnInv, AlignInv
  PROVE  ResponseExpected
<1> SUFFICES ASSUME pc = "recv", rxq # <<>>, Head(rxq).op \in RequestOp
             PROVE  \/ RestartDetected(Head(rxq))
                    \/ /\ in_flight # <<>>
                       /\ got_expected_response(Head(rxq), Head(in_flight))
  BY DEF ResponseExpected
<1>1. CASE Head(rxq).op = "Connect"
  BY <1>1, ConnectAnswered
<1>2. CASE Head(rxq).op = "Object"
  BY <1>2, ObjectAnswered DEF got_expected_response
<1> QED
  BY <1>1, <1>2 DEF RequestOp

-----------------------------------------------------------------------------
(***************************************************************************)
(* Responses, and the purge of a restart.                                  *)
(***************************************************************************)
LEMMA RestartAlign ==
  ASSUME TokensDiffer, Sound, TurnInv, AlignInv, NEW r, RecvRestart(r)
  PROVE  AlignInv'
<1>t. rxq \in Seq(Incoming)
  BY SoundFacts
<1>1. /\ pc = "recv" /\ pc' = "purge" /\ rxq # <<>> /\ r = Head(rxq) /\ resp' = r
      /\ rxq' = Tail(rxq) /\ r.op = "Connect"
      /\ UNCHANGED <<peer, inc, up, inbox, is_ready, in_flight, sent_to, synt, dp_sock>>
  BY DEF RecvRestart, Received, RestartDetected, dpVars, connVars, histVars, cacheVars
<1>2. /\ ~is_ready /\ peer # 0 /\ ConnectIn(in_flight) /\ r.info = Token(peer)
      /\ ~ConnectIn(rxq') /\ ~ConnectIn(inbox)
  BY <1>1, ConnectAnswered
<1>3. WaitInv'
  BY <1>1, <1>2 DEF AlignInv, WaitInv
<1>4. ConnsOf(rxq') \subseteq ConnsOf(rxq)
  BY <1>t, <1>1, ConnsKept
<1>5. TokenInv'
  BY <1>1, <1>2, <1>4 DEF AlignInv, TokenInv, Bygone
<1>6. NumsInv'
  BY <1>1, <1>2 DEF NumsInv
<1> QED
  BY <1>3, <1>5, <1>6 DEF AlignInv

\* A Connect is answered, from the socket or by a purge, and nothing else is
\* in flight: the plugin is ready, or refused.
LEMMA AnsweredAlign ==
  ASSUME Sound, TurnInv, AlignInv,
         UNCHANGED <<peer, inc, up, inbox, sent_to, dp_sock>>, in_flight' = <<>>,
         peer # 0, ObjsOf(rxq') = {}, ObjsOf(inbox') = {},
         ~ConnectIn(rxq'), ~ConnectIn(inbox'), ~is_ready,
         pc \notin {"aborted", "stopped"},
         \/ pc' \in {"drain", "purge"} /\ is_ready' = TRUE /\ synt' = Token(peer)
         \/ pc' = "aborted" /\ UNCHANGED <<is_ready, synt>>,
         pc' = "purge" => resp'.info = Token(peer)
  PROVE  AlignInv'
<1>1. ~ConnectIn(<<>>) /\ ConnectLast(<<>>) /\ ObjsOf(<<>>) = {}
  BY DEF ConnectIn, ConnectLast, ObjsOf
<1>2. ConnsOf(rxq') = {}
  BY DEF ConnsOf, ConnectIn
<1>3. WaitInv'
  BY <1>1 DEF AlignInv, WaitInv
<1>4. TokenInv'
  BY <1>1, <1>2 DEF AlignInv, TokenInv, Bygone
<1>5. NumsInv'
  <2>1. Rising(rxq') /\ Rising(inbox')
    BY RisingNone
  <2>2. Nums(rxq') = {} /\ Nums(inbox') = {} /\ Nums(in_flight') = {}
    BY <1>1 DEF Nums
  <2> QED
    BY <1>1, <2>1, <2>2 DEF NumsInv
<1> QED
  BY <1>3, <1>4, <1>5 DEF AlignInv

LEMMA ConnectResponseAlign ==
  ASSUME TokensDiffer, Sound, TurnInv, AlignInv, NEW r, RecvConnectResponse(r)
  PROVE  AlignInv'
<1>t. rxq \in Seq(Incoming)
  BY SoundFacts
<1>1. /\ pc = "recv" /\ rxq # <<>> /\ r = Head(rxq) /\ r.op = "Connect"
      /\ rxq' = Tail(rxq) /\ ~RestartDetected(r) /\ in_flight' = Tail(in_flight)
      /\ UNCHANGED <<peer, inc, up, inbox, sent_to, dp_sock>>
  BY DEF RecvConnectResponse, Received, dpVars, histVars
<1>2. /\ ~is_ready /\ peer # 0 /\ r.info = Token(peer)
      /\ ~ConnectIn(rxq') /\ ~ConnectIn(inbox) /\ in_flight' = <<>>
  BY <1>1, ConnectAnswered
<1>3. ObjsOf(rxq') = {} /\ ObjsOf(inbox) = {}
  BY <1>t, <1>1, <1>2, ObjsTail DEF TurnInv, ObjectInv
<1>4. Token(peer) # NoInfo
  BY <1>2, TokenFacts
<1>5. \/ pc' = "drain" /\ is_ready' = TRUE /\ synt' = Token(peer)
      \/ pc' = "aborted" /\ UNCHANGED <<is_ready, synt>>
  BY <1>2, <1>4 DEF RecvConnectResponse, handle_rpc_connect_response
<1> QED
  BY <1>1, <1>2, <1>3, <1>5, AnsweredAlign

LEMMA CtxResponseAlign ==
  ASSUME Sound, TurnInv, AlignInv, NEW r, handle_rpc_ctx_response(r)
  PROVE  AlignInv'
<1>t. rxq \in Seq(Incoming) /\ in_flight \in Seq(RequestMsg)
  BY SoundFacts
<1>1. /\ pc = "recv" /\ pc' = pc /\ rxq # <<>> /\ r = Head(rxq) /\ r.op = "Object"
      /\ rxq' = Tail(rxq) /\ in_flight' = Tail(in_flight)
      /\ UNCHANGED <<peer, inc, up, inbox, is_ready, sent_to, synt, dp_sock>>
  BY DEF handle_rpc_ctx_response, Received, dpVars, histVars, callVars, connVars
<1>2. /\ is_ready /\ in_flight # <<>> /\ Head(in_flight).op = "Object"
      /\ Head(in_flight).seqn \in Nat /\ Head(in_flight).seqn = Head(rxq).seqn
  BY <1>1, ObjectAnswered
<1>3. /\ Rising(rxq)
      /\ \A m \in ObjsOf(in_flight) : sent_to[m.ctx] = peer
      /\ Nums(rxq) \subseteq Nums(in_flight)
      /\ \A n \in Nums(in_flight), q \in Nums(rxq) : n <= q => n \in Nums(rxq)
      /\ ~ConnectIn(in_flight) /\ ~ConnectIn(rxq) /\ ~ConnectIn(inbox)
      /\ PeerAlive =>
           /\ Rising(inbox)
           /\ \A n \in Nums(inbox), q \in Nums(rxq) : q < n
           /\ Nums(in_flight) = Nums(rxq) \cup Nums(inbox)
  BY <1>2 DEF AlignInv, NumsInv, WaitInv, TurnInv, ConnectInv
<1> DEFINE h == Head(rxq).seqn
<1>4. /\ Nums(Tail(rxq)) = Nums(rxq) \ {h}
      /\ Nums(Tail(in_flight)) = Nums(in_flight) \ {h}
      /\ h \in Nums(rxq)
      /\ Rising(Tail(rxq))
      /\ ObjsOf(Tail(in_flight)) \subseteq ObjsOf(in_flight)
  <2>1. Nums(Tail(rxq)) = Nums(rxq) \ {h}
    BY <1>t, <1>1, <1>2, <1>3, NumsTail
  <2>2. Nums(Tail(in_flight)) = Nums(in_flight) \ {h}
    BY <1>t, <1>2, InFlightRising, NumsTail
  <2>3. h \in Nums(rxq)
    BY <1>t, <1>1, ObjsTail DEF Nums
  <2> QED
    BY <1>t, <1>1, <1>2, <1>3, <2>1, <2>2, <2>3, RisingTail, ObjsTail
<1> HIDE DEF h
<1>i. \A n \in Nums(in_flight) : n \in Nat
  BY InFlightRising
<1>5. ~ConnectIn(rxq') /\ ~ConnectIn(in_flight') /\ ConnectLast(in_flight')
  BY <1>t, <1>1, <1>2, <1>3, Connects, ConnectLastKept DEF AlignInv, WaitInv
<1>6. WaitInv'
  BY <1>1, <1>3, <1>5 DEF AlignInv, WaitInv
<1>7. TokenInv'
  <2>1. ConnsOf(rxq') = {}
    BY <1>5 DEF ConnsOf, ConnectIn
  <2> QED
    BY <1>1, <1>2, <2>1 DEF AlignInv, TokenInv
<1>8. PeerAlive' = PeerAlive
  BY <1>1 DEF PeerAlive
<1>9. PeerAlive => /\ Nums(in_flight') = Nums(rxq') \cup Nums(inbox)
                   /\ \A n \in Nums(inbox), q \in Nums(rxq') : q < n
  <2> HAVE PeerAlive
  <2>1. h \notin Nums(inbox)
    BY <1>3, <1>4, <1>i
  <2> QED
    BY <1>1, <1>3, <1>4, <2>1
<1>10. /\ Nums(rxq') \subseteq Nums(in_flight')
       /\ \A n \in Nums(in_flight'), q \in Nums(rxq') : n <= q => n \in Nums(rxq')
  BY <1>1, <1>3, <1>4
<1>11. NumsInv'
  BY <1>1, <1>3, <1>4, <1>8, <1>9, <1>10 DEF NumsInv
<1> QED
  BY <1>6, <1>7, <1>11 DEF AlignInv

LEMMA RespondsAlign ==
  ASSUME TokensDiffer, Sound, TurnInv, AlignInv, NEW r, Responds(r)
  PROVE  AlignInv'
<1>1. ~RecvUnsolicited(r) /\ ~RecvMismatch(r)
  BY Expected DEF ResponseExpected, RecvUnsolicited, RecvMismatch, Received
<1> QED
  BY <1>1, RestartAlign, ConnectResponseAlign, CtxResponseAlign DEF Responds

LEMMA PurgeAlign ==
  ASSUME TokensDiffer, Sound, TurnInv, AlignInv,
         PurgeRequest \/ PurgeConnect \/ PurgeDone
  PROVE  AlignInv'
<1>t. in_flight \in Seq(RequestMsg) /\ is_ready \in BOOLEAN
  BY SoundFacts
<1>1. /\ pc = "purge" /\ rxq' = rxq
      /\ UNCHANGED <<peer, inc, up, inbox, sent_to, dp_sock>>
  BY DEF PurgeRequest, PurgeConnect, PurgeDone, netVars, dpVars, histVars, connVars
<1>p. /\ peer # 0 /\ ObjsOf(rxq) = {} /\ ObjsOf(inbox) = {}
      /\ ~ConnectIn(rxq) /\ ~ConnectIn(inbox)
  BY <1>1 DEF TurnInv, ConnectInv, ObjectInv, Sound, HandshakeInv, PeerInv
<1>i. /\ resp.info = Token(peer)
      /\ ConnectIn(in_flight) \/ (is_ready /\ in_flight = <<>>)
  BY <1>1 DEF AlignInv, TokenInv
<1>2. CASE PurgeRequest
  <2>1. /\ in_flight # <<>> /\ Head(in_flight).op # "Connect"
        /\ in_flight' = Tail(in_flight)
        /\ UNCHANGED <<pc, resp, is_ready, synt>>
    BY <1>2 DEF PurgeRequest, callVars, connVars
  <2>2. /\ ConnectIn(in_flight) /\ ~is_ready
        /\ ConnectIn(in_flight') /\ ConnectLast(in_flight')
        /\ ObjsOf(in_flight') \subseteq ObjsOf(in_flight)
    BY <1>t, <1>i, <2>1, ConnectLastKept, ObjsTail DEF AlignInv, WaitInv
  <2>3. WaitInv'
    BY <1>1, <2>1, <2>2 DEF AlignInv, WaitInv
  <2>4. TokenInv'
    BY <1>1, <2>1, <2>2 DEF AlignInv, TokenInv, Bygone
  <2>5. NumsInv'
    BY <2>1, <2>2 DEF NumsInv
  <2> QED
    BY <2>3, <2>4, <2>5 DEF AlignInv
<1>3. CASE PurgeConnect
  <2>1. /\ in_flight # <<>> /\ Head(in_flight).op = "Connect"
        /\ in_flight' = Tail(in_flight) /\ resp' = resp
    BY <1>3 DEF PurgeConnect
  <2>2. in_flight' = <<>> /\ ~is_ready
    BY <1>t, <1>i, <2>1, ConnectLastKept DEF AlignInv, WaitInv
  <2>3. Token(peer) # NoInfo
    BY <1>p, TokenFacts
  <2>4. \/ pc' = "purge" /\ is_ready' = TRUE /\ synt' = Token(peer)
        \/ pc' = "aborted" /\ UNCHANGED <<is_ready, synt>>
    BY <1>1, <1>3, <1>i, <2>3 DEF PurgeConnect, handle_rpc_connect_response
  <2> QED
    BY <1>1, <1>p, <1>i, <2>1, <2>2, <2>4, AnsweredAlign
<1>4. CASE PurgeDone
  <2>1. /\ pc' = "recv" /\ UNCHANGED <<is_ready, synt, in_flight>>
    BY <1>4 DEF PurgeDone, connVars, cacheVars
  <2>2. Aside
    BY <1>1, <2>1 DEF Aside
  <2> QED
    BY <2>2, AsideKeeps
<1> QED
  BY <1>2, <1>3, <1>4

\* Queueing a request leaves the conversation alone; the late end ends it.
LEMMA QueuedAlign ==
  ASSUME Sound, AlignInv, NEW c \in Ctx, ProcessQueued(c)
  PROVE  AlignInv'
<1>1. Aside
  BY DEF Aside, ProcessQueued, connVars, netVars, dpVars, histVars
<1> QED
  BY <1>1, AsideKeeps

LEMMA StoppedAlign ==
  ASSUME FiniLate
  PROVE  AlignInv'
<1>1. /\ pc' = "stopped" /\ ~is_ready' /\ peer' = 0 /\ rxq' = <<>> /\ in_flight' = <<>>
  BY DEF FiniLate, fini_dp_msg_cache
<1>2. /\ ~ConnectIn(<<>>) /\ ConnectLast(<<>>) /\ ConnsOf(<<>>) = {}
  BY DEF ConnectIn, ConnectLast, ConnsOf
<1> QED
  BY <1>1, <1>2 DEF AlignInv, WaitInv, TokenInv, NumsInv

-----------------------------------------------------------------------------
(***************************************************************************)
(* The steps of the dataplane.  After the end they change nothing here.    *)
(***************************************************************************)
LEMMA AfterEnd ==
  ASSUME Sound, AlignInv, DpOnly, pc = "stopped", rxq' = rxq
  PROVE  AlignInv'
<1>1. in_flight' = <<>> /\ ~is_ready' /\ pc' = "stopped" /\ peer' = 0
  BY DEF Sound, HandshakeInv, PeerInv, AlignInv, WaitInv, DpOnly
<1>2. ~ConnectIn(<<>>) /\ ConnectLast(<<>>)
  BY DEF ConnectIn, ConnectLast
<1> QED
  BY <1>1, <1>2 DEF AlignInv, WaitInv, TokenInv, NumsInv, DpOnly

LEMMA StoppedQueue ==
  ASSUME Sound, pc = "stopped", NEW r, Deliver(r)
  PROVE  rxq' = rxq
BY DEF Sound, HandshakeInv, PeerInv, Deliver, PluginBound

\* Serving a message that is no request, or sending one that is no response.
LEMMA OtherAlign ==
  ASSUME Sound, AlignInv, DpOnly, UNCHANGED <<inc, up>>, pc # "stopped",
         \/ inbox' = inbox
         \/ inbox # <<>> /\ ~IsRequest(Head(inbox)) /\ inbox' = Tail(inbox),
         \/ rxq' = rxq
         \/ \E r \in Incoming : r.op \notin RequestOp /\ Deliver(r)
  PROVE  AlignInv'
<1>t. inbox \in Seq(Msg) /\ rxq \in Seq(Incoming)
  BY SoundFacts
<1>1. /\ ObjsOf(inbox') = ObjsOf(inbox)
      /\ Rising(inbox) => Rising(inbox')
      /\ ConnectIn(inbox') => ConnectIn(inbox)
  <2>1. CASE inbox # <<>> /\ ~IsRequest(Head(inbox)) /\ inbox' = Tail(inbox)
    <3>1. Head(inbox).op # "Object"
      BY <2>1 DEF IsRequest, RequestOp
    <3> QED
      BY <1>t, <2>1, <3>1, RisingTail, Connects
  <2> QED
    BY <2>1
<1>2. /\ ObjsOf(rxq') = ObjsOf(rxq)
      /\ ConnsOf(rxq') \subseteq ConnsOf(rxq)
      /\ Rising(rxq) => Rising(rxq')
      /\ ConnectIn(rxq') => ConnectIn(rxq)
  <2>1. ASSUME NEW r \in Incoming, r.op \notin RequestOp, rxq' = Append(rxq, r)
        PROVE  /\ ObjsOf(rxq') = ObjsOf(rxq)
               /\ ConnsOf(rxq') \subseteq ConnsOf(rxq)
               /\ Rising(rxq) => Rising(rxq')
               /\ ConnectIn(rxq') => ConnectIn(rxq)
    <3>1. r.op # "Object" /\ r.op # "Connect"
      BY <2>1 DEF RequestOp
    <3> QED
      BY <1>t, <2>1, <3>1, ObjsAppendOther, ConnsKept, RisingAppend, Connects
  <2> QED
    BY <2>1 DEF Deliver
<1>3. WaitInv'
  BY <1>1, <1>2 DEF AlignInv, WaitInv, DpOnly
<1>4. TokenInv'
  BY <1>2 DEF AlignInv, TokenInv, Bygone, DpOnly
<1>5. NumsInv'
  BY <1>1, <1>2 DEF AlignInv, NumsInv, Nums, PeerAlive, DpOnly
<1> QED
  BY <1>3, <1>4, <1>5 DEF AlignInv

LEMMA ServeConnectAlign ==
  ASSUME Sound, TurnInv, AlignInv, DpOnly, pc # "stopped",
         NEW ok \in BOOLEAN, DpServeConnect(ok)
  PROVE  AlignInv'
<1>t. /\ inc \in Nat /\ inc <= MaxInc /\ MaxInc \in Nat /\ (up => inc > 0)
      /\ inbox \in Seq(Msg) /\ rxq \in Seq(Incoming)
  BY SoundFacts, ConstantsOK DEF Sound, TypeOK, PeerTypeOK
<1> DEFINE r == [op |-> "Connect", seqn |-> Head(inbox).seqn,
                 ok |-> ok, info |-> Token(inc)]
<1>1. /\ up /\ inbox # <<>> /\ Head(inbox).op = "Connect" /\ inbox' = Tail(inbox)
      /\ Deliver(r) /\ UNCHANGED <<inc, up>>
  BY DEF DpServeConnect, histVars
<1>2. peer = inc
  BY <1>1 DEF Sound, HandshakeInv, ServedInv, PeerAlive
<1>3. r \in Incoming /\ r.op = "Connect" /\ r.seqn = 0 /\ r.info = Token(peer)
  <2>1. Head(inbox) = ConnectMsg
    <3>1. Head(inbox) \in Msg
      BY <1>t, <1>1, SeqOps
    <3> QED
      BY <1>1, <3>1 DEF Msg, RequestMsg, UnsentMsg, ObjectMsg, KeepaliveMsg,
         RefreshMsg
  <2>2. Token(inc) \in Nat \cup {NoInfo}
    BY <1>t, <1>1, ConstantsOK
  <2> QED
    BY <1>2, <2>1, <2>2 DEF Incoming, RequestOp, ConnectMsg
<1> HIDE DEF r
<1>4. ConnsOf(rxq') \subseteq ConnsOf(rxq) \cup {r}
  BY <1>t, <1>1, <1>3, ConnsKept DEF Deliver
<1>5. /\ ~is_ready /\ pc # "purge" /\ ConnectIn(in_flight)
  <2>1. ConnectIn(inbox)
    BY <1>t, <1>1, Connects
  <2> QED
    BY <2>1 DEF TurnInv, ConnectInv, AlignInv, WaitInv
<1>6. WaitInv'
  BY <1>5 DEF AlignInv, WaitInv, DpOnly
<1>7. TokenInv'
  BY <1>1, <1>3, <1>4, <1>5 DEF AlignInv, TokenInv, Bygone, DpOnly
<1>8. NumsInv'
  BY <1>5 DEF NumsInv, DpOnly
<1> QED
  BY <1>6, <1>7, <1>8 DEF AlignInv

LEMMA ServeObjectAlign ==
  ASSUME Sound, TurnInv, AlignInv, DpOnly, pc # "stopped",
         NEW ok \in BOOLEAN, DpServeObject(ok)
  PROVE  AlignInv'
<1>t. /\ inbox \in Seq(Msg) /\ rxq \in Seq(Incoming)
  BY SoundFacts
<1> DEFINE h == Head(inbox).seqn
           r == [op |-> "Object", seqn |-> h, ok |-> ok, info |-> NoInfo]
<1>1. /\ up /\ inbox # <<>> /\ Head(inbox).op = "Object" /\ inbox' = Tail(inbox)
      /\ Deliver(r) /\ UNCHANGED <<inc, up>>
  BY DEF DpServeObject
<1>2. /\ h \in Nat /\ h \in Nums(inbox) /\ ObjsOf(inbox) # {}
      /\ r \in Incoming /\ r.op = "Object" /\ r.seqn = h
  <2>1. h \in Nat
    BY <1>t, <1>1, SeqOps, MsgFacts
  <2>2. Head(inbox) \in ObjsOf(inbox)
    BY <1>t, <1>1, ObjsTail
  <2> QED
    BY <2>1, <2>2 DEF Nums, Incoming, RequestOp, NoInfo
<1>3. /\ is_ready /\ PeerAlive /\ peer # 0
      /\ ~ConnectIn(in_flight) /\ ~ConnectIn(rxq) /\ ~ConnectIn(inbox)
  BY <1>1, <1>2 DEF TurnInv, ConnectInv, ObjectInv, AlignInv, WaitInv, Sound,
     HandshakeInv, ServedInv, PeerInv
<1>4. PluginBound
  BY <1>3 DEF PluginBound, AlignInv, WaitInv
<1>5. rxq' = Append(rxq, r)
  BY <1>1, <1>4 DEF Deliver
<1>6. /\ Rising(rxq) /\ Rising(inbox)
      /\ Nums(rxq) \subseteq Nums(in_flight)
      /\ \A n \in Nums(in_flight), q \in Nums(rxq) : n <= q => n \in Nums(rxq)
      /\ \A n \in Nums(inbox), q \in Nums(rxq) : q < n
      /\ Nums(in_flight) = Nums(rxq) \cup Nums(inbox)
      /\ \A m \in ObjsOf(in_flight) : sent_to[m.ctx] = peer
  BY <1>3 DEF AlignInv, NumsInv
<1>7. /\ Rising(Tail(inbox)) /\ Nums(Tail(inbox)) = Nums(inbox) \ {h}
      /\ \A n \in Nums(inbox) : n = h \/ h < n
  <2>1. Rising(Tail(inbox)) /\ Nums(Tail(inbox)) = Nums(inbox) \ {h}
    BY <1>t, <1>1, <1>2, <1>6, RisingTail, NumsTail
  <2>2. \A m \in ObjsOf(inbox) : m = Head(inbox) \/ Head(inbox).seqn < m.seqn
    BY <1>t, <1>1, <1>6, RisingTail
  <2>3. \A n \in Nums(inbox) : n = h \/ h < n
    BY <2>2 DEF Nums
  <2> QED
    BY <2>1, <2>3
<1> HIDE DEF h, r
<1>8. Nums(rxq') = Nums(rxq) \cup {h}
  <2>1. ObjsOf(rxq') = ObjsOf(rxq) \cup {r}
    BY <1>t, <1>2, <1>5, ObjsAppend
  <2> QED
    BY <1>2, <2>1 DEF Nums
<1>9. Rising(rxq')
  <2>1. \A m \in ObjsOf(rxq) : m.seqn < h
    BY <1>2, <1>6 DEF Nums
  <2> QED
    BY <1>t, <1>2, <1>5, <1>6, <2>1, RisingAppend
<1>i. \A n \in Nums(in_flight) : n \in Nat
  BY InFlightRising
<1>10. ~ConnectIn(rxq') /\ ~ConnectIn(inbox')
  BY <1>t, <1>1, <1>2, <1>3, <1>5, Connects
<1>11. WaitInv'
  BY <1>3, <1>10 DEF AlignInv, WaitInv, DpOnly
<1>12. TokenInv'
  <2>1. ConnsOf(rxq') = {}
    BY <1>10 DEF ConnsOf, ConnectIn
  <2> QED
    BY <1>1, <1>3, <2>1 DEF AlignInv, TokenInv, DpOnly
<1>13. /\ Nums(rxq') \subseteq Nums(in_flight)
       /\ Nums(in_flight) = Nums(rxq') \cup Nums(inbox')
       /\ \A n \in Nums(inbox'), q \in Nums(rxq') : q < n
  BY <1>1, <1>2, <1>6, <1>7, <1>8
<1>14. \A n \in Nums(in_flight), q \in Nums(rxq') : n <= q => n \in Nums(rxq')
  BY <1>2, <1>6, <1>7, <1>8, <1>i
<1>15. NumsInv'
  BY <1>1, <1>6, <1>7, <1>9, <1>13, <1>14 DEF NumsInv, DpOnly
<1> QED
  BY <1>11, <1>12, <1>15 DEF AlignInv

LEMMA DpAligned ==
  ASSUME "rogue" \notin FaultKinds, Sound, TurnInv, AlignInv, DpNext
  PROVE  AlignInv'
<1>t. inc \in Nat /\ peer \in 0..inc
  BY SoundFacts
<1>d. DpOnly
  BY DpStepsOnly
<1>r. NoResp \in Incoming /\ NoResp.op = "Other"
      /\ [NoResp EXCEPT !.op = "Refresh"] \in Incoming
      /\ [NoResp EXCEPT !.op = "Refresh"].op = "Refresh"
  BY DEF NoResp, Incoming, NoInfo, RequestOp
<1>1. CASE DpStart
  <2>1. ~up /\ inc' = inc + 1 /\ UNCHANGED <<rxq, inbox>>
    BY <1>1 DEF DpStart, netVars
  <2>2. WaitInv'
    BY <1>d, <2>1 DEF AlignInv, WaitInv, DpOnly
  <2>3. \A k \in 1..inc : k \in 1..inc' /\ (Bygone(k) => Bygone(k)')
    BY <1>t, <1>d, <2>1 DEF Bygone, DpOnly
  <2>4. TokenInv'
    BY <1>t, <1>d, <2>1, <2>3 DEF AlignInv, TokenInv, DpOnly
  <2>5. ~PeerAlive'
    BY <1>t, <1>d, <2>1 DEF PeerAlive, DpOnly
  <2>6. NumsInv'
    BY <1>d, <2>1, <2>5 DEF AlignInv, NumsInv, DpOnly
  <2> QED
    BY <2>2, <2>4, <2>6 DEF AlignInv
<1>2. CASE DpCrash
  <2>1. up /\ up' = FALSE /\ inbox' = <<>> /\ UNCHANGED <<inc, rxq>>
    BY <1>2 DEF DpCrash, netVars
  <2>2. ~ConnectIn(inbox')
    BY <2>1 DEF ConnectIn
  <2>3. WaitInv'
    BY <1>d, <2>1, <2>2 DEF AlignInv, WaitInv, DpOnly
  <2>4. TokenInv'
    BY <1>d, <2>1 DEF AlignInv, TokenInv, Bygone, DpOnly
  <2>5. NumsInv'
    BY <1>d, <2>1 DEF AlignInv, NumsInv, PeerAlive, DpOnly
  <2> QED
    BY <2>3, <2>4, <2>5 DEF AlignInv
<1>3. ASSUME NEW ok \in BOOLEAN, DpServeConnect(ok) PROVE AlignInv'
  <2>1. CASE pc = "stopped"
    BY <1>d, <1>3, <2>1, AfterEnd, StoppedQueue DEF DpServeConnect
  <2> QED
    BY <1>d, <1>3, <2>1, ServeConnectAlign
<1>4. ASSUME NEW ok \in BOOLEAN, DpServeObject(ok) PROVE AlignInv'
  <2>1. CASE pc = "stopped"
    BY <1>d, <1>4, <2>1, AfterEnd, StoppedQueue DEF DpServeObject
  <2> QED
    BY <1>d, <1>4, <2>1, ServeObjectAlign
<1>5. CASE DpServeControl
  <2>1. /\ inbox # <<>> /\ ~IsRequest(Head(inbox)) /\ inbox' = Tail(inbox)
        /\ UNCHANGED <<inc, up, rxq>>
    BY <1>5 DEF DpServeControl, netVars
  <2> QED
    BY <1>d, <2>1, OtherAlign, AfterEnd
<1>6. CASE DpRequestRefresh
  <2>1. /\ Deliver([NoResp EXCEPT !.op = "Refresh"]) /\ inbox' = inbox
        /\ UNCHANGED <<inc, up>>
    BY <1>6 DEF DpRequestRefresh
  <2>2. CASE pc = "stopped"
    BY <1>d, <2>1, <2>2, AfterEnd, StoppedQueue
  <2> QED
    BY <1>d, <1>r, <2>1, <2>2, OtherAlign DEF RequestOp
<1>7. ASSUME NEW r \in RogueMsgs, DpRogue(r) PROVE AlignInv'
  <2>1. r.op = "Other"
    BY <1>7 DEF DpRogue, CanFault
  <2>2. r = NoResp
    BY <2>1 DEF RogueMsgs
  <2>3. Deliver(NoResp) /\ inbox' = inbox /\ UNCHANGED <<inc, up>>
    BY <1>7, <2>2 DEF DpRogue, dpVars
  <2>4. CASE pc = "stopped"
    BY <1>d, <2>3, <2>4, AfterEnd, StoppedQueue
  <2> QED
    BY <1>d, <1>r, <2>3, <2>4, OtherAlign DEF RequestOp
<1> QED
  BY <1>1, <1>2, <1>3, <1>4, <1>5, <1>6, <1>7 DEF DpNext, DpServe

-----------------------------------------------------------------------------
(***************************************************************************)
(* Every step keeps the conversation aligned.                              *)
(***************************************************************************)
LEMMA AlignStep ==
  ASSUME AnswersInOrder, Sound, TurnInv, AlignInv, [Next]_vars
  PROVE  AlignInv'
<1>1. TokensDiffer /\ "rogue" \notin FaultKinds /\ ~RecvUndecodable
  BY DEF AnswersInOrder, RecvUndecodable, CanFault
<1> QED
  BY <1>1, StepKinds, StillAlign, PeerLostAlign, ConnectedAlign, ConnectSentAlign,
     SentAlign, ReadsAlign, RespondsAlign, PurgeAlign, QueuedAlign, StoppedAlign,
     DpAligned DEF Sends

(***************************************************************************)
(* The invariant of an orderly conversation.                               *)
(***************************************************************************)
THEOREM AlignInvariant ==
  AnswersInOrder => (Spec => [](Sound /\ TurnInv /\ AlignInv))
<1> SUFFICES ASSUME AnswersInOrder PROVE Spec => [](Sound /\ TurnInv /\ AlignInv)
  OBVIOUS
<1>1. "rogue" \notin FaultKinds
  BY DEF AnswersInOrder
<1>2. Spec => [](Sound /\ TurnInv)
  BY <1>1, TurnInvariant
<1>3. Init => AlignInv
  BY AlignInit
<1>4. (Sound /\ TurnInv) /\ AlignInv /\ [Next]_vars => AlignInv'
  BY AlignStep
<1> QED
  BY <1>2, <1>3, <1>4, PTL DEF Spec

(***************************************************************************)
(* Every response the plugin reads answers the oldest request in flight,   *)
(* or reveals a restart.                                                   *)
(***************************************************************************)
THEOREM ResponseAlwaysExpected == AnswersInOrder => (Spec => []ResponseExpected)
<1> SUFFICES ASSUME AnswersInOrder PROVE Spec => []ResponseExpected
  OBVIOUS
<1>1. Sound /\ TurnInv /\ AlignInv => ResponseExpected
  BY Expected DEF AnswersInOrder
<1> QED
  BY <1>1, AlignInvariant, PTL

(***************************************************************************)
(* What the live peer owes, in its order, against what is in flight.       *)
(***************************************************************************)
LEMMA ConvElements ==
  ASSUME Sound
  PROVE  LET conv == rxq \o inbox
         IN  /\ \A i \in DOMAIN conv : i \in Nat
             /\ \A i \in DOMAIN conv : i \in DOMAIN rxq => conv[i] = rxq[i]
             /\ \A i \in DOMAIN conv : i \notin DOMAIN rxq =>
                  \E k \in DOMAIN inbox : i = Len(rxq) + k /\ conv[i] = inbox[k]
             /\ \A i \in DOMAIN rxq : i \in DOMAIN conv
             /\ \A k \in DOMAIN inbox : /\ Len(rxq) + k \in DOMAIN conv
                                        /\ conv[Len(rxq) + k] = inbox[k]
                                        /\ Len(rxq) + k \notin DOMAIN rxq
             /\ DOMAIN rxq = 1..Len(rxq) /\ Len(rxq) \in Nat
             /\ DOMAIN inbox = 1..Len(inbox) /\ Len(inbox) \in Nat
<1>1. rxq \in Seq(Incoming \cup Msg) /\ inbox \in Seq(Incoming \cup Msg)
  <2>1. rxq \in Seq(Incoming) /\ inbox \in Seq(Msg)
    BY SoundFacts
  <2> QED
    BY <2>1
<1> DEFINE conv == rxq \o inbox
<1>2. /\ DOMAIN rxq = 1..Len(rxq) /\ Len(rxq) \in Nat
      /\ DOMAIN inbox = 1..Len(inbox) /\ Len(inbox) \in Nat
      /\ DOMAIN conv = 1..(Len(rxq) + Len(inbox))
      /\ \A i \in 1..Len(rxq) : conv[i] = rxq[i]
      /\ \A k \in 1..Len(inbox) : conv[Len(rxq) + k] = inbox[k]
  BY <1>1, ConcatProperties, LenProperties
<1> HIDE DEF conv
<1>3. \A i \in DOMAIN conv : i \notin DOMAIN rxq =>
        \E k \in DOMAIN inbox : i = Len(rxq) + k /\ conv[i] = inbox[k]
  <2> SUFFICES ASSUME NEW i \in DOMAIN conv, i \notin DOMAIN rxq
               PROVE  \E k \in DOMAIN inbox : i = Len(rxq) + k /\ conv[i] = inbox[k]
    OBVIOUS
  <2>1. i - Len(rxq) \in DOMAIN inbox /\ i = Len(rxq) + (i - Len(rxq))
    BY <1>2
  <2> QED
    BY <1>2, <2>1
<1>4. \A k \in DOMAIN inbox : /\ Len(rxq) + k \in DOMAIN conv
                              /\ conv[Len(rxq) + k] = inbox[k]
                              /\ Len(rxq) + k \notin DOMAIN rxq
  BY <1>2
<1>5. /\ \A i \in DOMAIN conv : i \in Nat
      /\ \A i \in DOMAIN conv : i \in DOMAIN rxq => conv[i] = rxq[i]
      /\ \A i \in DOMAIN rxq : i \in DOMAIN conv
  BY <1>2
<1> QED
  BY <1>2, <1>3, <1>4, <1>5 DEF conv

LEMMA AlignedBeforeReady ==
  ASSUME Sound, TurnInv, AlignInv, PeerAlive, ~is_ready
  PROVE  ConversationAligned
<1>t. /\ in_flight \in Seq(RequestMsg) /\ inbox \in Seq(Msg)
      /\ inc \in Nat /\ peer \in 0..inc /\ peer # 0 /\ peer = inc
      /\ rxq \in Seq(Incoming)
  BY SoundFacts DEF PeerAlive
<1>0. pc # "stopped"
  BY <1>t DEF Sound, HandshakeInv, PeerInv
<1> DEFINE conv == rxq \o inbox
<1>1. ObjsOf(rxq) = {} /\ ObjsOf(inbox) = {}
  BY <1>0 DEF TurnInv, ObjectInv
<1>2. \A k \in DOMAIN in_flight :
        in_flight[k].op = "Object" => sent_to[in_flight[k].ctx] # inc
  <2> SUFFICES ASSUME NEW k \in DOMAIN in_flight, in_flight[k].op = "Object"
               PROVE  sent_to[in_flight[k].ctx] # inc
    OBVIOUS
  <2>1. in_flight[k] \in ObjsOf(in_flight)
    BY DEF ObjsOf
  <2>2. Bygone(sent_to[in_flight[k].ctx])
    BY <2>1 DEF TurnInv, SentInv
  <2> QED
    BY <1>t, <2>2 DEF Bygone
<1>3. \A k \in DOMAIN in_flight : in_flight[k] \in RequestMsg
  BY <1>t, ElementOfSeq, LenProperties
<1>4. \A k \in DOMAIN in_flight :
        in_flight[k].ctx # NoCtx => sent_to[in_flight[k].ctx] # inc
  BY <1>2, <1>3 DEF RequestMsg, ObjectMsg, ConnectMsg
<1>5. \A i, j \in Awaited(conv) : i = j
  <2>1. \A i \in DOMAIN rxq : rxq[i].op # "Object"
    BY <1>1 DEF ObjsOf
  <2>2. \A i \in DOMAIN inbox : inbox[i].op # "Object"
    BY <1>1 DEF ObjsOf
  <2>3. ASSUME NEW i \in Awaited(conv)
        PROVE  \/ i \in DOMAIN rxq /\ rxq[i].op = "Connect"
               \/ \E k \in DOMAIN inbox : i = Len(rxq) + k /\ inbox[k].op = "Connect"
    BY <2>1, <2>2, <2>3, ConvElements DEF Awaited, RequestOp
  <2>4. ASSUME NEW i \in Awaited(conv), NEW j \in Awaited(conv) PROVE i = j
    <3>1. CASE ConnectIn(rxq)
      <4>1. ~ConnectIn(inbox) /\ OneConnect(rxq)
        BY <3>1 DEF TurnInv, ConnectInv
      <4>2. /\ i \in DOMAIN rxq /\ rxq[i].op = "Connect"
            /\ j \in DOMAIN rxq /\ rxq[j].op = "Connect"
        BY <2>3, <4>1 DEF ConnectIn
      <4> QED
        BY <4>1, <4>2 DEF OneConnect
    <3>2. CASE ~ConnectIn(rxq)
      <4>1. OneConnect(inbox)
        BY DEF TurnInv, ConnectInv
      <4>2. /\ \E k \in DOMAIN inbox : i = Len(rxq) + k /\ inbox[k].op = "Connect"
            /\ \E k \in DOMAIN inbox : j = Len(rxq) + k /\ inbox[k].op = "Connect"
        BY <2>3, <3>2 DEF ConnectIn
      <4> QED
        BY <4>1, <4>2 DEF OneConnect
    <3> QED
      BY <3>1, <3>2
  <2> QED
    BY <2>4
<1>6. \A i \in Awaited(conv) :
        i \in Nat /\ Key(conv[i]) = <<"Connect", 0>> /\ ConnectIn(in_flight)
  <2> SUFFICES ASSUME NEW i \in Awaited(conv)
               PROVE  i \in Nat /\ Key(conv[i]) = <<"Connect", 0>> /\ ConnectIn(in_flight)
    OBVIOUS
  <2>0. i \in DOMAIN conv /\ conv[i].op \in RequestOp /\ i \in Nat
    BY ConvElements DEF Awaited
  <2>1. CASE i \in DOMAIN rxq
    <3>1. conv[i] = rxq[i]
      BY <2>0, <2>1, ConvElements
    <3>2. rxq[i].op = "Connect"
      BY <1>1, <2>0, <2>1, <3>1 DEF ObjsOf, RequestOp
    <3>3. rxq[i] \in ConnsOf(rxq) /\ ConnectIn(rxq)
      BY <2>1, <3>2 DEF ConnsOf, ConnectIn
    <3>4. rxq[i].seqn = 0 /\ ConnectIn(in_flight)
      BY <1>0, <3>3 DEF AlignInv, TokenInv, WaitInv
    <3> QED
      BY <2>0, <3>1, <3>2, <3>4 DEF Key
  <2>2. CASE i \notin DOMAIN rxq
    <3>1. PICK k \in DOMAIN inbox : conv[i] = inbox[k]
      BY <2>0, <2>2, ConvElements
    <3>2. inbox[k].op = "Connect"
      BY <1>1, <2>0, <3>1 DEF ObjsOf, RequestOp
    <3>3. inbox[k] \in Msg
      BY <1>t, ElementOfSeq, LenProperties
    <3>4. inbox[k] = ConnectMsg
      BY <3>2, <3>3 DEF Msg, RequestMsg, UnsentMsg, ObjectMsg, KeepaliveMsg,
         RefreshMsg
    <3>5. inbox[k].seqn = 0
      BY <3>4 DEF ConnectMsg
    <3>6. ConnectIn(in_flight)
      BY <1>0, <3>2 DEF AlignInv, WaitInv, ConnectIn
    <3> QED
      BY <2>0, <3>1, <3>2, <3>5, <3>6 DEF Key
  <2> QED
    BY <2>1, <2>2
<1>7. ConnectIn(in_flight) =>
        /\ Len(in_flight) \in DOMAIN in_flight
        /\ Key(in_flight[Len(in_flight)]) = <<"Connect", 0>>
  <2> HAVE ConnectIn(in_flight)
  <2>1. PICK k \in DOMAIN in_flight : in_flight[k].op = "Connect"
    BY DEF ConnectIn
  <2>2. k = Len(in_flight)
    BY <2>1 DEF AlignInv, WaitInv, ConnectLast
  <2>3. in_flight[k].seqn = 0
    BY <1>3, <2>1 DEF RequestMsg, ObjectMsg, ConnectMsg
  <2> QED
    BY <2>1, <2>2, <2>3 DEF Key
<1> DEFINE at == [i \in Awaited(conv) |-> Len(in_flight)]
<1>8. at \in [Awaited(conv) -> DOMAIN in_flight]
  BY <1>6, <1>7
<1>9. \A i \in Awaited(conv) : Key(in_flight[at[i]]) = Key(conv[i])
  BY <1>6, <1>7
<1>10. \A i, j \in Awaited(conv) : i < j => at[i] < at[j]
  BY <1>5, <1>6
<1>11. \A k \in DOMAIN in_flight \ {at[i] : i \in Awaited(conv)} :
         /\ \A i \in Awaited(conv) : k < at[i]
         /\ in_flight[k].ctx # NoCtx => sent_to[in_flight[k].ctx] # inc
  <2> SUFFICES ASSUME NEW k \in DOMAIN in_flight, k \notin {at[i] : i \in Awaited(conv)},
                      NEW i \in Awaited(conv)
               PROVE  k < at[i]
    BY <1>4
  <2>1. at[i] = Len(in_flight) /\ k # at[i]
    OBVIOUS
  <2> QED
    BY <1>t, <2>1, LenProperties
<1> HIDE DEF at
<1> QED
  BY <1>8, <1>9, <1>10, <1>11 DEF ConversationAligned, conv

LEMMA AlignedOnceReady ==
  ASSUME Sound, TurnInv, AlignInv, PeerAlive, is_ready
  PROVE  ConversationAligned
<1>t. in_flight \in Seq(RequestMsg) /\ DOMAIN in_flight = 1..Len(in_flight)
      /\ Len(in_flight) \in Nat
  BY SoundFacts, LenProperties
<1> DEFINE conv == rxq \o inbox
<1>1. /\ Rising(rxq) /\ Rising(inbox) /\ Rising(in_flight)
      /\ \A n \in Nums(inbox), r \in Nums(rxq) : r < n
      /\ Nums(in_flight) = Nums(rxq) \cup Nums(inbox)
      /\ ~ConnectIn(in_flight) /\ ~ConnectIn(rxq) /\ ~ConnectIn(inbox)
      /\ \A n \in Nums(in_flight) : n \in Nat
  BY InFlightRising DEF AlignInv, NumsInv, WaitInv, TurnInv, ConnectInv
<1>2. \A k \in DOMAIN in_flight :
        in_flight[k].op = "Object" /\ in_flight[k].seqn \in Nums(in_flight)
  <2> SUFFICES ASSUME NEW k \in DOMAIN in_flight
               PROVE  in_flight[k].op = "Object" /\ in_flight[k].seqn \in Nums(in_flight)
    OBVIOUS
  <2>1. in_flight[k] \in RequestMsg /\ in_flight[k].op # "Connect"
    BY <1>t, <1>1, ElementOfSeq DEF ConnectIn
  <2>2. in_flight[k].op = "Object"
    BY <2>1 DEF RequestMsg, ObjectMsg, ConnectMsg
  <2>3. in_flight[k] \in ObjsOf(in_flight)
    BY <2>2 DEF ObjsOf
  <2> QED
    BY <2>2, <2>3 DEF Nums
\* each request or response owed stands in one of the two queues
<1>3. ASSUME NEW i \in Awaited(conv)
      PROVE  /\ conv[i].op = "Object" /\ i \in Nat
             /\ conv[i].seqn \in Nums(in_flight)
             /\ \/ i \in DOMAIN rxq /\ conv[i] = rxq[i] /\ conv[i].seqn \in Nums(rxq)
                \/ /\ i \notin DOMAIN rxq /\ conv[i].seqn \in Nums(inbox)
                   /\ \E k \in DOMAIN inbox : i = Len(rxq) + k /\ conv[i] = inbox[k]
  <2>1. i \in DOMAIN conv /\ conv[i].op \in RequestOp /\ i \in Nat
    BY ConvElements DEF Awaited
  <2>2. CASE i \in DOMAIN rxq
    <3>1. conv[i] = rxq[i]
      BY <2>1, <2>2, ConvElements
    <3>2. conv[i].op = "Object"
      BY <1>1, <2>1, <2>2, <3>1 DEF ConnectIn, RequestOp
    <3>3. rxq[i] \in ObjsOf(rxq)
      BY <2>2, <3>1, <3>2 DEF ObjsOf
    <3>4. conv[i].seqn \in Nums(rxq)
      BY <3>1, <3>3 DEF Nums
    <3> QED
      BY <1>1, <2>1, <2>2, <3>1, <3>2, <3>4
  <2>3. CASE i \notin DOMAIN rxq
    <3>1. PICK k \in DOMAIN inbox : i = Len(rxq) + k /\ conv[i] = inbox[k]
      BY <2>1, <2>3, ConvElements
    <3>2. conv[i].op = "Object"
      BY <1>1, <2>1, <3>1 DEF ConnectIn, RequestOp
    <3>3. inbox[k] \in ObjsOf(inbox)
      BY <3>1, <3>2 DEF ObjsOf
    <3>4. conv[i].seqn \in Nums(inbox)
      BY <3>1, <3>3 DEF Nums
    <3> QED
      BY <1>1, <2>1, <2>3, <3>1, <3>2, <3>4
  <2> QED
    BY <2>2, <2>3
<1>4. ASSUME NEW i \in Awaited(conv), NEW j \in Awaited(conv), i < j
      PROVE  conv[i].seqn < conv[j].seqn
  <2>1. conv[i].op = "Object" /\ conv[j].op = "Object" /\ i \in Nat /\ j \in Nat
    BY <1>3
  <2>2. CASE i \in DOMAIN rxq /\ j \in DOMAIN rxq
    <3>1. conv[i] = rxq[i] /\ conv[j] = rxq[j]
      BY <1>3, <2>2
    <3> QED
      BY <1>1, <1>4, <2>1, <2>2, <3>1 DEF Rising
  <2>3. CASE i \in DOMAIN rxq /\ j \notin DOMAIN rxq
    BY <1>1, <1>3, <2>3
  <2>4. CASE i \notin DOMAIN rxq
    <3>1. j \notin DOMAIN rxq
      BY <1>4, <2>1, <2>4, ConvElements, <1>3
    <3>2. PICK k \in DOMAIN inbox : i = Len(rxq) + k /\ conv[i] = inbox[k]
      BY <1>3, <2>4
    <3>3. PICK l \in DOMAIN inbox : j = Len(rxq) + l /\ conv[j] = inbox[l]
      BY <1>3, <3>1
    <3>4. k < l
      BY <1>4, <3>2, <3>3, ConvElements
    <3> QED
      BY <1>1, <2>1, <3>2, <3>3, <3>4 DEF Rising
  <2> QED
    BY <2>2, <2>3, <2>4
<1>5. ASSUME NEW n \in Nums(in_flight)
      PROVE  \E i \in Awaited(conv) : conv[i].seqn = n
  <2>1. CASE n \in Nums(rxq)
    <3>1. PICK i \in DOMAIN rxq : rxq[i].op = "Object" /\ rxq[i].seqn = n
      BY <2>1 DEF Nums, ObjsOf
    <3>2. i \in DOMAIN conv /\ conv[i] = rxq[i]
      BY ConvElements
    <3> QED
      BY <3>1, <3>2 DEF Awaited, RequestOp
  <2>2. CASE n \in Nums(inbox)
    <3>1. PICK k \in DOMAIN inbox : inbox[k].op = "Object" /\ inbox[k].seqn = n
      BY <2>2 DEF Nums, ObjsOf
    <3>2. Len(rxq) + k \in DOMAIN conv /\ conv[Len(rxq) + k] = inbox[k]
      BY ConvElements
    <3> QED
      BY <3>1, <3>2 DEF Awaited, RequestOp
  <2> QED
    BY <1>1, <1>5, <2>1, <2>2
<1> HIDE DEF conv
<1> DEFINE Same(i, k) == in_flight[k].seqn = conv[i].seqn
           at == [i \in Awaited(conv) |-> CHOOSE k \in DOMAIN in_flight : Same(i, k)]
<1>6. \A i \in Awaited(conv) : at[i] \in DOMAIN in_flight /\ Same(i, at[i])
  <2> TAKE i \in Awaited(conv)
  <2>1. \E k \in DOMAIN in_flight : Same(i, k)
    BY <1>3 DEF Nums, ObjsOf
  <2> QED
    BY <2>1
<1> HIDE DEF at
<1>7. \A i \in Awaited(conv) : Key(in_flight[at[i]]) = Key(conv[i])
  BY <1>2, <1>3, <1>6 DEF Key
<1>8. \A k, l \in DOMAIN in_flight :
        /\ in_flight[k].seqn < in_flight[l].seqn => k < l
        /\ in_flight[k].seqn = in_flight[l].seqn => k = l
  <2> TAKE k, l \in DOMAIN in_flight
  <2>1. /\ k < l => in_flight[k].seqn < in_flight[l].seqn
        /\ l < k => in_flight[l].seqn < in_flight[k].seqn
    BY <1>1, <1>2 DEF Rising
  <2>2. in_flight[k].seqn \in Nat /\ in_flight[l].seqn \in Nat
    BY <1>1, <1>2
  <2> QED
    BY <1>t, <2>1, <2>2
<1>9. \A i, j \in Awaited(conv) : i < j => at[i] < at[j]
  BY <1>4, <1>6, <1>8
<1>10. DOMAIN in_flight \ {at[i] : i \in Awaited(conv)} = {}
  <2> SUFFICES ASSUME NEW k \in DOMAIN in_flight PROVE \E i \in Awaited(conv) : k = at[i]
    OBVIOUS
  <2>1. PICK i \in Awaited(conv) : conv[i].seqn = in_flight[k].seqn
    BY <1>2, <1>5
  <2> QED
    BY <1>6, <1>8, <2>1
<1>11. at \in [Awaited(conv) -> DOMAIN in_flight]
  BY <1>6 DEF at
<1> QED
  BY <1>7, <1>9, <1>10, <1>11 DEF ConversationAligned, conv

(***************************************************************************)
(* What the live incarnation owes is the end of what is in flight, in      *)
(* order, and what precedes it went to a dead one.                         *)
(***************************************************************************)
THEOREM ConversationAlwaysAligned == AnswersInOrder => (Spec => []ConversationAligned)
<1> SUFFICES ASSUME AnswersInOrder PROVE Spec => []ConversationAligned
  OBVIOUS
<1>0. ~PeerAlive => ConversationAligned
  BY DEF ConversationAligned
<1>1. Sound /\ TurnInv /\ AlignInv => ConversationAligned
  BY <1>0, AlignedBeforeReady, AlignedOnceReady
<1> QED
  BY <1>1, AlignInvariant, PTL

-----------------------------------------------------------------------------
(***************************************************************************)
(* When no send fails on a live connection, a connected plugin that may    *)
(* not send has a Connect in flight: dp_connect() finds the queue of a     *)
(* dataplane it was not connected to empty, so its Connect is sent.        *)
(***************************************************************************)
AwaitInv ==
  /\ dp_sock_connected /\ ~is_ready /\ pc \notin {"send_connect", "aborted", "stopped"}
       => ConnectIn(in_flight)
  /\ pc = "send_connect" => inbox = <<>>

LEMMA SendConnectOnly ==
  ASSUME [Next]_vars, pc = "send_connect", pc' # pc
  PROVE  \E o \in {"ok", "again", "conn", "error"} : SendConnect(o)
<1>1. ~UNCHANGED vars
  BY DEF vars, callVars
<1>2. ~Receive
  BY DEF Receive, RecvNothing, RecvUndecodable, Received, PurgeRequest,
     PurgeConnect, PurgeDone
<1>3. ~Drain /\ ~Events /\ ~Process /\ ~FiniLate
  BY DEF Drain, DrainDone, DrainNotReady, DrainSent, DrainFailed, Events,
     ConnectTimer, dp_sock_send_cb, dp_send_keepalive, dp_rpc_recv, Process,
     zd_hh_process, ProcessQueued, ProcessAnswered, ProcessFinalizing, FiniLate
<1>4. ~FiniEarly /\ ~DpNext
  BY DpStepsOnly DEF FiniEarly, callVars, DpOnly
<1>5. Connect
  BY <1>1, <1>2, <1>3, <1>4 DEF Next, CallStep
<1> QED
  BY <1>5 DEF Connect, ConnectNoSock, ConnectFails, ConnectSucceeds

LEMMA DpQueue ==
  DpNext => inbox' = inbox \/ inbox' = <<>> \/ (inbox # <<>> /\ inbox' = Tail(inbox))
BY DEF DpNext, DpStart, DpCrash, DpServe, DpServeConnect, DpServeObject,
   DpServeControl, DpRequestRefresh, DpRogue, dpVars

\* The Connect that dp_connect() sends is refused by no full queue.
LEMMA AwaitSent ==
  ASSUME "send" \notin FaultKinds, Sound, AwaitInv, pc = "send_connect",
         NEW o \in {"ok", "again", "conn", "error"}, SendConnect(o)
  PROVE  AwaitInv'
<1>t. in_flight \in Seq(RequestMsg)
  BY SoundFacts
<1>1. inbox = <<>> /\ Len(inbox) # QLen
  BY ConstantsOK, EmptySeq DEF AwaitInv
<1>2. Transient = {}
  BY DEF Transient, CanFault
<1>3. ConnectMsg.ctx \notin Unencodable
  BY ConstantsOK DEF ConnectMsg
<1>4. /\ SockSend(ConnectMsg, o) /\ ConnectionLost(o)
      /\ o = "ok" => in_flight' = Append(in_flight, ConnectMsg)
      /\ pc' # "send_connect"
  BY ReturnsQuietly DEF SendConnect, dp_msg_cache_inflight
<1>5. o \in {"ok", "conn"}
  BY <1>1, <1>2, <1>3, <1>4 DEF SockSend, SendOutcome
<1>6. CASE o = "ok"
  <2>1. ConnectIn(Append(in_flight, ConnectMsg))
    BY <1>t, MsgFacts, AppendProperties, LenProperties DEF ConnectIn, ConnectMsg
  <2> QED
    BY <1>4, <1>6, <2>1 DEF AwaitInv
<1>7. CASE o = "conn"
  BY <1>4, <1>7 DEF AwaitInv, ConnectionLost
<1> QED
  BY <1>5, <1>6, <1>7

LEMMA AwaitStep ==
  ASSUME AnswersInOrder, "send" \notin FaultKinds,
         Sound, TurnInv, AlignInv, AwaitInv, [Next]_vars
  PROVE  AwaitInv'
<1>t. in_flight \in Seq(RequestMsg) /\ inc \in Nat /\ (up => inc > 0)
  BY SoundFacts
<1>a. TokensDiffer /\ ~RecvUndecodable
  BY DEF AnswersInOrder, RecvUndecodable, CanFault
<1>1. CASE pc = "send_connect" /\ pc' # pc
  BY <1>1, SendConnectOnly, AwaitSent
<1>2. CASE ~(pc = "send_connect" /\ pc' # pc)
  <2>1. CASE Still
    BY <1>2, <2>1 DEF AwaitInv, Still
  <2>2. CASE PeerLost
    BY <2>2 DEF AwaitInv, PeerLost
  <2>3. CASE ConnectSucceeds
    <3>1. pc = "connect" /\ up /\ pc' = "send_connect" /\ inbox' = inbox
      BY <2>3 DEF ConnectSucceeds, dpVars
    <3>2. inbox = <<>>
      BY <1>t, <3>1 DEF Sound, HandshakeInv, PeerInv, ServedInv, PeerAlive
    <3> QED
      BY <3>1, <3>2 DEF AwaitInv
  <2>4. CASE Sends
    <3>1. ~SendConnect("ok")
      BY <1>2, ReturnsQuietly DEF SendConnect
    <3>2. \E m \in Msg : SendsOn(m)
      BY <2>4, <3>1, SentFacts DEF Sends
    <3> QED
      BY <3>2 DEF SendsOn, AwaitInv
  <2>5. ASSUME NEW r, Reads(r) PROVE AwaitInv'
    BY <2>5 DEF AwaitInv, Reads, Received
  <2>6. ASSUME NEW r, Responds(r) PROVE AwaitInv'
    <3>0. ~RecvUnsolicited(r) /\ ~RecvMismatch(r)
      BY <1>a, Expected DEF ResponseExpected, RecvUnsolicited, RecvMismatch, Received
    <3>1. CASE RecvRestart(r)
      BY <3>1 DEF RecvRestart, Received, AwaitInv, connVars, cacheVars
    <3>2. CASE RecvConnectResponse(r)
      BY <3>2 DEF RecvConnectResponse, handle_rpc_connect_response, AwaitInv
    <3>3. CASE handle_rpc_ctx_response(r)
      <4>1. pc = "recv" /\ rxq # <<>> /\ Head(rxq).op = "Object"
            /\ UNCHANGED <<pc, is_ready>>
        BY <3>3 DEF handle_rpc_ctx_response, Received, callVars, connVars
      <4>2. is_ready
        BY <4>1, ObjectAnswered
      <4> QED
        BY <4>1, <4>2 DEF AwaitInv
    <3> QED
      BY <2>6, <3>0, <3>1, <3>2, <3>3 DEF Responds
  <2>7. CASE PurgeRequest
    <3>1. /\ pc = "purge" /\ in_flight # <<>> /\ Head(in_flight).op # "Connect"
          /\ in_flight' = Tail(in_flight)
          /\ UNCHANGED <<pc, dp_sock_connected, is_ready>>
      BY <2>7 DEF PurgeRequest, callVars, connVars
    <3>2. ConnectIn(in_flight')
      BY <1>t, <3>1, ConnectLastKept DEF AlignInv, WaitInv, TokenInv
    <3> QED
      BY <3>1, <3>2 DEF AwaitInv
  <2>8. CASE PurgeConnect
    BY <2>8 DEF PurgeConnect, handle_rpc_connect_response, AwaitInv
  <2>9. CASE PurgeDone
    BY <2>9 DEF PurgeDone, AwaitInv, connVars, cacheVars
  <2>10. ASSUME NEW c \in Ctx, ProcessQueued(c) PROVE AwaitInv'
    BY <2>10 DEF ProcessQueued, AwaitInv, connVars
  <2>11. CASE FiniLate
    BY <2>11 DEF FiniLate, AwaitInv
  <2>12. CASE DpNext
    BY <2>12, DpStepsOnly, DpQueue DEF DpOnly, AwaitInv
  <2> QED
    BY <1>a, <2>1, <2>2, <2>3, <2>4, <2>5, <2>6, <2>7, <2>8, <2>9, <2>10, <2>11,
       <2>12, StepKinds
<1> QED
  BY <1>1, <1>2

(***************************************************************************)
(* So a connected plugin that is not ready waits for the answer to a       *)
(* Connect it has sent, whatever was refused, lost or purged before.       *)
(***************************************************************************)
THEOREM ConnectAlwaysAwaited ==
  AnswersInOrder /\ "send" \notin FaultKinds => (Spec => []ConnectAwaited)
<1> SUFFICES ASSUME AnswersInOrder, "send" \notin FaultKinds
             PROVE  Spec => []ConnectAwaited
  OBVIOUS
<1>1. Spec => [](Sound /\ TurnInv /\ AlignInv)
  BY AlignInvariant
<1>2. Init => AwaitInv
  BY DEF Init, AwaitInv
<1>3. (Sound /\ TurnInv /\ AlignInv) /\ AwaitInv /\ [Next]_vars => AwaitInv'
  BY AwaitStep
<1>4. AwaitInv => ConnectAwaited
  BY DEF AwaitInv, ConnectAwaited, ConnectIn
<1> QED
  BY <1>1, <1>2, <1>3, <1>4, PTL DEF Spec
=============================================================================
