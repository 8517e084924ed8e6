----------------------------- MODULE DpConnProofs -----------------------------
(***************************************************************************)
(* The connection, for every value of the constants: the handshake with    *)
(* each incarnation of the dataplane, and the events that keep the plugin  *)
(* going.                                                                  *)
(***************************************************************************)
EXTENDS DpProofs

(***************************************************************************)
(* What the proofs look at in the queues of the sockets.                   *)
(***************************************************************************)
AcceptanceIn(q) == \E i \in DOMAIN q : q[i].op = "Connect" /\ q[i].ok

ConnectIn(q) == \E i \in DOMAIN q : q[i].op = "Connect"

OtherIn(q) == \E i \in DOMAIN q : q[i].op # "Connect"

(***************************************************************************)
(* What Append() and Tail() leave of a queue, element by element, and hence *)
(* of these.                                                               *)
(***************************************************************************)
LEMMA QueueElems ==
  ASSUME NEW S, NEW s \in Seq(S)
  PROVE  /\ \A e \in S : \A i \in DOMAIN Append(s, e) :
              Append(s, e)[i] = e \/ (i \in DOMAIN s /\ Append(s, e)[i] = s[i])
         /\ s # <<>> => /\ 1 \in DOMAIN s /\ Head(s) = s[1]
                        /\ \A i \in DOMAIN Tail(s) :
                             i + 1 \in DOMAIN s /\ Tail(s)[i] = s[i + 1]
<1>1. ASSUME NEW e \in S, NEW i \in DOMAIN Append(s, e)
      PROVE  Append(s, e)[i] = e \/ (i \in DOMAIN s /\ Append(s, e)[i] = s[i])
  BY AppendProperties
<1>2. ASSUME s # <<>>
      PROVE  /\ 1 \in DOMAIN s /\ Head(s) = s[1]
             /\ \A i \in DOMAIN Tail(s) :
                  i + 1 \in DOMAIN s /\ Tail(s)[i] = s[i + 1]
  BY <1>2, HeadTailProperties, LenProperties, EmptySeq
<1> QED
  BY <1>1, <1>2

LEMMA Acceptance ==
  ASSUME NEW S, NEW s \in Seq(S)
  PROVE  /\ ~AcceptanceIn(<<>>)
         /\ \A e \in S : AcceptanceIn(Append(s, e)) =>
              AcceptanceIn(s) \/ (e.op = "Connect" /\ e.ok)
         /\ s # <<>> => /\ AcceptanceIn(Tail(s)) => AcceptanceIn(s)
                        /\ Head(s).op = "Connect" /\ Head(s).ok => AcceptanceIn(s)
         /\ AcceptanceIn(s) => ConnectIn(s)
BY QueueElems, EmptySeq DEF AcceptanceIn, ConnectIn

LEMMA Connects ==
  ASSUME NEW S, NEW s \in Seq(S)
  PROVE  /\ ~ConnectIn(<<>>)
         /\ \A e \in S : ConnectIn(Append(s, e)) => ConnectIn(s) \/ e.op = "Connect"
         /\ s # <<>> => /\ ConnectIn(Tail(s)) => ConnectIn(s)
                        /\ Head(s).op = "Connect" => ConnectIn(s)
BY QueueElems, EmptySeq DEF ConnectIn

LEMMA Other ==
  ASSUME NEW S, NEW s \in Seq(S)
  PROVE  /\ ~OtherIn(<<>>)
         /\ \A e \in S : OtherIn(Append(s, e)) => OtherIn(s) \/ e.op # "Connect"
         /\ s # <<>> => (OtherIn(Tail(s)) => OtherIn(s))
BY QueueElems, EmptySeq DEF OtherIn

-----------------------------------------------------------------------------
(***************************************************************************)
(* The handshake.  A socket without a peer has no response to Connect to   *)
(* read and may not send; a connection attempt only begins on such a       *)
(* socket.                                                                 *)
(***************************************************************************)
PeerInv ==
  /\ peer \in 0..inc
  /\ peer = 0 => ~ConnectIn(rxq) /\ ~is_ready /\ pc # "purge"
  /\ pc \in {"connect", "stopped"} \/ ev_connect_timer => peer = 0
  /\ pc = "stopped" => dp_sock = NO_SOCK

(***************************************************************************)
(* A dataplane that the plugin is not connected to has received nothing    *)
(* and accepted nothing.                                                   *)
(***************************************************************************)
ServedInv ==
  /\ ~up => inbox = <<>>
  /\ ~PeerAlive /\ pc # "stopped" => inbox = <<>> /\ ~acked

(***************************************************************************)
(* Leave to send comes from the peer, through its response to a Connect:   *)
(* under way, held by a purge, or turned into __dplane_is_ready.           *)
(***************************************************************************)
LeaveInv ==
  PeerAlive /\ (is_ready \/ AcceptanceIn(rxq) \/ (pc = "purge" /\ resp.ok))
    => acked

HandshakeInv == PeerInv /\ ServedInv /\ LeaveInv /\ ConnectFirst

LEMMA ConnectFirstMeans == ConnectFirst <=> (up /\ OtherIn(inbox) => acked)
BY DEF ConnectFirst, OtherIn

(***************************************************************************)
(* It holds when the plugin starts.                                        *)
(***************************************************************************)
LEMMA HandshakeInit == Init => HandshakeInv
<1> SUFFICES ASSUME Init PROVE HandshakeInv
  OBVIOUS
<1>1. PeerInv
  BY DEF Init, PeerInv, ConnectIn
<1>2. ServedInv /\ ConnectFirst
  BY DEF Init, ServedInv, ConnectFirst
<1>3. LeaveInv
  BY DEF Init, LeaveInv, PeerAlive
<1> QED
  BY <1>1, <1>2, <1>3 DEF HandshakeInv

(***************************************************************************)
(* A quiet step takes at most a message from the socket, and neither       *)
(* connects nor gives leave to send.                                       *)
(***************************************************************************)
Quiet ==
  /\ UNCHANGED <<peer, inc, up, inbox, acked, dp_sock, is_ready>>
  /\ rxq' = rxq \/ (rxq # <<>> /\ rxq' = Tail(rxq))
  /\ ev_connect_timer' => ev_connect_timer
  /\ pc = "stopped" <=> pc' = "stopped"
  /\ pc' # "connect"
  /\ pc' = "purge" => pc = "purge" /\ resp' = resp

LEMMA QuietKeeps == TypeOK /\ HandshakeInv /\ Quiet => HandshakeInv'
<1> SUFFICES ASSUME TypeOK, HandshakeInv, Quiet PROVE HandshakeInv'
  OBVIOUS
<1>1. rxq \in Seq(Incoming)
  BY DEF TypeOK, PeerTypeOK
<1>2. AcceptanceIn(rxq') => AcceptanceIn(rxq)
  BY <1>1, Acceptance DEF Quiet
<1>9. ConnectIn(rxq') => ConnectIn(rxq)
  BY <1>1, Connects DEF Quiet
<1>3. PeerInv'
  BY <1>9 DEF HandshakeInv, PeerInv, Quiet
<1>4. ServedInv'
  BY DEF HandshakeInv, ServedInv, PeerAlive, Quiet
<1>5. LeaveInv'
  BY <1>2 DEF HandshakeInv, LeaveInv, PeerAlive, Quiet
<1>6. ConnectFirst'
  BY DEF HandshakeInv, ConnectFirst, Quiet
<1> QED
  BY <1>3, <1>4, <1>5, <1>6 DEF HandshakeInv

(***************************************************************************)
(* So does a step that moves nothing of it.                                *)
(***************************************************************************)
LEMMA SameHandshake ==
  ASSUME HandshakeInv,
         UNCHANGED <<pc, resp, peer, inc, up, inbox, acked, dp_sock, is_ready,
                     rxq, ev_connect_timer>>
  PROVE  HandshakeInv'
BY DEF HandshakeInv, PeerInv, ServedInv, LeaveInv, ConnectFirst, PeerAlive

(***************************************************************************)
(* A connection error: the kernel drops the dead peer and what it had      *)
(* sent, and the plugin may not send any more.                             *)
(***************************************************************************)
Lost ==
  /\ peer' = 0 /\ rxq' = <<>> /\ is_ready' = FALSE
  /\ ~PeerAlive
  /\ UNCHANGED <<inc, up, inbox, acked, dp_sock>>
  /\ pc # "stopped" /\ pc' \notin {"stopped", "purge"}

LEMMA LostKeeps == TypeOK /\ HandshakeInv /\ Lost => HandshakeInv'
<1> SUFFICES ASSUME TypeOK, HandshakeInv, Lost PROVE HandshakeInv'
  OBVIOUS
<1>1. inc \in Nat /\ (up => inc > 0)
  BY ConstantsOK DEF TypeOK, PeerTypeOK
<1>2. PeerInv'
  BY <1>1 DEF PeerInv, Lost, ConnectIn
<1>3. ServedInv'
  BY DEF HandshakeInv, ServedInv, Lost
<1>4. LeaveInv'
  BY <1>1 DEF LeaveInv, PeerAlive, Lost
<1>5. ConnectFirst'
  BY DEF HandshakeInv, ConnectFirst, Lost
<1> QED
  BY <1>2, <1>3, <1>4, <1>5 DEF HandshakeInv

(***************************************************************************)
(* A message is sent to the live peer: a Connect, or another one if the    *)
(* peer has accepted one.                                                  *)
(***************************************************************************)
LEMMA SentKeeps ==
  ASSUME TypeOK, HandshakeInv, NEW m \in Msg, SockSend(m, "ok"),
         m.op = "Connect" \/ is_ready,
         UNCHANGED <<inc, up, acked, dp_sock, is_ready, resp>>,
         ev_connect_timer' => ev_connect_timer,
         pc \notin {"stopped", "purge"}, pc' \notin {"stopped", "purge", "connect"}
  PROVE  HandshakeInv'
<1>1. /\ PeerAlive
      /\ inbox' = Append(inbox, m) /\ UNCHANGED <<peer, rxq>>
  BY DEF SockSend, SendOutcome, Transient
<1>2. inbox \in Seq(Msg)
  BY DEF TypeOK, PeerTypeOK
<1>3. m.op # "Connect" => acked
  BY <1>1 DEF HandshakeInv, LeaveInv
<1>4. OtherIn(inbox') => acked
  BY <1>1, <1>2, <1>3, Other, ConnectFirstMeans DEF HandshakeInv, PeerAlive
<1>5. PeerInv'
  BY <1>1 DEF HandshakeInv, PeerInv
<1>6. ServedInv'
  BY <1>1 DEF ServedInv, PeerAlive
<1>7. LeaveInv'
  BY <1>1 DEF HandshakeInv, LeaveInv, PeerAlive
<1>8. ConnectFirst'
  <2>1. acked' = acked
    OBVIOUS
  <2> QED
    BY <1>4, <2>1 DEF ConnectFirst, OtherIn
<1> QED
  BY <1>5, <1>6, <1>7, <1>8 DEF HandshakeInv

-----------------------------------------------------------------------------
(***************************************************************************)
(* The steps of the plugin.                                                *)
(***************************************************************************)
LEMMA ReturnsQuietly ==
  ASSUME NEW fd, NEW ev, SendReturns(fd, ev)
  PROVE  pc' \in {"idle", "recv", "aborted"}
BY DEF SendReturns

LEMMA ConnectHandshake == TypeOK /\ HandshakeInv /\ Connect => HandshakeInv'
<1> SUFFICES ASSUME TypeOK, HandshakeInv, Connect PROVE HandshakeInv'
  OBVIOUS
<1>t. inc \in Nat /\ (up => inc > 0)
  BY ConstantsOK DEF TypeOK, PeerTypeOK
<1>1. CASE ConnectNoSock
  <2>1. pc' \in {"idle", "recv", "aborted"} /\ pc = "connect"
    BY <1>1, ReturnsQuietly DEF ConnectNoSock
  <2>2. UNCHANGED <<peer, inc, up, inbox, acked, dp_sock, is_ready, rxq,
                    ev_connect_timer>>
    BY <1>1 DEF ConnectNoSock, connVars, netVars, dpVars
  <2> QED
    BY <2>1, <2>2, QuietKeeps DEF Quiet
<1>2. ASSUME NEW f \in Fd \cup {NO_SOCK}, ConnectFails(f) PROVE HandshakeInv'
  <2>1. pc' \in {"idle", "recv", "aborted"} /\ pc = "connect"
    BY <1>2, ReturnsQuietly DEF ConnectFails, Abort
  <2>2. /\ ~up /\ peer' = 0 /\ rxq' = <<>> /\ is_ready' = FALSE
        /\ UNCHANGED <<inc, up, inbox, acked>>
    BY <1>2 DEF ConnectFails, dpVars
  <2>3. PeerInv'
    BY <1>t, <2>1, <2>2 DEF PeerInv, ConnectIn
  <2>4. ServedInv' /\ ConnectFirst'
    BY <2>1, <2>2 DEF HandshakeInv, ServedInv, PeerAlive, ConnectFirst
  <2>5. LeaveInv'
    BY <2>2 DEF LeaveInv, PeerAlive
  <2> QED
    BY <2>3, <2>4, <2>5 DEF HandshakeInv
<1>3. CASE ConnectSucceeds
  <2>1. /\ pc = "connect" /\ pc' = "send_connect" /\ up
        /\ peer' = inc /\ ev_connect_timer' = FALSE
        /\ UNCHANGED <<inc, up, inbox, acked, dp_sock, is_ready>>
    BY <1>3 DEF ConnectSucceeds, dpVars
  <2>2. peer = 0 /\ ~ConnectIn(rxq) /\ ~is_ready
    BY <2>1 DEF HandshakeInv, PeerInv
  <2>3. rxq' = rxq
    BY <1>3, <2>2 DEF ConnectSucceeds
  <2>4. ~AcceptanceIn(rxq')
    BY <2>2, <2>3 DEF AcceptanceIn, ConnectIn
  <2>5. PeerInv'
    BY <1>t, <2>1 DEF PeerInv
  <2>6. ServedInv' /\ ConnectFirst'
    BY <2>1 DEF HandshakeInv, ServedInv, PeerAlive, ConnectFirst
  <2>7. LeaveInv'
    BY <2>1, <2>2, <2>4 DEF LeaveInv
  <2> QED
    BY <2>5, <2>6, <2>7 DEF HandshakeInv
<1>4. ASSUME NEW o \in {"ok", "again", "conn", "error"}, SendConnect(o)
      PROVE  HandshakeInv'
  <2>1. /\ pc = "send_connect" /\ SockSend(ConnectMsg, o) /\ ConnectionLost(o)
        /\ pc' \in {"idle", "recv", "aborted", "connect"}
        /\ (pc' = "connect" => o = "conn")
        /\ UNCHANGED <<inc, up, acked, dp_sock, resp, ev_connect_timer>>
    BY <1>4, ReturnsQuietly DEF SendConnect
  <2>2. CASE o = "ok"
    <3>1. UNCHANGED is_ready
      BY <2>1, <2>2 DEF ConnectionLost, TypeOK, ConnTypeOK
    <3>2. ConnectMsg \in Msg /\ ConnectMsg.op = "Connect"
      BY MsgFacts DEF ConnectMsg
    <3> QED
      BY <2>1, <2>2, <3>1, <3>2, SentKeeps
  <2>3. CASE o = "conn"
    BY <2>1, <2>3, LostKeeps DEF Lost, SockSend, SendOutcome, Transient,
       ConnectionLost
  <2>4. CASE o \notin {"ok", "conn"}
    <3>1. UNCHANGED <<is_ready, peer, rxq, inbox>>
      BY <2>1, <2>4 DEF SockSend, ConnectionLost, TypeOK, ConnTypeOK
    <3> QED
      BY <2>1, <2>4, <3>1, QuietKeeps DEF Quiet
  <2> QED
    BY <2>2, <2>3, <2>4
<1> QED
  BY <1>1, <1>2, <1>3, <1>4 DEF Connect

LEMMA DrainHandshake == TypeOK /\ HandshakeInv /\ Drain => HandshakeInv'
<1> SUFFICES ASSUME TypeOK, HandshakeInv, Drain PROVE HandshakeInv'
  OBVIOUS
<1>1. CASE DrainDone \/ DrainNotReady
  <2>1. pc' \in {"idle", "recv", "aborted"} /\ pc = "drain"
    BY <1>1, ReturnsQuietly DEF DrainDone, DrainNotReady
  <2>2. UNCHANGED <<peer, inc, up, inbox, acked, dp_sock, is_ready, rxq,
                    ev_connect_timer>>
    BY <1>1 DEF DrainDone, DrainNotReady, connVars, netVars, dpVars
  <2> QED
    BY <2>1, <2>2, QuietKeeps DEF Quiet
<1>2. CASE DrainSent
  <2> DEFINE m == Head(unsent)
  <2>1. m \in Msg
    BY <1>2, UnsentFacts, MsgFacts DEF DrainSent, TypeOK
  <2>2. /\ SockSend(m, "ok") /\ (m.op = "Connect" \/ is_ready)
        /\ pc = "drain" /\ pc' = pc
        /\ UNCHANGED <<inc, up, acked, dp_sock, is_ready, resp, ev_connect_timer>>
    BY <1>2 DEF DrainSent, can_send_rpc_request, callVars, connVars, evVars
  <2> HIDE DEF m
  <2> QED
    BY <2>1, <2>2, SentKeeps
<1>3. CASE DrainFailed
  <2>1. PICK o \in {"again", "conn", "error"} :
          /\ SockSend(Head(unsent), o) /\ ConnectionLost(o)
          /\ pc' \in {"idle", "recv", "aborted", "connect"}
          /\ pc' = "connect" => o = "conn"
    BY <1>3, ReturnsQuietly DEF DrainFailed
  <2>2. /\ pc = "drain"
        /\ UNCHANGED <<inc, up, acked, dp_sock, ev_connect_timer>>
    BY <1>3 DEF DrainFailed
  <2>3. CASE o = "conn"
    BY <2>1, <2>2, <2>3, LostKeeps DEF Lost, SockSend, SendOutcome, Transient,
       ConnectionLost
  <2>4. CASE o # "conn"
    <3>1. UNCHANGED <<is_ready, peer, rxq, inbox>>
      BY <2>1, <2>4 DEF SockSend, ConnectionLost, TypeOK, ConnTypeOK
    <3> QED
      BY <2>1, <2>2, <2>4, <3>1, QuietKeeps DEF Quiet
  <2> QED
    BY <2>3, <2>4
<1> QED
  BY <1>1, <1>2, <1>3 DEF Drain

(***************************************************************************)
(* A positive response to Connect is taken from the socket, or by a purge, *)
(* only of a peer that has accepted one.                                   *)
(***************************************************************************)
LEMMA LeaveTaken ==
  ASSUME TypeOK, HandshakeInv,
         UNCHANGED <<peer, inc, up, inbox, acked, dp_sock, ev_connect_timer>>,
         \/ rxq # <<>> /\ rxq' = Tail(rxq) /\ Head(rxq).op = "Connect" /\ pc = "recv"
         \/ rxq' = rxq /\ pc = "purge",
         pc' \in {"recv", "drain", "purge"},
         pc = "recv" /\ (is_ready' # is_ready \/ (pc' = "purge" /\ resp'.ok))
           => Head(rxq).ok,
         pc = "purge" => resp' = resp /\ (is_ready' # is_ready => resp.ok)
  PROVE  HandshakeInv'
<1>1. rxq \in Seq(Incoming)
  BY DEF TypeOK, PeerTypeOK
<1>2. AcceptanceIn(rxq') => AcceptanceIn(rxq)
  BY <1>1, Acceptance
<1>3. pc = "recv" /\ Head(rxq).ok => AcceptanceIn(rxq)
  BY <1>1, Acceptance
<1>4. peer # 0
  BY <1>1, Connects DEF HandshakeInv, PeerInv
<1>5. PeerInv'
  BY <1>4 DEF HandshakeInv, PeerInv
<1>6. ServedInv' /\ ConnectFirst'
  BY DEF HandshakeInv, ServedInv, PeerAlive, ConnectFirst
<1>7. LeaveInv'
  <2>1. SUFFICES ASSUME PeerAlive,
                        is_ready' \/ AcceptanceIn(rxq') \/ (pc' = "purge" /\ resp'.ok)
                 PROVE  acked
    BY DEF LeaveInv, PeerAlive
  <2>2. is_ready \/ AcceptanceIn(rxq) \/ (pc = "purge" /\ resp.ok)
    BY <1>2, <1>3, <2>1
  <2> QED
    BY <2>1, <2>2 DEF HandshakeInv, LeaveInv
<1> QED
  BY <1>5, <1>6, <1>7 DEF HandshakeInv

(***************************************************************************)
(* Receiving is quiet, but for a positive response to Connect.             *)
(***************************************************************************)
LEMMA ReceiveHandshake == TypeOK /\ HandshakeInv /\ Receive => HandshakeInv'
<1> SUFFICES ASSUME TypeOK, HandshakeInv, Receive PROVE HandshakeInv'
  OBVIOUS
<1>1. CASE RecvNothing
  <2>1. Quiet
    BY <1>1 DEF RecvNothing, RecvReturns, Quiet, connVars, evVars, netVars, dpVars
  <2> QED
    BY <2>1, QuietKeeps
<1>2. CASE RecvUndecodable
  <2>1. Quiet
    BY <1>2 DEF RecvUndecodable, Received, RecvReturns, Quiet, connVars, evVars,
       dpVars
  <2> QED
    BY <2>1, QuietKeeps
<1>3. ASSUME NEW r, RecvIgnored(r) \/ RecvUnsolicited(r) PROVE HandshakeInv'
  <2>1. Quiet
    BY <1>3 DEF RecvIgnored, RecvUnsolicited, Received, Quiet, callVars,
       connVars, evVars, dpVars
  <2> QED
    BY <2>1, QuietKeeps
<1>4. ASSUME NEW r, handle_rpc_control(r) PROVE HandshakeInv'
  <2>1. Quiet
    BY <1>4 DEF handle_rpc_control, Received, Quiet, connVars, evVars, dpVars
  <2> QED
    BY <2>1, QuietKeeps
<1>5. ASSUME NEW r, RecvMismatch(r) PROVE HandshakeInv'
  <2>1. pc = "recv" /\ pc' \in {"recv", "aborted"}
    BY <1>5 DEF RecvMismatch, Received, Abort
  <2>2. Quiet
    BY <1>5, <2>1 DEF RecvMismatch, Received, Quiet, connVars, evVars, dpVars
  <2> QED
    BY <2>2, QuietKeeps
<1>6. ASSUME NEW r, handle_rpc_ctx_response(r) PROVE HandshakeInv'
  <2>1. Quiet
    BY <1>6 DEF handle_rpc_ctx_response, Received, Quiet, callVars, connVars,
       evVars, dpVars
  <2> QED
    BY <2>1, QuietKeeps
<1>7. ASSUME NEW r, RecvRestart(r) PROVE HandshakeInv'
  <2>1. /\ pc = "recv" /\ pc' = "purge" /\ resp' = r /\ is_ready' = is_ready
        /\ rxq # <<>> /\ rxq' = Tail(rxq) /\ r = Head(rxq) /\ r.op = "Connect"
        /\ UNCHANGED <<peer, inc, up, inbox, acked, dp_sock, ev_connect_timer>>
    BY <1>7 DEF RecvRestart, Received, RestartDetected, connVars, evVars, dpVars
  <2> QED
    BY <2>1, LeaveTaken
<1>8. ASSUME NEW r, RecvConnectResponse(r) PROVE HandshakeInv'
  <2>1. /\ pc = "recv" /\ pc' \in {"drain", "aborted"} /\ resp' = resp
        /\ rxq # <<>> /\ rxq' = Tail(rxq) /\ r = Head(rxq) /\ r.op = "Connect"
        /\ UNCHANGED <<peer, inc, up, inbox, acked, dp_sock, ev_connect_timer>>
    BY <1>8 DEF RecvConnectResponse, Received, evVars, dpVars
  <2>2. CASE r.ok
    <3>1. pc' = "drain"
      BY <1>8, <2>2 DEF RecvConnectResponse
    <3> QED
      BY <2>1, <2>2, <3>1, LeaveTaken
  <2>3. CASE ~r.ok
    <3>1. pc' = "aborted" /\ is_ready' = is_ready
      BY <1>8, <2>3 DEF RecvConnectResponse
    <3>2. Quiet
      BY <2>1, <3>1 DEF Quiet
    <3> QED
      BY <3>2, QuietKeeps
  <2> QED
    BY <2>2, <2>3
<1>9. CASE PurgeRequest
  <2>1. Quiet
    BY <1>9 DEF PurgeRequest, Quiet, callVars, connVars, evVars, netVars, dpVars
  <2> QED
    BY <2>1, QuietKeeps
<1>10. CASE PurgeConnect
  <2>1. /\ pc = "purge" /\ pc' \in {"purge", "aborted"}
        /\ UNCHANGED <<resp, rxq, peer, inc, up, inbox, acked, dp_sock,
                       ev_connect_timer>>
    BY <1>10 DEF PurgeConnect, evVars, netVars, dpVars
  <2>2. CASE resp.ok
    <3>1. pc' = "purge"
      BY <1>10, <2>2 DEF PurgeConnect
    <3> QED
      BY <2>1, <2>2, <3>1, LeaveTaken
  <2>3. CASE ~resp.ok
    <3>1. is_ready' = is_ready
      BY <1>10, <2>3 DEF PurgeConnect
    <3>2. Quiet
      BY <2>1, <3>1 DEF Quiet
    <3> QED
      BY <3>2, QuietKeeps
  <2> QED
    BY <2>2, <2>3
<1>11. CASE PurgeDone
  <2>1. Quiet
    BY <1>11 DEF PurgeDone, Quiet, connVars, evVars, netVars, dpVars
  <2> QED
    BY <2>1, QuietKeeps
<1> QED
  BY <1>1, <1>2, <1>3, <1>4, <1>5, <1>6, <1>7, <1>8, <1>9, <1>10, <1>11
  DEF Receive, handle_rpc_msg

(***************************************************************************)
(* Callbacks, zebra's contexts and the end of the plugin.                  *)
(***************************************************************************)
LEMMA EventsHandshake == TypeOK /\ HandshakeInv /\ Events => HandshakeInv'
<1> SUFFICES ASSUME TypeOK, HandshakeInv, Events PROVE HandshakeInv'
  OBVIOUS
<1>1. CASE ConnectTimer
  <2>1. /\ pc = "idle" /\ pc' = "connect" /\ ev_connect_timer
        /\ UNCHANGED <<peer, rxq, inc, up, inbox, acked, dp_sock, is_ready>>
    BY <1>1 DEF ConnectTimer, connVars, netVars, dpVars
  <2>2. PeerInv'
    BY <2>1 DEF HandshakeInv, PeerInv
  <2>3. ServedInv' /\ ConnectFirst'
    BY <2>1 DEF HandshakeInv, ServedInv, PeerAlive, ConnectFirst
  <2>4. LeaveInv'
    BY <2>1 DEF HandshakeInv, LeaveInv, PeerAlive
  <2> QED
    BY <2>2, <2>3, <2>4 DEF HandshakeInv
<1>2. CASE dp_sock_send_cb \/ dp_send_keepalive
  <2>1. Quiet
    BY <1>2 DEF dp_sock_send_cb, dp_send_keepalive, Quiet, connVars, evVars,
       netVars, dpVars
  <2> QED
    BY <2>1, QuietKeeps
<1>3. CASE dp_rpc_recv
  <2>1. Quiet
    BY <1>3 DEF dp_rpc_recv, Abort, Quiet, connVars, netVars, dpVars
  <2> QED
    BY <2>1, QuietKeeps
<1> QED
  BY <1>1, <1>2, <1>3 DEF Events

LEMMA ProcessHandshake ==
  ASSUME TypeOK, HandshakeInv, NEW c \in Ctx, zd_hh_process(c)
  PROVE  HandshakeInv'
<1>1. pc = "idle" /\ pc' \in {"idle", "drain"}
  BY DEF zd_hh_process, ProcessQueued, ProcessAnswered, ProcessFinalizing, callVars
<1>2. UNCHANGED <<peer, inc, up, inbox, acked, dp_sock, is_ready, rxq,
                  ev_connect_timer>>
  BY DEF zd_hh_process, ProcessQueued, ProcessAnswered, ProcessFinalizing,
     connVars, evVars, netVars, dpVars
<1> QED
  BY <1>1, <1>2, QuietKeeps DEF Quiet

LEMMA FiniHandshake ==
  TypeOK /\ HandshakeInv /\ (FiniEarly \/ FiniLate) => HandshakeInv'
<1> SUFFICES ASSUME TypeOK, HandshakeInv, FiniEarly \/ FiniLate
             PROVE  HandshakeInv'
  OBVIOUS
<1>1. CASE FiniEarly
  <2>1. UNCHANGED <<pc, resp, peer, inc, up, inbox, acked, dp_sock, is_ready,
                    rxq, ev_connect_timer>>
    BY <1>1 DEF FiniEarly, callVars, connVars, evVars, netVars, dpVars
  <2> QED
    BY <2>1, SameHandshake
<1>2. CASE FiniLate
  <2>1. /\ pc' = "stopped" /\ dp_sock' = NO_SOCK /\ is_ready' = FALSE
        /\ peer' = 0 /\ rxq' = <<>> /\ UNCHANGED <<inc, up, inbox, acked>>
    BY <1>2 DEF FiniLate, dpVars
  <2>2. inc \in Nat /\ (up => inc > 0)
    BY ConstantsOK DEF TypeOK, PeerTypeOK
  <2>3. PeerInv'
    BY <2>1, <2>2 DEF PeerInv, ConnectIn
  <2>4. ServedInv' /\ ConnectFirst'
    BY <2>1 DEF HandshakeInv, ServedInv, ConnectFirst
  <2>5. LeaveInv'
    BY <2>1, <2>2 DEF LeaveInv, PeerAlive
  <2> QED
    BY <2>3, <2>4, <2>5 DEF HandshakeInv
<1> QED
  BY <1>1, <1>2

-----------------------------------------------------------------------------
(***************************************************************************)
(* The steps of the dataplane.  What it delivers while the plugin listens  *)
(* is a positive response to Connect only if it has accepted one.          *)
(***************************************************************************)
LEMMA DeliverKeeps ==
  ASSUME TypeOK, HandshakeInv, NEW r \in Incoming, Deliver(r),
         UNCHANGED <<pc, resp, peer, inc, up, dp_sock, is_ready,
                     ev_connect_timer>>,
         up, inc \in Nat,
         \/ r.op # "Connect" /\ acked' = acked /\ inbox' = inbox
         \/ inbox # <<>> /\ inbox' = Tail(inbox) /\
            \/ r.op # "Connect" /\ acked' = acked
            \/ r.op = "Connect" /\ acked' = (acked \/ r.ok)
  PROVE  HandshakeInv'
<1>1. rxq \in Seq(Incoming) /\ inbox \in Seq(Msg) /\ acked \in BOOLEAN
  BY DEF TypeOK, PeerTypeOK
<1>2. rxq' = rxq \/ rxq' = Append(rxq, r)
  BY DEF Deliver
<1>3. r.op = "Connect" => PeerAlive \/ (pc = "stopped" /\ rxq' = rxq)
  BY DEF HandshakeInv, PeerInv, ServedInv, Deliver, PluginBound
<1>4. ConnectIn(rxq') => ConnectIn(rxq) \/ (r.op = "Connect" /\ rxq' # rxq)
  BY <1>1, <1>2, Connects
<1>5. AcceptanceIn(rxq') => AcceptanceIn(rxq) \/ (r.op = "Connect" /\ r.ok)
  BY <1>1, <1>2, Acceptance
<1>6. OtherIn(inbox') => OtherIn(inbox)
  BY <1>1, Other
<1>7. PeerAlive => peer # 0
  BY DEF TypeOK, PeerTypeOK, PeerAlive
<1>8. PeerInv'
  BY <1>3, <1>4, <1>7 DEF HandshakeInv, PeerInv
<1>9. acked => acked'
  BY <1>1
<1>10. inbox = <<>> => inbox' = <<>>
  OBVIOUS
<1>11. ServedInv'
  BY <1>3, <1>10 DEF HandshakeInv, ServedInv, PeerAlive
<1>12. LeaveInv'
  BY <1>5, <1>9 DEF HandshakeInv, LeaveInv, PeerAlive
<1>13. ConnectFirst'
  <2>1. up' /\ OtherIn(inbox') => acked'
    BY <1>6, <1>9, ConnectFirstMeans DEF HandshakeInv
  <2> QED
    BY <2>1 DEF ConnectFirst, OtherIn
<1> QED
  BY <1>8, <1>11, <1>12, <1>13 DEF HandshakeInv

LEMMA DpHandshake ==
  ASSUME "rogue" \notin FaultKinds, TypeOK, HandshakeInv, DpNext
  PROVE  HandshakeInv'
<1>t. inc \in Nat /\ (up => inc > 0) /\ peer \in 0..inc
  BY ConstantsOK DEF TypeOK, PeerTypeOK, HandshakeInv, PeerInv
<1>1. CASE DpStart
  <2>1. /\ inc' = inc + 1 /\ ~up /\ inbox' = inbox
        /\ UNCHANGED <<pc, resp, peer, acked, dp_sock, is_ready, rxq,
                       ev_connect_timer>>
    BY <1>1 DEF DpStart, callVars, connVars, evVars, netVars
  <2>2. inbox = <<>>
    BY <2>1 DEF HandshakeInv, ServedInv
  <2>3. PeerInv'
    BY <1>t, <2>1 DEF HandshakeInv, PeerInv
  <2>4. ~PeerAlive' /\ ~PeerAlive
    BY <1>t, <2>1 DEF PeerAlive
  <2>5. ServedInv'
    BY <2>1, <2>2, <2>4 DEF HandshakeInv, ServedInv
  <2>6. LeaveInv'
    BY <2>4 DEF LeaveInv
  <2>7. ConnectFirst'
    BY <2>1, <2>2 DEF ConnectFirst
  <2> QED
    BY <2>3, <2>5, <2>6, <2>7 DEF HandshakeInv
<1>2. CASE DpCrash
  <2>1. /\ up' = FALSE /\ inbox' = <<>> /\ acked' = FALSE
        /\ UNCHANGED <<pc, resp, peer, inc, dp_sock, is_ready, rxq,
                       ev_connect_timer>>
    BY <1>2 DEF DpCrash, callVars, connVars, evVars, netVars
  <2>2. PeerInv'
    BY <2>1 DEF HandshakeInv, PeerInv
  <2>3. ServedInv' /\ LeaveInv' /\ ConnectFirst'
    BY <2>1 DEF ServedInv, LeaveInv, PeerAlive, ConnectFirst
  <2> QED
    BY <2>2, <2>3 DEF HandshakeInv
<1>3. ASSUME NEW ok \in BOOLEAN, DpServeConnect(ok) PROVE HandshakeInv'
  <2> DEFINE r == [op |-> "Connect", seqn |-> Head(inbox).seqn,
                   ok |-> ok, info |-> Token(inc)]
  <2>1. Head(inbox).seqn \in Nat
    BY <1>3, InboxFacts, MsgFacts DEF DpServeConnect, TypeOK
  <2>2. r \in Incoming
    BY <1>3, <2>1, ConstantsOK DEF DpServeConnect, TypeOK, PeerTypeOK, Incoming,
      RequestOp
  <2>3. /\ Deliver(r) /\ up /\ inbox # <<>> /\ inbox' = Tail(inbox)
        /\ acked' = (acked \/ r.ok)
        /\ UNCHANGED <<pc, resp, peer, inc, up, dp_sock, is_ready,
                       ev_connect_timer>>
    BY <1>3 DEF DpServeConnect, callVars, connVars, evVars
  <2>4. r.op = "Connect"
    OBVIOUS
  <2> HIDE DEF r
  <2> QED
    BY <1>t, <2>2, <2>3, <2>4, DeliverKeeps
<1>4. ASSUME NEW ok \in BOOLEAN, DpServeObject(ok) PROVE HandshakeInv'
  <2> DEFINE r == [op |-> "Object", seqn |-> Head(inbox).seqn,
                   ok |-> ok, info |-> NoInfo]
  <2>1. Head(inbox).seqn \in Nat
    BY <1>4, InboxFacts, MsgFacts DEF DpServeObject, TypeOK
  <2>2. r \in Incoming
    BY <1>4, <2>1 DEF Incoming, RequestOp
  <2>3. /\ Deliver(r) /\ up /\ inbox # <<>> /\ inbox' = Tail(inbox)
        /\ acked' = acked
        /\ UNCHANGED <<pc, resp, peer, inc, up, dp_sock, is_ready,
                       ev_connect_timer>>
    BY <1>4 DEF DpServeObject, callVars, connVars, evVars
  <2>4. r.op # "Connect"
    OBVIOUS
  <2> HIDE DEF r
  <2> QED
    BY <1>t, <2>2, <2>3, <2>4, DeliverKeeps
<1>5. CASE DpServeControl
  <2>1. /\ up /\ inbox # <<>> /\ inbox' = Tail(inbox)
        /\ UNCHANGED <<pc, resp, peer, inc, up, acked, dp_sock, is_ready, rxq,
                       ev_connect_timer>>
    BY <1>5 DEF DpServeControl, callVars, connVars, evVars, netVars
  <2>2. inbox \in Seq(Msg)
    BY DEF TypeOK, PeerTypeOK
  <2>3. OtherIn(inbox') => OtherIn(inbox)
    BY <2>1, <2>2, Other
  <2>4. PeerInv'
    BY <2>1 DEF HandshakeInv, PeerInv
  <2>5. ServedInv'
    BY <2>1 DEF HandshakeInv, ServedInv, PeerAlive
  <2>6. LeaveInv'
    BY <2>1 DEF HandshakeInv, LeaveInv, PeerAlive
  <2>7. up' /\ OtherIn(inbox') => acked'
    BY <2>1, <2>3, ConnectFirstMeans DEF HandshakeInv
  <2>8. ConnectFirst'
    BY <2>7 DEF ConnectFirst, OtherIn
  <2> QED
    BY <2>4, <2>5, <2>6, <2>8 DEF HandshakeInv
<1>6. CASE DpRequestRefresh
  <2> DEFINE r == [NoResp EXCEPT !.op = "Refresh"]
  <2>1. r \in Incoming /\ r.op # "Connect"
    BY DEF NoResp, Incoming, NoInfo
  <2>2. /\ Deliver(r) /\ up /\ inbox' = inbox /\ acked' = acked
        /\ UNCHANGED <<pc, resp, peer, inc, up, dp_sock, is_ready,
                       ev_connect_timer>>
    BY <1>6 DEF DpRequestRefresh, callVars, connVars, evVars
  <2> HIDE DEF r
  <2> QED
    BY <1>t, <2>1, <2>2, DeliverKeeps
<1>7. ASSUME NEW r \in RogueMsgs, DpRogue(r) PROVE HandshakeInv'
  <2>1. r \in Incoming
    BY ResponseFacts DEF RogueMsgs, Incoming, RequestOp, TypeOK, CacheTypeOK
  <2>2. r.op # "Connect"
    BY <1>7 DEF DpRogue, CanFault
  <2>3. /\ Deliver(r) /\ up /\ inbox' = inbox /\ acked' = acked
        /\ UNCHANGED <<pc, resp, peer, inc, up, dp_sock, is_ready,
                       ev_connect_timer>>
    BY <1>7 DEF DpRogue, callVars, connVars, evVars, dpVars
  <2> QED
    BY <1>t, <2>1, <2>2, <2>3, DeliverKeeps
<1> QED
  BY <1>1, <1>2, <1>3, <1>4, <1>5, <1>6, <1>7 DEF DpNext, DpServe

-----------------------------------------------------------------------------
(***************************************************************************)
(* Every step keeps the handshake.                                         *)
(***************************************************************************)
LEMMA HandshakeStep ==
  ASSUME "rogue" \notin FaultKinds, TypeOK, HandshakeInv, [Next]_vars
  PROVE  HandshakeInv'
<1>1. CASE Next
  BY <1>1, ConnectHandshake, DrainHandshake, ReceiveHandshake, EventsHandshake,
     ProcessHandshake, FiniHandshake, DpHandshake DEF Next, CallStep, Process
<1>2. CASE UNCHANGED vars
  <2>1. UNCHANGED <<pc, resp, peer, inc, up, inbox, acked, dp_sock, is_ready,
                    rxq, ev_connect_timer>>
    BY <1>2 DEF vars, callVars, connVars, evVars, netVars, dpVars
  <2> QED
    BY <2>1, SameHandshake
<1> QED
  BY <1>1, <1>2

(***************************************************************************)
(* Whatever restarts and faults but a forged response: no incarnation of   *)
(* the dataplane receives anything but Connect before it has accepted one  *)
(* (hh_dp_msg.c:37-39).                                                    *)
(***************************************************************************)
THEOREM ConnectAlwaysFirst == "rogue" \notin FaultKinds => (Spec => []ConnectFirst)
<1> SUFFICES ASSUME "rogue" \notin FaultKinds PROVE Spec => []ConnectFirst
  OBVIOUS
<1>1. Init => TypeOK /\ HandshakeInv
  BY InitTypeOK, HandshakeInit
<1>2. (TypeOK /\ HandshakeInv) /\ [Next]_vars => (TypeOK /\ HandshakeInv)'
  BY StepTypeOK, HandshakeStep
<1>3. TypeOK /\ HandshakeInv => ConnectFirst
  BY DEF HandshakeInv
<1> QED
  BY <1>1, <1>2, <1>3, PTL DEF Spec

-----------------------------------------------------------------------------
(***************************************************************************)
(* The events.  A plugin that is not connected retries, unless it has lost *)
(* its socket for good; it retries, or connects, only when it is not       *)
(* connected.                                                              *)
(***************************************************************************)
TimerInv ==
  /\ ~dp_sock_connected => \/ ev_connect_timer
                           \/ pc \in {"connect", "aborted", "stopped"}
                           \/ dp_sock = NO_SOCK
  /\ ev_connect_timer \/ pc = "connect" => ~dp_sock_connected

(***************************************************************************)
(* When the socket can always be reopened, it is; when it always has the   *)
(* same descriptor, a connected plugin waits on it.                        *)
(***************************************************************************)
SockInv ==
  /\ OpenMayFail \/ (dp_sock = NO_SOCK => pc = "stopped")
  /\ OpenMayFail \/ Fd # {dp_sock}
       \/ (dp_sock_connected /\ pc \notin {"send_connect", "aborted", "stopped"}
             => ev_recv = dp_sock)

LoopInv == TimerInv /\ SockInv

(***************************************************************************)
(* They hold when the plugin starts, and every step keeps them.            *)
(***************************************************************************)
LEMMA LoopInit == Init => LoopInv
<1> SUFFICES ASSUME Init PROVE LoopInv
  OBVIOUS
<1>1. dp_sock # NO_SOCK
  BY ConstantsOK DEF Init, NO_SOCK
<1> QED
  BY <1>1 DEF Init, LoopInv, TimerInv, SockInv

(***************************************************************************)
(* Most steps leave the connection and its events as they are.             *)
(***************************************************************************)
Steady ==
  /\ UNCHANGED <<dp_sock, dp_sock_connected, ev_connect_timer, ev_recv>>
  /\ \/ pc' = pc
     \/ pc \notin {"connect", "send_connect", "aborted", "stopped"} /\
        pc' \notin {"connect", "send_connect", "stopped"}

LEMMA SteadyKeeps == LoopInv /\ Steady => LoopInv'
BY DEF LoopInv, TimerInv, SockInv, Steady

(***************************************************************************)
(* Connecting: each of its ends leaves a retry, a connection attempt or a  *)
(* connected socket that is waited on.                                     *)
(***************************************************************************)
LEMMA ConnectLoop == TypeOK /\ LoopInv /\ Connect => LoopInv'
<1> SUFFICES ASSUME TypeOK, LoopInv, Connect PROVE LoopInv'
  OBVIOUS
<1>t. /\ dp_sock \in Fd \cup {NO_SOCK} /\ ev_recv \in Fd \cup {UNSET}
      /\ Fd \subseteq Nat
  BY ConstantsOK DEF TypeOK, ConnTypeOK
<1>1. CASE ConnectNoSock
  <2>1. /\ pc = "connect" /\ dp_sock = NO_SOCK /\ pc' \in {"idle", "recv", "aborted"}
        /\ UNCHANGED <<dp_sock, dp_sock_connected, ev_connect_timer, ev_recv>>
    BY <1>1, ReturnsQuietly DEF ConnectNoSock, connVars
  <2> QED
    BY <2>1 DEF LoopInv, TimerInv, SockInv
<1>2. ASSUME NEW f \in Fd \cup {NO_SOCK}, ConnectFails(f) PROVE LoopInv'
  <2>1. /\ dp_sock' = f /\ dp_sock_connected' = FALSE /\ ev_connect_timer' = TRUE
        /\ f = NO_SOCK => OpenMayFail
    BY <1>2, <1>t DEF ConnectFails, SchedConnect, NO_SOCK
  <2>2. pc' \in {"idle", "recv", "aborted"}
    BY <1>2, ReturnsQuietly DEF ConnectFails, Abort
  <2> QED
    BY <2>1, <2>2 DEF LoopInv, TimerInv, SockInv
<1>3. CASE ConnectSucceeds
  <2>1. /\ dp_sock' = dp_sock /\ dp_sock # NO_SOCK /\ dp_sock_connected' = TRUE
        /\ ev_connect_timer' = FALSE /\ pc' = "send_connect"
    BY <1>3 DEF ConnectSucceeds
  <2> QED
    BY <2>1 DEF LoopInv, TimerInv, SockInv
<1>4. ASSUME NEW o \in {"ok", "again", "conn", "error"}, SendConnect(o)
      PROVE  LoopInv'
  <2>1. /\ pc = "send_connect" /\ UNCHANGED <<dp_sock, ev_connect_timer>>
        /\ dp_sock_connected' = (dp_sock_connected /\ o # "conn")
    BY <1>4 DEF SendConnect, ConnectionLost
  <2>2. CASE o = "conn" /\ ~ev_connect_timer
    <3>1. pc' = "connect"
      BY <1>4, <2>2 DEF SendConnect
    <3> QED
      BY <2>1, <2>2, <3>1 DEF LoopInv, TimerInv, SockInv
  <2>3. CASE ~(o = "conn" /\ ~ev_connect_timer)
    <3>1. pc' \in {"idle", "recv", "aborted"} /\ ev_recv' = Armed(ev_recv, dp_sock)
      BY <1>4, <2>3, ReturnsQuietly DEF SendConnect, SchedRecv
    <3>2. Fd = {dp_sock} => ev_recv' = dp_sock
      BY <1>t, <3>1 DEF Armed, UNSET, NO_SOCK
    <3>3. dp_sock_connected \in BOOLEAN
      BY DEF TypeOK, ConnTypeOK
    <3>4. TimerInv'
      BY <2>1, <2>3, <3>1, <3>3 DEF LoopInv, TimerInv
    <3>5. SockInv'
      BY <2>1, <3>1, <3>2 DEF LoopInv, SockInv
    <3> QED
      BY <3>4, <3>5 DEF LoopInv
  <2> QED
    BY <2>2, <2>3
<1> QED
  BY <1>1, <1>2, <1>3, <1>4 DEF Connect

LEMMA DrainLoop == TypeOK /\ LoopInv /\ Drain => LoopInv'
<1> SUFFICES ASSUME TypeOK, LoopInv, Drain PROVE LoopInv'
  OBVIOUS
<1>1. CASE DrainDone \/ DrainNotReady
  <2>1. pc' \in {"idle", "recv", "aborted"} /\ pc = "drain"
    BY <1>1, ReturnsQuietly DEF DrainDone, DrainNotReady
  <2> QED
    BY <1>1, <2>1, SteadyKeeps DEF Steady, DrainDone, DrainNotReady, connVars
<1>2. CASE DrainSent
  BY <1>2, SteadyKeeps DEF Steady, DrainSent, callVars, connVars, evVars
<1>3. CASE DrainFailed
  <2>1. PICK o \in {"again", "conn", "error"} :
          /\ dp_sock_connected' = (dp_sock_connected /\ o # "conn")
          /\ pc' \in {"idle", "recv", "aborted", "connect"}
          /\ o = "conn" /\ ~ev_connect_timer => pc' = "connect"
          /\ pc' = "connect" => o = "conn"
    BY <1>3, ReturnsQuietly DEF DrainFailed, ConnectionLost
  <2>2. pc = "drain" /\ UNCHANGED <<dp_sock, ev_connect_timer, ev_recv>>
    BY <1>3 DEF DrainFailed
  <2>3. dp_sock_connected \in BOOLEAN
    BY DEF TypeOK, ConnTypeOK
  <2>4. TimerInv'
    BY <2>1, <2>2, <2>3 DEF LoopInv, TimerInv
  <2>5. SockInv'
    BY <2>1, <2>2 DEF LoopInv, SockInv
  <2> QED
    BY <2>4, <2>5 DEF LoopInv
<1> QED
  BY <1>1, <1>2, <1>3 DEF Drain

LEMMA ReceiveLoop == LoopInv /\ Receive => LoopInv'
<1> SUFFICES ASSUME LoopInv, Receive PROVE LoopInv'
  OBVIOUS
<1>1. UNCHANGED <<dp_sock, dp_sock_connected, ev_connect_timer, ev_recv>>
  BY DEF Receive, RecvNothing, RecvUndecodable, handle_rpc_msg, RecvIgnored,
     handle_rpc_control, RecvRestart, RecvUnsolicited, RecvMismatch,
     RecvConnectResponse, handle_rpc_ctx_response, PurgeRequest, PurgeConnect,
     PurgeDone, connVars, evVars
<1>2. pc \in {"recv", "purge"}
  BY DEF Receive, RecvNothing, RecvUndecodable, Received, PurgeRequest,
     PurgeConnect, PurgeDone
<1>3. pc' \in {"idle", "recv", "drain", "purge", "aborted"}
  BY <1>2 DEF Receive, RecvNothing, RecvUndecodable, RecvReturns,
     handle_rpc_msg, RecvIgnored, handle_rpc_control, RecvRestart,
     RecvUnsolicited, RecvMismatch, Abort, RecvConnectResponse,
     handle_rpc_ctx_response, PurgeRequest, PurgeConnect, PurgeDone, callVars
<1> QED
  BY <1>1, <1>2, <1>3, SteadyKeeps DEF Steady

LEMMA EventsLoop == LoopInv /\ Events => LoopInv'
<1> SUFFICES ASSUME LoopInv, Events PROVE LoopInv'
  OBVIOUS
<1>1. CASE ConnectTimer
  <2>1. /\ pc = "idle" /\ pc' = "connect" /\ ~ev_connect_timer' /\ ev_connect_timer
        /\ UNCHANGED <<dp_sock, dp_sock_connected, ev_recv>>
    BY <1>1 DEF ConnectTimer, connVars
  <2> QED
    BY <2>1 DEF LoopInv, TimerInv, SockInv
<1>2. CASE dp_sock_send_cb \/ dp_send_keepalive
  BY <1>2, SteadyKeeps DEF dp_sock_send_cb, dp_send_keepalive, Steady, connVars,
     evVars
<1>3. CASE dp_rpc_recv
  <2>1. /\ pc = "idle" /\ pc' \in {"recv", "aborted"} /\ ev_recv' = dp_sock
        /\ UNCHANGED <<dp_sock, dp_sock_connected, ev_connect_timer>>
    BY <1>3 DEF dp_rpc_recv, Abort, connVars
  <2> QED
    BY <2>1 DEF LoopInv, TimerInv, SockInv
<1> QED
  BY <1>1, <1>2, <1>3 DEF Events

LEMMA OthersLoop ==
  LoopInv /\ (Process \/ FiniEarly \/ FiniLate \/ DpNext \/ UNCHANGED vars)
    => LoopInv'
<1> SUFFICES ASSUME LoopInv,
                    Process \/ FiniEarly \/ FiniLate \/ DpNext \/ UNCHANGED vars
             PROVE  LoopInv'
  OBVIOUS
<1>1. CASE Process
  <2>1. pc = "idle" /\ pc' \in {"idle", "drain"}
    BY <1>1 DEF Process, zd_hh_process, ProcessQueued, ProcessAnswered,
       ProcessFinalizing, callVars
  <2>2. UNCHANGED <<dp_sock, dp_sock_connected, ev_connect_timer, ev_recv>>
    BY <1>1 DEF Process, zd_hh_process, ProcessQueued, ProcessAnswered,
       ProcessFinalizing, connVars, evVars
  <2> QED
    BY <2>1, <2>2, SteadyKeeps DEF Steady
<1>2. CASE FiniEarly \/ UNCHANGED vars
  BY <1>2, SteadyKeeps DEF FiniEarly, vars, Steady, callVars, connVars, evVars
<1>3. CASE FiniLate
  BY <1>3 DEF FiniLate, evVars, LoopInv, TimerInv, SockInv
<1>4. CASE DpNext
  <2>1. UNCHANGED <<callVars, connVars, evVars>>
    BY <1>4 DEF DpNext, DpStart, DpCrash, DpServe, DpServeConnect,
       DpServeObject, DpServeControl, DpRequestRefresh, DpRogue
  <2> QED
    BY <2>1, SteadyKeeps DEF Steady, callVars, connVars, evVars
<1> QED
  BY <1>1, <1>2, <1>3, <1>4

(***************************************************************************)
(* The invariant of the events.                                            *)
(***************************************************************************)
THEOREM EventsInvariant == Spec => []LoopInv
<1>1. Init => TypeOK /\ LoopInv
  BY InitTypeOK, LoopInit
<1>2. (TypeOK /\ LoopInv) /\ [Next]_vars => (TypeOK /\ LoopInv)'
  BY StepTypeOK, ConnectLoop, DrainLoop, ReceiveLoop, EventsLoop, OthersLoop
  DEF Next, CallStep
<1> QED
  BY <1>1, <1>2, PTL DEF Spec

(***************************************************************************)
(* Through faults of any kind, the plugin gives up connecting only when it *)
(* has no socket left (hh_dp_comm.c:486-489).                              *)
(***************************************************************************)
THEOREM NeverGivesUpWithSocket == Spec => []GivesUpOnlyWithoutSocket
<1>1. LoopInv => GivesUpOnlyWithoutSocket
  BY DEF LoopInv, TimerInv, GivesUpOnlyWithoutSocket
<1> QED
  BY <1>1, EventsInvariant, PTL

(***************************************************************************)
(* When the socket can always be reopened, a plugin that is not connected  *)
(* has a retry pending (hh_dp_comm.c:478-480).                             *)
(***************************************************************************)
THEOREM RetryAlwaysScheduled == ~OpenMayFail => (Spec => []RetryScheduled)
<1> SUFFICES ASSUME ~OpenMayFail PROVE Spec => []RetryScheduled
  OBVIOUS
<1>1. LoopInv => RetryScheduled
  BY DEF LoopInv, TimerInv, SockInv, RetryScheduled
<1> QED
  BY <1>1, EventsInvariant, PTL

(***************************************************************************)
(* When besides every socket has the same descriptor, a connected plugin   *)
(* waits for messages on it.  Without that condition it does not           *)
(* (hh_dp_comm.c:462-504).                                                 *)
(***************************************************************************)
THEOREM ReceivingAlwaysScheduled ==
  ~OpenMayFail /\ (\E f : Fd = {f}) => (Spec => []ReceivingScheduled)
<1> SUFFICES ASSUME ~OpenMayFail, NEW f, Fd = {f} PROVE Spec => []ReceivingScheduled
  OBVIOUS
<1>1. TypeOK /\ LoopInv => ReceivingScheduled
  <2> SUFFICES ASSUME TypeOK, LoopInv, pc = "idle", dp_sock_connected
               PROVE  ev_recv = dp_sock
    BY DEF ReceivingScheduled
  <2>1. dp_sock \in Fd \cup {NO_SOCK}
    BY DEF TypeOK, ConnTypeOK
  <2>2. Fd = {dp_sock}
    BY <2>1 DEF LoopInv, SockInv
  <2> QED
    BY <2>2 DEF LoopInv, SockInv
<1> QED
  BY <1>1, TypeCorrect, EventsInvariant, PTL
=============================================================================
