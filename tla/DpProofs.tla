------------------------------ MODULE DpProofs ------------------------------
(***************************************************************************)
(* Proofs about the plugin, for every value of the constants.              *)
(***************************************************************************)
EXTENDS DpProps, SequenceTheorems, TLAPS

LEMMA SeqOps ==
  ASSUME NEW S, NEW s \in Seq(S)
  PROVE  /\ \A e \in S : Append(s, e) \in Seq(S)
         /\ \A e \in S : <<e>> \o s \in Seq(S)
         /\ s # <<>> => Head(s) \in S /\ Tail(s) \in Seq(S)
         /\ <<>> \in Seq(S)
<1>1. \A e \in S : <<e>> \o s \in Seq(S)
  <2> SUFFICES ASSUME NEW e \in S PROVE <<e>> \o s \in Seq(S)
    OBVIOUS
  <2>1. <<e>> \in Seq(S)
    OBVIOUS
  <2> QED
    BY <2>1, ConcatProperties
<1> QED
  BY <1>1, AppendProperties, HeadTailProperties, EmptySeq

LEMMA InitTypeOK == Init => TypeOK
<1> SUFFICES ASSUME Init PROVE TypeOK
  OBVIOUS
<1> USE ConstantsOK DEF Init
<1>1. PcTypeOK
  BY DEF PcTypeOK, NoResp, Incoming, RequestOp, NoInfo
<1>2. ConnTypeOK
  BY DEF ConnTypeOK, UNSET, NO_SOCK
<1>3. CacheTypeOK
  BY EmptySeq DEF CacheTypeOK
<1>4. PeerTypeOK
  <2>1. 0 \in 0..MaxInc
    OBVIOUS
  <2>2. sent_to \in [Ctx -> Nat] /\ applied \in [Ctx -> Nat]
    OBVIOUS
  <2> QED
    BY <2>1, <2>2, EmptySeq DEF PeerTypeOK
<1> QED
  BY <1>1, <1>2, <1>3, <1>4 DEF TypeOK

LEMMA MsgFacts ==
  /\ ConnectMsg \in RequestMsg /\ ConnectMsg.ctx = NoCtx
  /\ KeepaliveMsg \in UnsentMsg /\ RefreshMsg \in UnsentMsg
  /\ RequestMsg \subseteq Msg /\ UnsentMsg \subseteq Msg
  /\ \A m \in UnsentMsg : IsRequest(m) => m \in RequestMsg
  /\ \A m \in Msg : m.ctx \in Ctx \cup {NoCtx} /\ m.seqn \in Nat
  /\ \A m \in RequestMsg : m.op # "Connect" => m.ctx \in Ctx
BY DEF Msg, RequestMsg, UnsentMsg, ObjectMsg, ConnectMsg, KeepaliveMsg,
  RefreshMsg, IsRequest, RequestOp

LEMMA ResponseFacts ==
  /\ NoResp \in Incoming
  /\ \A r \in Incoming :
       r.info # NoInfo => r.info \in Nat
BY DEF Incoming, NoResp, RequestOp, NoInfo

\* What the operations on the lists return.
LEMMA UnsentFacts ==
  ASSUME CacheTypeOK
  PROVE  /\ \A m \in UnsentMsg : Append(unsent, m) \in Seq(UnsentMsg)
         /\ unsent # <<>> => /\ Head(unsent) \in UnsentMsg
                             /\ Tail(unsent) \in Seq(UnsentMsg)
                             /\ <<Head(unsent)>> \o Tail(unsent)
                                  \in Seq(UnsentMsg)
<1>1. unsent \in Seq(UnsentMsg)
  BY DEF CacheTypeOK
<1>2. unsent # <<>> => Head(unsent) \in UnsentMsg /\ Tail(unsent) \in Seq(UnsentMsg)
  BY <1>1, SeqOps
<1>3. unsent # <<>> => <<Head(unsent)>> \o Tail(unsent) \in Seq(UnsentMsg)
  BY <1>2, SeqOps
<1> QED
  BY <1>1, <1>2, <1>3, SeqOps

LEMMA InFlightFacts ==
  ASSUME CacheTypeOK
  PROVE  /\ \A m \in RequestMsg : Append(in_flight, m) \in Seq(RequestMsg)
         /\ in_flight # <<>> => /\ Head(in_flight) \in RequestMsg
                                /\ Tail(in_flight) \in Seq(RequestMsg)
<1>1. in_flight \in Seq(RequestMsg)
  BY DEF CacheTypeOK
<1> QED
  BY <1>1, SeqOps

LEMMA OutFacts ==
  ASSUME CacheTypeOK, NEW c \in Ctx, NEW res \in {"success", "failure"}
  PROVE  Append(out, <<c, res>>) \in Seq(Ctx \X {"success", "failure"})
<1>1. out \in Seq(Ctx \X {"success", "failure"})
  BY DEF CacheTypeOK
<1>2. <<c, res>> \in Ctx \X {"success", "failure"}
  OBVIOUS
<1> QED
  BY <1>1, <1>2, SeqOps

LEMMA RxqFacts ==
  ASSUME PeerTypeOK
  PROVE  /\ \A r \in Incoming : Append(rxq, r) \in Seq(Incoming)
         /\ rxq # <<>> => Head(rxq) \in Incoming /\ Tail(rxq) \in Seq(Incoming)
         /\ <<>> \in Seq(Incoming)
<1>1. rxq \in Seq(Incoming)
  BY DEF PeerTypeOK
<1> QED
  BY <1>1, SeqOps

LEMMA InboxFacts ==
  ASSUME PeerTypeOK
  PROVE  /\ \A m \in Msg : Append(inbox, m) \in Seq(Msg)
         /\ inbox # <<>> => Head(inbox) \in Msg /\ Tail(inbox) \in Seq(Msg)
         /\ <<>> \in Seq(Msg)
<1>1. inbox \in Seq(Msg)
  BY DEF PeerTypeOK
<1> QED
  BY <1>1, SeqOps

LEMMA ResultFacts == \A ok \in BOOLEAN : Result(ok) \in {"success", "failure"}
BY DEF Result

\* What the actions share.
LEMMA SendReturnsType ==
  ASSUME PcTypeOK, NEW fd \in Fd \cup {NO_SOCK}, NEW ev \in Fd \cup {UNSET},
         SendReturns(fd, ev)
  PROVE  /\ pc' \in {"idle", "aborted", "recv"}
         /\ ret' \in {"loop", "recv"} /\ nested' = FALSE
         /\ ev_send' \in Fd \cup {UNSET}
BY DEF SendReturns, PcTypeOK, NO_SOCK, UNSET

LEMMA SockSendType ==
  ASSUME PeerTypeOK, NEW m \in Msg, NEW k, SockSend(m, k)
  PROVE  /\ faults' \in Nat /\ peer' \in Nat
         /\ rxq' \in Seq(Incoming) /\ inbox' \in Seq(Msg)
<1>1. faults' \in Nat /\ peer' \in Nat
  BY DEF SockSend, PeerTypeOK
<1>2. rxq' \in Seq(Incoming)
  BY RxqFacts DEF SockSend, PeerTypeOK
<1>3. inbox' \in Seq(Msg)
  BY InboxFacts DEF SockSend, PeerTypeOK
<1> QED
  BY <1>1, <1>2, <1>3

LEMMA ConnectionLostType ==
  ASSUME ConnTypeOK, NEW k, ConnectionLost(k)
  PROVE  dp_sock_connected' \in BOOLEAN /\ is_ready' \in BOOLEAN
BY DEF ConnectionLost, ConnTypeOK

LEMMA DeliverType ==
  ASSUME PeerTypeOK, NEW r \in Incoming, Deliver(r)
  PROVE  rxq' \in Seq(Incoming)
BY RxqFacts DEF Deliver, PeerTypeOK

LEMMA ExceptType ==
  ASSUME PeerTypeOK, NEW c
  PROVE  /\ sent_to \in [Ctx -> Nat] /\ applied \in [Ctx -> Nat]
         /\ [sent_to EXCEPT ![c] = inc] \in [Ctx -> Nat]
         /\ [applied EXCEPT ![c] = inc] \in [Ctx -> Nat]
<1>1. sent_to \in [Ctx -> Nat] /\ applied \in [Ctx -> Nat] /\ inc \in 0..MaxInc
  BY DEF PeerTypeOK
<1>2. inc \in Nat
  BY <1>1, ConstantsOK
<1> QED
  BY <1>1, <1>2

-----------------------------------------------------------------------------
(***************************************************************************)
(* TypeOK is inductive: one lemma for each group of actions, one step for  *)
(* each action, and under it one for each part of TypeOK.                  *)
(***************************************************************************)
LEMMA ConnectTypeOK == TypeOK /\ Connect => TypeOK'
<1> SUFFICES ASSUME PcTypeOK, ConnTypeOK, CacheTypeOK, PeerTypeOK, Connect
             PROVE  TypeOK'
  BY DEF TypeOK
<1>1. CASE ConnectNoSock
  <2>1. PcTypeOK'
    <3>1. SendReturns(dp_sock, ev_send)
      BY <1>1 DEF ConnectNoSock
    <3>2. dp_sock \in Fd \cup {NO_SOCK} /\ ev_send \in Fd \cup {UNSET}
      BY <1>1 DEF ConnTypeOK
    <3> QED
      BY <1>1, <3>1, <3>2, SendReturnsType DEF ConnectNoSock, PcTypeOK
  <2>2. ConnTypeOK'
    <3>1. SendReturns(dp_sock, ev_send)
      BY <1>1 DEF ConnectNoSock
    <3>2. dp_sock \in Fd \cup {NO_SOCK} /\ ev_send \in Fd \cup {UNSET}
      BY <1>1 DEF ConnTypeOK
    <3> QED
      BY <1>1, <3>1, <3>2, SendReturnsType DEF ConnectNoSock, ConnTypeOK,
        connVars
  <2>3. CacheTypeOK'
    BY <1>1 DEF ConnectNoSock, CacheTypeOK, cacheVars, zebraVars
  <2>4. PeerTypeOK'
    BY <1>1 DEF ConnectNoSock, PeerTypeOK, netVars, dpVars, histVars
  <2> QED
    BY <2>1, <2>2, <2>3, <2>4 DEF TypeOK
<1>2. ASSUME NEW f \in Fd \cup {NO_SOCK}, ConnectFails(f) PROVE TypeOK'
  <2>1. PcTypeOK'
    BY <1>2 DEF ConnectFails, PcTypeOK, callVars, SendReturns, Abort
  <2>2. ConnTypeOK'
    <3>1. ev_recv' \in Fd \cup {UNSET}
      BY <1>2 DEF ConnectFails, SchedRecv, Armed, ConnTypeOK, NO_SOCK, UNSET
    <3>2. ev_send' \in Fd \cup {UNSET}
      BY <1>2 DEF ConnectFails, SendReturns, ConnTypeOK, NO_SOCK, UNSET
    <3> QED
      BY <1>2, <3>1, <3>2 DEF ConnectFails, SchedConnect, ConnTypeOK
  <2>3. CacheTypeOK'
    BY <1>2 DEF ConnectFails, CacheTypeOK, cacheVars, zebraVars
  <2>4. PeerTypeOK'
    BY <1>2, RxqFacts DEF ConnectFails, PeerTypeOK, netVars, dpVars, histVars
  <2> QED
    BY <2>1, <2>2, <2>3, <2>4 DEF TypeOK
<1>3. CASE ConnectSucceeds
  <2>1. PcTypeOK'
    BY <1>3 DEF ConnectSucceeds, PcTypeOK, callVars
  <2>2. ConnTypeOK'
    BY <1>3 DEF ConnectSucceeds, ConnTypeOK, connVars, evVars
  <2>3. CacheTypeOK'
    BY <1>3 DEF ConnectSucceeds, CacheTypeOK, cacheVars, zebraVars
  <2>4. PeerTypeOK'
    BY <1>3, RxqFacts DEF ConnectSucceeds, PeerTypeOK, netVars, dpVars,
      histVars
  <2> QED
    BY <2>1, <2>2, <2>3, <2>4 DEF TypeOK
<1>4. ASSUME NEW k \in {"ok", "again", "conn", "error"}, SendConnect(k)
      PROVE  TypeOK'
  <2>1. PcTypeOK'
    BY <1>4 DEF SendConnect, PcTypeOK, callVars, SendReturns
  <2>2. ConnTypeOK'
    <3>1. dp_sock_connected' \in BOOLEAN /\ is_ready' \in BOOLEAN
      BY <1>4, ConnectionLostType DEF SendConnect
    <3>2. ev_recv' \in Fd \cup {UNSET}
      BY <1>4 DEF SendConnect, SchedRecv, Armed, ConnTypeOK, NO_SOCK, UNSET
    <3>3. ev_send' \in Fd \cup {UNSET}
      BY <1>4 DEF SendConnect, SendReturns, Armed, ConnTypeOK, NO_SOCK, UNSET
    <3> QED
      BY <1>4, <3>1, <3>2, <3>3 DEF SendConnect, ConnTypeOK
  <2>3. CacheTypeOK'
    <3>1. in_flight' \in Seq(RequestMsg)
      BY <1>4, InFlightFacts, MsgFacts DEF SendConnect, dp_msg_cache_inflight,
        CacheTypeOK
    <3> QED
      BY <1>4, <3>1 DEF SendConnect, CacheTypeOK, zebraVars
  <2>4. PeerTypeOK'
    <3>1. ConnectMsg \in Msg
      BY MsgFacts
    <3>2. SockSend(ConnectMsg, k)
      BY <1>4 DEF SendConnect
    <3> QED
      BY <1>4, <3>1, <3>2, SockSendType DEF SendConnect, PeerTypeOK, histVars
  <2> QED
    BY <2>1, <2>2, <2>3, <2>4 DEF TypeOK
<1> QED
  BY <1>1, <1>2, <1>3, <1>4 DEF Connect

LEMMA DrainTypeOK == TypeOK /\ Drain => TypeOK'
<1> SUFFICES ASSUME PcTypeOK, ConnTypeOK, CacheTypeOK, PeerTypeOK, Drain
             PROVE  TypeOK'
  BY DEF TypeOK
<1>1. CASE DrainDone
  <2>1. PcTypeOK'
    <3>1. SendReturns(dp_sock, ev_send)
      BY <1>1 DEF DrainDone
    <3>2. dp_sock \in Fd \cup {NO_SOCK} /\ ev_send \in Fd \cup {UNSET}
      BY <1>1 DEF ConnTypeOK
    <3> QED
      BY <1>1, <3>1, <3>2, SendReturnsType DEF DrainDone, PcTypeOK
  <2>2. ConnTypeOK'
    <3>1. SendReturns(dp_sock, ev_send)
      BY <1>1 DEF DrainDone
    <3>2. dp_sock \in Fd \cup {NO_SOCK} /\ ev_send \in Fd \cup {UNSET}
      BY <1>1 DEF ConnTypeOK
    <3> QED
      BY <1>1, <3>1, <3>2, SendReturnsType DEF DrainDone, ConnTypeOK, connVars
  <2>3. CacheTypeOK'
    BY <1>1 DEF DrainDone, CacheTypeOK, cacheVars, zebraVars
  <2>4. PeerTypeOK'
    BY <1>1 DEF DrainDone, PeerTypeOK, netVars, dpVars, histVars
  <2> QED
    BY <2>1, <2>2, <2>3, <2>4 DEF TypeOK
<1>2. CASE DrainNotReady
  <2>1. PcTypeOK'
    <3>1. SendReturns(dp_sock, ev_send)
      BY <1>2 DEF DrainNotReady
    <3>2. dp_sock \in Fd \cup {NO_SOCK} /\ ev_send \in Fd \cup {UNSET}
      BY <1>2 DEF ConnTypeOK
    <3> QED
      BY <1>2, <3>1, <3>2, SendReturnsType DEF DrainNotReady, PcTypeOK
  <2>2. ConnTypeOK'
    <3>1. SendReturns(dp_sock, ev_send)
      BY <1>2 DEF DrainNotReady
    <3>2. dp_sock \in Fd \cup {NO_SOCK} /\ ev_send \in Fd \cup {UNSET}
      BY <1>2 DEF ConnTypeOK
    <3> QED
      BY <1>2, <3>1, <3>2, SendReturnsType DEF DrainNotReady, ConnTypeOK,
        connVars
  <2>3. CacheTypeOK'
    <3>1. unsent' \in Seq(UnsentMsg)
      BY <1>2, UnsentFacts DEF DrainNotReady, dp_msg_unsent_push_back
    <3> QED
      BY <1>2, <3>1 DEF DrainNotReady, CacheTypeOK, zebraVars
  <2>4. PeerTypeOK'
    BY <1>2 DEF DrainNotReady, PeerTypeOK, netVars, dpVars, histVars
  <2> QED
    BY <2>1, <2>2, <2>3, <2>4 DEF TypeOK
<1>3. CASE DrainSent
  <2>1. PcTypeOK'
    BY <1>3 DEF DrainSent, PcTypeOK, callVars
  <2>2. ConnTypeOK'
    BY <1>3 DEF DrainSent, ConnTypeOK, connVars, evVars
  <2>3. CacheTypeOK'
    <3>1. unsent' \in Seq(UnsentMsg)
      BY <1>3, UnsentFacts DEF DrainSent
    <3>2. in_flight' \in Seq(RequestMsg)
      BY <1>3, UnsentFacts, InFlightFacts, MsgFacts DEF DrainSent,
        dp_msg_cache_inflight, CacheTypeOK
    <3> QED
      BY <1>3, <3>1, <3>2 DEF DrainSent, CacheTypeOK, zebraVars
  <2>4. PeerTypeOK'
    <3>1. Head(unsent) \in Msg
      BY <1>3, UnsentFacts, MsgFacts DEF DrainSent
    <3>2. SockSend(Head(unsent), "ok")
      BY <1>3 DEF DrainSent
    <3>3. sent_to' \in [Ctx -> Nat]
      BY <1>3, ExceptType DEF DrainSent
    <3>4. /\ faults' \in Nat /\ peer' \in Nat
          /\ rxq' \in Seq(Incoming) /\ inbox' \in Seq(Msg)
      BY <3>1, <3>2, SockSendType
    <3>5. UNCHANGED <<inc, up, acked, refreshed, applied>>
      BY <1>3 DEF DrainSent
    <3> QED
      BY <3>3, <3>4, <3>5 DEF PeerTypeOK
  <2> QED
    BY <2>1, <2>2, <2>3, <2>4 DEF TypeOK
<1>4. CASE DrainFailed
  <2>1. PcTypeOK'
    <3>1. PICK k \in {"again", "conn", "error"} :
            /\ SockSend(Head(unsent), k)
            /\ ConnectionLost(k)
            /\ IF k = "conn" /\ ~ev_connect_timer
               THEN pc' = "connect" /\ UNCHANGED <<ret, nested, ev_send>>
               ELSE SendReturns(dp_sock, IF k = "again"
                                         THEN Armed(ev_send, dp_sock)
                                         ELSE ev_send)
      BY <1>4 DEF DrainFailed
    <3> QED
      BY <1>4, <3>1 DEF DrainFailed, SendReturns, PcTypeOK
  <2>2. ConnTypeOK'
    <3>1. PICK k \in {"again", "conn", "error"} :
            /\ SockSend(Head(unsent), k)
            /\ ConnectionLost(k)
            /\ IF k = "conn" /\ ~ev_connect_timer
               THEN pc' = "connect" /\ UNCHANGED <<ret, nested, ev_send>>
               ELSE SendReturns(dp_sock, IF k = "again"
                                         THEN Armed(ev_send, dp_sock)
                                         ELSE ev_send)
      BY <1>4 DEF DrainFailed
    <3>2. dp_sock_connected' \in BOOLEAN /\ is_ready' \in BOOLEAN
      BY <3>1, ConnectionLostType
    <3>3. ev_send' \in Fd \cup {UNSET}
      BY <3>1 DEF SendReturns, Armed, ConnTypeOK, NO_SOCK, UNSET
    <3> QED
      BY <1>4, <3>2, <3>3 DEF DrainFailed, ConnTypeOK
  <2>3. CacheTypeOK'
    <3>1. unsent' \in Seq(UnsentMsg)
      BY <1>4, UnsentFacts DEF DrainFailed, dp_msg_unsent_push_back
    <3> QED
      BY <1>4, <3>1 DEF DrainFailed, CacheTypeOK, zebraVars
  <2>4. PeerTypeOK'
    <3>1. PICK k \in {"again", "conn", "error"} :
            /\ SockSend(Head(unsent), k)
            /\ ConnectionLost(k)
            /\ IF k = "conn" /\ ~ev_connect_timer
               THEN pc' = "connect" /\ UNCHANGED <<ret, nested, ev_send>>
               ELSE SendReturns(dp_sock, IF k = "again"
                                         THEN Armed(ev_send, dp_sock)
                                         ELSE ev_send)
      BY <1>4 DEF DrainFailed
    <3>2. Head(unsent) \in Msg
      BY <1>4, UnsentFacts, MsgFacts DEF DrainFailed
    <3> QED
      BY <1>4, <3>1, <3>2, SockSendType DEF DrainFailed, PeerTypeOK, histVars
  <2> QED
    BY <2>1, <2>2, <2>3, <2>4 DEF TypeOK
<1> QED
  BY <1>1, <1>2, <1>3, <1>4 DEF Drain

LEMMA ReceiveTypeOK == TypeOK /\ Receive => TypeOK'
<1> SUFFICES ASSUME PcTypeOK, ConnTypeOK, CacheTypeOK, PeerTypeOK, Receive
             PROVE  TypeOK'
  BY DEF TypeOK
<1>1. CASE RecvNothing
  <2>1. PcTypeOK'
    BY <1>1 DEF RecvNothing, PcTypeOK, callVars, RecvReturns
  <2>2. ConnTypeOK'
    BY <1>1 DEF RecvNothing, ConnTypeOK, connVars, evVars
  <2>3. CacheTypeOK'
    BY <1>1 DEF RecvNothing, CacheTypeOK, cacheVars, zebraVars
  <2>4. PeerTypeOK'
    BY <1>1 DEF RecvNothing, PeerTypeOK, netVars, dpVars, histVars
  <2> QED
    BY <2>1, <2>2, <2>3, <2>4 DEF TypeOK
<1>2. CASE RecvUndecodable
  <2>1. PcTypeOK'
    BY <1>2 DEF RecvUndecodable, PcTypeOK, callVars, RecvReturns
  <2>2. ConnTypeOK'
    BY <1>2 DEF RecvUndecodable, ConnTypeOK, connVars, evVars
  <2>3. CacheTypeOK'
    BY <1>2 DEF RecvUndecodable, CacheTypeOK, cacheVars, zebraVars
  <2>4. PeerTypeOK'
    <3>1. rxq' \in Seq(Incoming)
      BY <1>2, RxqFacts DEF RecvUndecodable, Received
    <3> QED
      BY <1>2, <3>1 DEF RecvUndecodable, PeerTypeOK, dpVars, histVars
  <2> QED
    BY <2>1, <2>2, <2>3, <2>4 DEF TypeOK
<1>3. ASSUME NEW r \in Incoming, RecvIgnored(r) PROVE TypeOK'
  <2>1. PcTypeOK'
    BY <1>3 DEF RecvIgnored, PcTypeOK, callVars
  <2>2. ConnTypeOK'
    BY <1>3 DEF RecvIgnored, ConnTypeOK, connVars, evVars
  <2>3. CacheTypeOK'
    BY <1>3 DEF RecvIgnored, CacheTypeOK, cacheVars, zebraVars
  <2>4. PeerTypeOK'
    <3>1. rxq' \in Seq(Incoming)
      BY <1>3, RxqFacts DEF RecvIgnored, Received
    <3> QED
      BY <1>3, <3>1 DEF RecvIgnored, PeerTypeOK, dpVars, histVars
  <2> QED
    BY <2>1, <2>2, <2>3, <2>4 DEF TypeOK
<1>4. ASSUME NEW r \in Incoming, handle_rpc_control(r) PROVE TypeOK'
  <2>1. PcTypeOK'
    BY <1>4 DEF handle_rpc_control, PcTypeOK, callVars
  <2>2. ConnTypeOK'
    BY <1>4 DEF handle_rpc_control, ConnTypeOK, connVars, evVars
  <2>3. CacheTypeOK'
    <3>1. unsent' \in Seq(UnsentMsg)
      BY <1>4, UnsentFacts, MsgFacts DEF handle_rpc_control,
        dp_msg_cache_unsent
    <3> QED
      BY <1>4, <3>1 DEF handle_rpc_control, CacheTypeOK, zebraVars
  <2>4. PeerTypeOK'
    <3>1. rxq' \in Seq(Incoming)
      BY <1>4, RxqFacts DEF handle_rpc_control, Received
    <3> QED
      BY <1>4, <3>1 DEF handle_rpc_control, PeerTypeOK, dpVars, histVars
  <2> QED
    BY <2>1, <2>2, <2>3, <2>4 DEF TypeOK
<1>5. ASSUME NEW r \in Incoming, RecvRestart(r) PROVE TypeOK'
  <2>1. PcTypeOK'
    BY <1>5 DEF RecvRestart, PcTypeOK, callVars
  <2>2. ConnTypeOK'
    BY <1>5 DEF RecvRestart, ConnTypeOK, connVars, evVars
  <2>3. CacheTypeOK'
    BY <1>5 DEF RecvRestart, CacheTypeOK, cacheVars, zebraVars
  <2>4. PeerTypeOK'
    <3>1. rxq' \in Seq(Incoming)
      BY <1>5, RxqFacts DEF RecvRestart, Received
    <3> QED
      BY <1>5, <3>1 DEF RecvRestart, PeerTypeOK, dpVars, histVars
  <2> QED
    BY <2>1, <2>2, <2>3, <2>4 DEF TypeOK
<1>6. ASSUME NEW r \in Incoming, RecvUnsolicited(r) PROVE TypeOK'
  <2>1. PcTypeOK'
    BY <1>6 DEF RecvUnsolicited, PcTypeOK, callVars
  <2>2. ConnTypeOK'
    BY <1>6 DEF RecvUnsolicited, ConnTypeOK, connVars, evVars
  <2>3. CacheTypeOK'
    BY <1>6 DEF RecvUnsolicited, CacheTypeOK, cacheVars, zebraVars
  <2>4. PeerTypeOK'
    <3>1. rxq' \in Seq(Incoming)
      BY <1>6, RxqFacts DEF RecvUnsolicited, Received
    <3> QED
      BY <1>6, <3>1 DEF RecvUnsolicited, PeerTypeOK, dpVars, histVars
  <2> QED
    BY <2>1, <2>2, <2>3, <2>4 DEF TypeOK
<1>7. ASSUME NEW r \in Incoming, RecvMismatch(r) PROVE TypeOK'
  <2>1. PcTypeOK'
    BY <1>7 DEF RecvMismatch, PcTypeOK, callVars, Abort
  <2>2. ConnTypeOK'
    BY <1>7 DEF RecvMismatch, ConnTypeOK, connVars, evVars
  <2>3. CacheTypeOK'
    <3>1. in_flight' \in Seq(RequestMsg)
      BY <1>7, InFlightFacts DEF RecvMismatch
    <3>2. leaked' \subseteq Ctx
      BY <1>7, InFlightFacts, MsgFacts DEF RecvMismatch, dp_msg_recycle,
        CacheTypeOK, RequestMsg, ObjectMsg
    <3> QED
      BY <1>7, <3>1, <3>2 DEF RecvMismatch, CacheTypeOK, zebraVars
  <2>4. PeerTypeOK'
    <3>1. rxq' \in Seq(Incoming)
      BY <1>7, RxqFacts DEF RecvMismatch, Received
    <3> QED
      BY <1>7, <3>1 DEF RecvMismatch, PeerTypeOK, dpVars, histVars
  <2> QED
    BY <2>1, <2>2, <2>3, <2>4 DEF TypeOK
<1>8. ASSUME NEW r \in Incoming, RecvConnectResponse(r) PROVE TypeOK'
  <2>1. PcTypeOK'
    BY <1>8 DEF RecvConnectResponse, PcTypeOK, callVars
  <2>2. ConnTypeOK'
    <3>1. synt' \in Nat /\ is_ready' \in BOOLEAN
      BY <1>8, ResponseFacts DEF RecvConnectResponse,
        handle_rpc_connect_response, ConnTypeOK
    <3> QED
      BY <1>8, <3>1 DEF RecvConnectResponse, ConnTypeOK, evVars
  <2>3. CacheTypeOK'
    BY <1>8, InFlightFacts DEF RecvConnectResponse, CacheTypeOK, cacheVars,
      zebraVars
  <2>4. PeerTypeOK'
    <3>1. rxq' \in Seq(Incoming)
      BY <1>8, RxqFacts DEF RecvConnectResponse, Received
    <3> QED
      BY <1>8, <3>1 DEF RecvConnectResponse, PeerTypeOK, dpVars, histVars
  <2> QED
    BY <2>1, <2>2, <2>3, <2>4 DEF TypeOK
<1>9. ASSUME NEW r \in Incoming, handle_rpc_ctx_response(r) PROVE TypeOK'
  <2>1. PcTypeOK'
    BY <1>9 DEF handle_rpc_ctx_response, PcTypeOK, callVars
  <2>2. ConnTypeOK'
    BY <1>9 DEF handle_rpc_ctx_response, ConnTypeOK, connVars, evVars
  <2>3. CacheTypeOK'
    <3>1. Head(in_flight).ctx \in Ctx
      BY <1>9, InFlightFacts, MsgFacts DEF handle_rpc_ctx_response,
        got_expected_response
    <3>2. Result(r.ok) \in {"success", "failure"}
      BY <1>9, ResultFacts DEF Incoming
    <3>3. out' \in Seq(Ctx \X {"success", "failure"})
      BY <1>9, <3>1, <3>2, OutFacts DEF handle_rpc_ctx_response,
        dp_msg_hand_off
    <3>4. in_flight' \in Seq(RequestMsg)
      BY <1>9, InFlightFacts DEF handle_rpc_ctx_response
    <3> QED
      BY <1>9, <3>3, <3>4 DEF handle_rpc_ctx_response, CacheTypeOK
  <2>4. PeerTypeOK'
    <3>1. rxq' \in Seq(Incoming)
      BY <1>9, RxqFacts DEF handle_rpc_ctx_response, Received
    <3> QED
      BY <1>9, <3>1 DEF handle_rpc_ctx_response, PeerTypeOK, dpVars, histVars
  <2> QED
    BY <2>1, <2>2, <2>3, <2>4 DEF TypeOK
<1>10. CASE PurgeRequest
  <2>1. PcTypeOK'
    BY <1>10 DEF PurgeRequest, PcTypeOK, callVars
  <2>2. ConnTypeOK'
    BY <1>10 DEF PurgeRequest, ConnTypeOK, connVars, evVars
  <2>3. CacheTypeOK'
    <3>1. Head(in_flight).ctx \in Ctx
      BY <1>10, InFlightFacts, MsgFacts DEF PurgeRequest
    <3>2. Result(TRUE) \in {"success", "failure"}
      BY ResultFacts
    <3>3. out' \in Seq(Ctx \X {"success", "failure"})
      BY <1>10, <3>1, <3>2, OutFacts DEF PurgeRequest, dp_msg_hand_off
    <3>4. in_flight' \in Seq(RequestMsg)
      BY <1>10, InFlightFacts DEF PurgeRequest
    <3> QED
      BY <1>10, <3>3, <3>4 DEF PurgeRequest, CacheTypeOK
  <2>4. PeerTypeOK'
    BY <1>10 DEF PurgeRequest, PeerTypeOK, netVars, dpVars, histVars
  <2> QED
    BY <2>1, <2>2, <2>3, <2>4 DEF TypeOK
<1>11. CASE PurgeConnect
  <2>1. PcTypeOK'
    BY <1>11 DEF PurgeConnect, PcTypeOK, callVars
  <2>2. ConnTypeOK'
    <3>1. synt' \in Nat /\ is_ready' \in BOOLEAN
      BY <1>11, ResponseFacts DEF PurgeConnect, handle_rpc_connect_response,
        PcTypeOK, ConnTypeOK
    <3> QED
      BY <1>11, <3>1 DEF PurgeConnect, ConnTypeOK, evVars
  <2>3. CacheTypeOK'
    BY <1>11, InFlightFacts DEF PurgeConnect, CacheTypeOK, cacheVars,
      zebraVars
  <2>4. PeerTypeOK'
    BY <1>11 DEF PurgeConnect, PeerTypeOK, netVars, dpVars, histVars
  <2> QED
    BY <2>1, <2>2, <2>3, <2>4 DEF TypeOK
<1>12. CASE PurgeDone
  <2>1. PcTypeOK'
    BY <1>12, ResponseFacts DEF PurgeDone, PcTypeOK, callVars
  <2>2. ConnTypeOK'
    BY <1>12 DEF PurgeDone, ConnTypeOK, connVars, evVars
  <2>3. CacheTypeOK'
    BY <1>12 DEF PurgeDone, CacheTypeOK, cacheVars, zebraVars
  <2>4. PeerTypeOK'
    BY <1>12 DEF PurgeDone, PeerTypeOK, netVars, dpVars, histVars
  <2> QED
    BY <2>1, <2>2, <2>3, <2>4 DEF TypeOK
<1>13. rxq # <<>> => Head(rxq) \in Incoming
  BY RxqFacts
<1> QED
  BY <1>1, <1>2, <1>3, <1>4, <1>5, <1>6, <1>7, <1>8, <1>9, <1>10, <1>11, <1>12, <1>13
    DEF Receive, handle_rpc_msg

LEMMA EventsTypeOK == TypeOK /\ Events => TypeOK'
<1> SUFFICES ASSUME PcTypeOK, ConnTypeOK, CacheTypeOK, PeerTypeOK, Events
             PROVE  TypeOK'
  BY DEF TypeOK
<1>1. CASE ConnectTimer
  <2>1. PcTypeOK'
    BY <1>1 DEF ConnectTimer, PcTypeOK, callVars
  <2>2. ConnTypeOK'
    BY <1>1 DEF ConnectTimer, ConnTypeOK, connVars, evVars
  <2>3. CacheTypeOK'
    BY <1>1 DEF ConnectTimer, CacheTypeOK, cacheVars, zebraVars
  <2>4. PeerTypeOK'
    BY <1>1 DEF ConnectTimer, PeerTypeOK, netVars, dpVars, histVars
  <2> QED
    BY <2>1, <2>2, <2>3, <2>4 DEF TypeOK
<1>2. CASE dp_sock_send_cb
  <2>1. PcTypeOK'
    BY <1>2 DEF dp_sock_send_cb, PcTypeOK, callVars
  <2>2. ConnTypeOK'
    BY <1>2 DEF dp_sock_send_cb, ConnTypeOK, connVars, evVars
  <2>3. CacheTypeOK'
    BY <1>2 DEF dp_sock_send_cb, CacheTypeOK, cacheVars, zebraVars
  <2>4. PeerTypeOK'
    BY <1>2 DEF dp_sock_send_cb, PeerTypeOK, netVars, dpVars, histVars
  <2> QED
    BY <2>1, <2>2, <2>3, <2>4 DEF TypeOK
<1>3. CASE dp_send_keepalive
  <2>1. PcTypeOK'
    BY <1>3 DEF dp_send_keepalive, PcTypeOK, callVars
  <2>2. ConnTypeOK'
    BY <1>3 DEF dp_send_keepalive, ConnTypeOK, connVars, evVars
  <2>3. CacheTypeOK'
    <3>1. unsent' \in Seq(UnsentMsg)
      BY <1>3, UnsentFacts, MsgFacts DEF dp_send_keepalive,
        dp_msg_cache_unsent, CacheTypeOK
    <3> QED
      BY <1>3, <3>1 DEF dp_send_keepalive, CacheTypeOK, zebraVars
  <2>4. PeerTypeOK'
    BY <1>3 DEF dp_send_keepalive, PeerTypeOK, netVars, dpVars, histVars
  <2> QED
    BY <2>1, <2>2, <2>3, <2>4 DEF TypeOK
<1>4. CASE dp_rpc_recv
  <2>1. PcTypeOK'
    BY <1>4 DEF dp_rpc_recv, PcTypeOK, callVars, Abort
  <2>2. ConnTypeOK'
    BY <1>4 DEF dp_rpc_recv, ConnTypeOK, connVars, evVars, NO_SOCK, UNSET
  <2>3. CacheTypeOK'
    BY <1>4 DEF dp_rpc_recv, CacheTypeOK, cacheVars, zebraVars
  <2>4. PeerTypeOK'
    BY <1>4 DEF dp_rpc_recv, PeerTypeOK, netVars, dpVars, histVars
  <2> QED
    BY <2>1, <2>2, <2>3, <2>4 DEF TypeOK
<1> QED
  BY <1>1, <1>2, <1>3, <1>4 DEF Events

LEMMA ProcessTypeOK ==
  ASSUME TypeOK, NEW c \in Ctx, zd_hh_process(c)
  PROVE  TypeOK'
<1>0. PcTypeOK /\ ConnTypeOK /\ CacheTypeOK /\ PeerTypeOK
  BY DEF TypeOK
<1> USE <1>0
<1>1. CASE ProcessQueued(c)
  <2>1. PcTypeOK'
    BY <1>1 DEF ProcessQueued, PcTypeOK, callVars
  <2>2. ConnTypeOK'
    BY <1>1 DEF ProcessQueued, ConnTypeOK, connVars, evVars
  <2>3. CacheTypeOK'
    <3>1. dp_request_new(c) \in UnsentMsg
      BY <1>0 DEF dp_request_new, UnsentMsg, ObjectMsg, CacheTypeOK
    <3>2. unsent' \in Seq(UnsentMsg)
      BY <1>1, <3>1, UnsentFacts DEF ProcessQueued, dp_msg_cache_unsent
    <3> QED
      BY <1>1, <3>2 DEF ProcessQueued, CacheTypeOK
  <2>4. PeerTypeOK'
    BY <1>1 DEF ProcessQueued, PeerTypeOK, netVars, dpVars, histVars
  <2> QED
    BY <2>1, <2>2, <2>3, <2>4 DEF TypeOK
<1>2. CASE ProcessAnswered(c)
  <2>1. PcTypeOK'
    BY <1>2 DEF ProcessAnswered, PcTypeOK, callVars
  <2>2. ConnTypeOK'
    BY <1>2 DEF ProcessAnswered, ConnTypeOK, connVars, evVars
  <2>3. CacheTypeOK'
    <3>1. \A x : hh_ret_to_zebra(x) \in {"success", "failure"}
      BY  DEF hh_ret_to_zebra
    <3>2. out' \in Seq(Ctx \X {"success", "failure"})
      BY <1>2, <3>1, OutFacts DEF ProcessAnswered
    <3> QED
      BY <1>2, <3>2 DEF ProcessAnswered, CacheTypeOK, cacheVars
  <2>4. PeerTypeOK'
    BY <1>2 DEF ProcessAnswered, PeerTypeOK, netVars, dpVars, histVars
  <2> QED
    BY <2>1, <2>2, <2>3, <2>4 DEF TypeOK
<1>3. CASE ProcessFinalizing(c)
  <2>1. PcTypeOK'
    BY <1>3 DEF ProcessFinalizing, PcTypeOK, callVars
  <2>2. ConnTypeOK'
    BY <1>3 DEF ProcessFinalizing, ConnTypeOK, connVars, evVars
  <2>3. CacheTypeOK'
    <3>1. out' \in Seq(Ctx \X {"success", "failure"})
      BY <1>3, ResultFacts, OutFacts DEF ProcessFinalizing
    <3> QED
      BY <1>3, <3>1 DEF ProcessFinalizing, CacheTypeOK, cacheVars
  <2>4. PeerTypeOK'
    BY <1>3 DEF ProcessFinalizing, PeerTypeOK, netVars, dpVars, histVars
  <2> QED
    BY <2>1, <2>2, <2>3, <2>4 DEF TypeOK
<1> QED
  BY <1>1, <1>2, <1>3 DEF zd_hh_process

LEMMA CtxsOfType ==
  /\ \A s \in Seq(UnsentMsg) : CtxsOf(s) \subseteq Ctx
  /\ \A s \in Seq(RequestMsg) : CtxsOf(s) \subseteq Ctx
<1>1. \A s \in Seq(UnsentMsg) : CtxsOf(s) \subseteq Ctx
  <2> SUFFICES ASSUME NEW s \in Seq(UnsentMsg), NEW i \in DOMAIN s
               PROVE  s[i].ctx \in Ctx \cup {NoCtx}
    BY DEF CtxsOf
  <2>1. s[i] \in UnsentMsg
    BY ElementOfSeq, LenProperties
  <2> QED
    BY <2>1, MsgFacts
<1>2. \A s \in Seq(RequestMsg) : CtxsOf(s) \subseteq Ctx
  <2> SUFFICES ASSUME NEW s \in Seq(RequestMsg), NEW i \in DOMAIN s
               PROVE  s[i].ctx \in Ctx \cup {NoCtx}
    BY DEF CtxsOf
  <2>1. s[i] \in RequestMsg
    BY ElementOfSeq, LenProperties
  <2> QED
    BY <2>1, MsgFacts
<1> QED
  BY <1>1, <1>2

LEMMA FiniTypeOK == TypeOK /\ (FiniEarly \/ FiniLate) => TypeOK'
<1> SUFFICES ASSUME PcTypeOK, ConnTypeOK, CacheTypeOK, PeerTypeOK,
                    FiniEarly \/ FiniLate
             PROVE  TypeOK'
  BY DEF TypeOK
<1>1. CASE FiniEarly
  <2>1. PcTypeOK'
    BY <1>1 DEF FiniEarly, PcTypeOK, callVars
  <2>2. ConnTypeOK'
    BY <1>1 DEF FiniEarly, ConnTypeOK, connVars, evVars
  <2>3. CacheTypeOK'
    BY <1>1 DEF FiniEarly, CacheTypeOK, cacheVars, zebraVars
  <2>4. PeerTypeOK'
    BY <1>1 DEF FiniEarly, PeerTypeOK, netVars, dpVars, histVars
  <2> QED
    BY <2>1, <2>2, <2>3, <2>4 DEF TypeOK
<1>2. CASE FiniLate
  <2>1. PcTypeOK'
    BY <1>2 DEF FiniLate, PcTypeOK, callVars
  <2>2. ConnTypeOK'
    BY <1>2 DEF FiniLate, ConnTypeOK, connVars, evVars
  <2>3. CacheTypeOK'
    <3>1. freed' \subseteq Ctx
      BY <1>2, CtxsOfType DEF FiniLate, fini_dp_msg_cache, CacheTypeOK
    <3>2. unsent' \in Seq(UnsentMsg) /\ in_flight' \in Seq(RequestMsg)
      BY <1>2, EmptySeq DEF FiniLate, fini_dp_msg_cache
    <3> QED
      BY <1>2, <3>1, <3>2 DEF FiniLate, CacheTypeOK, zebraVars
  <2>4. PeerTypeOK'
    BY <1>2, RxqFacts DEF FiniLate, PeerTypeOK, netVars, dpVars, histVars
  <2> QED
    BY <2>1, <2>2, <2>3, <2>4 DEF TypeOK
<1> QED
  BY <1>1, <1>2

LEMMA DpTypeOK == TypeOK /\ DpNext => TypeOK'
<1> SUFFICES ASSUME PcTypeOK, ConnTypeOK, CacheTypeOK, PeerTypeOK, DpNext
             PROVE  TypeOK'
  BY DEF TypeOK
<1>1. CASE DpStart
  <2>1. PcTypeOK'
    BY <1>1 DEF DpStart, PcTypeOK, callVars
  <2>2. ConnTypeOK'
    BY <1>1 DEF DpStart, ConnTypeOK, connVars, evVars
  <2>3. CacheTypeOK'
    BY <1>1 DEF DpStart, CacheTypeOK, cacheVars, zebraVars
  <2>4. PeerTypeOK'
    BY <1>1, ConstantsOK DEF DpStart, PeerTypeOK, netVars, dpVars, histVars
  <2> QED
    BY <2>1, <2>2, <2>3, <2>4 DEF TypeOK
<1>2. CASE DpCrash
  <2>1. PcTypeOK'
    BY <1>2 DEF DpCrash, PcTypeOK, callVars
  <2>2. ConnTypeOK'
    BY <1>2 DEF DpCrash, ConnTypeOK, connVars, evVars
  <2>3. CacheTypeOK'
    BY <1>2 DEF DpCrash, CacheTypeOK, cacheVars, zebraVars
  <2>4. PeerTypeOK'
    BY <1>2, InboxFacts DEF DpCrash, PeerTypeOK, netVars, dpVars, histVars
  <2> QED
    BY <2>1, <2>2, <2>3, <2>4 DEF TypeOK
<1>3. ASSUME NEW ok \in BOOLEAN, DpServeConnect(ok) PROVE TypeOK'
  <2>1. PcTypeOK'
    BY <1>3 DEF DpServeConnect, PcTypeOK, callVars
  <2>2. ConnTypeOK'
    BY <1>3 DEF DpServeConnect, ConnTypeOK, connVars, evVars
  <2>3. CacheTypeOK'
    BY <1>3 DEF DpServeConnect, CacheTypeOK, cacheVars, zebraVars
  <2>4. PeerTypeOK'
    <3>1. Head(inbox).seqn \in Nat
      BY <1>3, InboxFacts, MsgFacts DEF DpServeConnect
    <3>2. [op |-> "Connect", seqn |-> Head(inbox).seqn, ok |-> ok,
           info |-> Token(inc)] \in Incoming
      BY <1>3, <3>1, ConstantsOK DEF DpServeConnect, PeerTypeOK, Incoming,
        RequestOp
    <3>3. rxq' \in Seq(Incoming)
      BY <1>3, <3>2, DeliverType DEF DpServeConnect
    <3>4. inbox' \in Seq(Msg)
      BY <1>3, InboxFacts DEF DpServeConnect
    <3>5. acked' \in BOOLEAN
      BY <1>3 DEF DpServeConnect, PeerTypeOK
    <3>6. faults' \in Nat
      BY <1>3 DEF DpServeConnect, PeerTypeOK
    <3>7. UNCHANGED <<peer, inc, up, refreshed, sent_to, applied>>
      BY <1>3 DEF DpServeConnect, histVars
    <3> QED
      BY <3>3, <3>4, <3>5, <3>6, <3>7 DEF PeerTypeOK
  <2> QED
    BY <2>1, <2>2, <2>3, <2>4 DEF TypeOK
<1>4. ASSUME NEW ok \in BOOLEAN, DpServeObject(ok) PROVE TypeOK'
  <2>1. PcTypeOK'
    BY <1>4 DEF DpServeObject, PcTypeOK, callVars
  <2>2. ConnTypeOK'
    BY <1>4 DEF DpServeObject, ConnTypeOK, connVars, evVars
  <2>3. CacheTypeOK'
    BY <1>4 DEF DpServeObject, CacheTypeOK, cacheVars, zebraVars
  <2>4. PeerTypeOK'
    <3>1. Head(inbox).seqn \in Nat
      BY <1>4, InboxFacts, MsgFacts DEF DpServeObject
    <3>2. [op |-> "Object", seqn |-> Head(inbox).seqn, ok |-> ok,
           info |-> NoInfo] \in Incoming
      BY <1>4, <3>1 DEF Incoming, RequestOp
    <3>3. rxq' \in Seq(Incoming)
      BY <1>4, <3>2, DeliverType DEF DpServeObject
    <3>4. inbox' \in Seq(Msg)
      BY <1>4, InboxFacts DEF DpServeObject
    <3>5. applied' \in [Ctx -> Nat]
      BY <1>4, ExceptType DEF DpServeObject
    <3>6. faults' \in Nat
      BY <1>4 DEF DpServeObject, PeerTypeOK
    <3>7. UNCHANGED <<peer, inc, up, acked, refreshed, sent_to>>
      BY <1>4 DEF DpServeObject
    <3> QED
      BY <3>3, <3>4, <3>5, <3>6, <3>7 DEF PeerTypeOK
  <2> QED
    BY <2>1, <2>2, <2>3, <2>4 DEF TypeOK
<1>5. CASE DpServeControl
  <2>1. PcTypeOK'
    BY <1>5 DEF DpServeControl, PcTypeOK, callVars
  <2>2. ConnTypeOK'
    BY <1>5 DEF DpServeControl, ConnTypeOK, connVars, evVars
  <2>3. CacheTypeOK'
    BY <1>5 DEF DpServeControl, CacheTypeOK, cacheVars, zebraVars
  <2>4. PeerTypeOK'
    BY <1>5, InboxFacts DEF DpServeControl, PeerTypeOK, netVars, dpVars,
      histVars
  <2> QED
    BY <2>1, <2>2, <2>3, <2>4 DEF TypeOK
<1>6. CASE DpRequestRefresh
  <2>1. PcTypeOK'
    BY <1>6 DEF DpRequestRefresh, PcTypeOK, callVars
  <2>2. ConnTypeOK'
    BY <1>6 DEF DpRequestRefresh, ConnTypeOK, connVars, evVars
  <2>3. CacheTypeOK'
    BY <1>6 DEF DpRequestRefresh, CacheTypeOK, cacheVars, zebraVars
  <2>4. PeerTypeOK'
    <3>1. [NoResp EXCEPT !.op = "Refresh"] \in Incoming
      BY  DEF NoResp, Incoming, NoInfo
    <3>2. rxq' \in Seq(Incoming)
      BY <1>6, <3>1, DeliverType DEF DpRequestRefresh
    <3> QED
      BY <1>6, <3>2 DEF DpRequestRefresh, PeerTypeOK, histVars
  <2> QED
    BY <2>1, <2>2, <2>3, <2>4 DEF TypeOK
<1>7. ASSUME NEW r \in RogueMsgs, DpRogue(r) PROVE TypeOK'
  <2>1. PcTypeOK'
    BY <1>7 DEF DpRogue, PcTypeOK, callVars
  <2>2. ConnTypeOK'
    BY <1>7 DEF DpRogue, ConnTypeOK, connVars, evVars
  <2>3. CacheTypeOK'
    BY <1>7 DEF DpRogue, CacheTypeOK, cacheVars, zebraVars
  <2>4. PeerTypeOK'
    <3>1. r \in Incoming
      BY <1>7, ResponseFacts DEF RogueMsgs, Incoming, RequestOp, CacheTypeOK
    <3>2. rxq' \in Seq(Incoming)
      BY <1>7, <3>1, DeliverType DEF DpRogue
    <3> QED
      BY <1>7, <3>2 DEF DpRogue, PeerTypeOK, dpVars, histVars
  <2> QED
    BY <2>1, <2>2, <2>3, <2>4 DEF TypeOK
<1> QED
  BY <1>1, <1>2, <1>3, <1>4, <1>5, <1>6, <1>7 DEF DpNext, DpServe

LEMMA StepTypeOK == TypeOK /\ [Next]_vars => TypeOK'
<1> SUFFICES ASSUME TypeOK, [Next]_vars PROVE TypeOK'
  OBVIOUS
<1>1. CASE Next
  BY <1>1, ConnectTypeOK, DrainTypeOK, ReceiveTypeOK, EventsTypeOK,
    ProcessTypeOK, FiniTypeOK, DpTypeOK DEF Next, CallStep, Process
<1>2. CASE UNCHANGED vars
  <2>1. PcTypeOK'
    BY <1>2 DEF vars, callVars, TypeOK, PcTypeOK
  <2>2. ConnTypeOK'
    BY <1>2 DEF vars, connVars, evVars, TypeOK, ConnTypeOK
  <2>3. CacheTypeOK'
    BY <1>2 DEF vars, cacheVars, zebraVars, TypeOK, CacheTypeOK
  <2>4. PeerTypeOK'
    BY <1>2 DEF vars, netVars, dpVars, histVars, TypeOK, PeerTypeOK
  <2> QED
    BY <2>1, <2>2, <2>3, <2>4 DEF TypeOK
<1> QED
  BY <1>1, <1>2

(***************************************************************************)
(* The type invariant of the plugin, in particular: no Connect ever waits  *)
(* in the unsent list, and only requests are in flight.                    *)
(***************************************************************************)
THEOREM TypeCorrect == Spec => []TypeOK
BY InitTypeOK, StepTypeOK, PTL DEF Spec
=============================================================================
