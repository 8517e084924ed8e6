------------------------------- MODULE DpMsg -------------------------------
(***************************************************************************)
(* hh_dp_msg.c: what dp_rpc_recv() does with each message it receives.     *)
(* Receiving and handling a message is one action up to the next send;     *)
(* what a handler then sends is the drain of DpComm, which returns to      *)
(* pc = "recv".                                                            *)
(***************************************************************************)
EXTENDS DpComm

\* recv() returned the datagram r.
Received(r) ==
  /\ pc = "recv"
  /\ rxq # <<>>
  /\ r = Head(rxq)
  /\ rxq' = Tail(rxq)

\* dp_rpc_recv() returns to the event loop.
RecvReturns == pc' = "idle" /\ ret' = "loop" /\ UNCHANGED nested

\* recv() has nothing more (EAGAIN), or fails without taking anything.
RecvNothing ==
  /\ pc = "recv"
  /\ \/ rxq = <<>> /\ faults' = faults
     \/ rxq # <<>> /\ CanFault("recv") /\ faults' = faults + 1
  /\ RecvReturns
  /\ UNCHANGED <<resp, connVars, evVars, seqnum, cacheVars, zebraVars, netVars,
                 dpVars, histVars>>

\* decode_msg() rejects the datagram, or it is empty: it is lost, and the
\* loop ends.
RecvUndecodable ==
  /\ CanFault("decode")
  /\ Received(Head(rxq))
  /\ faults' = faults + 1
  /\ RecvReturns
  /\ UNCHANGED <<resp, connVars, evVars, seqnum, cacheVars, zebraVars, peer,
                 dpVars, histVars>>

\* Requests, notifications and unknown types are only logged.
RecvIgnored(r) ==
  /\ Received(r)
  /\ r.op = "Other"
  /\ UNCHANGED <<callVars, connVars, evVars, seqnum, cacheVars, zebraVars,
                 peer, dpVars, faults, histVars>>

Mut_refresh_only_drains(r) ==
  /\ Received(r)
  /\ r.op = "Refresh"
  /\ pc' = "drain"
  /\ UNCHANGED <<ret, nested, resp, connVars, evVars, seqnum, cacheVars,
                 zebraVars, peer, dpVars, faults, histVars>>

\* handle_rpc_control(): zebra is asked to send its state again, and a
\* Control saying so is queued behind what is unsent.
handle_rpc_control(r) ==
  /\ Received(r)
  /\ r.op = "Refresh"
  /\ dp_msg_cache_unsent(RefreshMsg)
  /\ pc' = "drain"
  /\ UNCHANGED <<ret, nested, resp, connVars, evVars, seqnum, in_flight,
                 leaked, freed, zebraVars, peer, dpVars, faults, histVars>>

-----------------------------------------------------------------------------
(***************************************************************************)
(* Handing a context back to zebra with the result of its request.         *)
(***************************************************************************)
Mut_all_succeed(ok) == "success"

Result(ok) == IF ok THEN "success" ELSE "failure"

dp_msg_hand_off(m, ok) == out' = Append(out, <<m.ctx, Result(ok)>>)

Mut_synt_of_no_info(r) == synt' = r.info /\ is_ready' = TRUE

\* A positive response to Connect: the sync token, when it carries one, is
\* remembered and sending is allowed.
handle_rpc_connect_response(r) ==
  /\ synt' = IF r.info = NoInfo THEN synt ELSE r.info
  /\ is_ready' = TRUE

Mut_restart_ignored(r) == FALSE

(***************************************************************************)
(* handle_rpc_response().  A Connect response with another sync token than *)
(* the one remembered reveals that the dataplane restarted; otherwise the  *)
(* response must answer the oldest request in flight.                      *)
(***************************************************************************)
RestartDetected(r) ==
  /\ r.op = "Connect" /\ r.info # NoInfo
  /\ synt # 0 /\ r.info # synt

got_expected_response(r, m) == r.seqn = m.seqn /\ r.op = m.op

RecvRestart(r) ==
  /\ Received(r)
  /\ RestartDetected(r)
  /\ resp' = r
  /\ pc' = "purge"
  /\ UNCHANGED <<ret, nested, connVars, evVars, seqnum, cacheVars, zebraVars,
                 peer, dpVars, faults, histVars>>

\* recover_request() finds nothing in flight: the response is dropped.
RecvUnsolicited(r) ==
  /\ Received(r)
  /\ r.op \in RequestOp /\ ~RestartDetected(r)
  /\ in_flight = <<>>
  /\ UNCHANGED <<callVars, connVars, evVars, seqnum, cacheVars, zebraVars,
                 peer, dpVars, faults, histVars>>

\* The oldest request does not match: it is dropped with its context.
RecvMismatch(r) ==
  /\ Received(r)
  /\ r.op \in RequestOp /\ ~RestartDetected(r)
  /\ in_flight # <<>>
  /\ ~got_expected_response(r, Head(in_flight))
  /\ in_flight' = Tail(in_flight)
  /\ dp_msg_recycle(Head(in_flight))
  /\ IF RecycleAborts(Head(in_flight)) THEN Abort
     ELSE UNCHANGED <<pc, ret, nested>>
  /\ UNCHANGED <<resp, connVars, evVars, seqnum, unsent, freed, zebraVars,
                 peer, dpVars, faults, histVars>>

\* The response to a Connect: what waited is sent, or the process aborts.
RecvConnectResponse(r) ==
  /\ Received(r)
  /\ r.op = "Connect" /\ ~RestartDetected(r)
  /\ in_flight # <<>>
  /\ got_expected_response(r, Head(in_flight))
  /\ in_flight' = Tail(in_flight)
  /\ IF r.ok
     THEN handle_rpc_connect_response(r) /\ pc' = "drain"
     ELSE UNCHANGED <<synt, is_ready>> /\ pc' = "aborted"
  /\ UNCHANGED <<ret, nested, resp, dp_sock, dp_sock_connected, evVars, seqnum,
                 unsent, leaked, freed, zebraVars, peer, dpVars, faults,
                 histVars>>

\* The response to a request: its context goes back with the result.
handle_rpc_ctx_response(r) ==
  /\ Received(r)
  /\ r.op = "Object"
  /\ in_flight # <<>>
  /\ got_expected_response(r, Head(in_flight))
  /\ in_flight' = Tail(in_flight)
  /\ dp_msg_hand_off(Head(in_flight), r.ok)
  /\ UNCHANGED <<callVars, connVars, evVars, seqnum, unsent, leaked, freed,
                 finalizing, todo, peer, dpVars, faults, histVars>>

Mut_purge_answers_connect ==
  /\ pc = "purge"
  /\ in_flight # <<>>
  /\ in_flight' = Tail(in_flight)
  /\ dp_msg_hand_off(Head(in_flight), TRUE)
  /\ UNCHANGED <<callVars, connVars, evVars, seqnum, unsent, leaked, freed,
                 finalizing, todo, netVars, dpVars, faults, histVars>>

Mut_purge_peeks ==
  /\ pc = "purge"
  /\ in_flight # <<>>
  /\ Head(in_flight).op # "Connect"
  /\ dp_msg_hand_off(Head(in_flight), TRUE)
  /\ UNCHANGED <<callVars, connVars, evVars, seqnum, cacheVars, finalizing,
                 todo, netVars, dpVars, faults, histVars>>

(***************************************************************************)
(* The purge: every request in flight is answered as if it had succeeded,  *)
(* except Connect, which resp answers.  Nothing is sent from here.         *)
(***************************************************************************)
PurgeRequest ==
  /\ pc = "purge"
  /\ in_flight # <<>>
  /\ Head(in_flight).op # "Connect"
  /\ in_flight' = Tail(in_flight)
  /\ dp_msg_hand_off(Head(in_flight), TRUE)
  /\ UNCHANGED <<callVars, connVars, evVars, seqnum, unsent, leaked, freed,
                 finalizing, todo, netVars, dpVars, faults, histVars>>

Mut_purge_drops_connect ==
  /\ pc = "purge"
  /\ in_flight # <<>>
  /\ Head(in_flight).op = "Connect"
  /\ in_flight' = Tail(in_flight)
  /\ UNCHANGED <<callVars, connVars, evVars, seqnum, unsent, leaked, freed,
                 zebraVars, netVars, dpVars, faults, histVars>>

PurgeConnect ==
  /\ pc = "purge"
  /\ in_flight # <<>>
  /\ Head(in_flight).op = "Connect"
  /\ in_flight' = Tail(in_flight)
  /\ IF resp.ok
     THEN handle_rpc_connect_response(resp) /\ UNCHANGED pc
     ELSE UNCHANGED <<synt, is_ready>> /\ pc' = "aborted"
  /\ UNCHANGED <<ret, nested, resp, dp_sock, dp_sock_connected, evVars, seqnum,
                 unsent, leaked, freed, zebraVars, netVars, dpVars, faults,
                 histVars>>

PurgeDone ==
  /\ pc = "purge"
  /\ in_flight = <<>>
  /\ resp' = NoResp
  /\ pc' = "recv"
  /\ UNCHANGED <<ret, nested, connVars, evVars, seqnum, cacheVars, zebraVars,
                 netVars, dpVars, faults, histVars>>

handle_rpc_msg(r) ==
  \/ RecvIgnored(r)
  \/ handle_rpc_control(r)
  \/ RecvRestart(r)
  \/ RecvUnsolicited(r)
  \/ RecvMismatch(r)
  \/ RecvConnectResponse(r)
  \/ handle_rpc_ctx_response(r)

Receive ==
  \/ RecvNothing
  \/ RecvUndecodable
  \/ pc = "recv" /\ rxq # <<>> /\ handle_rpc_msg(Head(rxq))
  \/ PurgeRequest
  \/ PurgeConnect
  \/ PurgeDone
=============================================================================
