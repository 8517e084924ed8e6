------------------------------- MODULE DpComm -------------------------------
(***************************************************************************)
(* hh_dp_comm.c: connecting to the dataplane, draining the unsent list and *)
(* the event callbacks of the dplane pthread.  Each action runs from one   *)
(* system call to the next, since the dataplane process may move between   *)
(* any two of them; pc holds the plugin to the order of the code, and only *)
(* pc = "idle" is the event loop.                                          *)
(*                                                                         *)
(*   "connect"       dp_connect() is about to connect()                    *)
(*   "send_connect"  dp_connect() is about to send the Connect request     *)
(*   "drain"         send_pending_rpc_msgs() is at the top of its loop     *)
(*   "recv"          dp_rpc_recv() is about to recv()                      *)
(*   "purge"         handle_rpc_response() is draining in_flight           *)
(*   "aborted", "stopped"                                                  *)
(*                                                                         *)
(* The code that sends is entered from several callbacks; ret tells where  *)
(* it returns: "loop", "recv" or "send_cb".                                *)
(***************************************************************************)
EXTENDS DpMsgCache, DpPeer

\* event_add_read / event_add_write leave a pending event alone.
Armed(ev, fd) == IF ev = UNSET THEN fd ELSE ev

\* event_add_read() and event_add_timer() of dp_connect().
Mut_recv_not_scheduled(fd) == UNCHANGED ev_recv

SchedRecv(fd) == ev_recv' = Armed(ev_recv, fd)

Mut_retry_not_scheduled == UNCHANGED ev_connect_timer

SchedConnect == ev_connect_timer' = TRUE

Abort == pc' = "aborted" /\ UNCHANGED <<ret, nested>>

(***************************************************************************)
(* The sending code returns.  dp_sock_send_cb asks for another write       *)
(* notification when messages are left, on the descriptor fd; the event    *)
(* library aborts on a negative descriptor.  ev is the pending write event *)
(* so far.                                                                 *)
(***************************************************************************)
SendReturns(fd, ev) ==
  LET rearm == ret = "send_cb" /\ unsent # <<>> /\ ev = UNSET
  IN  /\ ev_send' = IF rearm THEN fd ELSE ev
      /\ pc' = IF rearm /\ fd = NO_SOCK THEN "aborted"
               ELSE IF ret = "recv" THEN "recv" ELSE "idle"
      /\ ret' = IF ret = "recv" THEN "recv" ELSE "loop"
      /\ nested' = FALSE

-----------------------------------------------------------------------------
Mut_can_send_before_ack(m) == m.op = "Connect" \/ dp_sock_connected

can_send_rpc_request(m) == m.op = "Connect" \/ is_ready

(***************************************************************************)
(* encode_msg() and send(): accepted, no room ("again": EAGAIN, ENOBUFS,   *)
(* ENOMEM), the connection is gone ("conn"), or any other failure          *)
(* ("error": EINTR, an encoding failure).  Transient failures are faults.  *)
(***************************************************************************)
SendOutcome(m) ==
  IF m.ctx \in Unencodable THEN "error"
  ELSE IF ~PeerAlive        THEN "conn"
  ELSE IF Len(inbox) = QLen THEN "again"
  ELSE "ok"

Transient == IF PeerAlive /\ CanFault("send") THEN {"again", "error"} ELSE {}

SockSend(m, o) ==
  /\ o \in {SendOutcome(m)} \cup Transient
  /\ faults' = IF o = SendOutcome(m) THEN faults ELSE faults + 1
  /\ inbox' = IF o = "ok" THEN Append(inbox, m) ELSE inbox
  /\ peer' = IF o = "conn" THEN 0 ELSE peer
  /\ rxq' = IF o = "conn" THEN <<>> ELSE rxq

Mut_stays_ready(o) ==
  /\ dp_sock_connected' = (dp_sock_connected /\ o # "conn")
  /\ is_ready' = is_ready

\* What do_send_rpc_msg() does to the connection state on a connection error.
ConnectionLost(o) ==
  /\ dp_sock_connected' = (dp_sock_connected /\ o # "conn")
  /\ is_ready' = (is_ready /\ o # "conn")

-----------------------------------------------------------------------------
(***************************************************************************)
(* send_pending_rpc_msgs(), one message of the unsent list at a time.      *)
(***************************************************************************)
DrainDone ==
  /\ pc = "drain"
  /\ unsent = <<>>
  /\ SendReturns(dp_sock, ev_send)
  /\ UNCHANGED <<resp, connVars, ev_connect_timer, ev_recv, seqnum, cacheVars,
                 zebraVars, netVars, dpVars, faults, histVars>>

\* can_send_rpc_request() refuses the head of the list: it stays there.
DrainNotReady ==
  /\ pc = "drain"
  /\ unsent # <<>>
  /\ ~can_send_rpc_request(Head(unsent))
  /\ unsent' = dp_msg_unsent_push_back(Tail(unsent), Head(unsent))
  /\ SendReturns(dp_sock, ev_send)
  /\ UNCHANGED <<resp, connVars, ev_connect_timer, ev_recv, seqnum, in_flight,
                 leaked, freed, zebraVars, netVars, dpVars, faults, histVars>>

\* Sent: a request waits in_flight for its response, a Control is recycled.
DrainSent ==
  /\ pc = "drain"
  /\ unsent # <<>>
  /\ LET m == Head(unsent)
     IN  /\ can_send_rpc_request(m)
         /\ SockSend(m, "ok")
         /\ IF IsRequest(m) THEN dp_msg_cache_inflight(m)
            ELSE UNCHANGED in_flight
         /\ sent_to' = IF m.ctx # NoCtx THEN [sent_to EXCEPT ![m.ctx] = inc]
                       ELSE sent_to
  /\ unsent' = Tail(unsent)
  /\ UNCHANGED <<callVars, connVars, evVars, seqnum, leaked, freed, zebraVars,
                 inc, up, acked, refreshed, applied>>

\* Not sent: back to the head of the list.  Without room, ask for a write
\* notification; after a connection error connect again unless a retry is
\* already pending.
DrainFailed ==
  /\ pc = "drain"
  /\ unsent # <<>>
  /\ can_send_rpc_request(Head(unsent))
  /\ unsent' = dp_msg_unsent_push_back(Tail(unsent), Head(unsent))
  /\ \E o \in {"again", "conn", "error"} :
       /\ SockSend(Head(unsent), o)
       /\ ConnectionLost(o)
       /\ IF o = "conn" /\ ~ev_connect_timer
          THEN /\ pc' = "connect"
               /\ UNCHANGED <<ret, nested, ev_send>>
          ELSE SendReturns(dp_sock, IF o = "again" THEN Armed(ev_send, dp_sock)
                                    ELSE ev_send)
  /\ UNCHANGED <<resp, dp_sock, synt, ev_connect_timer, ev_recv, seqnum,
                 in_flight, leaked, freed, zebraVars, inc, up, acked,
                 refreshed, histVars>>

-----------------------------------------------------------------------------
(***************************************************************************)
(* dp_connect().  Without a socket it gives up for good.                   *)
(***************************************************************************)
ConnectNoSock ==
  /\ pc = "connect"
  /\ dp_sock = NO_SOCK
  /\ SendReturns(dp_sock, ev_send)
  /\ UNCHANGED <<resp, connVars, ev_connect_timer, ev_recv, seqnum, cacheVars,
                 zebraVars, netVars, dpVars, faults, histVars>>

\* connect() fails: dp_unix_sock_reopen() replaces the socket and the retry
\* timer is armed.  An enclosing dp_connect() then still schedules its recv.
ConnectFails(f) ==
  /\ pc = "connect"
  /\ dp_sock # NO_SOCK
  /\ ~up
  /\ f \in Fd \/ (f = NO_SOCK /\ OpenMayFail)
  /\ dp_sock' = f
  /\ dp_sock_connected' = FALSE
  /\ is_ready' = FALSE
  /\ peer' = 0
  /\ rxq' = <<>>
  /\ SchedConnect
  /\ IF nested /\ f = NO_SOCK
     THEN Abort /\ UNCHANGED <<ev_recv, ev_send>>
     ELSE /\ IF nested THEN SchedRecv(f) ELSE UNCHANGED ev_recv
          /\ SendReturns(f, ev_send)
  /\ UNCHANGED <<resp, synt, seqnum, cacheVars, zebraVars, dpVars, faults,
                 histVars>>

\* connect() succeeds.  The kernel drops what an earlier peer had sent.
ConnectSucceeds ==
  /\ pc = "connect"
  /\ dp_sock # NO_SOCK
  /\ up
  /\ peer' = inc
  /\ rxq' = IF peer \in {0, inc} THEN rxq ELSE <<>>
  /\ ev_connect_timer' = FALSE
  /\ dp_sock_connected' = TRUE
  /\ pc' = "send_connect"
  /\ UNCHANGED <<ret, nested, resp, dp_sock, is_ready, synt, ev_recv, ev_send,
                 seqnum, cacheVars, zebraVars, dpVars, faults, histVars>>

(***************************************************************************)
(* send_rpc_request_connect(): the Connect overtakes the unsent list.  It  *)
(* is in flight once sent, recycled otherwise; then recv is scheduled.  A  *)
(* connection error connects again from inside the send, and recv is       *)
(* scheduled when that call has returned.                                  *)
(***************************************************************************)
SendConnect(o) ==
  /\ pc = "send_connect"
  /\ SockSend(ConnectMsg, o)
  /\ ConnectionLost(o)
  /\ IF o = "ok" THEN dp_msg_cache_inflight(ConnectMsg)
     ELSE UNCHANGED in_flight
  /\ IF o = "conn" /\ ~ev_connect_timer
     THEN /\ pc' = "connect"
          /\ nested' = TRUE
          /\ UNCHANGED <<ret, ev_recv, ev_send>>
     ELSE /\ SchedRecv(dp_sock)
          /\ SendReturns(dp_sock, IF o = "again" THEN Armed(ev_send, dp_sock)
                                  ELSE ev_send)
  /\ UNCHANGED <<resp, dp_sock, synt, ev_connect_timer, seqnum, unsent, leaked,
                 freed, zebraVars, inc, up, acked, refreshed, histVars>>

-----------------------------------------------------------------------------
(***************************************************************************)
(* The callbacks the event loop runs.  The library clears the event before *)
(* it calls.  A descriptor closed by dp_unix_sock_reopen() while an event  *)
(* waited on it may come back as another file of the process: the event    *)
(* may then fire for that file, or never.                                  *)
(***************************************************************************)
ConnectTimer ==
  /\ pc = "idle"
  /\ ev_connect_timer
  /\ ev_connect_timer' = FALSE
  /\ pc' = "connect"
  /\ UNCHANGED <<ret, nested, resp, connVars, ev_recv, ev_send, seqnum,
                 cacheVars, zebraVars, netVars, dpVars, faults, histVars>>

dp_sock_send_cb ==
  /\ pc = "idle"
  /\ ev_send # UNSET
  /\ ev_send = dp_sock => Writable
  /\ ev_send' = UNSET
  /\ IF unsent = <<>> THEN UNCHANGED <<pc, ret>>
     ELSE pc' = "drain" /\ ret' = "send_cb"
  /\ UNCHANGED <<nested, resp, connVars, ev_connect_timer, ev_recv, seqnum,
                 cacheVars, zebraVars, netVars, dpVars, faults, histVars>>

Keepalives == Cardinality({i \in DOMAIN unsent : unsent[i].op = "Keepalive"})

\* The keepalive timer always runs; it only acts when connected and ready.
\* Bound: with MaxKeepalives waiting, a further one is not added.
dp_send_keepalive ==
  /\ pc = "idle"
  /\ dp_sock_connected /\ is_ready
  /\ IF Keepalives < MaxKeepalives THEN dp_msg_cache_unsent(KeepaliveMsg)
     ELSE UNCHANGED unsent
  /\ pc' = "drain"
  /\ UNCHANGED <<ret, nested, resp, connVars, evVars, seqnum, in_flight,
                 leaked, freed, zebraVars, netVars, dpVars, faults, histVars>>

\* dp_rpc_recv() starts by scheduling the next recv on the current socket.
dp_rpc_recv ==
  /\ pc = "idle"
  /\ ev_recv # UNSET
  /\ ev_recv = dp_sock => rxq # <<>>
  /\ ev_recv' = dp_sock
  /\ IF dp_sock = NO_SOCK THEN Abort
     ELSE pc' = "recv" /\ ret' = "recv" /\ UNCHANGED nested
  /\ UNCHANGED <<resp, connVars, ev_connect_timer, ev_send, seqnum, cacheVars,
                 zebraVars, netVars, dpVars, faults, histVars>>
=============================================================================
