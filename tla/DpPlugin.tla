------------------------------ MODULE DpPlugin ------------------------------
(***************************************************************************)
(* The plugin as zebra sees it: hh_dp_plugin.c, the creation of requests   *)
(* in hh_dp_msg.c, and the composition of every part of the RPC engine     *)
(* with the kernel and the dataplane process.                              *)
(***************************************************************************)
EXTENDS DpMsg, HhProcess

(***************************************************************************)
(* zd_hh_start() has opened the socket and initialized the cache: the next *)
(* step is the first dp_connect().                                         *)
(***************************************************************************)
Init ==
  /\ pc = "connect" /\ ret = "loop" /\ nested = FALSE /\ resp = NoResp
  /\ dp_sock \in Fd
  /\ dp_sock_connected = FALSE /\ is_ready = FALSE /\ synt = 0
  /\ ev_connect_timer = FALSE /\ ev_recv = UNSET /\ ev_send = UNSET
  /\ seqnum = 1
  /\ unsent = <<>> /\ in_flight = <<>> /\ leaked = {} /\ freed = {}
  /\ finalizing = FALSE
  /\ todo = Ctx
  /\ out = <<>>
  /\ peer = 0 /\ rxq = <<>>
  /\ inc = 0 /\ up = FALSE /\ inbox = <<>>
  /\ acked = FALSE /\ refreshed = FALSE
  /\ faults = 0
  /\ sent_to = [c \in Ctx |-> 0] /\ applied = [c \in Ctx |-> 0]

-----------------------------------------------------------------------------
\* The message dp_request_new() builds for a context.
dp_request_new(c) == [op |-> "Object", seqn |-> seqnum, ctx |-> c]

(***************************************************************************)
(* zd_hh_process() takes a context and queues a request for it; then what  *)
(* is unsent is sent.                                                      *)
(***************************************************************************)
ProcessQueued(c) ==
  /\ pc = "idle"
  /\ ~finalizing
  /\ c \in todo
  /\ "HH_QUEUED" \in Outcomes
  /\ todo' = todo \ {c}
  /\ dp_msg_cache_unsent(dp_request_new(c))
  /\ seqnum' = seqnum + 1
  /\ pc' = "drain"
  /\ UNCHANGED <<ret, nested, resp, connVars, evVars, in_flight, leaked, freed,
                 finalizing, out, netVars, dpVars, faults, histVars>>

\* ... or answers it at once, with whatever the dispatch returned.
ProcessAnswered(c) ==
  /\ pc = "idle"
  /\ ~finalizing
  /\ c \in todo
  /\ todo' = todo \ {c}
  /\ \E res \in Outcomes \ {"HH_QUEUED"} :
       out' = Append(out, <<c, hh_ret_to_zebra(res)>>)
  /\ UNCHANGED <<callVars, connVars, evVars, seqnum, cacheVars, finalizing,
                 netVars, dpVars, faults, histVars>>

\* ... or fails it once zebra is finalizing.
ProcessFinalizing(c) ==
  /\ pc = "idle"
  /\ finalizing
  /\ c \in todo
  /\ todo' = todo \ {c}
  /\ out' = Append(out, <<c, Result(FALSE)>>)
  /\ UNCHANGED <<callVars, connVars, evVars, seqnum, cacheVars, finalizing,
                 netVars, dpVars, faults, histVars>>

zd_hh_process(c) ==
  \/ ProcessQueued(c)
  \/ ProcessAnswered(c)
  \/ ProcessFinalizing(c)

-----------------------------------------------------------------------------
(***************************************************************************)
(* zd_hh_fini(): the early call only raises the flag, and comes from       *)
(* zebra's main thread whatever the dplane pthread is doing; the late call *)
(* is one of the dplane pthread's own.                                     *)
(***************************************************************************)
FiniEarly ==
  /\ pc \notin {"aborted", "stopped"}
  /\ ~finalizing
  /\ finalizing' = TRUE
  /\ UNCHANGED <<callVars, connVars, evVars, seqnum, cacheVars, todo, out,
                 netVars, dpVars, faults, histVars>>

FiniLate ==
  /\ pc = "idle"
  /\ finalizing
  /\ pc' = "stopped"
  /\ dp_sock' = NO_SOCK
  /\ dp_sock_connected' = FALSE
  /\ is_ready' = FALSE
  /\ peer' = 0
  /\ rxq' = <<>>
  /\ fini_dp_msg_cache
  /\ UNCHANGED <<ret, nested, resp, synt, evVars, seqnum, leaked, zebraVars,
                 dpVars, faults, histVars>>

-----------------------------------------------------------------------------
Connect ==
  \/ ConnectNoSock
  \/ \E f \in Fd \cup {NO_SOCK} : ConnectFails(f)
  \/ ConnectSucceeds
  \/ \E o \in {"ok", "again", "conn", "error"} : SendConnect(o)

Drain == DrainDone \/ DrainNotReady \/ DrainSent \/ DrainFailed

Events == ConnectTimer \/ dp_sock_send_cb \/ dp_send_keepalive \/ dp_rpc_recv

\* The steps of a call that is under way.
CallStep == Connect \/ Drain \/ Receive

Process == \E c \in Ctx : zd_hh_process(c)

Next ==
  \/ CallStep
  \/ Events
  \/ Process
  \/ FiniEarly
  \/ FiniLate
  \/ DpNext

Spec == Init /\ [][Next]_vars

(***************************************************************************)
(* Fairness.  The dplane pthread keeps running the call it is in.  Its     *)
(* event loop runs every event that is ready, turn after turn, so each     *)
(* callback and zebra's work, which become ready again and again between   *)
(* calls, get their turn: strong fairness.  The dataplane is restarted     *)
(* when it dies and serves its queue while it lives.                       *)
(***************************************************************************)
FairSpec ==
  /\ Spec
  /\ WF_vars(CallStep)
  /\ SF_vars(ConnectTimer)
  /\ SF_vars(dp_sock_send_cb)
  /\ SF_vars(dp_send_keepalive)
  /\ SF_vars(dp_rpc_recv)
  /\ \A c \in Ctx : SF_vars(zd_hh_process(c))
  /\ WF_vars(DpStart)
  /\ WF_vars(DpServe)
=============================================================================
