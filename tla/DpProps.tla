------------------------------ MODULE DpProps ------------------------------
(***************************************************************************)
(* What the plugin must guarantee.                                         *)
(***************************************************************************)
EXTENDS DpPlugin

(***************************************************************************)
(* The promise to zebra, with the same lists and contexts.  It is kept     *)
(* through every restart, reconnection, failed send, purge and fault.      *)
(***************************************************************************)
Flow == INSTANCE CtxFlow

ImplementsFlow == Flow!Spec

-----------------------------------------------------------------------------
(***************************************************************************)
(* Every variable has its type.  Only requests wait in flight, each Object *)
(* request with a context; a Connect never waits in the unsent list, which *)
(* is what send_pending_rpc_msgs() asks itself (hh_dp_comm.c:319-322).     *)
(***************************************************************************)
PcTypeOK ==
  /\ pc \in {"idle", "connect", "send_connect", "drain", "recv", "purge",
             "aborted", "stopped"}
  /\ ret \in {"loop", "recv", "send_cb"}
  /\ nested \in BOOLEAN
  /\ resp \in Incoming

ConnTypeOK ==
  /\ dp_sock \in Fd \cup {NO_SOCK}
  /\ dp_sock_connected \in BOOLEAN
  /\ is_ready \in BOOLEAN
  /\ synt \in Nat
  /\ ev_connect_timer \in BOOLEAN
  /\ ev_recv \in Fd \cup {UNSET}
  /\ ev_send \in Fd \cup {UNSET}

CacheTypeOK ==
  /\ seqnum \in Nat
  /\ unsent \in Seq(UnsentMsg)
  /\ in_flight \in Seq(RequestMsg)
  /\ leaked \subseteq Ctx
  /\ freed \subseteq Ctx
  /\ finalizing \in BOOLEAN
  /\ todo \subseteq Ctx
  /\ out \in Seq(Ctx \X {"success", "failure"})

PeerTypeOK ==
  /\ peer \in Nat
  /\ rxq \in Seq(Incoming)
  /\ inc \in 0..MaxInc
  /\ up \in BOOLEAN /\ (up => inc > 0)
  /\ inbox \in Seq(Msg)
  /\ acked \in BOOLEAN
  /\ refreshed \in BOOLEAN
  /\ faults \in Nat
  /\ sent_to \in [Ctx -> Nat]
  /\ applied \in [Ctx -> Nat]

TypeOK == PcTypeOK /\ ConnTypeOK /\ CacheTypeOK /\ PeerTypeOK

-----------------------------------------------------------------------------
(***************************************************************************)
(* A context has exactly one owner and is answered at most once.           *)
(***************************************************************************)
CtxOwnedOnce == Flow!OwnedOnce

(***************************************************************************)
(* Requests keep the order zebra gave them in, through failed sends and    *)
(* messages put back (hh_dp_comm.c:339-345).                               *)
(***************************************************************************)
RequestsInOrder == Flow!InOrder

(***************************************************************************)
(* The plugin sends nothing but Connect to a dataplane that has not yet    *)
(* accepted one, an incarnation at a time (hh_dp_msg.c:37-39), even though *)
(* it only learns of a restart from a failing send.                        *)
(***************************************************************************)
ConnectFirst ==
  up => \A i \in DOMAIN inbox : inbox[i].op # "Connect" => acked

(***************************************************************************)
(* When the dataplane answers everything in order, a response the plugin   *)
(* reads either reveals a restart or answers the oldest request in flight  *)
(* (hh_dp_msg.c:223-228): restarts and reconnections never shift one       *)
(* against the other.                                                      *)
(***************************************************************************)
ResponseExpected ==
  pc = "recv" /\ rxq # <<>> /\ Head(rxq).op \in RequestOp =>
    \/ RestartDetected(Head(rxq))
    \/ /\ in_flight # <<>>
       /\ got_expected_response(Head(rxq), Head(in_flight))

(***************************************************************************)
(* The responses on their way and the requests not yet served are, in      *)
(* order, those of the end of in_flight: the conversation with the live    *)
(* incarnation is never shifted, and what precedes it in flight was sent   *)
(* to a dead one.                                                          *)
(***************************************************************************)
Key(m) == <<m.op, m.seqn>>

\* The places in a queue of the requests, or of the responses to them.
Awaited(q) == {i \in DOMAIN q : q[i].op \in RequestOp}

ConversationAligned ==
  PeerAlive =>
    LET conv == rxq \o inbox
    IN  \E at \in [Awaited(conv) -> DOMAIN in_flight] :
          /\ \A i \in Awaited(conv) : Key(in_flight[at[i]]) = Key(conv[i])
          /\ \A i, j \in Awaited(conv) : i < j => at[i] < at[j]
          /\ \A k \in DOMAIN in_flight \ {at[i] : i \in Awaited(conv)} :
               /\ \A i \in Awaited(conv) : k < at[i]
               /\ in_flight[k].ctx # NoCtx => sent_to[in_flight[k].ctx] # inc

(***************************************************************************)
(* The purge of a restart repairs the conversation, whatever was lost of   *)
(* it before: once it has emptied in_flight, the live incarnation owes no  *)
(* response.  This holds even after a response that could not be decoded,  *)
(* which leaves every later one off by one (hh_dp_comm.c:466).             *)
(***************************************************************************)
PurgeRealigns ==
  pc = "purge" /\ in_flight = <<>> /\ PeerAlive =>
    Awaited(rxq) = {} /\ Awaited(inbox) = {}

(***************************************************************************)
(* The event loop is never left without a way on.  Between calls, a        *)
(* connected plugin waits for the dataplane's messages on the socket it    *)
(* has, and one that is not connected has a retry pending                  *)
(* (hh_dp_comm.c:478-480).                                                 *)
(***************************************************************************)
RetryScheduled == pc = "idle" /\ ~dp_sock_connected => ev_connect_timer

\* dp_connect() gives up in one case only: dp_unix_sock_reopen() failed, and
\* the retry found no socket to connect (hh_dp_comm.c:486-489).
GivesUpOnlyWithoutSocket ==
  pc = "idle" /\ ~dp_sock_connected => ev_connect_timer \/ dp_sock = NO_SOCK

ReceivingScheduled == pc = "idle" /\ dp_sock_connected => ev_recv = dp_sock

(***************************************************************************)
(* A connected plugin that may not yet send waits for the answer to a      *)
(* Connect, the only thing that would let it: a Connect that could not be  *)
(* sent has already scheduled a new connection (hh_dp_comm.c:395-400).     *)
(***************************************************************************)
ConnectAwaited ==
  pc = "idle" /\ dp_sock_connected /\ ~is_ready =>
    \E i \in DOMAIN in_flight : in_flight[i].op = "Connect"

-----------------------------------------------------------------------------
(***************************************************************************)
(* Zebra is told that a request sent to the live dataplane succeeded only  *)
(* if that dataplane has applied it: the successes a purge fakes are only  *)
(* ever for requests that a dead incarnation took with it                  *)
(* (hh_dp_msg.c:288-291, 369-374).                                         *)
(***************************************************************************)
NewAnswer == Len(out') > Len(out)

NoFalseSuccess ==
  [][ \A c \in Ctx :
        NewAnswer /\ out'[Len(out')] = <<c, "success">> /\ sent_to[c] = inc
        /\ sent_to[c] # 0
          => applied[c] = inc ]_vars

-----------------------------------------------------------------------------
(***************************************************************************)
(* Every context zebra has for the plugin is answered in the end, through  *)
(* restarts of the dataplane and full queues, unless zebra finalizes: the  *)
(* "sending logic takes care of sending it when possible"                  *)
(* (hh_dp_comm.c:411-412).                                                 *)
(***************************************************************************)
EveryCtxAnswered == \A c \in Ctx : <>(c \in Flow!Answered \/ finalizing)

(***************************************************************************)
(* A refresh that the live dataplane asks for is honoured: the Control     *)
(* that tells it so reaches its queue, behind what was unsent              *)
(* (hh_dp_msg.c:402-409), unless it dies first or zebra finalizes.         *)
(***************************************************************************)
RefreshAsked == PeerAlive /\ \E i \in DOMAIN rxq : rxq[i].op = "Refresh"

RefreshHonoured ==
  RefreshAsked ~> \/ \E i \in DOMAIN inbox : inbox[i].op = "Refresh"
                  \/ ~PeerAlive
                  \/ finalizing

(***************************************************************************)
(* A message is recycled only once its context is disposed of              *)
(* (hh_dp_msg_cache.c:79): no context is ever lost.                        *)
(***************************************************************************)
RecycledClean == leaked = {}
=============================================================================
