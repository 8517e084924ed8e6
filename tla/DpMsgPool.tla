------------------------------ MODULE DpMsgPool ------------------------------
(***************************************************************************)
(* The struct dp_msg objects behind the messages: hh_dp_msg_cache.c links  *)
(* them by one pair of pointers into at most one of three lists, and the   *)
(* callers of hh_dp_comm.c and hh_dp_msg.c hold the ones they have popped  *)
(* or created, several at a time when calls nest:                          *)
(*                                                                         *)
(*   "answer"   popped from in_flight by recover_request() or the purge    *)
(*   "send"     popped from unsent by send_pending_rpc_msgs()              *)
(*   "connect"  the Connect that send_rpc_msg() is sending                 *)
(*                                                                         *)
(* What the socket does is left open: any send may succeed or fail, any    *)
(* response match or not.  The plugin is a release build.                  *)
(***************************************************************************)
EXTENDS DpMessages, SequencesExt

CONSTANTS
  Addr,      \* bound: the dp_msg objects the allocator has
  PoolSize   \* messages init_dp_msg_cache() puts in the pool

ASSUME PoolConstantsOK == NoCtx \notin Ctx /\ PoolSize \in Nat

VARIABLES
  mem,                       \* contents of each object, or FREE
  pool, unsent, in_flight,   \* the lists of struct msg_cache
  calls,                     \* <<what for, object>> held, innermost last
  lost,                      \* objects that nothing refers to any more
  todo, seqnum, out, leaked, freed,   \* as in CtxFlow
  stopped

poolVars == <<mem, pool, unsent, in_flight, calls, lost, todo, seqnum, out,
              leaked, freed, stopped>>

FREE == [op |-> "free", seqn |-> 0, ctx |-> NoCtx]
Zero == [op |-> "none", seqn |-> 0, ctx |-> NoCtx]

\* Who runs: the event loop, or the call that holds a message.
Caller == IF calls = <<>> THEN "loop" ELSE Last(calls)[1]

Held(kind, a) == Caller = kind /\ Last(calls)[2] = a
Return == calls' = Front(calls)

PoolInit ==
  /\ pool \in {s \in [1..PoolSize -> Addr] : IsInjective(s)}
  /\ mem = [a \in Addr |-> IF a \in ToSet(pool) THEN Zero ELSE FREE]
  /\ unsent = <<>> /\ in_flight = <<>> /\ calls = <<>> /\ lost = {}
  /\ todo = Ctx /\ seqnum = 1 /\ out = <<>> /\ leaked = {} /\ freed = {}
  /\ stopped = FALSE

\* dp_msg_new() and the fields its callers set: the oldest of the pool, or
\* a new object; the rest is zero.
dp_msg_new(a, m) ==
  /\ IF pool # <<>> THEN a = Head(pool) ELSE mem[a] = FREE
  /\ pool' = IF pool # <<>> THEN Tail(pool) ELSE pool
  /\ mem' = [mem EXCEPT ![a] = m]

Mut_recycle_anyway(a) ==
  pool' = Append(pool, a) /\ UNCHANGED <<lost, leaked>>

\* BUG(msg->ctx) refuses an object that still refers to a context: nobody
\* refers to either any more.
dp_msg_recycle(a) ==
  IF mem[a].ctx = NoCtx
  THEN pool' = Append(pool, a) /\ UNCHANGED <<lost, leaked>>
  ELSE /\ lost' = lost \cup {a}
       /\ leaked' = leaked \cup {mem[a].ctx}
       /\ UNCHANGED pool

-----------------------------------------------------------------------------
\* send_rpc_msg() of a new request or Control: to the tail of unsent.  The
\* caller then drains the list.
SendRequest(a, c) ==
  /\ Caller = "loop" /\ ~stopped
  /\ c \in todo
  /\ todo' = todo \ {c}
  /\ dp_msg_new(a, [op |-> "Object", seqn |-> seqnum, ctx |-> c])
  /\ seqnum' = seqnum + 1
  /\ unsent' = Append(unsent, a)
  /\ UNCHANGED <<in_flight, calls, lost, out, leaked, freed, stopped>>

SendControl(a, m) ==
  /\ Caller = "loop" /\ ~stopped
  /\ dp_msg_new(a, m)
  /\ unsent' = Append(unsent, a)
  /\ UNCHANGED <<in_flight, calls, lost, todo, seqnum, out, leaked, freed,
                 stopped>>

\* The drain runs in the event loop, or inside the answer to a Connect,
\* which is still held.
dp_msg_pop_unsent ==
  /\ ~stopped
  /\ Caller \in {"loop", "answer"}
  /\ Caller = "answer" => mem[Last(calls)[2]].op = "Connect"
  /\ unsent # <<>>
  /\ calls' = Append(calls, <<"send", Head(unsent)>>)
  /\ unsent' = Tail(unsent)
  /\ UNCHANGED <<mem, pool, in_flight, lost, todo, seqnum, out, leaked, freed,
                 stopped>>

SendSucceeds(a) ==
  /\ Held("send", a)
  /\ Return
  /\ IF IsRequest(mem[a])
     THEN /\ in_flight' = Append(in_flight, a)
          /\ UNCHANGED <<pool, lost, leaked>>
     ELSE dp_msg_recycle(a) /\ UNCHANGED in_flight
  /\ UNCHANGED <<mem, unsent, todo, seqnum, out, freed, stopped>>

SendFails(a) ==
  /\ Held("send", a)
  /\ Return
  /\ unsent' = <<a>> \o unsent
  /\ UNCHANGED <<mem, pool, in_flight, lost, todo, seqnum, out, leaked, freed,
                 stopped>>

\* dp_connect(), from its timer or from inside a send that found the
\* connection gone, creates a Connect while that message is held.
StartConnect(a) ==
  /\ ~stopped
  /\ Caller \in {"loop", "send", "connect"}
  /\ dp_msg_new(a, ConnectMsg)
  /\ calls' = Append(calls, <<"connect", a>>)
  /\ UNCHANGED <<unsent, in_flight, lost, todo, seqnum, out, leaked, freed,
                 stopped>>

ConnectSent(a) ==
  /\ Held("connect", a)
  /\ Return
  /\ in_flight' = Append(in_flight, a)
  /\ UNCHANGED <<mem, pool, unsent, lost, todo, seqnum, out, leaked, freed,
                 stopped>>

Mut_connect_not_recycled(a) ==
  /\ Held("connect", a)
  /\ Return
  /\ UNCHANGED <<mem, pool, unsent, in_flight, lost, todo, seqnum, out, leaked,
                 freed, stopped>>

ConnectNotSent(a) ==
  /\ Held("connect", a)
  /\ Return
  /\ dp_msg_recycle(a)
  /\ UNCHANGED <<mem, unsent, in_flight, todo, seqnum, out, freed, stopped>>

-----------------------------------------------------------------------------
Mut_pop_newest ==
  /\ Caller = "loop" /\ ~stopped
  /\ in_flight # <<>>
  /\ calls' = <<<<"answer", Last(in_flight)>>>>
  /\ in_flight' = Front(in_flight)
  /\ UNCHANGED <<mem, pool, unsent, lost, todo, seqnum, out, leaked, freed,
                 stopped>>

dp_msg_pop_inflight ==
  /\ Caller = "loop" /\ ~stopped
  /\ in_flight # <<>>
  /\ calls' = <<<<"answer", Head(in_flight)>>>>
  /\ in_flight' = Tail(in_flight)
  /\ UNCHANGED <<mem, pool, unsent, lost, todo, seqnum, out, leaked, freed,
                 stopped>>

Mut_ctx_not_cleared(a, res) ==
  /\ Held("answer", a)
  /\ mem[a].ctx # NoCtx
  /\ out' = Append(out, <<mem[a].ctx, res>>)
  /\ UNCHANGED <<mem, pool, unsent, in_flight, calls, lost, todo, seqnum,
                 leaked, freed, stopped>>

\* The context goes back to zebra and the message forgets it.
dp_msg_hand_off(a, res) ==
  /\ Held("answer", a)
  /\ mem[a].ctx # NoCtx
  /\ out' = Append(out, <<mem[a].ctx, res>>)
  /\ mem' = [mem EXCEPT ![a].ctx = NoCtx]
  /\ UNCHANGED <<pool, unsent, in_flight, calls, lost, todo, seqnum, leaked,
                 freed, stopped>>

\* After it was answered, or because the response did not match.
RecycleAnswered(a) ==
  /\ Held("answer", a)
  /\ Return
  /\ dp_msg_recycle(a)
  /\ UNCHANGED <<mem, unsent, in_flight, todo, seqnum, out, freed, stopped>>

\* fini_dp_msg_cache() empties the lists, dp_msg_del() frees each message
\* and its context.
fini_dp_msg_cache ==
  LET all == ToSet(pool) \cup ToSet(unsent) \cup ToSet(in_flight) IN
  /\ Caller = "loop" /\ ~stopped
  /\ stopped' = TRUE
  /\ mem' = [a \in Addr |-> IF a \in all THEN FREE ELSE mem[a]]
  /\ freed' = freed \cup ({mem[a].ctx : a \in all} \ {NoCtx})
  /\ pool' = <<>> /\ unsent' = <<>> /\ in_flight' = <<>>
  /\ UNCHANGED <<calls, lost, todo, seqnum, out, leaked>>

PoolNext ==
  \/ \E a \in Addr :
       \/ \E c \in Ctx : SendRequest(a, c)
       \/ \E m \in {KeepaliveMsg, RefreshMsg} : SendControl(a, m)
       \/ SendSucceeds(a)
       \/ SendFails(a)
       \/ StartConnect(a)
       \/ ConnectSent(a)
       \/ ConnectNotSent(a)
       \/ \E res \in {"success", "failure"} : dp_msg_hand_off(a, res)
       \/ RecycleAnswered(a)
  \/ dp_msg_pop_unsent
  \/ dp_msg_pop_inflight
  \/ fini_dp_msg_cache

PoolSpec == PoolInit /\ [][PoolNext]_poolVars

-----------------------------------------------------------------------------
(***************************************************************************)
(* Every object has its type, and each list holds only what it may: no     *)
(* pooled message refers to a context.                                     *)
(***************************************************************************)
PoolTypeOK ==
  /\ mem \in [Addr -> [op : {"free", "none", "Connect", "Object", "Keepalive",
                             "Refresh"},
                       seqn : Nat, ctx : Ctx \cup {NoCtx}]]
  /\ pool \in Seq(Addr) /\ unsent \in Seq(Addr) /\ in_flight \in Seq(Addr)
  /\ calls \in Seq({"answer", "send", "connect"} \X Addr)
  /\ lost \subseteq Addr
  /\ \A a \in ToSet(pool) : mem[a].ctx = NoCtx
  /\ \A a \in ToSet(unsent) : mem[a] \in UnsentMsg
  /\ \A a \in ToSet(in_flight) : mem[a] \in RequestMsg

(***************************************************************************)
(* A dp_msg has one pair of list pointers, so it may be in one list at a   *)
(* time, and in none while a call holds it (hh_dp_msg_cache.h:22-26): no   *)
(* nesting of calls, no failed send, no purge reuses a message somebody    *)
(* still has, loses one, or uses one that was freed.                       *)
(***************************************************************************)
Holding == [i \in DOMAIN calls |-> calls[i][2]]

Apart(A, B) == A \cap B = {}

OnePlace ==
  LET P == ToSet(pool)
      U == ToSet(unsent)
      F == ToSet(in_flight)
      H == ToSet(Holding)
  IN  /\ IsInjective(pool) /\ IsInjective(unsent)
      /\ IsInjective(in_flight) /\ IsInjective(Holding)
      /\ Apart(P, U \cup F \cup H \cup lost)
      /\ Apart(U, F \cup H \cup lost)
      /\ Apart(F, H \cup lost)
      /\ Apart(H, lost)
      /\ P \cup U \cup F \cup H \cup lost = {a \in Addr : mem[a] # FREE}

(***************************************************************************)
(* No message, wherever it is, still refers to a context that zebra has    *)
(* back or that was freed, and no two refer to the same one                *)
(* (hh_dp_msg.c:308).                                                      *)
(***************************************************************************)
NoDanglingCtx ==
  \A a \in Addr : mem[a].ctx # NoCtx =>
    /\ mem[a].ctx \notin freed \cup todo \cup {out[i][1] : i \in DOMAIN out}
    /\ \A b \in Addr \ {a} : mem[b].ctx # mem[a].ctx

(***************************************************************************)
(* The promise to zebra, of the objects: a message held by a send is still *)
(* the oldest unsent one, and a message held by an answer is still the     *)
(* oldest in flight until its context is handed off.                       *)
(***************************************************************************)
Contents(list) == [i \in DOMAIN list |-> mem[list[i]]]

\* The messages that calls of this kind hold: one at most.
HeldBy(kind) == {f[2] : f \in {g \in ToSet(calls) : g[1] = kind}}

HeldMsg(S) == IF S = {} THEN <<>> ELSE <<mem[CHOOSE a \in S : TRUE]>>

Unanswered(a) == mem[a].op = "Connect" \/ mem[a].ctx # NoCtx

UnsentMsgs == HeldMsg(HeldBy("send")) \o Contents(unsent)

InFlightMsgs ==
  HeldMsg({a \in HeldBy("answer") : Unanswered(a)}) \o Contents(in_flight)

PoolFlow == INSTANCE CtxFlow
  WITH unsent <- UnsentMsgs, in_flight <- InFlightMsgs

PoolImplementsFlow == PoolFlow!Spec
=============================================================================
