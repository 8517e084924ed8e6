----------------------------- MODULE DpMsgCache -----------------------------
(***************************************************************************)
(* The lists of hh_dp_msg_cache.c.  A message is the record of its         *)
(* contents; the pool of empty messages only saves allocations and is left *)
(* out.                                                                    *)
(***************************************************************************)
EXTENDS DpState

dp_msg_cache_unsent(m) == unsent' = Append(unsent, m)

Mut_push_back_at_tail(list, m) == Append(list, m)

\* The list a failed send leaves: the popped message is put back first.
dp_msg_unsent_push_back(list, m) == <<m>> \o list

Mut_inflight_at_head(m) == in_flight' = <<m>> \o in_flight

dp_msg_cache_inflight(m) == in_flight' = Append(in_flight, m)

\* Recycling a message that still refers to a context is refused by
\* BUG(msg->ctx): a debug build aborts, a release build drops the message
\* and nobody refers to the context any more.
dp_msg_recycle(m) ==
  leaked' = IF m.ctx = NoCtx THEN leaked ELSE leaked \cup {m.ctx}

RecycleAborts(m) == m.ctx # NoCtx /\ DebugBuild

\* Finalizing empties every list and frees the contexts found there.
fini_dp_msg_cache ==
  /\ freed' = freed \cup CtxsOf(unsent) \cup CtxsOf(in_flight)
  /\ unsent' = <<>>
  /\ in_flight' = <<>>
=============================================================================
