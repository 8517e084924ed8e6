----------------------------- MODULE DpMessages -----------------------------
(***************************************************************************)
(* The messages the plugin sends.                                          *)
(***************************************************************************)
EXTENDS Integers, Sequences

CONSTANTS
  Ctx,    \* the zebra_dplane_ctx objects zebra hands to the plugin
  NoCtx   \* the NULL context of Connect requests and Controls

(***************************************************************************)
(* RPC messages.  "Object" stands for the Add, Del and Update requests on  *)
(* routes, rmacs and interface addresses, told apart by seqn and context   *)
(* only.  A Control carries the refresh bit: "Refresh" set, "Keepalive"    *)
(* clear.                                                                  *)
(***************************************************************************)
RequestOp == {"Connect", "Object"}
ObjectMsg == [op : {"Object"}, seqn : Nat, ctx : Ctx]
ConnectMsg   == [op |-> "Connect", seqn |-> 0, ctx |-> NoCtx]
KeepaliveMsg == [op |-> "Keepalive", seqn |-> 0, ctx |-> NoCtx]
RefreshMsg   == [op |-> "Refresh", seqn |-> 0, ctx |-> NoCtx]
IsRequest(m) == m.op \in RequestOp

\* What waits for a response, and what may wait in the unsent list: Connect
\* is sent at once or dropped.
RequestMsg == ObjectMsg \cup {ConnectMsg}
UnsentMsg  == ObjectMsg \cup {KeepaliveMsg, RefreshMsg}
Msg        == RequestMsg \cup UnsentMsg

\* The contexts that the messages of a list refer to.
CtxsOf(list) == {list[i].ctx : i \in DOMAIN list} \ {NoCtx}
=============================================================================
