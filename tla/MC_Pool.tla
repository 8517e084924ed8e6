------------------------------ MODULE MC_Pool ------------------------------
(***************************************************************************)
(* An instance of the message objects for TLC.                             *)
(***************************************************************************)
EXTENDS DpMsgPool, TLC

PoolSymmetry == Permutations(Ctx) \cup Permutations(Addr)
=============================================================================
