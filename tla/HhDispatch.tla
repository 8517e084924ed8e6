------------------------------ MODULE HhDispatch ------------------------------
(***************************************************************************)
(* The dispatch of a context, and of a route the choice and encoding of    *)
(* its next-hops: zd_hh_process_update() of hh_dp_process.c calls, through *)
(* hh_process_routes(), send_rpc_request_iproute() of hh_dp_msg.c.         *)
(***************************************************************************)
EXTENDS HhProcessProps, RouteEncode

\* send_rpc_request_iproute() is called, for an Add, an Update or a Del.
RouteEncoded == place = "dataplane" /\ ctx.op \in RouteOps

\* Only a route comes with next-hops.
DispatchInit ==
  /\ RouteInit
  /\ ctx \in IF group = <<>> THEN CtxAttrs
            ELSE {a \in CtxAttrs : a.op \in RouteOps}
  /\ Init

\* The route is encoded before zd_hh_process_update() returns; nothing else
\* happens meanwhile.
DispatchNext ==
  \/ zd_hh_process_update /\ UNCHANGED routeVars
  \/ RouteEncoded /\ RouteNext /\ UNCHANGED vars

DispatchSpec == DispatchInit /\ [][DispatchNext]_<<vars, routeVars>>

-----------------------------------------------------------------------------
(***************************************************************************)
(* A route of a VRF that is kept from the kernel gets into no forwarding   *)
(* table but by the request: when zebra can use it, the request names a    *)
(* next-hop (hh_dp_process.c:64-68, hh_dp_msg.c:195-204).                  *)
(***************************************************************************)
KeptFromKernelIsSent ==
  sent.skip /\ ctx.op \in {"ROUTE_INSTALL", "ROUTE_UPDATE", "ROUTE_DELETE"} =>
    /\ place = "dataplane"
    /\ step = "send" /\ (\E i \in DOMAIN group : IsActive(group[i]))
         => route # <<>>
=============================================================================
