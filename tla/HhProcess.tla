----------------------------- MODULE HhProcess -----------------------------
(***************************************************************************)
(* hh_dp_process.c: what the plugin does with a context, by its operation  *)
(* and the few attributes the code looks at.  A context is either queued   *)
(* as an RPC request or answered at once.  hh_process(a) is a record:      *)
(*   res    the hh_dp_res_t value                                          *)
(*   rpc    the operation of the request, or "none"                        *)
(*   skip   was dplane_ctx_set_skip_kernel() called?                       *)
(***************************************************************************)
EXTENDS Integers

RouteOps == {"ROUTE_INSTALL", "ROUTE_UPDATE", "ROUTE_DELETE", "ROUTE_NOTIFY"}
SysRouteOps == {"SYS_ROUTE_ADD", "SYS_ROUTE_DELETE"}
NhOps    == {"NH_INSTALL", "NH_UPDATE", "NH_DELETE"}
AddrOps  == {"ADDR_INSTALL", "ADDR_UNINSTALL"}
MacOps   == {"MAC_INSTALL", "MAC_DELETE"}
NeighOps == {"NEIGH_INSTALL", "NEIGH_UPDATE", "NEIGH_DELETE",
             "NEIGH_DISCOVER", "VTEP_ADD", "VTEP_DELETE"}
\* The operations whose cases return HH_IGNORED straight away, by family.
IgnoredOps == {"NONE", "LSP", "PW", "RULE", "BR_PORT_UPDATE", "IPTABLE",
               "IPSET", "NEIGH_IP", "NEIGH_TABLE_UPDATE", "GRE_SET",
               "INTF_ADDR", "INTF_NETCONFIG", "INTF", "TC", "VLAN_INSTALL",
               "PROVIDER_REFRESH", "STARTUP_STAGE", "SRV6_ENCAP_SRCADDR_SET"}
\* An operation of a later zebra, unknown to the switch.
UnknownOp == "UNKNOWN"

CtxAttrs == [op : RouteOps \cup SysRouteOps \cup NhOps \cup AddrOps \cup MacOps
                  \cup NeighOps \cup IgnoredOps \cup {UnknownOp},
             afi : {"IP", "IP6", "L2VPN"},
             safi : {"UNICAST", "EVPN", "MULTICAST"},
             vrf : 0..1,
             family : {"INET", "INET6"}]

Answer(res) == [res |-> res, rpc |-> "none", skip |-> FALSE]
Ignore      == Answer("HH_IGNORED")
Bug         == Answer("HH_BUG")
\* send_rpc_msg() of a request always returns 0: it is queued.
Request(rpc) == [res |-> "HH_QUEUED", rpc |-> rpc, skip |-> FALSE]

-----------------------------------------------------------------------------
RouteRequest(op) ==
  CASE op = "ROUTE_INSTALL" -> Request("Add")
    [] op = "ROUTE_UPDATE"  -> Request("Update")
    [] op = "ROUTE_DELETE"  -> Request("Del")
    [] op = "ROUTE_NOTIFY"  -> Ignore
    [] op \in SysRouteOps   -> Ignore
    [] OTHER                -> Bug

Mut_skip_kernel_first(a) ==
  IF a.afi \notin {"IP", "L2VPN"} \/ a.safi \notin {"UNICAST", "EVPN"}
  THEN [Ignore EXCEPT !.skip = (a.vrf # 0)]
  ELSE [RouteRequest(a.op) EXCEPT !.skip = (a.vrf # 0)]

\* Routes of a VRF other than the default are kept from the kernel.
hh_process_routes(a) ==
  IF a.afi \notin {"IP", "L2VPN"} \/ a.safi \notin {"UNICAST", "EVPN"}
  THEN Ignore
  ELSE [RouteRequest(a.op) EXCEPT !.skip = (a.vrf # 0)]

Mut_uninstall_adds(a) ==
  IF a.family # "INET" THEN Ignore
  ELSE CASE a.op = "ADDR_INSTALL"   -> Request("Add")
         [] a.op = "ADDR_UNINSTALL" -> Request("Add")
         [] OTHER                   -> Bug

hh_process_ifaddr(a) ==
  IF a.family # "INET" THEN Ignore
  ELSE CASE a.op = "ADDR_INSTALL"   -> Request("Add")
         [] a.op = "ADDR_UNINSTALL" -> Request("Del")
         [] OTHER                   -> Bug

Mut_neigh_without_vteps(a) ==
  IF a.op \in NeighOps \ {"VTEP_ADD", "VTEP_DELETE"} THEN Ignore ELSE Bug

hh_process_neigh(a) == IF a.op \in NeighOps THEN Ignore ELSE Bug

hh_process_nh(a) == IF a.op \in NhOps THEN Ignore ELSE Bug

hh_process_macinfo(a) ==
  CASE a.op = "MAC_INSTALL" -> Request("Add")
    [] a.op = "MAC_DELETE"  -> Request("Del")
    [] OTHER                -> Bug

hh_process(a) ==
  CASE a.op \in RouteOps \cup SysRouteOps -> hh_process_routes(a)
    [] a.op \in NhOps                     -> hh_process_nh(a)
    [] a.op \in AddrOps                   -> hh_process_ifaddr(a)
    [] a.op \in MacOps                    -> hh_process_macinfo(a)
    [] a.op \in NeighOps                  -> hh_process_neigh(a)
    [] a.op \in IgnoredOps                -> Ignore
    [] OTHER                              -> Answer("HH_FAIL")

\* The result zebra sees for a context that is answered at once.
hh_ret_to_zebra(res) ==
  IF res \in {"HH_OK", "HH_IGNORED"} THEN "success" ELSE "failure"

\* Every outcome zd_hh_process_update() can have for a context.
Outcomes == {hh_process(a).res : a \in CtxAttrs}
=============================================================================
