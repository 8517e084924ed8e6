------------------------------ MODULE RouteEncode ------------------------------
(***************************************************************************)
(* send_rpc_request_iproute() of hh_dp_msg.c: which next-hops of a route   *)
(* the dataplane is sent, and how each is encoded.  Both loops walk the    *)
(* group with ALL_NEXTHOPS, which visits a recursive next-hop and then     *)
(* those it resolves to; a step is one turn of a loop.  One struct next_hop*)
(* on the stack serves all the turns.                                      *)
(***************************************************************************)
EXTENDS Integers, Sequences

CONSTANT MaxHops   \* bound: next-hops of a group, resolved ones included

ASSUME MaxHopsOK == MaxHops \in Nat

VARIABLES
  group,          \* the next-hops in the order of the walk
  nh,             \* where the walk is
  step,           \* "scan", "process", "send"
  has_recursive,
  nhop,           \* the struct next_hop on the stack
  route           \* the next-hops of the route, each with its origin

routeVars == <<group, nh, step, has_recursive, nhop, route>>

-----------------------------------------------------------------------------
(***************************************************************************)
(* Zebra's next-hop groups.  A recursive next-hop is an active gateway,    *)
(* followed by the ones it resolves to, of which one at least is active;   *)
(* these are not recursive themselves.  A duplicate repeats an earlier     *)
(* next-hop of the group.                                                  *)
(***************************************************************************)
Hop == [type : {"ifindex", "ipv4", "ipv6", "blackhole"}, evpn : BOOLEAN,
        recursive : BOOLEAN, active : BOOLEAN, dup : BOOLEAN,
        parent : 0..MaxHops]

Gateway(h) == h.type \in {"ipv4", "ipv6"}

ZebraHop(h) ==
  /\ h.evpn => Gateway(h)
  /\ h.recursive => Gateway(h) /\ h.active /\ h.parent = 0
  /\ h.dup => h.active

Resolves(g, i) == {j \in DOMAIN g : g[j].parent = i}

Consistent(g) ==
  \A i \in DOMAIN g :
    /\ g[i].recursive => \E j \in Resolves(g, i) : g[j].active
    /\ ~g[i].recursive => Resolves(g, i) = {}
    /\ g[i].parent # 0 => /\ g[i].parent < i
                          /\ \A j \in g[i].parent + 1 .. i : g[j].parent = g[i].parent
    /\ g[i].dup =>
         \E j \in 1..i - 1 : /\ g[j].active /\ ~g[j].dup
                             /\ g[j].type = g[i].type
                             /\ g[j].recursive = g[i].recursive

ZebraHops == {h \in Hop : ZebraHop(h)}
Groups == {g \in UNION {[1..n -> ZebraHops] : n \in 0..MaxHops} : Consistent(g)}

\* NEXTHOP_IS_ACTIVE
IsActive(h) == h.active /\ ~h.dup

-----------------------------------------------------------------------------
(***************************************************************************)
(* Before the first turn the struct next_hop holds whatever the stack held.*)
(***************************************************************************)
Zeroed == [address |-> 0, ipver |-> "none", drop |-> FALSE, vni |-> FALSE]
Garbage == [address |-> -1, ipver |-> "ipv6", drop |-> TRUE, vni |-> TRUE]

RouteInit ==
  /\ group \in Groups
  /\ nh = 1
  /\ step = "scan"
  /\ has_recursive = FALSE
  /\ nhop \in {Zeroed, Garbage}
  /\ route = <<>>

Mut_scan_first_only ==
  /\ step = "scan"
  /\ has_recursive' = (group # <<>> /\ group[1].recursive)
  /\ step' = "process"
  /\ nh' = 1
  /\ UNCHANGED <<group, nhop, route>>

\* Is any of the next-hops recursive?  The walk stops at the first that is.
Scan ==
  /\ step = "scan"
  /\ IF nh > Len(group) \/ has_recursive
     THEN step' = "process" /\ nh' = 1 /\ UNCHANGED has_recursive
     ELSE /\ has_recursive' = group[nh].recursive
          /\ nh' = nh + 1
          /\ UNCHANGED step
  /\ UNCHANGED <<group, nhop, route>>

Mut_nhop_not_cleared(old, h, i) ==
  [address |-> IF Gateway(h) THEN i ELSE old.address,
   ipver   |-> IF Gateway(h) THEN h.type ELSE old.ipver,
   drop    |-> h.type = "blackhole",
   vni     |-> IF h.evpn THEN TRUE ELSE old.vni]

\* nhop_encode() clears the struct and sets what the type and the flags of
\* the next-hop call for.  The address of the i-th is i.
nhop_encode(old, h, i) ==
  [Zeroed EXCEPT !.address = IF Gateway(h) THEN i ELSE @,
                 !.ipver   = IF Gateway(h) THEN h.type ELSE @,
                 !.drop    = (h.type = "blackhole"),
                 !.vni     = h.evpn]

Mut_only_recursive(h) == IsActive(h) /\ has_recursive /\ h.recursive

Sent(h) == IsActive(h) /\ (has_recursive => h.recursive)

ProcessHop ==
  /\ step = "process"
  /\ nh <= Len(group)
  /\ nh' = nh + 1
  /\ IF Sent(group[nh])
     THEN /\ nhop' = nhop_encode(nhop, group[nh], nh)
          /\ route' = Append(route, [from |-> nh, hop |-> nhop'])
     ELSE UNCHANGED <<nhop, route>>
  /\ UNCHANGED <<group, step, has_recursive>>

Send ==
  /\ step = "process"
  /\ nh > Len(group)
  /\ step' = "send"
  /\ UNCHANGED <<group, nh, has_recursive, nhop, route>>

RouteNext == Scan \/ ProcessHop \/ Send

RouteSpec == RouteInit /\ [][RouteNext]_routeVars

-----------------------------------------------------------------------------
(***************************************************************************)
(* What the dataplane reads of a next-hop is that next-hop: nothing is     *)
(* left in it of one encoded before (hh_dp_msg.c:113).                     *)
(***************************************************************************)
HopsReadBack ==
  \A k \in DOMAIN route :
    LET h == group[route[k].from]
        w == route[k].hop
    IN  /\ w.ipver = "none" <=> ~Gateway(h)
        /\ Gateway(h) => w.ipver = h.type /\ w.address = route[k].from
        /\ ~Gateway(h) => w.address = 0
        /\ w.drop = (h.type = "blackhole") /\ w.vni = h.evpn

(***************************************************************************)
(* The dataplane resolves what is recursive: it is never sent a next-hop   *)
(* together with one that this one resolves to, which would get a double   *)
(* share of the traffic (hh_dp_msg.c:198).                                 *)
(***************************************************************************)
NoHopWithItsResolution ==
  \A k, l \in DOMAIN route : group[route[k].from].parent # route[l].from

(***************************************************************************)
(* A route that zebra can use is never sent without a next-hop, and a      *)
(* next-hop that is not active never is (hh_dp_msg.c:186-204).             *)
(***************************************************************************)
UsableRouteSent ==
  step = "send" =>
    /\ (\E i \in DOMAIN group : IsActive(group[i])) => route # <<>>
    /\ \A k \in DOMAIN route : IsActive(group[route[k].from])
=============================================================================
