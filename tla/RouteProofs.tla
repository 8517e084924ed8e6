------------------------------ MODULE RouteProofs ------------------------------
(***************************************************************************)
(* The next-hops sent of a route, for groups of any size, and the dispatch *)
(* of a context, for every context.                                        *)
(***************************************************************************)
EXTENDS HhDispatch, TLAPS

(***************************************************************************)
(* What the walk knows: has_recursive tells whether a recursive next-hop   *)
(* has been met; what is in the route passed the filter, and what passed   *)
(* it made the route nonempty.                                             *)
(***************************************************************************)
Visited == {i \in DOMAIN group : i < nh}

Encoded == {nhop_encode(Zeroed, h, i) : h \in ZebraHops, i \in Nat}

Entry == [from : Nat \ {0}, hop : Encoded]

WalkTypeOK ==
  /\ group \in Groups
  /\ nh \in Nat \ {0}
  /\ step \in {"scan", "process", "send"}
  /\ has_recursive \in BOOLEAN
  /\ route \in Seq(Entry)

ScanInv ==
  /\ step = "scan" =>
       /\ route = <<>>
       /\ has_recursive <=> \E i \in Visited : group[i].recursive
  /\ step # "scan" =>
       (has_recursive <=> \E i \in DOMAIN group : group[i].recursive)

SentInv ==
  /\ \A k \in DOMAIN route :
       /\ route[k].from \in DOMAIN group
       /\ Sent(group[route[k].from])
       /\ route[k].hop = nhop_encode(Zeroed, group[route[k].from], route[k].from)
  /\ step = "process" /\ (\E i \in Visited : Sent(group[i])) => route # <<>>
  /\ step = "send" /\ (\E i \in DOMAIN group : Sent(group[i])) => route # <<>>

WalkInv == WalkTypeOK /\ ScanInv /\ SentInv

-----------------------------------------------------------------------------
(***************************************************************************)
(* A group is a sequence of next-hops, and a duplicate in it has a first   *)
(* of its kind.                                                            *)
(***************************************************************************)
LEMMA GroupFacts ==
  ASSUME NEW g \in Groups
  PROVE  /\ \E n \in Nat : g \in [1..n -> ZebraHops]
         /\ g \in Seq(ZebraHops)
         /\ Consistent(g)
<1>1. PICK n \in 0..MaxHops : g \in [1..n -> ZebraHops]
  BY DEF Groups
<1>2. n \in Nat
  BY MaxHopsOK
<1> QED
  BY <1>1, <1>2 DEF Groups

(***************************************************************************)
(* Encoding forgets what the struct held (hh_dp_msg.c:113).                *)
(***************************************************************************)
LEMMA EncodingForgets ==
  ASSUME NEW a, NEW b, NEW h, NEW i
  PROVE  nhop_encode(a, h, i) = nhop_encode(b, h, i)
BY DEF nhop_encode

LEMMA WalkInitially == RouteInit => WalkInv
<1> SUFFICES ASSUME RouteInit PROVE WalkInv
  OBVIOUS
<1>1. WalkTypeOK
  <2>1. <<>> \in Seq(Entry)
    OBVIOUS
  <2>2. /\ group \in Groups /\ nh = 1 /\ step = "scan"
        /\ has_recursive = FALSE /\ route = <<>>
    BY DEF RouteInit
  <2>3. has_recursive \in BOOLEAN
    BY <2>2
  <2>4. nh \in Nat \ {0}
    BY <2>2
  <2>5. step \in {"scan", "process", "send"}
    BY <2>2
  <2> QED
    BY <2>1, <2>2, <2>3, <2>4, <2>5, Zenon DEF WalkTypeOK
<1>2. Visited = {}
  BY GroupFacts DEF RouteInit, Visited
<1> QED
  BY <1>1, <1>2 DEF RouteInit, WalkInv, ScanInv, SentInv

LEMMA WalkStep == WalkInv /\ [RouteNext]_routeVars => WalkInv'
<1> SUFFICES ASSUME WalkInv, [RouteNext]_routeVars PROVE WalkInv'
  OBVIOUS
<1> PICK n \in Nat : group \in [1..n -> ZebraHops]
  BY GroupFacts DEF WalkInv, WalkTypeOK
<1>0. Len(group) = n /\ DOMAIN group = 1..n
  BY GroupFacts DEF WalkInv, WalkTypeOK
<1>1. CASE Scan
  <2>1. CASE nh > Len(group) \/ has_recursive
    <3>1. group' = group /\ route' = route /\ step' = "process" /\ nh' = 1
          /\ has_recursive' = has_recursive /\ step = "scan"
      BY <1>1, <2>1 DEF Scan
    <3>2. route = <<>>
      BY <3>1 DEF WalkInv, ScanInv
    <3>3. has_recursive <=> \E i \in DOMAIN group : group[i].recursive
      BY <1>0, <2>1, <3>1 DEF WalkInv, ScanInv, Visited, WalkTypeOK
    <3>4. Visited' = {}
      BY <1>0, <3>1 DEF Visited
    <3> QED
      BY <3>1, <3>2, <3>3, <3>4 DEF WalkInv, WalkTypeOK, ScanInv, SentInv
  <2>2. CASE ~(nh > Len(group) \/ has_recursive)
    <3>1. group' = group /\ route' = route /\ step' = step /\ nh' = nh + 1
          /\ has_recursive' = group[nh].recursive /\ step = "scan"
      BY <1>1, <2>2 DEF Scan
    <3>2. nh \in 1..n
      BY <1>0, <2>2 DEF WalkInv, WalkTypeOK
    <3>3. Visited' = Visited \cup {nh}
      BY <1>0, <3>1, <3>2 DEF Visited, WalkInv, WalkTypeOK
    <3>4. has_recursive' \in BOOLEAN
      BY <3>1, <3>2 DEF ZebraHops, Hop
    <3>5. ~has_recursive
      BY <2>2
    <3> QED
      BY <3>1, <3>2, <3>3, <3>4, <3>5 DEF WalkInv, WalkTypeOK, ScanInv, SentInv
  <2> QED
    BY <2>1, <2>2
<1>2. CASE ProcessHop
  <2>1. group' = group /\ step' = step /\ step = "process" /\ nh' = nh + 1
        /\ has_recursive' = has_recursive
    BY <1>2 DEF ProcessHop
  <2>2. nh \in 1..n /\ group[nh] \in ZebraHops
    BY <1>0, <1>2 DEF ProcessHop, WalkInv, WalkTypeOK
  <2>3. Visited' = Visited \cup {nh}
    BY <1>0, <2>1, <2>2 DEF Visited, WalkInv, WalkTypeOK
  <2>4. ScanInv'
    BY <2>1 DEF WalkInv, ScanInv
  <2>5. \A i \in DOMAIN group : Sent(group[i])' <=> Sent(group[i])
    BY <2>1 DEF Sent
  <2>6. CASE Sent(group[nh])
    <3> DEFINE e == [from |-> nh, hop |-> nhop_encode(nhop, group[nh], nh)]
    <3>1. route' = Append(route, e)
      BY <1>2, <2>6 DEF ProcessHop
    <3>2. e.hop = nhop_encode(Zeroed, group[nh], nh)
      BY EncodingForgets
    <3>3. e \in Entry
      <4>1. e.hop \in Encoded
        BY <2>2, <3>2 DEF Encoded
      <4> QED
        BY <2>2, <4>1 DEF Entry
    <3> HIDE DEF e
    <3>4. WalkTypeOK'
      BY <2>1, <2>2, <3>1, <3>3 DEF WalkInv, WalkTypeOK
    <3>5. e.from = nh
      BY DEF e
    <3>6. \A k \in DOMAIN route' :
            /\ route'[k].from \in DOMAIN group
            /\ Sent(group[route'[k].from])
            /\ route'[k].hop = nhop_encode(Zeroed, group[route'[k].from], route'[k].from)
      BY <1>0, <2>2, <2>6, <3>1, <3>2, <3>3, <3>5 DEF WalkInv, WalkTypeOK, SentInv
    <3>7. route' # <<>>
      BY <3>1, <3>3 DEF WalkInv, WalkTypeOK
    <3> QED
      BY <2>1, <2>4, <2>5, <3>4, <3>6, <3>7 DEF WalkInv, SentInv
  <2>7. CASE ~Sent(group[nh])
    <3>1. route' = route
      BY <1>2, <2>7 DEF ProcessHop
    <3>2. WalkTypeOK'
      BY <2>1, <2>2, <3>1 DEF WalkInv, WalkTypeOK
    <3> QED
      BY <2>1, <2>3, <2>4, <2>5, <2>7, <3>1, <3>2 DEF WalkInv, SentInv, Visited
  <2> QED
    BY <2>6, <2>7
<1>3. CASE Send
  <2>1. group' = group /\ nh' = nh /\ has_recursive' = has_recursive
        /\ route' = route /\ step' = "send" /\ step = "process" /\ nh > Len(group)
    BY <1>3 DEF Send
  <2>2. Visited = DOMAIN group
    BY <1>0, <2>1 DEF Visited, WalkInv, WalkTypeOK
  <2>3. \A i \in DOMAIN group : Sent(group[i])' <=> Sent(group[i])
    BY <2>1 DEF Sent
  <2> QED
    BY <2>1, <2>2, <2>3 DEF WalkInv, WalkTypeOK, ScanInv, SentInv
<1>4. CASE UNCHANGED routeVars
  BY <1>4 DEF routeVars, WalkInv, WalkTypeOK, ScanInv, SentInv, Visited, Sent
<1> QED
  BY <1>1, <1>2, <1>3, <1>4 DEF RouteNext

(***************************************************************************)
(* The invariant of the walk.                                              *)
(***************************************************************************)
THEOREM WalkInvariant == RouteSpec => []WalkInv
<1>1. RouteInit => WalkInv
  BY WalkInitially
<1>2. WalkInv /\ [RouteNext]_routeVars => WalkInv'
  BY WalkStep
<1> QED
  BY <1>1, <1>2, PTL DEF RouteSpec

-----------------------------------------------------------------------------
(***************************************************************************)
(* What the dataplane reads of a next-hop is that next-hop, however many   *)
(* the same struct encoded before it (hh_dp_msg.c:113).                    *)
(***************************************************************************)
THEOREM HopsAlwaysReadBack == RouteSpec => []HopsReadBack
<1>1. WalkInv => HopsReadBack
  <2> SUFFICES ASSUME WalkInv, NEW k \in DOMAIN route
               PROVE  LET h == group[route[k].from]
                          w == route[k].hop
                      IN  /\ w.ipver = "none" <=> ~Gateway(h)
                          /\ Gateway(h) => w.ipver = h.type /\ w.address = route[k].from
                          /\ ~Gateway(h) => w.address = 0
                          /\ w.drop = (h.type = "blackhole") /\ w.vni = h.evpn
    BY DEF HopsReadBack
  <2> DEFINE h == group[route[k].from]
  <2>1. route[k].hop = nhop_encode(Zeroed, h, route[k].from)
    BY DEF WalkInv, SentInv
  <2> HIDE DEF h
  <2> QED
    BY <2>1 DEF nhop_encode, Zeroed, Gateway, h
<1> QED
  BY <1>1, WalkInvariant, PTL

(***************************************************************************)
(* No next-hop is sent together with one it resolves to                    *)
(* (hh_dp_msg.c:198): when there is a recursive one only such are sent,    *)
(* and they resolve nothing.                                               *)
(***************************************************************************)
THEOREM NeverHopWithItsResolution == RouteSpec => []NoHopWithItsResolution
<1>1. WalkInv => NoHopWithItsResolution
  <2> SUFFICES ASSUME WalkInv, NEW k \in DOMAIN route, NEW l \in DOMAIN route,
                      group[route[k].from].parent = route[l].from
               PROVE  FALSE
    BY DEF NoHopWithItsResolution
  <2> DEFINE i == route[k].from
             j == route[l].from
  <2>1. i \in DOMAIN group /\ Sent(group[i]) /\ j \in DOMAIN group /\ Sent(group[j])
    BY DEF WalkInv, SentInv
  <2>2. Consistent(group) /\ group \in Seq(ZebraHops)
    BY GroupFacts DEF WalkInv, WalkTypeOK
  <2>3. step # "scan"
    BY DEF WalkInv, ScanInv
  <2>4. i \in Resolves(group, j)
    BY <2>1 DEF Resolves
  <2>5. group[j].recursive
    BY <2>1, <2>2, <2>4 DEF Consistent
  <2>6. has_recursive
    BY <2>1, <2>3, <2>5 DEF WalkInv, ScanInv
  <2>7. group[i].recursive /\ group[i] \in ZebraHops
    BY <2>1, <2>2, <2>6 DEF Sent
  <2>8. group[i].parent = 0
    BY <2>7 DEF ZebraHops, ZebraHop
  <2>9. j # 0
    BY <2>1, <2>2
  <2> QED
    BY <2>8, <2>9
<1> QED
  BY <1>1, WalkInvariant, PTL

\* At the end of the walk the route has a usable next-hop if there is one.
LEMMA UsableWhenSent == WalkInv => UsableRouteSent
<1> SUFFICES ASSUME WalkInv, step = "send" PROVE UsableRouteSent
  BY DEF UsableRouteSent
<1>1. Consistent(group) /\ group \in Seq(ZebraHops)
  BY GroupFacts DEF WalkInv, WalkTypeOK
<1>2. \A k \in DOMAIN route : IsActive(group[route[k].from])
  BY DEF WalkInv, SentInv, Sent
<1>3. ASSUME NEW i \in DOMAIN group, IsActive(group[i]) PROVE route # <<>>
  <2>1. CASE has_recursive
    <3>1. PICK r \in DOMAIN group : group[r].recursive
      BY <2>1 DEF WalkInv, ScanInv
    <3>2. group[r] \in ZebraHops
      BY <1>1, <3>1
    <3>3. group[r].active
      BY <3>1, <3>2 DEF ZebraHops, ZebraHop
    <3>4. \E j \in DOMAIN group : IsActive(group[j]) /\ group[j].recursive
      <4>1. CASE ~group[r].dup
        BY <3>1, <3>3, <4>1 DEF IsActive
      <4>2. CASE group[r].dup
        <5>1. PICK j \in 1..r - 1 : /\ group[j].active /\ ~group[j].dup
                                    /\ group[j].recursive = group[r].recursive
          BY <1>1, <3>1, <4>2 DEF Consistent
        <5>2. j \in DOMAIN group
          BY <1>1, <3>1, <5>1
        <5> QED
          BY <3>1, <5>1, <5>2 DEF IsActive
      <4> QED
        BY <4>1, <4>2
    <3> QED
      BY <3>4 DEF WalkInv, SentInv, Sent
  <2>2. CASE ~has_recursive
    BY <1>3, <2>2 DEF WalkInv, SentInv, Sent
  <2> QED
    BY <2>1, <2>2
<1> QED
  BY <1>2, <1>3 DEF UsableRouteSent

(***************************************************************************)
(* A route with a usable next-hop is sent with one, and only with usable   *)
(* ones (hh_dp_msg.c:186-204).                                             *)
(***************************************************************************)
THEOREM UsableRouteAlwaysSent == RouteSpec => []UsableRouteSent
BY UsableWhenSent, WalkInvariant, PTL

-----------------------------------------------------------------------------
(***************************************************************************)
(* The dispatch.  A context that was taken has had what hh_process() makes *)
(* of it, and waits for the dataplane exactly when a request was queued.   *)
(***************************************************************************)
TakenInv ==
  /\ ctx \in CtxAttrs
  /\ \/ place = "in" /\ sent = Answer("none")
     \/ /\ place \in {"dataplane", "out"}
        /\ sent = hh_process(ctx)
        /\ place = "dataplane" <=> sent.res = "HH_QUEUED"

\* What each way to end the dispatch says.
LEMMA AnswerFields ==
  /\ Ignore.res = "HH_IGNORED" /\ Ignore.skip = FALSE
  /\ Bug.res = "HH_BUG"
  /\ \A rpc : Request(rpc).res = "HH_QUEUED" /\ Request(rpc).rpc = rpc
BY DEF Ignore, Bug, Answer, Request

\* The operations of routes never reach the BUG() default of their switch,
\* and a route is kept from the kernel by its VRF.
LEMMA RouteFields ==
  ASSUME NEW a, a.op \in RouteOps \cup SysRouteOps,
         hh_process_routes(a) # Ignore
  PROVE  /\ a.afi \in {"IP", "L2VPN"} /\ a.safi \in {"UNICAST", "EVPN"}
         /\ hh_process_routes(a).res = RouteRequest(a.op).res
         /\ hh_process_routes(a).rpc = RouteRequest(a.op).rpc
         /\ hh_process_routes(a).skip = (a.vrf # 0)
<1>1. /\ a.afi \in {"IP", "L2VPN"} /\ a.safi \in {"UNICAST", "EVPN"}
      /\ hh_process_routes(a) = [RouteRequest(a.op) EXCEPT !.skip = (a.vrf # 0)]
  BY DEF hh_process_routes
<1>2. PICK res, rpc :
        RouteRequest(a.op) = [res |-> res, rpc |-> rpc, skip |-> FALSE]
  BY DEF RouteRequest, Request, Ignore, Bug, Answer, RouteOps, SysRouteOps
<1>3. hh_process_routes(a) = [res |-> res, rpc |-> rpc, skip |-> (a.vrf # 0)]
  BY <1>1, <1>2
<1> QED
  BY <1>1, <1>2, <1>3

LEMMA RouteRequests ==
  /\ RouteRequest("ROUTE_INSTALL") = Request("Add")
  /\ RouteRequest("ROUTE_UPDATE") = Request("Update")
  /\ RouteRequest("ROUTE_DELETE") = Request("Del")
  /\ \A op \in RouteOps \cup SysRouteOps : RouteRequest(op) # Bug
<1>1. \A op \in RouteOps \cup SysRouteOps :
        RouteRequest(op) \in {Request("Add"), Request("Update"), Request("Del"), Ignore}
  BY DEF RouteRequest, RouteOps, SysRouteOps
<1>2. Bug \notin {Request("Add"), Request("Update"), Request("Del"), Ignore}
  BY AnswerFields
<1>3. /\ RouteRequest("ROUTE_INSTALL") = Request("Add")
      /\ RouteRequest("ROUTE_UPDATE") = Request("Update")
      /\ RouteRequest("ROUTE_DELETE") = Request("Del")
  BY DEF RouteRequest, SysRouteOps
<1> QED
  BY <1>1, <1>2, <1>3

(***************************************************************************)
(* The cases of the outer switch do not overlap: each operation goes to    *)
(* the inner one of its family.                                            *)
(***************************************************************************)
LEMMA Families ==
  /\ \A op \in RouteOps \cup SysRouteOps :
       op \notin NhOps \cup AddrOps \cup MacOps \cup NeighOps \cup IgnoredOps
  /\ \A op \in NhOps : op \notin AddrOps \cup MacOps \cup NeighOps \cup IgnoredOps
  /\ \A op \in AddrOps : op \notin MacOps \cup NeighOps \cup IgnoredOps
  /\ \A op \in MacOps : op \notin NeighOps \cup IgnoredOps
  /\ \A op \in NeighOps : op \notin IgnoredOps
BY DEF RouteOps, SysRouteOps, NhOps, AddrOps, MacOps, NeighOps, IgnoredOps

LEMMA Dispatched ==
  ASSUME NEW a
  PROVE  /\ a.op \in RouteOps \cup SysRouteOps => hh_process(a) = hh_process_routes(a)
         /\ a.op \in NhOps => hh_process(a) = hh_process_nh(a)
         /\ a.op \in AddrOps => hh_process(a) = hh_process_ifaddr(a)
         /\ a.op \in MacOps => hh_process(a) = hh_process_macinfo(a)
         /\ a.op \in NeighOps => hh_process(a) = hh_process_neigh(a)
         /\ a.op \notin RouteOps \cup SysRouteOps \cup NhOps \cup AddrOps
                       \cup MacOps \cup NeighOps
              => hh_process(a) \in {Ignore, Answer("HH_FAIL")}
BY Families DEF hh_process

(***************************************************************************)
(* The inner switches know every operation the outer one gives them, so    *)
(* none reaches its BUG() default.                                         *)
(***************************************************************************)
LEMMA SwitchesAgree ==
  ASSUME NEW a \in CtxAttrs
  PROVE  hh_process(a).res # "HH_BUG"
<1>1. CASE a.op \in RouteOps \cup SysRouteOps
  <2>1. RouteRequest(a.op).res # "HH_BUG"
    BY <1>1, AnswerFields DEF RouteRequest, RouteOps, SysRouteOps
  <2> QED
    BY <1>1, <2>1, Dispatched, RouteFields, AnswerFields
<1>2. CASE a.op \in NhOps
  BY <1>2, Dispatched, AnswerFields DEF hh_process_nh
<1>3. CASE a.op \in AddrOps
  <2>1. hh_process_ifaddr(a) \in {Ignore, Request("Add"), Request("Del")}
    BY <1>3 DEF hh_process_ifaddr, AddrOps
  <2> QED
    BY <1>3, <2>1, Dispatched, AnswerFields
<1>4. CASE a.op \in MacOps
  <2>1. hh_process_macinfo(a) \in {Request("Add"), Request("Del")}
    BY <1>4 DEF hh_process_macinfo, MacOps
  <2> QED
    BY <1>4, <2>1, Dispatched, AnswerFields
<1>5. CASE a.op \in NeighOps
  BY <1>5, Dispatched, AnswerFields DEF hh_process_neigh
<1>6. Answer("HH_FAIL").res # "HH_BUG"
  BY DEF Answer
<1> QED
  BY <1>1, <1>2, <1>3, <1>4, <1>5, <1>6, Dispatched, AnswerFields

(***************************************************************************)
(* Of the routes that zebra installs, updates or deletes, those kept from  *)
(* the kernel are the ones that a request is queued for.                   *)
(***************************************************************************)
LEMMA SkippedIsQueued ==
  ASSUME NEW a \in CtxAttrs, hh_process(a).skip,
         a.op \in {"ROUTE_INSTALL", "ROUTE_UPDATE", "ROUTE_DELETE"}
  PROVE  hh_process(a).res = "HH_QUEUED"
<1>1. a.op \in RouteOps
  BY DEF RouteOps
<1>2. hh_process(a) = hh_process_routes(a)
  BY <1>1, Dispatched
<1>3. hh_process_routes(a) # Ignore
  BY <1>2, AnswerFields
<1>4. RouteRequest(a.op).res = "HH_QUEUED"
  BY RouteRequests, AnswerFields
<1> QED
  BY <1>1, <1>2, <1>3, <1>4, RouteFields

(***************************************************************************)
(* What is queued to install an object, and what its removal gets.         *)
(***************************************************************************)
LEMMA RemovalQueued ==
  ASSUME NEW a \in CtxAttrs, a.op \in DOMAIN RemovalOf,
         hh_process(a).res = "HH_QUEUED"
  PROVE  LET removal == hh_process([a EXCEPT !.op = RemovalOf[a.op]])
         IN  removal.res = "HH_QUEUED" /\ removal.rpc = "Del"
               /\ removal.skip = hh_process(a).skip
<1> DEFINE b == [a EXCEPT !.op = RemovalOf[a.op]]
<1>1. /\ b.op = RemovalOf[a.op] /\ b.afi = a.afi /\ b.safi = a.safi
      /\ b.vrf = a.vrf /\ b.family = a.family
  BY DEF CtxAttrs
<1> HIDE DEF b
<1> SUFFICES /\ hh_process(b).res = "HH_QUEUED" /\ hh_process(b).rpc = "Del"
             /\ hh_process(b).skip = hh_process(a).skip
  BY DEF b
<1>2. CASE a.op \in {"ROUTE_INSTALL", "ROUTE_UPDATE"}
  <2>1. b.op = "ROUTE_DELETE"
    BY <1>1, <1>2 DEF RemovalOf
  <2>9. a.op \in RouteOps /\ b.op \in RouteOps
    BY <1>2, <2>1 DEF RouteOps
  <2>2. hh_process(a) = hh_process_routes(a) /\ hh_process(b) = hh_process_routes(b)
    BY <2>9, Dispatched
  <2>3. hh_process_routes(a) # Ignore
    BY <2>2, AnswerFields
  <2>4. /\ a.afi \in {"IP", "L2VPN"} /\ a.safi \in {"UNICAST", "EVPN"}
        /\ hh_process(a).skip = (a.vrf # 0)
    BY <2>2, <2>3, <2>9, RouteFields
  <2>5. hh_process(b) = [Request("Del") EXCEPT !.skip = (a.vrf # 0)]
    BY <1>1, <2>1, <2>2, <2>4, RouteRequests DEF hh_process_routes
  <2>6. hh_process(b) = [res |-> "HH_QUEUED", rpc |-> "Del", skip |-> (a.vrf # 0)]
    BY <2>5 DEF Request
  <2> QED
    BY <2>4, <2>6
<1>3. CASE a.op = "ADDR_INSTALL"
  <2>1. b.op = "ADDR_UNINSTALL"
    BY <1>1, <1>3 DEF RemovalOf
  <2>8. a.op \in AddrOps /\ b.op \in AddrOps
    BY <1>3, <2>1 DEF AddrOps
  <2>2. hh_process(a) = hh_process_ifaddr(a) /\ hh_process(b) = hh_process_ifaddr(b)
    BY <2>8, Dispatched
  <2>3. a.family = "INET"
    BY <2>2, AnswerFields DEF hh_process_ifaddr
  <2>4. hh_process(a) = Request("Add") /\ hh_process(b) = Request("Del")
    BY <1>1, <1>3, <2>1, <2>2, <2>3 DEF hh_process_ifaddr
  <2> QED
    BY <2>4 DEF Request
<1>4. CASE a.op = "MAC_INSTALL"
  <2>1. b.op = "MAC_DELETE"
    BY <1>1, <1>4 DEF RemovalOf
  <2>8. a.op \in MacOps /\ b.op \in MacOps
    BY <1>4, <2>1 DEF MacOps
  <2>2. hh_process(a) = hh_process_macinfo(a) /\ hh_process(b) = hh_process_macinfo(b)
    BY <2>8, Dispatched
  <2>3. hh_process(a) = Request("Add") /\ hh_process(b) = Request("Del")
    BY <1>4, <2>1, <2>2 DEF hh_process_macinfo
  <2> QED
    BY <2>3 DEF Request
<1>5. DOMAIN RemovalOf = {"ROUTE_INSTALL", "ROUTE_UPDATE", "ADDR_INSTALL", "MAC_INSTALL"}
  BY DEF RemovalOf
<1> QED
  BY <1>2, <1>3, <1>4, <1>5

LEMMA DispatchInitially == DispatchInit => TakenInv /\ WalkInv
<1> SUFFICES ASSUME DispatchInit PROVE TakenInv /\ WalkInv
  OBVIOUS
<1>1. ctx \in CtxAttrs
  BY DEF DispatchInit
<1>2. place = "in" /\ sent = Answer("none")
  BY DEF DispatchInit, Init
<1>3. WalkInv
  BY WalkInitially DEF DispatchInit
<1> QED
  BY <1>1, <1>2, <1>3 DEF TakenInv

LEMMA DispatchStep ==
  ASSUME TakenInv, WalkInv, [DispatchNext]_<<vars, routeVars>>
  PROVE  TakenInv' /\ WalkInv'
<1>1. CASE zd_hh_process_update /\ UNCHANGED routeVars
  <2>1. /\ sent' = hh_process(ctx) /\ ctx' = ctx
        /\ sent'.res = "HH_QUEUED" => place' = "dataplane"
        /\ sent'.res # "HH_QUEUED" => place' = "out"
    BY <1>1 DEF zd_hh_process_update
  <2>2. TakenInv'
    BY <2>1 DEF TakenInv
  <2> QED
    BY <1>1, <2>2, WalkStep
<1>2. CASE RouteEncoded /\ RouteNext /\ UNCHANGED vars
  BY <1>2, WalkStep DEF TakenInv, vars
<1>3. CASE UNCHANGED <<vars, routeVars>>
  BY <1>3, WalkStep DEF TakenInv, vars
<1> QED
  BY <1>1, <1>2, <1>3 DEF DispatchNext

(***************************************************************************)
(* The invariant of the dispatch.                                          *)
(***************************************************************************)
THEOREM DispatchInvariant == DispatchSpec => [](TakenInv /\ WalkInv)
<1>1. DispatchInit => TakenInv /\ WalkInv
  BY DispatchInitially
<1>2. (TakenInv /\ WalkInv) /\ [DispatchNext]_<<vars, routeVars>>
        => (TakenInv /\ WalkInv)'
  BY DispatchStep
<1> QED
  BY <1>1, <1>2, PTL DEF DispatchSpec

(***************************************************************************)
(* No context of any attributes reaches a BUG() default of                 *)
(* hh_dp_process.c.                                                        *)
(***************************************************************************)
THEOREM BugNeverReached == DispatchSpec => []NoBugReached
<1>1. TakenInv => NoBugReached
  BY SwitchesAgree DEF TakenInv, NoBugReached, Answer
<1> QED
  BY <1>1, DispatchInvariant, PTL

(***************************************************************************)
(* The removal of whatever was sent to the dataplane is sent too, as a Del *)
(* (hh_dp_process.c).                                                      *)
(***************************************************************************)
THEOREM RemovalAlwaysMirrorsInstall == DispatchSpec => []RemovalMirrorsInstall
<1>1. TakenInv => RemovalMirrorsInstall
  <2> SUFFICES ASSUME TakenInv, place = "dataplane", ctx.op \in DOMAIN RemovalOf
               PROVE  LET removal == hh_process([ctx EXCEPT !.op = RemovalOf[ctx.op]])
                      IN  removal.res = "HH_QUEUED" /\ removal.rpc = "Del"
                            /\ removal.skip = sent.skip
    BY DEF RemovalMirrorsInstall
  <2>1. ctx \in CtxAttrs /\ sent = hh_process(ctx) /\ sent.res = "HH_QUEUED"
    BY DEF TakenInv
  <2> QED
    BY <2>1, RemovalQueued
<1> QED
  BY <1>1, DispatchInvariant, PTL

(***************************************************************************)
(* A route that is kept from the kernel is sent to the dataplane, with a   *)
(* next-hop when it has a usable one, whatever its group                   *)
(* (hh_dp_process.c:64-68, hh_dp_msg.c:195-204).                           *)
(***************************************************************************)
THEOREM KeptFromKernelAlwaysSent == DispatchSpec => []KeptFromKernelIsSent
<1>1. TakenInv /\ WalkInv => KeptFromKernelIsSent
  <2> SUFFICES ASSUME TakenInv, WalkInv, sent.skip,
                      ctx.op \in {"ROUTE_INSTALL", "ROUTE_UPDATE", "ROUTE_DELETE"}
               PROVE  /\ place = "dataplane"
                      /\ step = "send" /\ (\E i \in DOMAIN group : IsActive(group[i]))
                           => route # <<>>
    BY DEF KeptFromKernelIsSent
  <2>1. place # "in"
    BY DEF TakenInv, Answer
  <2>2. sent.res = "HH_QUEUED"
    BY <2>1, SkippedIsQueued DEF TakenInv
  <2> QED
    BY <2>1, <2>2, UsableWhenSent DEF TakenInv, UsableRouteSent
<1> QED
  BY <1>1, DispatchInvariant, PTL
=============================================================================
