---------------------------- MODULE DpRefinement ----------------------------
(***************************************************************************)
(* The plugin keeps its promise to zebra: DpPlugin implements CtxFlow, with *)
(* the same contexts, lists and numbers.  And DpStats implements DpPlugin: *)
(* it adds counters, and they add up.                                      *)
(***************************************************************************)
EXTENDS DpProofs, DpStats, FiniteSetTheorems

FlowProofs == INSTANCE CtxFlowProofs

\* The steps that move no context and no message.
FlowSame == UNCHANGED <<todo, seqnum, unsent, in_flight, out, leaked, freed>>

LEMMA PutBackSame ==
  ASSUME NEW S, NEW s \in Seq(S), s # <<>>
  PROVE  dp_msg_unsent_push_back(Tail(s), Head(s)) = s
<1>1. /\ Head(s) = s[1] /\ s[1] \in S /\ Tail(s) \in Seq(S)
      /\ Len(s) \in Nat \ {0} /\ Len(Tail(s)) = Len(s) - 1
      /\ \A i \in 1..(Len(s) - 1) : Tail(s)[i] = s[i + 1]
  BY HeadTailProperties, LenProperties, EmptySeq
<1> DEFINE t == <<Head(s)>> \o Tail(s)
<1>2. <<Head(s)>> \in Seq(S) /\ Len(<<Head(s)>>) = 1 /\ <<Head(s)>>[1] = s[1]
  BY <1>1
<1>3. t \in Seq(S) /\ Len(t) = Len(s)
  BY <1>1, <1>2, ConcatProperties
<1>4. ASSUME NEW i \in 1..Len(s) PROVE t[i] = s[i]
  <2>1. CASE i = 1
    BY <1>1, <1>2, <2>1, ConcatProperties
  <2>2. CASE i # 1
    <3>1. t[i] = Tail(s)[i - 1] /\ i - 1 \in 1..(Len(s) - 1)
      BY <1>1, <1>2, <2>2, ConcatProperties
    <3> QED
      BY <1>1, <3>1
  <2> QED
    BY <2>1, <2>2
<1>5. t = s
  <2> HIDE DEF t
  <2> QED
    BY <1>3, <1>4, SeqEqual
<1> QED
  BY <1>5 DEF dp_msg_unsent_push_back

-----------------------------------------------------------------------------
LEMMA ConnectFlow ==
  ASSUME TypeOK, Connect
  PROVE  FlowSame \/ Flow!SendConnect
<1>1. CASE ConnectNoSock
  BY <1>1 DEF ConnectNoSock, FlowSame, cacheVars, zebraVars
<1>2. ASSUME NEW f \in Fd \cup {NO_SOCK}, ConnectFails(f)
      PROVE  FlowSame
  BY <1>2 DEF ConnectFails, FlowSame, cacheVars, zebraVars
<1>3. CASE ConnectSucceeds
  BY <1>3 DEF ConnectSucceeds, FlowSame, cacheVars, zebraVars
<1>4. ASSUME NEW o, SendConnect(o)
      PROVE  FlowSame \/ Flow!SendConnect
  <2>1. CASE o = "ok"
    BY <1>4, <2>1 DEF SendConnect, Flow!SendConnect, dp_msg_cache_inflight,
      ConnectMsg, Flow!ConnectMsg, zebraVars
  <2>2. CASE o # "ok"
    BY <1>4, <2>2 DEF SendConnect, FlowSame, zebraVars
  <2> QED
    BY <2>1, <2>2
<1> QED
  BY <1>1, <1>2, <1>3, <1>4 DEF Connect

LEMMA DrainFlow ==
  ASSUME TypeOK, Drain
  PROVE  FlowSame \/ Flow!Send
<1> USE DEF TypeOK, CacheTypeOK
<1>1. CASE DrainDone
  BY <1>1 DEF DrainDone, FlowSame, cacheVars, zebraVars
<1>2. CASE DrainNotReady
  <2>1. unsent' = unsent
    BY <1>2, PutBackSame DEF DrainNotReady
  <2> QED
    BY <1>2, <2>1 DEF DrainNotReady, FlowSame, zebraVars
<1>3. CASE DrainSent
  BY <1>3 DEF DrainSent, Flow!Send, dp_msg_cache_inflight, IsRequest,
    Flow!IsRequest, RequestOp, Flow!RequestOp, zebraVars
<1>4. CASE DrainFailed
  <2>1. unsent' = unsent
    BY <1>4, PutBackSame DEF DrainFailed
  <2> QED
    BY <1>4, <2>1 DEF DrainFailed, FlowSame, zebraVars
<1> QED
  BY <1>1, <1>2, <1>3, <1>4 DEF Drain

LEMMA ReceiveFlow ==
  ASSUME TypeOK, Receive
  PROVE  \/ FlowSame
         \/ Flow!QueueControl(RefreshMsg)
         \/ \E res \in Flow!Results : Flow!Respond(res)
         \/ Flow!RespondConnect
         \/ Flow!Mismatch
<1>t. ASSUME in_flight # <<>>
      PROVE  /\ Head(in_flight) \in RequestMsg
             /\ Head(in_flight).op = "Connect" => Head(in_flight).ctx = NoCtx
             /\ Head(in_flight).op # "Connect" => Head(in_flight).ctx # NoCtx
  BY <1>t, HeadTailProperties, ConstantsOK DEF TypeOK, CacheTypeOK, RequestMsg,
    ObjectMsg, ConnectMsg
<1>1. CASE RecvNothing
  BY <1>1 DEF RecvNothing, FlowSame, cacheVars, zebraVars
<1>2. CASE RecvUndecodable
  BY <1>2 DEF RecvUndecodable, FlowSame, cacheVars, zebraVars
<1>3. ASSUME NEW r, RecvIgnored(r) PROVE FlowSame
  BY <1>3 DEF RecvIgnored, FlowSame, cacheVars, zebraVars
<1>4. ASSUME NEW r, handle_rpc_control(r) PROVE Flow!QueueControl(RefreshMsg)
  BY <1>4 DEF handle_rpc_control, Flow!QueueControl, dp_msg_cache_unsent,
    zebraVars
<1>5. ASSUME NEW r, RecvRestart(r) PROVE FlowSame
  BY <1>5 DEF RecvRestart, FlowSame, cacheVars, zebraVars
<1>6. ASSUME NEW r, RecvUnsolicited(r) PROVE FlowSame
  BY <1>6 DEF RecvUnsolicited, FlowSame, cacheVars, zebraVars
<1>7. ASSUME NEW r, RecvMismatch(r)
      PROVE  Flow!Mismatch \/ Flow!RespondConnect
  <2>1. CASE Head(in_flight).ctx = NoCtx
    BY <1>7, <2>1 DEF RecvMismatch, Flow!RespondConnect, dp_msg_recycle,
      zebraVars
  <2>2. CASE Head(in_flight).ctx # NoCtx
    BY <1>7, <2>2 DEF RecvMismatch, Flow!Mismatch, dp_msg_recycle, zebraVars
  <2> QED
    BY <2>1, <2>2
<1>8. ASSUME NEW r, RecvConnectResponse(r) PROVE Flow!RespondConnect
  <2>1. in_flight # <<>> /\ Head(in_flight).op = "Connect"
    BY <1>8 DEF RecvConnectResponse, got_expected_response
  <2> QED
    BY <1>8, <1>t, <2>1 DEF RecvConnectResponse, Flow!RespondConnect, zebraVars
<1>r. \A ok \in BOOLEAN : Result(ok) \in Flow!Results
  BY DEF Result, Flow!Results
<1>9. ASSUME handle_rpc_ctx_response(Head(rxq)), rxq # <<>>
      PROVE  \E res \in Flow!Results : Flow!Respond(res)
  <2> DEFINE r == Head(rxq)
  <2>1. r \in Incoming
    BY <1>9, HeadTailProperties DEF TypeOK, PeerTypeOK
  <2>2. Result(r.ok) \in Flow!Results
    BY <2>1, <1>r DEF Incoming
  <2>3. in_flight # <<>> /\ Head(in_flight).op # "Connect"
    BY <1>9 DEF handle_rpc_ctx_response, got_expected_response
  <2>4. Flow!Respond(Result(r.ok))
    BY <1>9, <1>t, <2>3 DEF handle_rpc_ctx_response, Flow!Respond,
      dp_msg_hand_off
  <2> QED
    BY <2>2, <2>4
<1>10. CASE PurgeRequest
  <2>1. Flow!Respond(Result(TRUE))
    BY <1>10, <1>t DEF PurgeRequest, Flow!Respond, dp_msg_hand_off
  <2> QED
    BY <1>r, <2>1
<1>11. CASE PurgeConnect
  BY <1>11, <1>t DEF PurgeConnect, Flow!RespondConnect, zebraVars
<1>12. CASE PurgeDone
  BY <1>12 DEF PurgeDone, FlowSame, cacheVars, zebraVars
<1> QED
  BY <1>1, <1>2, <1>3, <1>4, <1>5, <1>6, <1>7, <1>8, <1>9, <1>10, <1>11, <1>12
  DEF Receive, handle_rpc_msg

LEMMA EventsFlow ==
  ASSUME Events
  PROVE  FlowSame \/ Flow!QueueControl(KeepaliveMsg)
BY DEF Events, ConnectTimer, dp_sock_send_cb, dp_send_keepalive, dp_rpc_recv,
  dp_msg_cache_unsent, Flow!QueueControl, FlowSame, cacheVars, zebraVars

LEMMA ProcessFlow ==
  ASSUME NEW c \in Ctx, zd_hh_process(c)
  PROVE  Flow!Accept(c) \/ \E res \in Flow!Results : Flow!AnswerAtOnce(c, res)
<1>1. CASE ProcessQueued(c)
  BY <1>1 DEF ProcessQueued, Flow!Accept, dp_msg_cache_unsent, dp_request_new
<1>2. CASE ProcessAnswered(c)
  <2>1. PICK res : out' = Append(out, <<c, hh_ret_to_zebra(res)>>)
    BY <1>2 DEF ProcessAnswered
  <2>2. hh_ret_to_zebra(res) \in Flow!Results
    BY DEF hh_ret_to_zebra, Flow!Results
  <2>3. Flow!AnswerAtOnce(c, hh_ret_to_zebra(res))
    BY <1>2, <2>1 DEF ProcessAnswered, Flow!AnswerAtOnce, cacheVars
  <2> QED
    BY <2>2, <2>3
<1>3. CASE ProcessFinalizing(c)
  <2>1. Flow!AnswerAtOnce(c, Result(FALSE))
    BY <1>3 DEF ProcessFinalizing, Flow!AnswerAtOnce, cacheVars
  <2> QED
    BY <2>1 DEF Result, Flow!Results
<1> QED
  BY <1>1, <1>2, <1>3 DEF zd_hh_process

LEMMA FiniFlow ==
  ASSUME FiniLate
  PROVE  Flow!Stop
BY DEF FiniLate, fini_dp_msg_cache, Flow!Stop, CtxsOf, Flow!CtxsOf, zebraVars

LEMMA DpFlow ==
  ASSUME DpNext
  PROVE  FlowSame
BY DEF DpNext, DpStart, DpCrash, DpServe, DpServeConnect, DpServeObject,
  DpServeControl, DpRequestRefresh, DpRogue, FlowSame, cacheVars, zebraVars

LEMMA FlowStep ==
  ASSUME TypeOK, [Next]_vars
  PROVE  [Flow!Next]_(Flow!flowVars)
<1> USE DEF Flow!Next, Flow!flowVars
<1>c. /\ RefreshMsg = Flow!RefreshMsg /\ KeepaliveMsg = Flow!KeepaliveMsg
  BY DEF RefreshMsg, Flow!RefreshMsg, KeepaliveMsg, Flow!KeepaliveMsg
<1>s. ASSUME FlowSame PROVE UNCHANGED Flow!flowVars
  BY <1>s DEF FlowSame
<1>1. CASE Connect
  BY <1>1, <1>s, ConnectFlow
<1>2. CASE Drain
  BY <1>2, <1>s, DrainFlow
<1>3. CASE Receive
  BY <1>3, <1>s, <1>c, ReceiveFlow
<1>4. CASE Events
  BY <1>4, <1>s, <1>c, EventsFlow
<1>5. CASE Process
  BY <1>5, ProcessFlow DEF Process
<1>6. CASE FiniEarly
  BY <1>6 DEF FiniEarly, cacheVars
<1>7. CASE FiniLate
  BY <1>7, FiniFlow
<1>8. CASE DpNext
  BY <1>8, <1>s, DpFlow
<1>9. CASE UNCHANGED vars
  BY <1>9 DEF vars, cacheVars, zebraVars
<1> QED
  BY <1>1, <1>2, <1>3, <1>4, <1>5, <1>6, <1>7, <1>8, <1>9 DEF Next, CallStep

(***************************************************************************)
(* Every behaviour of the plugin is one the promise allows: hh_dp_msg.c    *)
(* and hh_dp_comm.c move contexts and requests only as CtxFlow does.       *)
(***************************************************************************)
THEOREM PluginImplementsFlow == Spec => ImplementsFlow
<1>1. Init => Flow!Init
  BY DEF Init, Flow!Init
<1>2. TypeOK /\ [Next]_vars => [Flow!Next]_(Flow!flowVars)
  BY FlowStep
<1> QED
  BY <1>1, <1>2, TypeCorrect, PTL DEF Spec, ImplementsFlow, Flow!Spec

-----------------------------------------------------------------------------
LEMMA FlowProofsSpec == Flow!Spec => FlowProofs!Spec
<1>1. Flow!Init => FlowProofs!Init
  BY DEF Flow!Init, FlowProofs!Init
<1>2. [Flow!Next]_(Flow!flowVars) => [FlowProofs!Next]_(FlowProofs!flowVars)
  BY DEF Flow!Next, FlowProofs!Next, Flow!flowVars, FlowProofs!flowVars,
    Flow!Accept, FlowProofs!Accept, Flow!AnswerAtOnce,
    FlowProofs!AnswerAtOnce, Flow!QueueControl, FlowProofs!QueueControl,
    Flow!Send, FlowProofs!Send, Flow!SendConnect, FlowProofs!SendConnect,
    Flow!Respond, FlowProofs!Respond, Flow!RespondConnect,
    FlowProofs!RespondConnect, Flow!Mismatch, FlowProofs!Mismatch,
    Flow!Stop, FlowProofs!Stop, Flow!IsRequest, FlowProofs!IsRequest,
    Flow!RequestOp, FlowProofs!RequestOp, Flow!ConnectMsg,
    FlowProofs!ConnectMsg, Flow!KeepaliveMsg, FlowProofs!KeepaliveMsg,
    Flow!RefreshMsg, FlowProofs!RefreshMsg, Flow!CtxsOf, FlowProofs!CtxsOf,
    Flow!Results, FlowProofs!Results
<1> QED
  BY <1>1, <1>2, PTL DEF Flow!Spec, FlowProofs!Spec

LEMMA PluginInvariant == Spec => [](CtxOwnedOnce /\ RequestsInOrder)
<1>1. FlowProofs!Spec => [](/\ FlowProofs!FlowTypeOK
                            /\ FlowProofs!OwnedOnce
                            /\ FlowProofs!InOrder)
  BY ConstantsOK, FlowProofs!FlowInvariant, PTL
<1>2. FlowProofs!OwnedOnce => CtxOwnedOnce
  BY DEF CtxOwnedOnce, Flow!OwnedOnce, FlowProofs!OwnedOnce,
    Flow!NoCtxTwice, FlowProofs!NoCtxTwice, Flow!AnsweredOnce,
    FlowProofs!AnsweredOnce, Flow!OneOwner, FlowProofs!OneOwner,
    Flow!NoneForgotten, FlowProofs!NoneForgotten, Flow!Answered,
    FlowProofs!Answered, Flow!Apart, FlowProofs!Apart, Flow!CtxsOf,
    FlowProofs!CtxsOf
<1>3. FlowProofs!InOrder => RequestsInOrder
  BY DEF RequestsInOrder, Flow!InOrder, FlowProofs!InOrder, Flow!Ordered,
    FlowProofs!Ordered, Flow!Below, FlowProofs!Below, Flow!Objects,
    FlowProofs!Objects
<1> QED
  BY <1>1, <1>2, <1>3, PluginImplementsFlow, FlowProofsSpec, PTL
  DEF ImplementsFlow

(***************************************************************************)
(* A context is with zebra, in one message of one list, given back once,   *)
(* or lost in one known way: whatever is sent, put back, purged,           *)
(* mismatched or freed by hh_dp_msg.c and hh_dp_msg_cache.c.               *)
(***************************************************************************)
THEOREM CtxAlwaysOwnedOnce == Spec => []CtxOwnedOnce
BY PluginInvariant, PTL

(***************************************************************************)
(* No failed send, put back by send_pending_rpc_msgs(), and no Connect     *)
(* that overtakes ever changes the order of the requests.                  *)
(***************************************************************************)
THEOREM RequestsAlwaysInOrder == Spec => []RequestsInOrder
BY PluginInvariant, PTL
-----------------------------------------------------------------------------
(***************************************************************************)
(* The counters of DpStats: each step of theirs is a step of the plugin.   *)
(***************************************************************************)
LEMMA StatsStep == [StatsNext]_statsVars => [Next]_vars
<1> SUFFICES ASSUME [StatsNext]_statsVars PROVE [Next]_vars
  OBVIOUS
<1>1. CASE SendCounted
  <2>1. Drain \/ Connect
    BY <1>1 DEF SendCounted, Drain, Connect
  <2> QED
    BY <2>1 DEF Next, CallStep
<1>2. CASE ReceiveCounted
  <2>1. Receive
    BY <1>2 DEF ReceiveCounted, Receive, handle_rpc_msg
  <2> QED
    BY <2>1 DEF Next, CallStep
<1>3. CASE PurgeCounted
  <2>1. Receive
    BY <1>3 DEF PurgeCounted, Receive
  <2> QED
    BY <2>1 DEF Next, CallStep
<1>4. CASE Uncounted
  <2>1. Connect \/ Drain \/ Receive \/ Events \/ Process \/ FiniEarly \/ DpNext
    BY <1>4 DEF Uncounted, Connect, Drain, Receive
  <2> QED
    BY <2>1 DEF Next, CallStep
<1>5. CASE FiniLate /\ Drop(in_flight) /\ UNCHANGED stat
  BY <1>5 DEF Next
<1>6. CASE UNCHANGED statsVars
  BY <1>6 DEF statsVars
<1> QED
  BY <1>1, <1>2, <1>3, <1>4, <1>5, <1>6 DEF StatsNext

(***************************************************************************)
(* DpStats only adds to the plugin: whatever rpc_count_*() do, the plugin  *)
(* beside them is the one of DpPlugin, so all that is proved of Spec holds *)
(* of StatsSpec.                                                           *)
(***************************************************************************)
THEOREM StatsImplementPlugin == StatsSpec => Spec
<1>1. StatsInit => Init
  BY DEF StatsInit
<1> QED
  BY <1>1, StatsStep, PTL DEF StatsSpec, Spec

-----------------------------------------------------------------------------
(***************************************************************************)
(* Arithmetic modulo Wrap: quotient and remainder, and what Plus() makes   *)
(* of sums of sums.                                                        *)
(***************************************************************************)
LEMMA Division ==
  ASSUME NEW W \in Int, W > 0, NEW a \in Int
  PROVE  /\ a = W * (a \div W) + (a % W)
         /\ a \div W \in Int /\ a % W \in 0..(W - 1)
<1>1. \A q, r \in Int : q = a \div W /\ r = a % W => a = W * q + r
  BY SMT
<1>2. a \div W \in Int /\ a % W \in Int
  BY SMT
<1>3. a % W \in 0..(W - 1)
  BY SMT
<1> QED
  BY <1>1, <1>2, <1>3, Zenon

LEMMA Remainder ==
  ASSUME NEW W \in Int, W > 0, NEW q \in Int, NEW r \in 0..(W - 1)
  PROVE  (W * q + r) % W = r
BY SMT

LEMMA Distribute ==
  ASSUME NEW W \in Int, NEW p \in Int, NEW q \in Int
  PROVE  W * (p + q) = W * p + W * q
BY SMT

LEMMA ModOfMod ==
  ASSUME NEW W \in Int, W > 0, NEW a \in Nat, NEW b \in Nat
  PROVE  ((a % W) + b) % W = (a + b) % W
<1> DEFINE q == a \div W
           x == a % W
           p == (x + b) \div W
           y == (x + b) % W
<1>1. q \in Int /\ x \in 0..(W - 1) /\ a = W * q + x
  BY Division
<1> HIDE DEF q, x
<1>2. p \in Int /\ y \in 0..(W - 1) /\ x + b = W * p + y
  <2>1. x + b \in Int
    BY <1>1
  <2> QED
    BY <2>1, Division, Zenon
<1> HIDE DEF p, y
<1>3. a + b = W * (q + p) + y
  BY <1>1, <1>2, Distribute
<1>4. q + p \in Int
  BY <1>1, <1>2
<1>5. (W * (q + p) + y) % W = y
  BY <1>2, <1>4, Remainder
<1>6. ((a % W) + b) % W = y
  BY Zenon DEF y, x
<1> QED
  BY <1>3, <1>5, <1>6, Zenon

Counter == 0..(Wrap - 1)

LEMMA PlusFacts ==
  /\ \A a, b \in Nat : Plus(a, b) \in Counter
  /\ \A a, b, c \in Nat : Plus(Plus(a, b), c) = Plus(a, b + c)
  /\ \A a, b, c, d \in Nat : a + b = c + d => Plus(a, b) = Plus(c, d)
  /\ Counter \subseteq Nat /\ 0 \in Counter
<1>w. Wrap \in Int /\ Wrap > 0
  BY WrapOK
<1>1. ASSUME NEW a \in Nat, NEW b \in Nat PROVE Plus(a, b) \in Counter
  <2>1. a + b \in Int
    OBVIOUS
  <2> QED
    BY <1>w, <2>1, Division, Zenon DEF Plus, Counter
<1>2. ASSUME NEW a \in Nat, NEW b \in Nat, NEW c \in Nat
      PROVE  Plus(Plus(a, b), c) = Plus(a, b + c)
  <2>1. a + b \in Nat /\ (a + b) + c = a + (b + c)
    OBVIOUS
  <2>2. (((a + b) % Wrap) + c) % Wrap = ((a + b) + c) % Wrap
    BY <1>w, <2>1, ModOfMod, Zenon
  <2> QED
    BY <2>1, <2>2, Zenon DEF Plus
<1>3. ASSUME NEW a \in Nat, NEW b \in Nat, NEW c \in Nat, NEW d \in Nat,
             a + b = c + d
      PROVE  Plus(a, b) = Plus(c, d)
  BY <1>3, Zenon DEF Plus
<1>4. Counter \subseteq Nat /\ 0 \in Counter
  BY <1>w DEF Counter
<1> QED
  BY <1>1, <1>2, <1>3, <1>4

(***************************************************************************)
(* How many messages of an operation a list holds, as Append() and Tail()  *)
(* change it.                                                              *)
(***************************************************************************)
Holding(list, op) == {i \in DOMAIN list : list[i].op = op}

Count(list, op) == Cardinality(Holding(list, op))

One(m, op) == IF m.op = op THEN 1 ELSE 0

LEMMA HoldingFinite ==
  ASSUME NEW S, NEW s \in Seq(S), NEW op
  PROVE  IsFiniteSet(Holding(s, op)) /\ Count(s, op) \in Nat
<1>1. Len(s) \in Nat /\ DOMAIN s = 1..Len(s)
  BY LenProperties
<1>2. IsFiniteSet(1..Len(s))
  BY <1>1, FS_Interval
<1>3. IsFiniteSet(Holding(s, op))
  BY <1>1, <1>2, FS_Subset DEF Holding
<1> QED
  BY <1>3, FS_CardinalityType DEF Count

LEMMA CountEmpty == \A op : Count(<<>>, op) = 0
<1> TAKE op
<1>1. Holding(<<>>, op) = {}
  BY DEF Holding
<1> QED
  BY <1>1, FS_EmptySet DEF Count

LEMMA CountOne ==
  ASSUME NEW e, NEW op
  PROVE  Count(<<e>>, op) = One(e, op)
<1>1. CASE e.op = op
  <2>1. Holding(<<e>>, op) = {1}
    BY <1>1 DEF Holding
  <2> QED
    BY <1>1, <2>1, FS_Singleton DEF Count, One
<1>2. CASE e.op # op
  <2>1. Holding(<<e>>, op) = {}
    BY <1>2 DEF Holding
  <2> QED
    BY <1>2, <2>1, FS_EmptySet DEF Count, One
<1> QED
  BY <1>1, <1>2

LEMMA CountAppend ==
  ASSUME NEW S, NEW s \in Seq(S), NEW e \in S, NEW op
  PROVE  Count(Append(s, e), op) = Count(s, op) + One(e, op)
<1> DEFINE n == Len(s) + 1
<1>1. /\ DOMAIN s = 1..Len(s) /\ Len(s) \in Nat
      /\ DOMAIN Append(s, e) = 1..n
      /\ \A i \in 1..Len(s) : Append(s, e)[i] = s[i]
      /\ Append(s, e)[n] = e
  BY AppendProperties, LenProperties
<1>2. n \notin Holding(s, op)
  BY <1>1 DEF Holding
<1>3. CASE e.op = op
  <2>1. Holding(Append(s, e), op) = Holding(s, op) \cup {n}
    BY <1>1, <1>3 DEF Holding
  <2> QED
    BY <1>2, <1>3, <2>1, HoldingFinite, FS_AddElement DEF Count, One
<1>4. CASE e.op # op
  <2>1. Holding(Append(s, e), op) = Holding(s, op)
    BY <1>1, <1>4 DEF Holding
  <2> QED
    BY <1>4, <2>1, HoldingFinite DEF Count, One
<1> QED
  BY <1>3, <1>4

LEMMA CountTail ==
  ASSUME NEW S, NEW s \in Seq(S), NEW op, s # <<>>
  PROVE  Count(s, op) = Count(Tail(s), op) + One(Head(s), op)
<1> DEFINE A == Holding(Tail(s), op)
           B == Holding(s, op) \ {1}
           f == [i \in A |-> i + 1]
<1>1. /\ DOMAIN s = 1..Len(s) /\ Len(s) \in Nat \ {0}
      /\ Tail(s) \in Seq(S) /\ DOMAIN Tail(s) = 1..(Len(s) - 1)
      /\ \A i \in 1..(Len(s) - 1) : Tail(s)[i] = s[i + 1]
      /\ Head(s) = s[1]
  BY HeadTailProperties, LenProperties, EmptySeq
<1>2. A \subseteq 1..(Len(s) - 1) /\ B \subseteq 2..Len(s)
  BY <1>1 DEF Holding
<1>3. f \in Bijection(A, B)
  <2>1. f \in [A -> B]
    BY <1>1 DEF Holding
  <2>2. \A i, j \in A : f[i] = f[j] => i = j
    BY <1>2
  <2>3. \A k \in B : \E i \in A : f[i] = k
    <3> SUFFICES ASSUME NEW k \in B PROVE k - 1 \in A /\ f[k - 1] = k
      OBVIOUS
    <3>1. k - 1 \in 1..(Len(s) - 1) /\ s[k].op = op
      BY <1>1, <1>2 DEF Holding
    <3>2. Tail(s)[k - 1] = s[k]
      BY <1>1, <1>2, <3>1
    <3>3. k - 1 \in A
      BY <1>1, <3>1, <3>2 DEF Holding
    <3> QED
      BY <1>2, <3>3
  <2> HIDE DEF f, A, B
  <2> QED
    BY <2>1, <2>2, <2>3 DEF Bijection, Injection, Surjection, IsInjective
<1>4. Cardinality(B) = Cardinality(A) /\ IsFiniteSet(B)
  <2>1. ExistsBijection(A, B)
    BY <1>3 DEF ExistsBijection
  <2> HIDE DEF B
  <2> QED
    BY <1>1, <2>1, HoldingFinite, FS_Bijection
<1>5. 1 \in Holding(s, op) <=> Head(s).op = op
  BY <1>1 DEF Holding
<1>6. CASE Head(s).op = op
  <2>1. Holding(s, op) = B \cup {1} /\ 1 \notin B
    BY <1>5, <1>6
  <2> HIDE DEF B
  <2> QED
    BY <1>4, <1>6, <2>1, FS_AddElement DEF Count, One
<1>7. CASE Head(s).op # op
  <2>1. Holding(s, op) = B
    BY <1>5, <1>7
  <2> HIDE DEF B
  <2>2. Count(Tail(s), op) \in Nat
    BY <1>1, HoldingFinite
  <2> QED
    BY <1>4, <1>7, <2>1, <2>2 DEF Count, One
<1> QED
  BY <1>6, <1>7

-----------------------------------------------------------------------------
(***************************************************************************)
(* What a step does to the counters: a message is sent, the oldest request *)
(* is answered, it is dropped, every request is dropped, or nothing.       *)
(***************************************************************************)
CountsSent ==
  \E m \in Msg :
    /\ IsRequest(m) => m \in RequestMsg
    /\ stat' = rpc_count_sent(m)
    /\ in_flight' = IF IsRequest(m) THEN Append(in_flight, m) ELSE in_flight
    /\ dropped' = dropped

CountsAnswer ==
  /\ in_flight # <<>>
  /\ in_flight' = Tail(in_flight)
  /\ \E rc \in ResultCodes :
       stat' = rpc_count_replied(stat, Head(in_flight).op, rc)
  /\ dropped' = dropped

CountsDropped ==
  /\ \/ in_flight # <<>> /\ in_flight' = Tail(in_flight) /\ Drop(<<Head(in_flight)>>)
     \/ in_flight' = <<>> /\ Drop(in_flight)
  /\ stat' = stat

CountsNothing == UNCHANGED <<in_flight, stat, dropped>>

LEMMA CountingSteps ==
  ASSUME TypeOK, [StatsNext]_statsVars
  PROVE  CountsSent \/ CountsAnswer \/ CountsDropped \/ CountsNothing
<1>t. in_flight # <<>> => Head(in_flight) \in RequestMsg
  BY InFlightFacts DEF TypeOK
<1>0. \A m \in RequestMsg : m.op # "Connect" => m.op = "Object"
  BY DEF RequestMsg, ObjectMsg, ConnectMsg
<1>c. \A ok \in BOOLEAN : CodesOf(ok) \subseteq ResultCodes
  BY DEF CodesOf, ResultCodes
<1>1. CASE SendCounted
  <2>1. CASE DrainSent /\ stat' = rpc_count_sent(Head(unsent))
    <3>1. /\ Head(unsent) \in UnsentMsg /\ Head(unsent) \in Msg
          /\ IsRequest(Head(unsent)) => Head(unsent) \in RequestMsg
      BY <2>1, UnsentFacts, MsgFacts DEF DrainSent, TypeOK
    <3>2. in_flight' = IF IsRequest(Head(unsent))
                       THEN Append(in_flight, Head(unsent)) ELSE in_flight
      BY <2>1 DEF DrainSent, dp_msg_cache_inflight
    <3> QED
      BY <1>1, <2>1, <3>1, <3>2 DEF CountsSent, SendCounted
  <2>2. CASE SendConnect("ok") /\ stat' = rpc_count_sent(ConnectMsg)
    <3>1. ConnectMsg \in Msg /\ ConnectMsg \in RequestMsg /\ IsRequest(ConnectMsg)
      BY MsgFacts DEF IsRequest, ConnectMsg, RequestOp
    <3>2. in_flight' = Append(in_flight, ConnectMsg)
      BY <2>2 DEF SendConnect, dp_msg_cache_inflight
    <3> QED
      BY <1>1, <2>2, <3>1, <3>2 DEF CountsSent, SendCounted
  <2> QED
    BY <1>1, <2>1, <2>2 DEF SendCounted
<1>2. CASE ReceiveCounted
  <2> DEFINE r == Head(rxq)
  <2>0. r.ok \in BOOLEAN
    BY <1>2, RxqFacts DEF ReceiveCounted, TypeOK, Incoming
  <2> HIDE DEF r
  <2>1. CASE /\ RecvUndecodable \/ RecvIgnored(r) \/ handle_rpc_control(r)
                \/ RecvRestart(r) \/ RecvUnsolicited(r)
             /\ UNCHANGED <<stat, dropped>>
    <3>1. in_flight' = in_flight
      BY <2>1 DEF RecvUndecodable, RecvIgnored, handle_rpc_control, RecvRestart,
         RecvUnsolicited, cacheVars
    <3> QED
      BY <2>1, <3>1 DEF CountsNothing
  <2>2. CASE RecvMismatch(r) /\ UNCHANGED stat /\ Drop(<<Head(in_flight)>>)
    BY <2>2 DEF RecvMismatch, CountsDropped
  <2>3. CASE /\ RecvConnectResponse(r) \/ handle_rpc_ctx_response(r)
             /\ \E rc \in CodesOf(r.ok) : stat' = rpc_count_replied(stat, r.op, rc)
             /\ UNCHANGED dropped
    <3>1. /\ in_flight # <<>> /\ in_flight' = Tail(in_flight)
          /\ Head(in_flight).op = r.op
      BY <2>3 DEF RecvConnectResponse, handle_rpc_ctx_response,
         got_expected_response
    <3> QED
      BY <1>c, <2>0, <2>3, <3>1 DEF CountsAnswer
  <2> QED
    BY <1>2, <2>1, <2>2, <2>3 DEF ReceiveCounted, r
<1>3. CASE PurgeCounted
  <2>1. CASE PurgeRequest /\ stat' = rpc_count_replied(stat, "Object", "Ok")
    <3>1. Head(in_flight).op = "Object"
      BY <1>t, <1>0, <2>1 DEF PurgeRequest
    <3>2. "Ok" \in ResultCodes
      BY DEF ResultCodes
    <3> QED
      BY <1>3, <2>1, <3>1, <3>2 DEF CountsAnswer, PurgeCounted, PurgeRequest
  <2>2. CASE /\ PurgeConnect
             /\ \E rc \in CodesOf(resp.ok) :
                  stat' = rpc_count_replied(stat, "Connect", rc)
    <3>1. resp.ok \in BOOLEAN
      BY DEF TypeOK, PcTypeOK, Incoming
    <3> QED
      BY <1>3, <1>c, <2>2, <3>1 DEF CountsAnswer, PurgeCounted, PurgeConnect
  <2> QED
    BY <1>3, <2>1, <2>2 DEF PurgeCounted
<1>4. CASE Uncounted
  <2>1. in_flight' = in_flight
    <3>1. CASE ConnectNoSock \/ (\E f \in Fd \cup {NO_SOCK} : ConnectFails(f))
                 \/ ConnectSucceeds
      BY <3>1 DEF ConnectNoSock, ConnectFails, ConnectSucceeds, cacheVars
    <3>2. CASE \E o \in {"again", "conn", "error"} : SendConnect(o)
      BY <3>2 DEF SendConnect
    <3>3. CASE DrainDone \/ DrainNotReady \/ DrainFailed
      BY <3>3 DEF DrainDone, DrainNotReady, DrainFailed, cacheVars
    <3>4. CASE RecvNothing \/ PurgeDone \/ FiniEarly
      BY <3>4 DEF RecvNothing, PurgeDone, FiniEarly, cacheVars
    <3>5. CASE Events
      BY <3>5 DEF Events, ConnectTimer, dp_sock_send_cb, dp_send_keepalive,
         dp_rpc_recv, cacheVars
    <3>6. CASE Process
      BY <3>6 DEF Process, zd_hh_process, ProcessQueued, ProcessAnswered,
         ProcessFinalizing, cacheVars
    <3>7. CASE DpNext
      BY <3>7, DpFlow DEF FlowSame
    <3> QED
      BY <1>4, <3>1, <3>2, <3>3, <3>4, <3>5, <3>6, <3>7 DEF Uncounted
  <2> QED
    BY <1>4, <2>1 DEF Uncounted, CountsNothing
<1>5. CASE FiniLate /\ Drop(in_flight) /\ UNCHANGED stat
  BY <1>5 DEF FiniLate, fini_dp_msg_cache, CountsDropped
<1>6. CASE UNCHANGED statsVars
  BY <1>6 DEF statsVars, vars, cacheVars, CountsNothing
<1> QED
  BY <1>1, <1>2, <1>3, <1>4, <1>5, <1>6 DEF StatsNext

-----------------------------------------------------------------------------
(***************************************************************************)
(* The counters are numbers below Wrap.                                    *)
(***************************************************************************)
Stat == [tx_ok : Counter, control_tx : Counter,
         sent : [RequestOp -> Counter], replied : [RequestOp -> Counter],
         rescode : [RequestOp -> [ResultCodes -> Counter]]]

StatTypeOK == stat \in Stat /\ dropped \in [RequestOp -> Counter]

StatsInv == StatTypeOK /\ RequestsAccounted /\ TxAccounted

\* The fields of a Stat, and what the two counting functions make of them.
LEMMA StatFields ==
  ASSUME NEW s \in Stat
  PROVE  /\ s.tx_ok \in Counter /\ s.control_tx \in Counter
         /\ \A op \in RequestOp :
              /\ s.sent[op] \in Counter /\ s.replied[op] \in Counter
              /\ \A rc \in ResultCodes : s.rescode[op][rc] \in Counter
BY DEF Stat

LEMMA SentFields ==
  ASSUME stat \in Stat, NEW m \in Msg
  PROVE  LET s == rpc_count_sent(m) IN
         /\ s \in Stat
         /\ s.replied = stat.replied /\ s.rescode = stat.rescode
         /\ s.tx_ok = Plus(stat.tx_ok, 1)
         /\ IsRequest(m) =>
              /\ s.control_tx = stat.control_tx
              /\ \A op \in RequestOp :
                   s.sent[op] = IF op = m.op THEN Plus(stat.sent[op], 1)
                                ELSE stat.sent[op]
         /\ ~IsRequest(m) => s.control_tx = Plus(stat.control_tx, 1)
                             /\ s.sent = stat.sent
<1> DEFINE t == Plus(stat.tx_ok, 1)
           x == Plus(stat.control_tx, 1)
           c == [stat.sent EXCEPT ![m.op] = Plus(stat.sent[m.op], 1)]
<1>1. t \in Counter /\ x \in Counter
  BY StatFields, PlusFacts
<1>2. IsRequest(m) => Plus(stat.sent[m.op], 1) \in Counter
  BY StatFields, PlusFacts DEF IsRequest
<1>3. IsRequest(m) =>
        /\ c \in [RequestOp -> Counter]
        /\ \A op \in RequestOp :
             c[op] = IF op = m.op THEN Plus(stat.sent[op], 1) ELSE stat.sent[op]
  BY <1>2 DEF Stat, IsRequest
<1>4. rpc_count_sent(m) =
        IF IsRequest(m) THEN [stat EXCEPT !.tx_ok = t, !.sent = c]
        ELSE [stat EXCEPT !.tx_ok = t, !.control_tx = x]
  BY DEF rpc_count_sent, Stat
<1> HIDE DEF t, x, c
<1>5. CASE IsRequest(m)
  <2>1. rpc_count_sent(m) = [stat EXCEPT !.tx_ok = t, !.sent = c]
    BY <1>4, <1>5
  <2> QED
    BY <1>1, <1>3, <1>5, <2>1 DEF Stat, t
<1>6. CASE ~IsRequest(m)
  <2>1. rpc_count_sent(m) = [stat EXCEPT !.tx_ok = t, !.control_tx = x]
    BY <1>4, <1>6
  <2> QED
    BY <1>1, <1>6, <2>1 DEF Stat, t, x
<1> QED
  BY <1>5, <1>6

LEMMA RepliedFields ==
  ASSUME stat \in Stat, NEW op \in RequestOp, NEW rc \in ResultCodes
  PROVE  LET s == rpc_count_replied(stat, op, rc) IN
         /\ s \in Stat
         /\ s.sent = stat.sent /\ s.tx_ok = stat.tx_ok
         /\ s.control_tx = stat.control_tx
         /\ s.replied[op] = Plus(stat.replied[op], 1)
         /\ \A o \in ResultCodes :
              s.rescode[op][o] = IF o = rc THEN Plus(stat.rescode[op][o], 1)
                                 ELSE stat.rescode[op][o]
         /\ \A p \in RequestOp \ {op} :
              s.replied[p] = stat.replied[p] /\ s.rescode[p] = stat.rescode[p]
<1> DEFINE a == Plus(stat.replied[op], 1)
           b == Plus(stat.rescode[op][rc], 1)
           rep == [stat.replied EXCEPT ![op] = a]
           codes == [stat.rescode[op] EXCEPT ![rc] = b]
           res == [stat.rescode EXCEPT ![op] = codes]
<1>1. a \in Counter /\ b \in Counter
  BY StatFields, PlusFacts
<1>2. rpc_count_replied(stat, op, rc) = [stat EXCEPT !.replied = rep, !.rescode = res]
  BY DEF rpc_count_replied, Stat
<1>3. /\ stat.replied \in [RequestOp -> Counter]
      /\ stat.rescode \in [RequestOp -> [ResultCodes -> Counter]]
  BY DEF Stat
<1> HIDE DEF a, b
<1>4. /\ rep \in [RequestOp -> Counter] /\ rep[op] = a
      /\ \A p \in RequestOp \ {op} : rep[p] = stat.replied[p]
  BY <1>1, <1>3
<1>5. /\ codes \in [ResultCodes -> Counter]
      /\ \A o \in ResultCodes :
           codes[o] = IF o = rc THEN b ELSE stat.rescode[op][o]
  BY <1>1, <1>3
<1> HIDE DEF codes
<1>6. /\ res \in [RequestOp -> [ResultCodes -> Counter]] /\ res[op] = codes
      /\ \A p \in RequestOp \ {op} : res[p] = stat.rescode[p]
  BY <1>3, <1>5
<1> HIDE DEF rep, res
<1> DEFINE s == rpc_count_replied(stat, op, rc)
<1>7. /\ s \in Stat /\ s.sent = stat.sent /\ s.tx_ok = stat.tx_ok
      /\ s.control_tx = stat.control_tx /\ s.replied = rep /\ s.rescode = res
  BY <1>2, <1>4, <1>6 DEF Stat
<1> HIDE DEF s
<1>8. \A o \in ResultCodes :
        s.rescode[op][o] = IF o = rc THEN Plus(stat.rescode[op][o], 1)
                           ELSE stat.rescode[op][o]
  BY <1>5, <1>6, <1>7 DEF b
<1>9. s.replied[op] = Plus(stat.replied[op], 1)
  BY <1>4, <1>7 DEF a
<1>10. \A p \in RequestOp \ {op} :
         s.replied[p] = stat.replied[p] /\ s.rescode[p] = stat.rescode[p]
  BY <1>4, <1>6, <1>7
<1> QED
  BY <1>7, <1>8, <1>9, <1>10 DEF s

-----------------------------------------------------------------------------
(***************************************************************************)
(* The sums, operation by operation.                                       *)
(***************************************************************************)
SentAdds(op) ==
  stat.sent[op] = Plus(stat.replied[op], Count(in_flight, op) + dropped[op])

RepliedAdds(op) ==
  stat.replied[op] = Plus(stat.rescode[op]["Ok"],
                          stat.rescode[op]["Failure"] + stat.rescode[op]["unk_err"])

LEMMA PlusIn == ASSUME NEW a \in Nat, NEW b \in Nat PROVE Plus(a, b) \in Nat
BY PlusFacts

LEMMA PlusNested ==
  ASSUME NEW a \in Nat, NEW b \in Nat, NEW c \in Nat
  PROVE  Plus(Plus(a, b), c) = Plus(a, b + c)
BY PlusFacts

LEMMA PlusSwap ==
  ASSUME NEW a \in Nat, NEW t \in Nat, NEW c \in Nat, NEW k \in Nat
  PROVE  Plus(a, t + Plus(c, k)) = Plus(c, k + (a + t))
<1> DEFINE p == Plus(c, k)
           s == a + t
<1>1. p \in Nat /\ s \in Nat
  <2>1. p \in Nat
    BY PlusIn
  <2> QED
    BY <2>1
<1> HIDE DEF s
<1>2. Plus(p, s) = Plus(c, k + s)
  BY <1>1, PlusNested
<1> HIDE DEF p
<1>3. t + p \in Nat /\ a + (t + p) = p + s
  BY <1>1 DEF s
<1> DEFINE q == t + p
<1> HIDE DEF q
<1>4. q \in Nat /\ a + q = p + s
  BY <1>3 DEF q
<1>5. Plus(a, q) = Plus(p, s)
  BY <1>4 DEF Plus
<1> QED
  BY <1>2, <1>5 DEF p, q, s

LEMMA PlusMoved ==
  ASSUME NEW a \in Nat, NEW b \in Nat, NEW c \in Nat, NEW k \in Nat
  PROVE  Plus(c, k + (a + b)) = Plus(a, (b + c) + k)
<1> DEFINE s == k + (a + b)
           t == (b + c) + k
<1>1. s \in Nat /\ t \in Nat /\ c + s = a + t
  OBVIOUS
<1> HIDE DEF s, t
<1>2. Plus(c, s) = Plus(a, t)
  BY <1>1 DEF Plus
<1> QED
  BY <1>2 DEF s, t

LEMMA PlusPlus ==
  ASSUME NEW a \in Nat, NEW b \in Nat, NEW c \in Nat, NEW k \in Nat
  PROVE  Plus(Plus(a, b + c), k) = Plus(a, (b + c) + k)
<1> DEFINE s == b + c
<1>1. s \in Nat
  OBVIOUS
<1> HIDE DEF s
<1>2. Plus(Plus(a, s), k) = Plus(a, s + k)
  BY <1>1, PlusNested
<1> QED
  BY <1>2 DEF s

LEMMA PlusInside ==
  ASSUME NEW a \in Nat, NEW b \in Nat, NEW c \in Nat, NEW k \in Nat
  PROVE  Plus(a, b + Plus(c, k)) = Plus(a, (b + c) + k)
BY PlusSwap, PlusMoved

LEMMA AccountedMeans ==
  RequestsAccounted <=> \A op \in RequestOp : SentAdds(op) /\ RepliedAdds(op)
BY DEF RequestsAccounted, SentAdds, RepliedAdds, Count, Holding

LEMMA StatsInitially == StatsInit => StatsInv
<1> SUFFICES ASSUME StatsInit PROVE StatsInv
  OBVIOUS
<1>0. 0 \in Counter /\ Plus(0, 0) = 0
  <2>1. 0 % Wrap = 0
    <3>1. Wrap * 0 + 0 = 0 /\ 0 \in 0..(Wrap - 1) /\ Wrap \in Int /\ Wrap > 0
      BY WrapOK
    <3>2. (Wrap * 0 + 0) % Wrap = 0
      BY <3>1, Remainder
    <3> QED
      BY <3>1, <3>2, Zenon
  <2> QED
    BY <2>1, PlusFacts DEF Plus
<1>1. in_flight = <<>>
  BY DEF StatsInit, Init
<1>2. \A op \in RequestOp : Count(in_flight, op) = 0
  BY <1>1, CountEmpty
<1>3. StatTypeOK
  BY <1>0 DEF StatsInit, StatTypeOK, Stat, Zeros
<1>4. /\ stat.tx_ok = 0 /\ stat.control_tx = 0
      /\ \A op \in RequestOp :
           /\ stat.sent[op] = 0 /\ stat.replied[op] = 0 /\ dropped[op] = 0
           /\ \A rc \in ResultCodes : stat.rescode[op][rc] = 0
  BY DEF StatsInit, Zeros
<1>5. RequestsAccounted
  <2>1. \A op \in RequestOp : SentAdds(op) /\ RepliedAdds(op)
    BY <1>0, <1>2, <1>4 DEF SentAdds, RepliedAdds, ResultCodes
  <2> QED
    BY <2>1, AccountedMeans
<1>6. TxAccounted
  BY <1>0, <1>4 DEF TxAccounted, RequestOp
<1> QED
  BY <1>3, <1>5, <1>6 DEF StatsInv

(***************************************************************************)
(* Each kind of step keeps them.                                           *)
(***************************************************************************)
LEMMA CountedFacts ==
  ASSUME TypeOK, StatTypeOK, NEW op \in RequestOp
  PROVE  /\ Count(in_flight, op) \in Nat /\ dropped[op] \in Nat
         /\ stat.tx_ok \in Nat /\ stat.control_tx \in Nat
         /\ stat.sent[op] \in Nat /\ stat.replied[op] \in Nat
         /\ \A rc \in ResultCodes : stat.rescode[op][rc] \in Nat
<1>1. in_flight \in Seq(RequestMsg)
  BY DEF TypeOK, CacheTypeOK
<1> QED
  BY <1>1, HoldingFinite, StatFields, PlusFacts DEF StatTypeOK

LEMMA SentCounted ==
  ASSUME TypeOK, StatsInv, CountsSent
  PROVE  StatsInv'
<1>0. stat \in Stat /\ dropped \in [RequestOp -> Counter]
  BY DEF StatsInv, StatTypeOK
<1>1. PICK m \in Msg :
        /\ IsRequest(m) => m \in RequestMsg
        /\ stat' = rpc_count_sent(m)
        /\ in_flight' = IF IsRequest(m) THEN Append(in_flight, m) ELSE in_flight
        /\ dropped' = dropped
  BY DEF CountsSent
<1>2. in_flight \in Seq(RequestMsg)
  BY DEF TypeOK, CacheTypeOK
<1>a. IsRequest(m) =>
        \A op : Count(Append(in_flight, m), op) = Count(in_flight, op) + One(m, op)
  <2> SUFFICES ASSUME IsRequest(m)
               PROVE  \A op : Count(Append(in_flight, m), op)
                                = Count(in_flight, op) + One(m, op)
    OBVIOUS
  <2> QED
    BY <1>1, <1>2, CountAppend
<1>f. /\ stat' \in Stat
      /\ stat'.replied = stat.replied /\ stat'.rescode = stat.rescode
      /\ stat'.tx_ok = Plus(stat.tx_ok, 1)
      /\ IsRequest(m) =>
           /\ stat'.control_tx = stat.control_tx
           /\ \A op \in RequestOp :
                stat'.sent[op] = IF op = m.op THEN Plus(stat.sent[op], 1)
                                 ELSE stat.sent[op]
      /\ ~IsRequest(m) => stat'.control_tx = Plus(stat.control_tx, 1)
                          /\ stat'.sent = stat.sent
  BY <1>0, <1>1, SentFields
<1>3. StatTypeOK'
  BY <1>0, <1>1, <1>f DEF StatTypeOK
<1>4. ASSUME NEW op \in RequestOp PROVE SentAdds(op)' /\ RepliedAdds(op)'
  <2>0. SentAdds(op) /\ RepliedAdds(op)
    BY AccountedMeans DEF StatsInv
  <2>1. RepliedAdds(op)'
    BY <1>f, <2>0 DEF RepliedAdds
  <2> DEFINE n == Count(in_flight, op)
             d == dropped[op]
             r == stat.replied[op]
  <2>2. n \in Nat /\ d \in Nat /\ r \in Nat /\ n + d \in Nat
    BY CountedFacts DEF StatsInv
  <2>3. CASE IsRequest(m) /\ m.op = op
    <3>1. Count(in_flight', op) = n + 1
      BY <1>a, <1>1, <2>3 DEF One
    <3>2. stat'.sent[op] = Plus(Plus(r, n + d), 1)
      BY <1>f, <2>0, <2>3 DEF SentAdds
    <3> HIDE DEF n, d, r
    <3>3. Plus(Plus(r, n + d), 1) = Plus(r, (n + 1) + d)
      <4>1. Plus(Plus(r, n + d), 1) = Plus(r, (n + d) + 1)
        BY <2>2, PlusFacts
      <4>2. (n + d) + 1 = (n + 1) + d
        BY <2>2
      <4> QED
        BY <4>1, <4>2, Zenon
    <3>4. SentAdds(op)'
      BY <1>1, <1>f, <3>1, <3>2, <3>3, Zenon DEF SentAdds, n, d, r
    <3> QED
      BY <2>1, <3>4
  <2>4. CASE ~(IsRequest(m) /\ m.op = op)
    <3>1. Count(in_flight', op) = n
      <4>1. IsRequest(m) => One(m, op) = 0
        BY <2>4 DEF One
      <4>2. IsRequest(m) => Count(Append(in_flight, m), op) = n + 0
        BY <1>a, <4>1
      <4> HIDE DEF n
      <4>3. n + 0 = n
        BY <2>2
      <4>4. CASE IsRequest(m)
        BY <1>1, <4>2, <4>3, <4>4
      <4>5. CASE ~IsRequest(m)
        BY <1>1, <4>5 DEF n
      <4> QED
        BY <4>4, <4>5
    <3>2. stat'.sent[op] = stat.sent[op]
      BY <1>f, <2>4
    <3> QED
      BY <1>1, <1>f, <2>0, <2>1, <3>1, <3>2 DEF SentAdds
  <2> QED
    BY <2>3, <2>4
<1>5. RequestsAccounted'
  BY <1>4, AccountedMeans DEF RequestsAccounted, SentAdds, RepliedAdds, Count, Holding
<1>6. TxAccounted'
  <2> DEFINE x == stat.control_tx
             c == stat.sent["Connect"]
             o == stat.sent["Object"]
  <2>1. x \in Nat /\ c \in Nat /\ o \in Nat
    BY CountedFacts DEF StatsInv, RequestOp
  <2>2. stat.tx_ok = Plus(x, c + o)
    BY DEF StatsInv, TxAccounted
  <2> HIDE DEF x, c, o
  <2>3. stat'.tx_ok = Plus(x, (c + o) + 1)
    <3>1. Plus(Plus(x, c + o), 1) = Plus(x, (c + o) + 1)
      BY <2>1, PlusPlus
    <3> QED
      BY <1>f, <2>2, <3>1, Zenon
  <2>4. CASE ~IsRequest(m)
    <3>1. Plus(Plus(x, 1), c + o) = Plus(x, 1 + (c + o))
      BY <2>1, PlusFacts
    <3>2. 1 + (c + o) = (c + o) + 1
      BY <2>1
    <3> QED
      BY <1>f, <2>3, <2>4, <3>1, <3>2 DEF TxAccounted, x, c, o
  <2>5. CASE IsRequest(m)
    <3>1. \A p \in {c, o} : Plus(p, 1) \in Nat
      BY <2>1, PlusFacts
    <3>2. \A p, q \in Nat : Plus(x, Plus(p, 1) + q) = Plus(x, (p + q) + 1)
      <4> SUFFICES ASSUME NEW p \in Nat, NEW q \in Nat
                   PROVE  Plus(x, Plus(p, 1) + q) = Plus(x, (p + q) + 1)
        OBVIOUS
      <4>1. Plus(p, 1) \in Nat
        BY PlusFacts
      <4>2. Plus(x, Plus(p, 1) + q) = Plus(Plus(p, 1), x + q)
        BY <2>1, <4>1, PlusFacts
      <4>3. Plus(Plus(p, 1), x + q) = Plus(p, 1 + (x + q))
        BY <2>1, PlusFacts
      <4>4. Plus(p, 1 + (x + q)) = Plus(x, (p + q) + 1)
        BY <2>1, PlusFacts
      <4> QED
        BY <4>2, <4>3, <4>4
    <3>3. CASE m.op = "Connect"
      <4>1. stat'.sent["Connect"] = Plus(c, 1) /\ stat'.sent["Object"] = o
        BY <1>f, <2>5, <3>3 DEF RequestOp, c, o
      <4> QED
        BY <1>f, <2>1, <2>3, <2>5, <3>2, <4>1 DEF TxAccounted, x
    <3>4. CASE m.op = "Object"
      <4>1. stat'.sent["Connect"] = c /\ stat'.sent["Object"] = Plus(o, 1)
        BY <1>f, <2>5, <3>4 DEF RequestOp, c, o
      <4>2. Plus(o, 1) + c = c + Plus(o, 1) /\ (o + c) + 1 = (c + o) + 1
        BY <2>1, <3>1
      <4> QED
        BY <1>f, <2>1, <2>3, <2>5, <3>2, <4>1, <4>2 DEF TxAccounted, x
    <3> QED
      BY <2>5, <3>3, <3>4 DEF IsRequest, RequestOp
  <2> QED
    BY <2>4, <2>5
<1> QED
  BY <1>3, <1>5, <1>6 DEF StatsInv

LEMMA AnswerCounted ==
  ASSUME TypeOK, StatsInv, CountsAnswer
  PROVE  StatsInv'
<1>0. stat \in Stat /\ dropped \in [RequestOp -> Counter]
  BY DEF StatsInv, StatTypeOK
<1>1. PICK rc \in ResultCodes :
        stat' = rpc_count_replied(stat, Head(in_flight).op, rc)
  BY DEF CountsAnswer
<1> DEFINE h == Head(in_flight).op
<1>2. /\ in_flight # <<>> /\ in_flight' = Tail(in_flight) /\ dropped' = dropped
      /\ in_flight \in Seq(RequestMsg) /\ Tail(in_flight) \in Seq(RequestMsg)
      /\ h \in RequestOp
  BY InFlightFacts DEF CountsAnswer, TypeOK, CacheTypeOK, RequestMsg, ObjectMsg,
     ConnectMsg, RequestOp
<1>f. /\ stat' \in Stat
      /\ stat'.sent = stat.sent /\ stat'.tx_ok = stat.tx_ok
      /\ stat'.control_tx = stat.control_tx
      /\ stat'.replied[h] = Plus(stat.replied[h], 1)
      /\ \A o \in ResultCodes :
           stat'.rescode[h][o] = IF o = rc THEN Plus(stat.rescode[h][o], 1)
                                 ELSE stat.rescode[h][o]
      /\ \A p \in RequestOp \ {h} :
           stat'.replied[p] = stat.replied[p] /\ stat'.rescode[p] = stat.rescode[p]
  BY <1>0, <1>1, <1>2, RepliedFields
<1>3. StatTypeOK'
  BY <1>0, <1>2, <1>f DEF StatTypeOK
<1>4. ASSUME NEW op \in RequestOp PROVE SentAdds(op)' /\ RepliedAdds(op)'
  <2>0. SentAdds(op) /\ RepliedAdds(op)
    BY AccountedMeans DEF StatsInv
  <2> DEFINE n == Count(in_flight', op)
             d == dropped[op]
             r == stat.replied[op]
  <2>2. n \in Nat /\ d \in Nat /\ r \in Nat /\ n + d \in Nat
    <3>1. \A q \in Seq(RequestMsg) : Count(q, op) \in Nat
      BY HoldingFinite
    <3>2. n \in Nat
      BY <1>2, <3>1, Zenon
    <3>3. d \in Nat /\ r \in Nat
      BY CountedFacts DEF StatsInv
    <3> HIDE DEF n, d, r
    <3> QED
      BY <3>2, <3>3
  <2>3. CASE op = h
    <3>1. Count(in_flight, op) = n + 1
      BY <1>2, <2>3, CountTail DEF One
    <3>2. stat.sent[op] = Plus(r, (n + 1) + d)
      BY <2>0, <3>1 DEF SentAdds
    <3>3. stat'.sent[op] = stat.sent[op] /\ stat'.replied[op] = Plus(r, 1)
      BY <1>f, <2>3
    <3> HIDE DEF n, d, r
    <3>4. Plus(Plus(r, 1), n + d) = Plus(r, (n + 1) + d)
      <4>1. Plus(Plus(r, 1), n + d) = Plus(r, 1 + (n + d))
        BY <2>2, PlusFacts
      <4>2. 1 + (n + d) = (n + 1) + d
        BY <2>2
      <4> QED
        BY <4>1, <4>2, Zenon
    <3>5. SentAdds(op)'
      BY <1>2, <3>2, <3>3, <3>4, Zenon DEF SentAdds, n, d
    <3>6. RepliedAdds(op)'
      <4> DEFINE k == stat.rescode[op]["Ok"]
                 f == stat.rescode[op]["Failure"]
                 u == stat.rescode[op]["unk_err"]
      <4>1. k \in Nat /\ f \in Nat /\ u \in Nat
        BY CountedFacts DEF StatsInv, ResultCodes
      <4>2. r = Plus(k, f + u)
        BY <2>0 DEF RepliedAdds, r
      <4> HIDE DEF k, f, u
      <4>3. stat'.replied[op] = Plus(k, (f + u) + 1)
        <5>1. Plus(Plus(k, f + u), 1) = Plus(k, (f + u) + 1)
          BY <4>1, PlusPlus
        <5> QED
          BY <3>3, <4>2, <5>1, Zenon
      <4>4. Plus(k, 1) \in Nat /\ Plus(f, 1) \in Nat /\ Plus(u, 1) \in Nat
        BY <4>1, PlusFacts
      <4>5. CASE rc = "Ok"
        <5>1. /\ stat'.rescode[op]["Ok"] = Plus(k, 1)
              /\ stat'.rescode[op]["Failure"] = f /\ stat'.rescode[op]["unk_err"] = u
          BY <1>f, <2>3, <4>5 DEF ResultCodes, k, f, u
        <5>2. Plus(Plus(k, 1), f + u) = Plus(k, 1 + (f + u))
          BY <4>1, PlusFacts
        <5>3. 1 + (f + u) = (f + u) + 1
          BY <4>1
        <5> QED
          BY <4>3, <5>1, <5>2, <5>3 DEF RepliedAdds
      <4>6. CASE rc = "Failure"
        <5>1. /\ stat'.rescode[op]["Ok"] = k
              /\ stat'.rescode[op]["Failure"] = Plus(f, 1)
              /\ stat'.rescode[op]["unk_err"] = u
          BY <1>f, <2>3, <4>6 DEF ResultCodes, k, f, u
        <5>2. Plus(k, Plus(f, 1) + u) = Plus(Plus(f, 1), k + u)
          BY <4>1, <4>4, PlusFacts
        <5>3. Plus(Plus(f, 1), k + u) = Plus(f, 1 + (k + u))
          BY <4>1, PlusFacts
        <5>4. Plus(f, 1 + (k + u)) = Plus(k, (f + u) + 1)
          BY <4>1, PlusFacts
        <5> QED
          BY <4>3, <5>1, <5>2, <5>3, <5>4 DEF RepliedAdds
      <4>7. CASE rc = "unk_err"
        <5>1. /\ stat'.rescode[op]["Ok"] = k
              /\ stat'.rescode[op]["Failure"] = f
              /\ stat'.rescode[op]["unk_err"] = Plus(u, 1)
          BY <1>f, <2>3, <4>7 DEF ResultCodes, k, f, u
        <5>2. Plus(k, f + Plus(u, 1)) = Plus(Plus(u, 1), k + f)
          BY <4>1, <4>4, PlusFacts
        <5>3. Plus(Plus(u, 1), k + f) = Plus(u, 1 + (k + f))
          BY <4>1, PlusFacts
        <5>4. Plus(u, 1 + (k + f)) = Plus(k, (f + u) + 1)
          BY <4>1, PlusFacts
        <5> QED
          BY <4>3, <5>1, <5>2, <5>3, <5>4 DEF RepliedAdds
      <4> QED
        BY <4>5, <4>6, <4>7 DEF ResultCodes
    <3> QED
      BY <3>5, <3>6
  <2>4. CASE op # h
    <3>1. Count(in_flight, op) = n
      BY <1>2, <2>2, <2>4, CountTail DEF One
    <3> QED
      BY <1>2, <1>f, <2>0, <2>4, <3>1 DEF SentAdds, RepliedAdds
  <2> QED
    BY <2>3, <2>4
<1>5. RequestsAccounted'
  BY <1>4 DEF RequestsAccounted, SentAdds, RepliedAdds, Count, Holding
<1>6. TxAccounted'
  BY <1>f DEF StatsInv, TxAccounted
<1> QED
  BY <1>3, <1>5, <1>6 DEF StatsInv

LEMMA DropCounted ==
  ASSUME TypeOK, StatsInv, CountsDropped
  PROVE  StatsInv'
<1>0. stat \in Stat /\ dropped \in [RequestOp -> Counter] /\ stat' = stat
  BY DEF StatsInv, StatTypeOK, CountsDropped
<1>1. in_flight \in Seq(RequestMsg)
  BY DEF TypeOK, CacheTypeOK
<1>2. PICK list \in Seq(RequestMsg) :
        /\ Drop(list)
        /\ in_flight' \in Seq(RequestMsg)
        /\ \A op : Count(in_flight, op) = Count(in_flight', op) + Count(list, op)
  <2>1. CASE in_flight # <<>> /\ in_flight' = Tail(in_flight) /\ Drop(<<Head(in_flight)>>)
    <3>1. Head(in_flight) \in RequestMsg /\ Tail(in_flight) \in Seq(RequestMsg)
      BY <2>1, InFlightFacts DEF TypeOK
    <3>2. <<Head(in_flight)>> \in Seq(RequestMsg)
      BY <3>1
    <3>3. \A op : /\ Count(in_flight, op) = Count(Tail(in_flight), op) + One(Head(in_flight), op)
                  /\ Count(<<Head(in_flight)>>, op) = One(Head(in_flight), op)
      BY <1>1, <2>1, CountTail, CountOne
    <3> QED
      BY <2>1, <3>1, <3>2, <3>3
  <2>2. CASE in_flight' = <<>> /\ Drop(in_flight)
    <3>1. \A op : Count(<<>>, op) = 0 /\ Count(in_flight, op) \in Nat
      BY <1>1, CountEmpty, HoldingFinite
    <3>2. <<>> \in Seq(RequestMsg)
      OBVIOUS
    <3>3. \A op : Count(in_flight, op) = Count(in_flight', op) + Count(in_flight, op)
      BY <2>2, <3>1
    <3> QED
      BY <1>1, <2>2, <3>2, <3>3
  <2> QED
    BY <2>1, <2>2 DEF CountsDropped
<1>3. \A op \in RequestOp : /\ Count(in_flight', op) \in Nat /\ Count(list, op) \in Nat
                            /\ dropped[op] \in Nat
  BY <1>0, <1>2, HoldingFinite, PlusFacts
<1>4. dropped' = [op \in RequestOp |-> Plus(dropped[op], Count(list, op))]
  BY <1>2 DEF Drop, Count, Holding
<1>5. StatTypeOK'
  BY <1>0, <1>3, <1>4, PlusFacts DEF StatTypeOK
<1>6. ASSUME NEW op \in RequestOp PROVE SentAdds(op)' /\ RepliedAdds(op)'
  <2>0. SentAdds(op) /\ RepliedAdds(op)
    BY AccountedMeans DEF StatsInv
  <2> DEFINE n == Count(in_flight', op)
             k == Count(list, op)
             d == dropped[op]
             r == stat.replied[op]
  <2>1. n \in Nat /\ k \in Nat /\ d \in Nat /\ r \in Nat
    BY <1>3, CountedFacts DEF StatsInv
  <2>2. stat.sent[op] = Plus(r, (n + k) + d)
    BY <1>2, <2>0 DEF SentAdds
  <2>3. dropped'[op] = Plus(d, k)
    BY <1>4
  <2> HIDE DEF n, k, d, r
  <2>4. Plus(r, n + Plus(d, k)) = Plus(r, (n + k) + d)
    <3>1. (n + d) + k = (n + k) + d
      BY <2>1
    <3>2. Plus(r, n + Plus(d, k)) = Plus(r, (n + d) + k)
      BY <2>1, PlusInside
    <3> QED
      BY <3>1, <3>2, Zenon
  <2>5. SentAdds(op)'
    BY <1>0, <2>2, <2>3, <2>4 DEF SentAdds, n, r
  <2>6. RepliedAdds(op)'
    BY <1>0, <2>0 DEF RepliedAdds
  <2> QED
    BY <2>5, <2>6
<1>7. RequestsAccounted'
  BY <1>6 DEF RequestsAccounted, SentAdds, RepliedAdds, Count, Holding
<1>8. TxAccounted'
  BY <1>0 DEF StatsInv, TxAccounted
<1> QED
  BY <1>5, <1>7, <1>8 DEF StatsInv

LEMMA NothingCounted ==
  ASSUME StatsInv, CountsNothing
  PROVE  StatsInv'
BY DEF StatsInv, StatTypeOK, RequestsAccounted, TxAccounted, CountsNothing

(***************************************************************************)
(* The counters stay below their width and add up, by induction over the   *)
(* steps of StatsNext (hh_dp_rpc_stats.c).                                 *)
(***************************************************************************)
THEOREM StatsInvariant == StatsSpec => []StatsInv
<1>1. StatsInit => StatsInv
  BY StatsInitially
<1>2. TypeOK /\ StatsInv /\ [StatsNext]_statsVars => StatsInv'
  BY CountingSteps, SentCounted, AnswerCounted, DropCounted, NothingCounted
<1> QED
  BY <1>1, <1>2, StatsImplementPlugin, TypeCorrect, PTL DEF StatsSpec

(***************************************************************************)
(* The counters of hh_dp_rpc_stats.c add up for every width: what was sent *)
(* and not replied is in flight or was dropped, and every reply has one    *)
(* result (hh_dp_rpc_stats.h:11-24).                                       *)
(***************************************************************************)
THEOREM RequestsAlwaysAccounted == StatsSpec => []RequestsAccounted
BY StatsInvariant, PTL DEF StatsInv

(***************************************************************************)
(* Every datagram sent is counted once as a request or as a Control.       *)
(***************************************************************************)
THEOREM TxAlwaysAccounted == StatsSpec => []TxAccounted
BY StatsInvariant, PTL DEF StatsInv
=============================================================================
