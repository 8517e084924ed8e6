---------------------------- MODULE CtxFlowProofs ----------------------------
(***************************************************************************)
(* Proofs about the promise to zebra: a context has exactly one owner, and *)
(* requests stay in order.                                                 *)
(***************************************************************************)
EXTENDS CtxFlow, SequenceTheorems, TLAPS

(***************************************************************************)
(* The operations on lists that the steps are made of.                     *)
(***************************************************************************)
LEMMA AppendElements ==
  ASSUME NEW S, NEW s \in Seq(S), NEW m \in S
  PROVE  /\ Append(s, m) \in Seq(S)
         /\ DOMAIN Append(s, m) = 1..(Len(s) + 1)
         /\ \A i \in 1..Len(s) : Append(s, m)[i] = s[i]
         /\ Append(s, m)[Len(s) + 1] = m
         /\ DOMAIN s = 1..Len(s) /\ Len(s) \in Nat
BY AppendProperties, LenProperties

LEMMA TailElements ==
  ASSUME NEW S, NEW s \in Seq(S), s # <<>>
  PROVE  /\ Tail(s) \in Seq(S)
         /\ Head(s) = s[1] /\ s[1] \in S
         /\ Len(s) \in Nat \ {0}
         /\ DOMAIN s = 1..Len(s)
         /\ DOMAIN Tail(s) = 1..(Len(s) - 1)
         /\ \A i \in 1..(Len(s) - 1) : Tail(s)[i] = s[i + 1]
BY HeadTailProperties, LenProperties, EmptySeq

\* What the messages of a list are.
LEMMA MsgForms ==
  ASSUME NoCtx \notin Ctx
  PROVE  /\ \A m \in Msg : /\ m.op = "Object" => m.ctx \in Ctx /\ m.seqn \in Nat
                           /\ m.op # "Object" => m.ctx = NoCtx
         /\ \A m \in Msg : m.ctx # NoCtx => m.op = "Object" /\ m.ctx \in Ctx
         /\ UnsentMsg \subseteq Msg /\ RequestMsg \subseteq Msg
         /\ \A m \in UnsentMsg : IsRequest(m) <=> m.op = "Object"
         /\ \A m \in UnsentMsg : IsRequest(m) => m \in RequestMsg
         /\ ConnectMsg \in RequestMsg /\ ConnectMsg.op # "Object"
         /\ ConnectMsg.ctx = NoCtx
         /\ \A m \in {KeepaliveMsg, RefreshMsg} :
              m \in UnsentMsg /\ m.op # "Object" /\ m.ctx = NoCtx
BY DEF Msg, RequestMsg, UnsentMsg, ObjectMsg, ConnectMsg, KeepaliveMsg,
  RefreshMsg, IsRequest, RequestOp

LEMMA CtxsOfAppend ==
  ASSUME NEW S, NEW s \in Seq(S), NEW m \in S
  PROVE  CtxsOf(Append(s, m)) = CtxsOf(s) \cup ({m.ctx} \ {NoCtx})
BY AppendElements DEF CtxsOf

LEMMA CtxsOfTail ==
  ASSUME NEW S, NEW s \in Seq(S), s # <<>>
  PROVE  CtxsOf(s) = CtxsOf(Tail(s)) \cup ({Head(s).ctx} \ {NoCtx})
<1> USE TailElements DEF CtxsOf
<1>1. CtxsOf(Tail(s)) \cup ({Head(s).ctx} \ {NoCtx}) \subseteq CtxsOf(s)
  OBVIOUS
<1>2. ASSUME NEW i \in DOMAIN s, s[i].ctx # NoCtx
      PROVE  s[i].ctx \in CtxsOf(Tail(s)) \cup ({Head(s).ctx} \ {NoCtx})
  <2>1. CASE i = 1
    BY <1>2, <2>1
  <2>2. CASE i # 1
    <3>1. i - 1 \in DOMAIN Tail(s) /\ Tail(s)[i - 1] = s[i]
      BY <2>2
    <3> QED
      BY <1>2, <3>1
  <2> QED
    BY <2>1, <2>2
<1> QED
  BY <1>1, <1>2

LEMMA TwiceAppend ==
  ASSUME NEW S, NEW s \in Seq(S), NEW m \in S, NoCtxTwice(s),
         m.ctx = NoCtx \/ m.ctx \notin CtxsOf(s)
  PROVE  NoCtxTwice(Append(s, m))
BY AppendElements DEF NoCtxTwice, CtxsOf

LEMMA TwiceTail ==
  ASSUME NEW S, NEW s \in Seq(S), s # <<>>, NoCtxTwice(s)
  PROVE  /\ NoCtxTwice(Tail(s))
         /\ Head(s).ctx # NoCtx => Head(s).ctx \notin CtxsOf(Tail(s))
<1> USE TailElements
<1>1. NoCtxTwice(Tail(s))
  BY DEF NoCtxTwice
<1>2. ASSUME Head(s).ctx # NoCtx, Head(s).ctx \in CtxsOf(Tail(s)) PROVE FALSE
  <2>1. PICK i \in DOMAIN Tail(s) : Tail(s)[i].ctx = Head(s).ctx
    BY <1>2 DEF CtxsOf
  <2>2. i + 1 \in DOMAIN s /\ 1 \in DOMAIN s /\ s[i + 1].ctx = s[1].ctx
    BY <2>1
  <2> QED
    BY <1>2, <2>2 DEF NoCtxTwice
<1> QED
  BY <1>1, <1>2

LEMMA AnsweredAppend ==
  ASSUME out \in Seq(Ctx \X Results), NEW c \in Ctx, NEW res \in Results,
         out' = Append(out, <<c, res>>)
  PROVE  /\ Answered' = Answered \cup {c}
         /\ AnsweredOnce /\ c \notin Answered => AnsweredOnce'
<1>1. \A i \in 1..Len(out) : Append(out, <<c, res>>)[i] = out[i]
  BY AppendElements
<1>2. /\ Append(out, <<c, res>>)[Len(out) + 1] = <<c, res>>
      /\ DOMAIN Append(out, <<c, res>>) = 1..(Len(out) + 1)
      /\ DOMAIN out = 1..Len(out) /\ Len(out) \in Nat
  BY AppendElements
<1> QED
  BY <1>1, <1>2 DEF Answered, AnsweredOnce

LEMMA CtxsOfType ==
  ASSUME NEW s, s \in Seq(Msg), NoCtx \notin Ctx
  PROVE  CtxsOf(s) \subseteq Ctx
<1> SUFFICES ASSUME NEW i \in DOMAIN s, s[i].ctx # NoCtx PROVE s[i].ctx \in Ctx
  BY DEF CtxsOf
<1>1. s[i] \in Msg
  BY ElementOfSeq, LenProperties
<1> QED
  BY <1>1, MsgForms

LEMMA SeqTypes ==
  ASSUME NEW s
  PROVE  /\ s \in Seq(UnsentMsg) => s \in Seq(Msg)
         /\ s \in Seq(RequestMsg) => s \in Seq(Msg)
BY DEF Msg

LEMMA EmptyLists ==
  /\ CtxsOf(<<>>) = {}
  /\ NoCtxTwice(<<>>)
  /\ Objects(<<>>) = {}
BY DEF CtxsOf, NoCtxTwice, Objects

-----------------------------------------------------------------------------
LEMMA FlowInit ==
  ASSUME NoCtx \notin Ctx, Init
  PROVE  FlowTypeOK /\ OwnedOnce /\ InOrder
<1> USE DEF Init
<1>1. FlowTypeOK
  BY DEF FlowTypeOK
<1>2. Answered = {} /\ AnsweredOnce
  BY DEF Answered, AnsweredOnce
<1>3. OwnedOnce
  BY <1>2, EmptyLists DEF OwnedOnce, OneOwner, NoneForgotten, Apart
<1>4. InOrder
  BY EmptyLists DEF InOrder, Ordered, Below
<1> QED
  BY <1>1, <1>3, <1>4

LEMMA FlowTypeStep ==
  ASSUME NoCtx \notin Ctx, FlowTypeOK, Next
  PROVE  FlowTypeOK'
<1> USE DEF FlowTypeOK
<1>1. ASSUME NEW c \in Ctx, Accept(c) PROVE FlowTypeOK'
  <2>1. [op |-> "Object", seqn |-> seqnum, ctx |-> c] \in UnsentMsg
    BY DEF UnsentMsg, ObjectMsg
  <2> QED
    BY <1>1, <2>1, AppendProperties DEF Accept
<1>2. ASSUME NEW c \in Ctx, NEW res \in Results, AnswerAtOnce(c, res)
      PROVE  FlowTypeOK'
  BY <1>2, AppendProperties DEF AnswerAtOnce
<1>3. ASSUME NEW m \in {KeepaliveMsg, RefreshMsg}, QueueControl(m)
      PROVE  FlowTypeOK'
  <2>1. m \in UnsentMsg
    BY DEF UnsentMsg
  <2> QED
    BY <1>3, <2>1, AppendProperties DEF QueueControl
<1>4. CASE Send
  <2>1. Head(unsent) \in UnsentMsg /\ Tail(unsent) \in Seq(UnsentMsg)
    BY <1>4, HeadTailProperties DEF Send
  <2>2. IsRequest(Head(unsent)) => Head(unsent) \in RequestMsg
    BY <2>1, MsgForms
  <2> QED
    BY <1>4, <2>1, <2>2, AppendProperties DEF Send
<1>5. CASE SendConnect
  BY <1>5, MsgForms, AppendProperties DEF SendConnect
<1>6. ASSUME in_flight # <<>>
      PROVE  /\ Tail(in_flight) \in Seq(RequestMsg)
             /\ Head(in_flight).ctx # NoCtx => Head(in_flight).ctx \in Ctx
  BY <1>6, HeadTailProperties, MsgForms
<1>7. ASSUME NEW res \in Results, Respond(res) PROVE FlowTypeOK'
  BY <1>6, <1>7, AppendProperties DEF Respond
<1>8. CASE RespondConnect
  BY <1>6, <1>8 DEF RespondConnect
<1>9. CASE Mismatch
  BY <1>6, <1>9 DEF Mismatch
<1>10. CASE Stop
  BY <1>10, CtxsOfType, SeqTypes DEF Stop
<1> QED
  BY <1>1, <1>2, <1>3, <1>4, <1>5, <1>7, <1>8, <1>9, <1>10 DEF Next

(***************************************************************************)
(* Every step moves at most one context, from one owner to another.        *)
(***************************************************************************)
LEMMA OwnedStep ==
  ASSUME NoCtx \notin Ctx, FlowTypeOK, OwnedOnce, Next
  PROVE  OwnedOnce'
<1> DEFINE U == CtxsOf(unsent)
           F == CtxsOf(in_flight)
<1> USE DEF OwnedOnce
<1>t. /\ unsent \in Seq(UnsentMsg) /\ in_flight \in Seq(RequestMsg)
      /\ out \in Seq(Ctx \X Results)
  BY DEF FlowTypeOK
<1>u. ASSUME NEW m \in UnsentMsg, unsent' = Append(unsent, m),
             m.ctx \notin U
      PROVE  CtxsOf(unsent)' = U \cup ({m.ctx} \ {NoCtx}) /\ NoCtxTwice(unsent)'
  BY <1>t, <1>u, CtxsOfAppend, TwiceAppend
<1>f. ASSUME NEW m \in RequestMsg, in_flight' = Append(in_flight, m),
             m.ctx \notin F
      PROVE  CtxsOf(in_flight)' = F \cup ({m.ctx} \ {NoCtx})
             /\ NoCtxTwice(in_flight)'
  BY <1>t, <1>f, CtxsOfAppend, TwiceAppend
<1>n. NoCtx \notin U /\ NoCtx \notin F
  BY DEF CtxsOf
<1>d. ASSUME in_flight # <<>>, in_flight' = Tail(in_flight)
      PROVE  /\ F = CtxsOf(in_flight)' \cup ({Head(in_flight).ctx} \ {NoCtx})
             /\ Head(in_flight).ctx \notin CtxsOf(in_flight)'
             /\ NoCtxTwice(in_flight)'
             /\ Head(in_flight).ctx # NoCtx => Head(in_flight).ctx \in Ctx
  <2>1. Head(in_flight) \in RequestMsg
    BY <1>d, <1>t, HeadTailProperties
  <2>2. NoCtx \notin CtxsOf(Tail(in_flight))
    BY DEF CtxsOf
  <2> QED
    BY <1>t, <1>d, <2>1, <2>2, CtxsOfTail, TwiceTail, MsgForms
<1>1. ASSUME NEW c \in Ctx, Accept(c) PROVE OwnedOnce'
  <2> DEFINE m == [op |-> "Object", seqn |-> seqnum, ctx |-> c]
  <2>1. m \in UnsentMsg /\ m.ctx = c
    BY DEF UnsentMsg, ObjectMsg, FlowTypeOK
  <2>2. c \notin U /\ c # NoCtx
    BY <1>1 DEF Accept, OneOwner, Apart
  <2>3. CtxsOf(unsent)' = U \cup {c} /\ NoCtxTwice(unsent)'
    BY <1>1, <1>u, <2>1, <2>2 DEF Accept
  <2>4. Answered' = Answered /\ AnsweredOnce'
    BY <1>1 DEF Accept, Answered, AnsweredOnce
  <2> QED
    BY <1>1, <2>3, <2>4 DEF Accept, OneOwner, NoneForgotten, Apart
<1>2. ASSUME NEW c \in Ctx, NEW res \in Results, AnswerAtOnce(c, res)
      PROVE  OwnedOnce'
  <2>1. c \notin Answered
    BY <1>2 DEF AnswerAtOnce, OneOwner, Apart
  <2>2. Answered' = Answered \cup {c} /\ AnsweredOnce'
    BY <1>2, <1>t, <2>1, AnsweredAppend DEF AnswerAtOnce
  <2> QED
    BY <1>2, <2>2 DEF AnswerAtOnce, OneOwner, NoneForgotten, Apart
<1>3. ASSUME NEW m \in {KeepaliveMsg, RefreshMsg}, QueueControl(m)
      PROVE  OwnedOnce'
  <2>1. m \in UnsentMsg /\ m.ctx = NoCtx
    BY MsgForms
  <2>2. CtxsOf(unsent)' = U /\ NoCtxTwice(unsent)'
    BY <1>3, <1>u, <1>n, <2>1 DEF QueueControl
  <2>3. Answered' = Answered /\ AnsweredOnce'
    BY <1>3 DEF QueueControl, Answered, AnsweredOnce
  <2> QED
    BY <1>3, <2>2, <2>3 DEF QueueControl, OneOwner, NoneForgotten, Apart
<1>4. CASE Send
  <2> DEFINE m == Head(unsent)
  <2>1. /\ U = CtxsOf(unsent)' \cup ({m.ctx} \ {NoCtx})
        /\ NoCtxTwice(unsent)'
        /\ m.ctx \notin CtxsOf(unsent)'
    <3>1. NoCtx \notin CtxsOf(Tail(unsent))
      BY DEF CtxsOf
    <3> QED
      BY <1>4, <1>t, <3>1, CtxsOfTail, TwiceTail DEF Send
  <2>2. m \in UnsentMsg
    BY <1>4, <1>t, HeadTailProperties DEF Send
  <2>3. m.ctx \notin F
    BY <2>1, <1>n DEF OneOwner, Apart
  <2>4. /\ CtxsOf(in_flight)' = F \cup ({m.ctx} \ {NoCtx})
        /\ NoCtxTwice(in_flight)'
    <3>1. CASE IsRequest(m)
      BY <1>4, <1>f, <2>2, <2>3, <3>1, MsgForms DEF Send
    <3>2. CASE ~IsRequest(m)
      BY <1>4, <2>2, <3>2, MsgForms DEF Send
    <3> QED
      BY <3>1, <3>2
  <2>5. Answered' = Answered /\ AnsweredOnce'
    BY <1>4 DEF Send, Answered, AnsweredOnce
  <2> QED
    BY <1>4, <2>1, <2>4, <2>5 DEF Send, OneOwner, NoneForgotten, Apart
<1>5. CASE SendConnect
  <2>1. CtxsOf(in_flight)' = F /\ NoCtxTwice(in_flight)'
    BY <1>5, <1>f, <1>n, MsgForms DEF SendConnect
  <2>2. Answered' = Answered /\ AnsweredOnce'
    BY <1>5 DEF SendConnect, Answered, AnsweredOnce
  <2> QED
    BY <1>5, <2>1, <2>2 DEF SendConnect, OneOwner, NoneForgotten, Apart
<1>6. ASSUME NEW res \in Results, Respond(res) PROVE OwnedOnce'
  <2> DEFINE c == Head(in_flight).ctx
  <2>1. c \in Ctx /\ F = CtxsOf(in_flight)' \cup {c}
        /\ c \notin CtxsOf(in_flight)' /\ NoCtxTwice(in_flight)'
    BY <1>6, <1>d DEF Respond
  <2>2. c \notin Answered
    BY <2>1 DEF OneOwner, Apart
  <2>3. Answered' = Answered \cup {c} /\ AnsweredOnce'
    BY <1>6, <1>t, <2>1, <2>2, AnsweredAppend DEF Respond
  <2> QED
    BY <1>6, <2>1, <2>3 DEF Respond, OneOwner, NoneForgotten, Apart
<1>7. CASE RespondConnect
  <2>1. F = CtxsOf(in_flight)' /\ NoCtxTwice(in_flight)'
    BY <1>7, <1>d DEF RespondConnect
  <2>2. Answered' = Answered /\ AnsweredOnce'
    BY <1>7 DEF RespondConnect, Answered, AnsweredOnce
  <2> QED
    BY <1>7, <2>1, <2>2 DEF RespondConnect, OneOwner, NoneForgotten, Apart
<1>8. CASE Mismatch
  <2> DEFINE c == Head(in_flight).ctx
  <2>1. c \in Ctx /\ F = CtxsOf(in_flight)' \cup {c}
        /\ c \notin CtxsOf(in_flight)' /\ NoCtxTwice(in_flight)'
    BY <1>8, <1>d DEF Mismatch
  <2>2. Answered' = Answered /\ AnsweredOnce'
    BY <1>8 DEF Mismatch, Answered, AnsweredOnce
  <2> QED
    BY <1>8, <2>1, <2>2 DEF Mismatch, OneOwner, NoneForgotten, Apart
<1>9. CASE Stop
  <2>1. /\ CtxsOf(unsent)' = {} /\ CtxsOf(in_flight)' = {}
        /\ NoCtxTwice(unsent)' /\ NoCtxTwice(in_flight)'
    BY <1>9, EmptyLists DEF Stop
  <2>2. Answered' = Answered /\ AnsweredOnce'
    BY <1>9 DEF Stop, Answered, AnsweredOnce
  <2> QED
    BY <1>9, <2>1, <2>2 DEF Stop, OneOwner, NoneForgotten, Apart
<1> QED
  BY <1>1, <1>2, <1>3, <1>4, <1>5, <1>6, <1>7, <1>8, <1>9 DEF Next

-----------------------------------------------------------------------------
LEMMA OrderedAppend ==
  ASSUME NEW s \in Seq(Msg), NEW m \in Msg, Ordered(s),
         m.op = "Object" => Below(s, m.seqn)
  PROVE  Ordered(Append(s, m))
BY AppendElements DEF Ordered, Below, Objects

LEMMA BelowAppend ==
  ASSUME NEW s \in Seq(Msg), NEW m \in Msg, NEW n, Below(s, n),
         m.op = "Object" => m.seqn < n
  PROVE  Below(Append(s, m), n)
BY AppendElements DEF Below, Objects

LEMMA OrderedTail ==
  ASSUME NEW s \in Seq(Msg), s # <<>>, Ordered(s)
  PROVE  /\ Ordered(Tail(s))
         /\ Head(s).op = "Object" =>
              \A i \in Objects(Tail(s)) : Head(s).seqn < Tail(s)[i].seqn
<1>1. \A i \in Objects(Tail(s)) : i + 1 \in Objects(s)
                                 /\ Tail(s)[i] = s[i + 1] /\ i \in Nat \ {0}
  BY TailElements DEF Objects
<1>2. ASSUME NEW i \in Objects(Tail(s)), NEW j \in Objects(Tail(s)), i < j
      PROVE  Tail(s)[i].seqn < Tail(s)[j].seqn
  <2>1. i + 1 \in Objects(s) /\ j + 1 \in Objects(s) /\ i + 1 < j + 1
    BY <1>1, <1>2
  <2>2. s[i + 1].seqn < s[j + 1].seqn
    BY <2>1 DEF Ordered
  <2> QED
    BY <1>1, <2>2
<1>3. Head(s).op = "Object" => 1 \in Objects(s) /\ Head(s) = s[1]
  BY TailElements DEF Objects
<1>4. ASSUME Head(s).op = "Object", NEW i \in Objects(Tail(s))
      PROVE  Head(s).seqn < Tail(s)[i].seqn
  <2>1. i + 1 \in Objects(s) /\ 1 < i + 1
    BY <1>1
  <2>2. s[1].seqn < s[i + 1].seqn
    BY <1>3, <1>4, <2>1 DEF Ordered
  <2> QED
    BY <1>1, <1>3, <1>4, <2>2
<1>5. Ordered(Tail(s))
  BY <1>2 DEF Ordered
<1> QED
  BY <1>4, <1>5

LEMMA BelowTail ==
  ASSUME NEW s \in Seq(Msg), s # <<>>, NEW n, Below(s, n)
  PROVE  /\ Below(Tail(s), n)
         /\ Head(s).op = "Object" => Head(s).seqn < n
BY TailElements DEF Objects, Below

LEMMA BelowNext ==
  ASSUME NoCtx \notin Ctx, NEW s \in Seq(Msg), NEW n \in Nat, Below(s, n)
  PROVE  Below(s, n + 1)
<1> SUFFICES ASSUME NEW i \in Objects(s) PROVE s[i].seqn < n + 1
  BY DEF Below
<1>1. s[i] \in Msg /\ s[i].op = "Object"
  BY LenProperties DEF Objects
<1> QED
  BY <1>1, MsgForms DEF Below

LEMMA ObjectsTail ==
  ASSUME NEW s \in Seq(Msg), s # <<>>
  PROVE  \A i \in Objects(Tail(s)) :
           \E j \in Objects(s) : Tail(s)[i] = s[j]
<1> TAKE i \in Objects(Tail(s))
<1>1. i + 1 \in Objects(s) /\ Tail(s)[i] = s[i + 1]
  BY TailElements DEF Objects
<1> QED
  BY <1>1

\* The oldest unsent request goes behind all that are in flight.
LEMMA OrderSend ==
  ASSUME NoCtx \notin Ctx, FlowTypeOK, InOrder, Send
  PROVE  InOrder'
<1> DEFINE m == Head(unsent)
<1>t. /\ unsent \in Seq(Msg) /\ in_flight \in Seq(Msg) /\ seqnum \in Nat
      /\ unsent # <<>> /\ m \in UnsentMsg /\ m \in Msg
  BY HeadTailProperties, SeqTypes, MsgForms DEF FlowTypeOK, Send
<1>1. /\ Ordered(unsent)' /\ Below(unsent, seqnum)'
      /\ m.op = "Object" => m.seqn < seqnum
  BY <1>t, OrderedTail, BelowTail DEF InOrder, Send
<1>2. CASE ~IsRequest(m)
  <2>1. in_flight' = in_flight /\ unsent' = Tail(unsent) /\ seqnum' = seqnum
    BY <1>2 DEF Send
  <2> QED
    BY <1>t, <1>1, <2>1, ObjectsTail DEF InOrder
<1>3. CASE IsRequest(m)
  <2>1. m.op = "Object"
    BY <1>t, <1>3, MsgForms
  <2>2. /\ in_flight' = Append(in_flight, m) /\ unsent' = Tail(unsent)
        /\ seqnum' = seqnum
    BY <1>3 DEF Send
  <2>3. 1 \in Objects(unsent) /\ unsent[1] = m
    BY <1>t, <2>1, TailElements DEF Objects
  <2>4. Below(in_flight, m.seqn)
    BY <2>3 DEF InOrder
  <2>5. Ordered(in_flight)'
    BY <1>t, <2>2, <2>4, OrderedAppend DEF InOrder
  <2>6. Below(in_flight, seqnum)'
    BY <1>t, <1>1, <2>2, BelowAppend DEF InOrder
  <2>7. ASSUME NEW j \in Objects(Tail(unsent))
        PROVE  Below(Append(in_flight, m), Tail(unsent)[j].seqn)
    <3>1. Below(in_flight, Tail(unsent)[j].seqn)
      BY <1>t, ObjectsTail DEF InOrder
    <3>2. m.seqn < Tail(unsent)[j].seqn
      BY <1>t, <2>1, OrderedTail DEF InOrder
    <3> QED
      BY <1>t, <3>1, <3>2, BelowAppend
  <2> QED
    BY <1>1, <2>2, <2>5, <2>6, <2>7 DEF InOrder
<1> QED
  BY <1>2, <1>3

LEMMA OrderStep ==
  ASSUME NoCtx \notin Ctx, FlowTypeOK, InOrder, Next
  PROVE  InOrder'
<1>t. /\ unsent \in Seq(Msg) /\ in_flight \in Seq(Msg) /\ seqnum \in Nat
  BY SeqTypes DEF FlowTypeOK
<1>a. ASSUME UNCHANGED <<seqnum, unsent, in_flight>> PROVE InOrder'
  BY <1>a DEF InOrder
<1>d. ASSUME UNCHANGED <<seqnum, unsent>>, in_flight # <<>>,
             in_flight' = Tail(in_flight)
      PROVE  InOrder'
  BY <1>t, <1>d, OrderedTail, BelowTail DEF InOrder
<1>1. ASSUME NEW c \in Ctx, Accept(c) PROVE InOrder'
  <2> DEFINE m == [op |-> "Object", seqn |-> seqnum, ctx |-> c]
  <2>1. m \in Msg /\ m.seqn = seqnum
    BY <1>t DEF Msg, UnsentMsg, ObjectMsg
  <2>2. /\ unsent' = Append(unsent, m) /\ seqnum' = seqnum + 1
        /\ in_flight' = in_flight
    BY <1>1 DEF Accept
  <2>3. Ordered(unsent)'
    BY <1>t, <2>1, <2>2, OrderedAppend DEF InOrder
  <2>4. Below(unsent, seqnum + 1) /\ Below(in_flight, seqnum + 1)
    BY <1>t, BelowNext DEF InOrder
  <2>5. Below(Append(unsent, m), seqnum + 1)
    BY <1>t, <2>1, <2>4, BelowAppend
  <2>6. ASSUME NEW j \in Objects(Append(unsent, m))
        PROVE  Below(in_flight, Append(unsent, m)[j].seqn)
    <3>1. CASE j = Len(unsent) + 1
      BY <1>t, <2>1, <3>1, AppendElements DEF InOrder
    <3>2. CASE j # Len(unsent) + 1
      BY <1>t, <2>1, <3>2, AppendElements DEF InOrder, Objects
    <3> QED
      BY <3>1, <3>2
  <2> QED
    BY <2>2, <2>3, <2>4, <2>5, <2>6 DEF InOrder
<1>2. ASSUME NEW m \in {KeepaliveMsg, RefreshMsg}, QueueControl(m)
      PROVE  InOrder'
  <2>1. m \in Msg /\ m.op # "Object"
    BY MsgForms
  <2>2. /\ unsent' = Append(unsent, m) /\ seqnum' = seqnum
        /\ in_flight' = in_flight
    BY <1>2 DEF QueueControl
  <2>3. Ordered(unsent)' /\ Below(unsent, seqnum)'
    BY <1>t, <2>1, <2>2, OrderedAppend, BelowAppend DEF InOrder
  <2>4. \A j \in Objects(Append(unsent, m)) :
          j \in Objects(unsent) /\ Append(unsent, m)[j] = unsent[j]
    BY <1>t, <2>1, AppendElements DEF Objects
  <2> QED
    BY <2>2, <2>3, <2>4 DEF InOrder
<1>3. CASE SendConnect
  <2>1. ConnectMsg \in Msg /\ ConnectMsg.op # "Object"
    BY MsgForms
  <2>2. /\ in_flight' = Append(in_flight, ConnectMsg)
        /\ unsent' = unsent /\ seqnum' = seqnum
    BY <1>3 DEF SendConnect
  <2> QED
    BY <1>t, <2>1, <2>2, OrderedAppend, BelowAppend DEF InOrder
<1>4. CASE Stop
  BY <1>4, EmptyLists DEF Stop, InOrder, Ordered, Below
<1>5. ASSUME NEW c \in Ctx, NEW res \in Results, AnswerAtOnce(c, res)
      PROVE  InOrder'
  BY <1>5, <1>a DEF AnswerAtOnce
<1>6. ASSUME NEW res \in Results, Respond(res) PROVE InOrder'
  BY <1>6, <1>d DEF Respond
<1>7. CASE RespondConnect
  BY <1>7, <1>d DEF RespondConnect
<1>8. CASE Mismatch
  BY <1>8, <1>d DEF Mismatch
<1> QED
  BY <1>1, <1>2, <1>3, <1>4, <1>5, <1>6, <1>7, <1>8, OrderSend DEF Next

-----------------------------------------------------------------------------
(***************************************************************************)
(* The promise keeps every context with exactly one owner and every        *)
(* request in order.  OwnedOnce and InOrder are each inductive once the    *)
(* lists have their types.                                                 *)
(***************************************************************************)
THEOREM FlowInvariant ==
  ASSUME NoCtx \notin Ctx
  PROVE  Spec => [](FlowTypeOK /\ OwnedOnce /\ InOrder)
<1> DEFINE Inv == FlowTypeOK /\ OwnedOnce /\ InOrder
<1>1. Init => Inv
  BY FlowInit
<1>2. Inv /\ [Next]_flowVars => Inv'
  <2> SUFFICES ASSUME Inv, [Next]_flowVars PROVE Inv'
    OBVIOUS
  <2>1. CASE Next
    BY <2>1, FlowTypeStep, OwnedStep, OrderStep
  <2>2. CASE UNCHANGED flowVars
    <3> USE <2>2 DEF flowVars
    <3>1. FlowTypeOK'
      BY DEF FlowTypeOK
    <3>2. OwnedOnce'
      BY DEF OwnedOnce, OneOwner, NoneForgotten, Answered, AnsweredOnce
    <3>3. InOrder'
      BY DEF InOrder
    <3> QED
      BY <3>1, <3>2, <3>3
  <2> QED
    BY <2>1, <2>2
<1> QED
  BY <1>1, <1>2, PTL DEF Spec
=============================================================================
