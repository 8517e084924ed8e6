----------------------------- MODULE PoolProofs -----------------------------
(***************************************************************************)
(* The structs behind the messages, for any number of them and any nesting *)
(* of calls: each is in one place, none refers to a context given back,    *)
(* and the lists they make up keep the promise to zebra.                   *)
(***************************************************************************)
EXTENDS DpMsgPool, SequenceTheorems, TLAPS

(***************************************************************************)
(* The operations on lists of structs.                                     *)
(***************************************************************************)
LEMMA StructAppended ==
  ASSUME NEW S, NEW s \in Seq(S), NEW a \in S
  PROVE  /\ Append(s, a) \in Seq(S)
         /\ ToSet(Append(s, a)) = ToSet(s) \cup {a}
         /\ IsInjective(s) /\ a \notin ToSet(s) => IsInjective(Append(s, a))
<1>1. /\ Append(s, a) \in Seq(S)
      /\ DOMAIN Append(s, a) = 1..(Len(s) + 1)
      /\ \A i \in 1..Len(s) : Append(s, a)[i] = s[i]
      /\ Append(s, a)[Len(s) + 1] = a
      /\ DOMAIN s = 1..Len(s) /\ Len(s) \in Nat
  BY AppendProperties, LenProperties
<1> QED
  BY <1>1 DEF ToSet, IsInjective

LEMMA StructTaken ==
  ASSUME NEW S, NEW s \in Seq(S), s # <<>>
  PROVE  /\ Tail(s) \in Seq(S)
         /\ Head(s) \in S
         /\ ToSet(s) = ToSet(Tail(s)) \cup {Head(s)}
         /\ IsInjective(s) => /\ IsInjective(Tail(s))
                              /\ Head(s) \notin ToSet(Tail(s))
<1>1. /\ Tail(s) \in Seq(S)
      /\ Head(s) = s[1] /\ s[1] \in S
      /\ Len(s) \in Nat \ {0}
      /\ DOMAIN s = 1..Len(s)
      /\ DOMAIN Tail(s) = 1..(Len(s) - 1)
      /\ \A i \in 1..(Len(s) - 1) : Tail(s)[i] = s[i + 1]
  BY HeadTailProperties, LenProperties, EmptySeq
<1>2. ToSet(s) = ToSet(Tail(s)) \cup {Head(s)}
  <2>1. ASSUME NEW i \in DOMAIN s
        PROVE  s[i] \in ToSet(Tail(s)) \cup {Head(s)}
    <3>1. CASE i = 1
      BY <1>1, <3>1
    <3>2. CASE i # 1
      <4>1. i - 1 \in DOMAIN Tail(s) /\ Tail(s)[i - 1] = s[i]
        BY <1>1, <3>2
      <4> QED
        BY <4>1 DEF ToSet
    <3> QED
      BY <3>1, <3>2
  <2>2. ASSUME NEW i \in DOMAIN Tail(s)
        PROVE  Tail(s)[i] \in ToSet(s)
    BY <1>1 DEF ToSet
  <2>3. Head(s) \in ToSet(s)
    BY <1>1 DEF ToSet
  <2> QED
    BY <2>1, <2>2, <2>3 DEF ToSet
<1>3. IsInjective(s) => /\ IsInjective(Tail(s))
                        /\ Head(s) \notin ToSet(Tail(s))
  BY <1>1 DEF ToSet, IsInjective
<1> QED
  BY <1>1, <1>2, <1>3

LEMMA StructPutBack ==
  ASSUME NEW S, NEW s \in Seq(S), NEW a \in S
  PROVE  /\ <<a>> \o s \in Seq(S)
         /\ ToSet(<<a>> \o s) = ToSet(s) \cup {a}
         /\ IsInjective(s) /\ a \notin ToSet(s) => IsInjective(<<a>> \o s)
<1> DEFINE t == <<a>> \o s
<1>1. /\ <<a>> \in Seq(S) /\ Len(<<a>>) = 1 /\ <<a>>[1] = a
      /\ Len(s) \in Nat /\ DOMAIN s = 1..Len(s)
  BY LenProperties
<1>2. /\ t \in Seq(S) /\ Len(t) = 1 + Len(s)
      /\ \A i \in 1..Len(t) : t[i] = IF i <= 1 THEN <<a>>[i] ELSE s[i - 1]
  BY <1>1, ConcatProperties
<1>3. /\ DOMAIN t = 1..(Len(s) + 1)
      /\ t[1] = a
      /\ \A i \in 2..(Len(s) + 1) : t[i] = s[i - 1]
  BY <1>1, <1>2, LenProperties
<1> HIDE DEF t
<1>4. ToSet(t) = ToSet(s) \cup {a}
  <2>1. ASSUME NEW i \in DOMAIN t
        PROVE  t[i] \in ToSet(s) \cup {a}
    <3>1. CASE i = 1
      BY <1>3, <3>1
    <3>2. CASE i # 1
      <4>1. i - 1 \in DOMAIN s /\ t[i] = s[i - 1]
        BY <1>1, <1>3, <3>2
      <4> QED
        BY <4>1 DEF ToSet
    <3> QED
      BY <3>1, <3>2
  <2>2. ASSUME NEW i \in DOMAIN s
        PROVE  s[i] \in ToSet(t)
    <3>1. i + 1 \in DOMAIN t /\ t[i + 1] = s[i]
      BY <1>1, <1>3
    <3> QED
      BY <3>1 DEF ToSet
  <2>3. a \in ToSet(t)
    BY <1>1, <1>3 DEF ToSet
  <2> QED
    BY <2>1, <2>2, <2>3 DEF ToSet
<1>5. IsInjective(s) /\ a \notin ToSet(s) => IsInjective(t)
  BY <1>1, <1>3 DEF ToSet, IsInjective
<1> QED
  BY <1>2, <1>4, <1>5 DEF t

-----------------------------------------------------------------------------
(***************************************************************************)
(* The stack of calls, and the structs that they hold.                     *)
(***************************************************************************)
Kinds == {"answer", "send", "connect"}

StructsOf(c) == [i \in DOMAIN c |-> c[i][2]]

LEMMA StructsTyped ==
  ASSUME NEW c \in Seq(Kinds \X Addr)
  PROVE  /\ StructsOf(c) \in Seq(Addr)
         /\ DOMAIN StructsOf(c) = DOMAIN c
         /\ Len(StructsOf(c)) = Len(c)
         /\ \A i \in DOMAIN c : StructsOf(c)[i] = c[i][2] /\ c[i] \in Kinds \X Addr
<1>1. /\ Len(c) \in Nat /\ DOMAIN c = 1..Len(c)
      /\ \A i \in 1..Len(c) : c[i] \in Kinds \X Addr
  BY LenProperties, ElementOfSeq
<1>2. \A i \in 1..Len(c) : c[i][2] \in Addr
  BY <1>1
<1>3. StructsOf(c) \in Seq(Addr)
  BY <1>1, <1>2, IsASeq DEF StructsOf
<1>4. DOMAIN StructsOf(c) = DOMAIN c
  BY DEF StructsOf
<1>5. Len(StructsOf(c)) = Len(c)
  BY <1>1, <1>3, <1>4, LenProperties
<1> QED
  BY <1>1, <1>3, <1>4, <1>5 DEF StructsOf

LEMMA CallEntered ==
  ASSUME NEW c \in Seq(Kinds \X Addr), NEW f \in Kinds \X Addr
  PROVE  /\ Append(c, f) \in Seq(Kinds \X Addr)
         /\ ToSet(Append(c, f)) = ToSet(c) \cup {f}
         /\ ToSet(StructsOf(Append(c, f))) = ToSet(StructsOf(c)) \cup {f[2]}
         /\ IsInjective(StructsOf(c)) /\ f[2] \notin ToSet(StructsOf(c)) =>
              IsInjective(StructsOf(Append(c, f)))
<1>1. Append(c, f) \in Seq(Kinds \X Addr) /\ ToSet(Append(c, f)) = ToSet(c) \cup {f}
  BY StructAppended
<1>2. f[2] \in Addr /\ StructsOf(c) \in Seq(Addr)
  BY StructsTyped
<1>3. /\ DOMAIN Append(c, f) = 1..(Len(c) + 1)
      /\ \A i \in 1..Len(c) : Append(c, f)[i] = c[i]
      /\ Append(c, f)[Len(c) + 1] = f
      /\ DOMAIN c = 1..Len(c) /\ Len(c) \in Nat
  BY AppendProperties, LenProperties
<1>4. StructsOf(Append(c, f)) = Append(StructsOf(c), f[2])
  <2>1. /\ StructsOf(Append(c, f)) \in Seq(Addr)
        /\ Len(StructsOf(Append(c, f))) = Len(c) + 1
        /\ \A i \in 1..(Len(c) + 1) : StructsOf(Append(c, f))[i] = Append(c, f)[i][2]
    <3> DEFINE d == Append(c, f)
    <3>1. /\ d \in Seq(Kinds \X Addr) /\ DOMAIN d = 1..(Len(c) + 1)
          /\ Len(c) \in Nat
      BY <1>1, <1>3
    <3> HIDE DEF d
    <3>2. /\ StructsOf(d) \in Seq(Addr)
          /\ Len(StructsOf(d)) = Len(d)
          /\ \A i \in 1..(Len(c) + 1) : StructsOf(d)[i] = d[i][2]
      BY <3>1, StructsTyped
    <3>3. Len(d) = Len(c) + 1
      BY <3>1, LenProperties
    <3> QED
      BY <3>2, <3>3 DEF d
  <2>2. /\ Append(StructsOf(c), f[2]) \in Seq(Addr)
        /\ Len(Append(StructsOf(c), f[2])) = Len(c) + 1
        /\ \A i \in 1..Len(c) : Append(StructsOf(c), f[2])[i] = StructsOf(c)[i]
        /\ Append(StructsOf(c), f[2])[Len(c) + 1] = f[2]
    BY <1>2, StructsTyped, AppendProperties
  <2>3. \A i \in 1..Len(c) : StructsOf(c)[i] = c[i][2]
    BY <1>3, StructsTyped
  <2>4. \A i \in 1..(Len(c) + 1) :
          StructsOf(Append(c, f))[i] = Append(StructsOf(c), f[2])[i]
    BY <1>3, <2>1, <2>2, <2>3
  <2> QED
    BY <2>1, <2>2, <2>4, SeqEqual
<1> QED
  BY <1>1, <1>2, <1>4, StructAppended

LEMMA LastTaken ==
  ASSUME NEW S, NEW c \in Seq(S), c # <<>>
  PROVE  /\ Front(c) \in Seq(S) /\ Last(c) \in S
         /\ Len(c) \in Nat \ {0} /\ Len(Front(c)) = Len(c) - 1
         /\ \A i \in 1..(Len(c) - 1) : Front(c)[i] = c[i]
         /\ c = Append(Front(c), Last(c))
<1>1. /\ Len(c) \in Nat \ {0} /\ DOMAIN c = 1..Len(c)
      /\ \A i \in 1..Len(c) : c[i] \in S
  BY LenProperties, EmptySeq, ElementOfSeq
<1>2. Last(c) \in S /\ Last(c) = c[Len(c)]
  BY <1>1 DEF Last
<1>3. /\ Front(c) \in Seq(S)
      /\ Len(Front(c)) = Len(c) - 1
      /\ \A i \in 1..(Len(c) - 1) : Front(c)[i] = c[i]
  <2>1. 1 \in Int /\ Len(c) - 1 \in Int /\ \A i \in 1..(Len(c) - 1) : c[i] \in S
    BY <1>1
  <2>2. /\ SubSeq(c, 1, Len(c) - 1) \in Seq(S)
        /\ Len(SubSeq(c, 1, Len(c) - 1)) = IF 1 <= Len(c) - 1 THEN Len(c) - 1 - 1 + 1 ELSE 0
        /\ \A i \in 1..(Len(c) - 1 - 1 + 1) : SubSeq(c, 1, Len(c) - 1)[i] = c[1 + i - 1]
    BY <2>1, SubSeqProperties
  <2> QED
    BY <1>1, <2>2 DEF Front
<1>4. /\ Append(Front(c), Last(c)) \in Seq(S)
      /\ Len(Append(Front(c), Last(c))) = Len(Front(c)) + 1
      /\ \A i \in 1..Len(Front(c)) : Append(Front(c), Last(c))[i] = Front(c)[i]
      /\ Append(Front(c), Last(c))[Len(Front(c)) + 1] = Last(c)
  BY <1>2, <1>3, AppendProperties
<1>5. \A i \in 1..Len(c) : Append(Front(c), Last(c))[i] = c[i]
  BY <1>1, <1>2, <1>3, <1>4
<1>6. Len(Append(Front(c), Last(c))) = Len(c)
  BY <1>1, <1>3, <1>4
<1>7. c = Append(Front(c), Last(c))
  BY <1>4, <1>5, <1>6, SeqEqual
<1> QED
  BY <1>1, <1>2, <1>3, <1>7

-----------------------------------------------------------------------------
(***************************************************************************)
(* What a call holds is what it may dispose of, and calls nest in one way: *)
(* an answer, from which a drain may send, from which any number of        *)
(* connections may start.                                                  *)
(***************************************************************************)
HeldOK ==
  \A f \in ToSet(calls) :
    /\ f[1] = "send" => mem[f[2]] \in UnsentMsg
    /\ f[1] = "connect" => mem[f[2]] = ConnectMsg
    /\ f[1] = "answer" => mem[f[2]] = ConnectMsg \/ mem[f[2]].op = "Object"

NestOK ==
  \A i \in DOMAIN calls :
    /\ calls[i][1] = "answer" => i = 1
    /\ calls[i][1] = "send" => i = 1 \/ (i = 2 /\ calls[1][1] = "answer")

\* Zebra has not yet given what it has back.
GivenBack == {out[i][1] : i \in DOMAIN out}

ZebraOK ==
  /\ todo \subseteq Ctx /\ seqnum \in Nat /\ freed \subseteq Ctx
  /\ out \in Seq(Ctx \X {"success", "failure"})
  /\ Apart(todo, freed \cup GivenBack)

PlaceInv == PoolTypeOK /\ OnePlace /\ HeldOK

PoolInv == PlaceInv /\ NestOK /\ ZebraOK /\ NoDanglingCtx

(***************************************************************************)
(* The five places of the structs, as sets.                                *)
(***************************************************************************)
LEMMA HoldingIs == Holding = StructsOf(calls) /\ Holding' = StructsOf(calls')
BY DEF Holding, StructsOf

LEMMA MsgTypes ==
  /\ UnsentMsg \cup RequestMsg \subseteq
       [op : {"Connect", "Object", "Keepalive", "Refresh"},
        seqn : Nat, ctx : Ctx \cup {NoCtx}]
  /\ KeepaliveMsg \in UnsentMsg /\ RefreshMsg \in UnsentMsg
  /\ KeepaliveMsg.ctx = NoCtx /\ RefreshMsg.ctx = NoCtx
  /\ ConnectMsg \in RequestMsg /\ ConnectMsg.ctx = NoCtx
  /\ \A m \in UnsentMsg : IsRequest(m) => m \in RequestMsg /\ m.op = "Object"
  /\ \A m \in UnsentMsg : ~IsRequest(m) => m.ctx = NoCtx
  /\ \A m \in RequestMsg : m = ConnectMsg \/ m.op = "Object"
  /\ FREE.op = "free" /\ FREE.ctx = NoCtx
BY PoolConstantsOK DEF UnsentMsg, RequestMsg, ObjectMsg, ConnectMsg,
  KeepaliveMsg, RefreshMsg, IsRequest, RequestOp, FREE

LEMMA HeldIn ==
  ASSUME PoolTypeOK
  PROVE  \A f \in ToSet(calls) : f \in Kinds \X Addr /\ f[2] \in ToSet(Holding)
<1>1. calls \in Seq(Kinds \X Addr)
  BY DEF PoolTypeOK, Kinds
<1>2. \A i \in DOMAIN calls : calls[i] \in Kinds \X Addr
  BY <1>1, StructsTyped
<1> QED
  BY <1>2 DEF ToSet, Holding

LEMMA LoopHoldsNothing ==
  ASSUME PoolTypeOK, Caller = "loop"
  PROVE  calls = <<>>
<1>1. calls \in Seq(Kinds \X Addr)
  BY DEF PoolTypeOK, Kinds
<1>2. SUFFICES ASSUME calls # <<>> PROVE FALSE
  OBVIOUS
<1>3. Last(calls) \in Kinds \X Addr
  BY <1>1, <1>2, LastTaken
<1> QED
  BY <1>2, <1>3 DEF Caller, Kinds

\* A new message lives in a struct that nobody had.
LEMMA NewFacts ==
  ASSUME PlaceInv, NEW a \in Addr, NEW m, dp_msg_new(a, m)
  PROVE  /\ mem[a].ctx = NoCtx
         /\ mem' = [mem EXCEPT ![a] = m]
         /\ a \notin ToSet(unsent) \cup ToSet(in_flight) \cup ToSet(Holding) \cup lost
         /\ pool' \in Seq(Addr) /\ IsInjective(pool')
         /\ ToSet(pool') = ToSet(pool) \ {a}
<1>1. CASE pool # <<>>
  <2>1. a = Head(pool) /\ pool' = Tail(pool)
    BY <1>1 DEF dp_msg_new
  <2>2. a \in ToSet(pool)
    BY <1>1, <2>1, StructTaken DEF PlaceInv, PoolTypeOK
  <2> QED
    BY <1>1, <2>1, <2>2, StructTaken DEF PlaceInv, PoolTypeOK, OnePlace, Apart, dp_msg_new
<1>2. CASE pool = <<>>
  BY <1>2, MsgTypes DEF PlaceInv, PoolTypeOK, OnePlace, Apart, dp_msg_new
<1> QED
  BY <1>1, <1>2

\* A struct that nobody has any more goes back to the pool, or is lost with
\* its context.
LEMMA RecycleFacts ==
  ASSUME PoolTypeOK, NEW a \in Addr, dp_msg_recycle(a)
  PROVE  \/ /\ mem[a].ctx = NoCtx
            /\ pool' = Append(pool, a)
            /\ pool' \in Seq(Addr) /\ ToSet(pool') = ToSet(pool) \cup {a}
            /\ IsInjective(pool) /\ a \notin ToSet(pool) => IsInjective(pool')
            /\ UNCHANGED <<lost, leaked>>
         \/ /\ mem[a].ctx # NoCtx
            /\ lost' = lost \cup {a}
            /\ leaked' = leaked \cup {mem[a].ctx}
            /\ UNCHANGED pool
<1>1. /\ Append(pool, a) \in Seq(Addr)
      /\ ToSet(Append(pool, a)) = ToSet(pool) \cup {a}
      /\ IsInjective(pool) /\ a \notin ToSet(pool) => IsInjective(Append(pool, a))
  BY StructAppended DEF PoolTypeOK
<1>2. CASE mem[a].ctx = NoCtx
  BY <1>1, <1>2 DEF dp_msg_recycle
<1>3. CASE mem[a].ctx # NoCtx
  BY <1>3 DEF dp_msg_recycle
<1> QED
  BY <1>2, <1>3

\* The innermost call, and what it holds.
LEMMA HeldFacts ==
  ASSUME PlaceInv, NEW kind \in Kinds, NEW a \in Addr, Held(kind, a)
  PROVE  /\ calls # <<>> /\ Last(calls) = <<kind, a>>
         /\ Front(calls) \in Seq(Kinds \X Addr)
         /\ ToSet(calls) = ToSet(Front(calls)) \cup {<<kind, a>>}
         /\ ToSet(Holding) = ToSet(StructsOf(Front(calls))) \cup {a}
         /\ IsInjective(StructsOf(Front(calls)))
         /\ a \notin ToSet(StructsOf(Front(calls)))
         /\ \A f \in ToSet(Front(calls)) : f[2] \in ToSet(StructsOf(Front(calls)))
<1> DEFINE c == Front(calls)
<1>1. calls \in Seq(Kinds \X Addr)
  BY DEF PlaceInv, PoolTypeOK, Kinds
<1>2. calls # <<>> /\ Last(calls)[1] = kind /\ Last(calls)[2] = a
  BY DEF Held, Caller, Kinds
<1>3. /\ c \in Seq(Kinds \X Addr) /\ Last(calls) \in Kinds \X Addr
      /\ Len(calls) \in Nat \ {0} /\ Len(c) = Len(calls) - 1
      /\ \A i \in 1..(Len(calls) - 1) : c[i] = calls[i]
      /\ calls = Append(c, Last(calls))
  BY <1>1, <1>2, LastTaken
<1>4. Last(calls) = <<kind, a>>
  BY <1>2, <1>3
<1> HIDE DEF c
<1>5. /\ ToSet(calls) = ToSet(c) \cup {<<kind, a>>}
      /\ ToSet(StructsOf(calls)) = ToSet(StructsOf(c)) \cup {a}
  <2> DEFINE f == Last(calls)
  <2>1. f \in Kinds \X Addr /\ f = <<kind, a>> /\ f[2] = a /\ calls = Append(c, f)
    BY <1>2, <1>3, <1>4
  <2> HIDE DEF f
  <2> QED
    BY <1>3, <2>1, CallEntered
<1>6. /\ DOMAIN calls = 1..Len(calls) /\ DOMAIN c = 1..Len(c)
      /\ StructsOf(calls) = [i \in DOMAIN calls |-> calls[i][2]]
      /\ StructsOf(c) = [i \in DOMAIN c |-> c[i][2]]
      /\ calls[Len(calls)][2] = a
  BY <1>1, <1>2, <1>3, LenProperties DEF StructsOf, Last
<1>7. IsInjective(StructsOf(calls))
  BY HoldingIs DEF PlaceInv, OnePlace
<1>8. IsInjective(StructsOf(c)) /\ a \notin ToSet(StructsOf(c))
  <2> DEFINE n == Len(calls)
             h == StructsOf(calls)
             g == StructsOf(c)
  <2>1. /\ n \in Nat \ {0} /\ DOMAIN h = 1..n /\ DOMAIN g = 1..(n - 1)
        /\ h[n] = a /\ \A i \in 1..(n - 1) : g[i] = h[i]
    BY <1>3, <1>6
  <2> HIDE DEF n, h, g
  <2>2. IsInjective(g) /\ a \notin ToSet(g)
    BY <1>7, <2>1 DEF IsInjective, ToSet, h
  <2> QED
    BY <2>2 DEF g
<1>9. \A f \in ToSet(c) : f[2] \in ToSet(StructsOf(c))
  BY <1>6 DEF ToSet
<1> QED
  BY <1>2, <1>3, <1>4, <1>5, <1>8, <1>9, HoldingIs DEF c

-----------------------------------------------------------------------------
(***************************************************************************)
(* Each operation moves one struct from one place to another, or all of    *)
(* them out at the end.                                                    *)
(***************************************************************************)
LEMMA NewUnsentPlaces ==
  ASSUME PlaceInv, NEW a \in Addr, NEW m \in UnsentMsg, dp_msg_new(a, m),
         unsent' = Append(unsent, a), UNCHANGED <<in_flight, calls, lost>>
  PROVE  PlaceInv'
<1>1. m # FREE /\ in_flight' = in_flight /\ calls' = calls /\ lost' = lost
  BY DEF UnsentMsg, ObjectMsg, KeepaliveMsg, RefreshMsg, FREE
<1>2. /\ mem' = [mem EXCEPT ![a] = m]
      /\ a \notin ToSet(unsent) \cup ToSet(in_flight) \cup ToSet(Holding) \cup lost
      /\ pool' \in Seq(Addr) /\ IsInjective(pool')
      /\ ToSet(pool') = ToSet(pool) \ {a}
  BY NewFacts
<1>3. /\ unsent' \in Seq(Addr) /\ ToSet(unsent') = ToSet(unsent) \cup {a}
      /\ IsInjective(unsent')
  BY <1>2, StructAppended DEF PlaceInv, PoolTypeOK, OnePlace
<1>4. PoolTypeOK'
  BY <1>1, <1>2, <1>3, MsgTypes DEF PlaceInv, PoolTypeOK, OnePlace
<1>5. OnePlace'
  BY <1>1, <1>2, <1>3, HoldingIs DEF PlaceInv, PoolTypeOK, OnePlace, Apart
<1>6. HeldOK'
  BY <1>1, <1>2, HeldIn DEF PlaceInv, HeldOK
<1> QED
  BY <1>4, <1>5, <1>6 DEF PlaceInv

LEMMA SendRequestPlaces ==
  ASSUME PlaceInv, NEW a \in Addr, NEW c \in Ctx, ZebraOK, SendRequest(a, c)
  PROVE  PlaceInv'
<1>1. [op |-> "Object", seqn |-> seqnum, ctx |-> c] \in UnsentMsg
  BY DEF ZebraOK, UnsentMsg, ObjectMsg
<1> QED
  BY <1>1, NewUnsentPlaces DEF SendRequest

LEMMA SendControlPlaces ==
  ASSUME PlaceInv, NEW a \in Addr, NEW m \in {KeepaliveMsg, RefreshMsg},
         SendControl(a, m)
  PROVE  PlaceInv'
BY NewUnsentPlaces, MsgTypes DEF SendControl

\* A struct enters a call: one taken from a list, or a new one.
LEMMA CallPlaces ==
  ASSUME PlaceInv, NEW kind \in Kinds, NEW a \in Addr,
         calls' = Append(calls, <<kind, a>>),
         a \notin ToSet(Holding)
  PROVE  /\ calls' \in Seq(Kinds \X Addr)
         /\ ToSet(calls') = ToSet(calls) \cup {<<kind, a>>}
         /\ ToSet(Holding') = ToSet(Holding) \cup {a}
         /\ IsInjective(Holding')
<1> DEFINE f == <<kind, a>>
<1>1. f \in Kinds \X Addr /\ f[2] = a /\ calls' = Append(calls, f)
  OBVIOUS
<1>2. calls \in Seq(Kinds \X Addr) /\ IsInjective(StructsOf(calls))
  BY HoldingIs DEF PlaceInv, PoolTypeOK, OnePlace, Kinds
<1> HIDE DEF f
<1>3. /\ calls' \in Seq(Kinds \X Addr)
      /\ ToSet(calls') = ToSet(calls) \cup {f}
      /\ ToSet(StructsOf(calls')) = ToSet(StructsOf(calls)) \cup {a}
      /\ IsInjective(StructsOf(calls'))
  BY <1>1, <1>2, CallEntered, HoldingIs
<1> QED
  BY <1>3, HoldingIs DEF f

LEMMA PopUnsentPlaces ==
  ASSUME PlaceInv, dp_msg_pop_unsent
  PROVE  PlaceInv'
<1> DEFINE a == Head(unsent)
<1>1. /\ a \in Addr /\ unsent' \in Seq(Addr) /\ IsInjective(unsent')
      /\ ToSet(unsent) = ToSet(unsent') \cup {a} /\ a \notin ToSet(unsent')
  BY StructTaken DEF PlaceInv, PoolTypeOK, OnePlace, dp_msg_pop_unsent
<1>2. calls' = Append(calls, <<"send", a>>)
      /\ UNCHANGED <<mem, pool, in_flight, lost>>
  BY DEF dp_msg_pop_unsent
<1> HIDE DEF a
<1>3. a \notin ToSet(Holding)
  BY <1>1 DEF PlaceInv, OnePlace, Apart
<1>4. /\ calls' \in Seq(Kinds \X Addr)
      /\ ToSet(calls') = ToSet(calls) \cup {<<"send", a>>}
      /\ ToSet(Holding') = ToSet(Holding) \cup {a}
      /\ IsInjective(Holding')
  BY <1>1, <1>2, <1>3, CallPlaces DEF Kinds
<1>5. PoolTypeOK'
  BY <1>1, <1>2, <1>4 DEF PlaceInv, PoolTypeOK, Kinds
<1>6. OnePlace'
  BY <1>1, <1>2, <1>4 DEF PlaceInv, OnePlace, Apart
<1>7. HeldOK'
  <2>1. mem[a] \in UnsentMsg
    BY <1>1 DEF PlaceInv, PoolTypeOK
  <2>2. \A f \in ToSet(calls') :
          f \in ToSet(calls) \/ (f[1] = "send" /\ f[2] = a)
    BY <1>4
  <2> QED
    BY <1>2, <2>1, <2>2 DEF PlaceInv, HeldOK
<1> QED
  BY <1>5, <1>6, <1>7 DEF PlaceInv

LEMMA PopInflightPlaces ==
  ASSUME PlaceInv, dp_msg_pop_inflight
  PROVE  PlaceInv'
<1> DEFINE a == Head(in_flight)
<1>1. /\ a \in Addr /\ in_flight' \in Seq(Addr) /\ IsInjective(in_flight')
      /\ ToSet(in_flight) = ToSet(in_flight') \cup {a} /\ a \notin ToSet(in_flight')
  BY StructTaken DEF PlaceInv, PoolTypeOK, OnePlace, dp_msg_pop_inflight
<1>2. calls = <<>> /\ calls' = <<<<"answer", a>>>>
      /\ UNCHANGED <<mem, pool, unsent, lost>>
  BY HeldIn, LoopHoldsNothing DEF PlaceInv, dp_msg_pop_inflight
<1> HIDE DEF a
<1>3. a \notin ToSet(Holding) /\ calls' = Append(calls, <<"answer", a>>)
  BY <1>1, <1>2 DEF PlaceInv, OnePlace, Apart
<1>4. /\ calls' \in Seq(Kinds \X Addr)
      /\ ToSet(calls') = ToSet(calls) \cup {<<"answer", a>>}
      /\ ToSet(Holding') = ToSet(Holding) \cup {a}
      /\ IsInjective(Holding')
  BY <1>1, <1>3, CallPlaces DEF Kinds
<1>5. PoolTypeOK'
  BY <1>1, <1>2, <1>4 DEF PlaceInv, PoolTypeOK, Kinds
<1>6. OnePlace'
  BY <1>1, <1>2, <1>4 DEF PlaceInv, OnePlace, Apart
<1>7. HeldOK'
  BY <1>1, <1>2, <1>4, MsgTypes DEF PlaceInv, PoolTypeOK, HeldOK
<1> QED
  BY <1>5, <1>6, <1>7 DEF PlaceInv

LEMMA StartConnectPlaces ==
  ASSUME PlaceInv, NEW a \in Addr, StartConnect(a)
  PROVE  PlaceInv'
<1>1. /\ dp_msg_new(a, ConnectMsg) /\ ConnectMsg # FREE
      /\ calls' = Append(calls, <<"connect", a>>)
      /\ UNCHANGED <<unsent, in_flight, lost>>
  BY DEF StartConnect, ConnectMsg, FREE
<1>2. /\ mem' = [mem EXCEPT ![a] = ConnectMsg]
      /\ a \notin ToSet(unsent) \cup ToSet(in_flight) \cup ToSet(Holding) \cup lost
      /\ pool' \in Seq(Addr) /\ IsInjective(pool')
      /\ ToSet(pool') = ToSet(pool) \ {a}
  BY <1>1, NewFacts
<1>3. /\ calls' \in Seq(Kinds \X Addr)
      /\ ToSet(calls') = ToSet(calls) \cup {<<"connect", a>>}
      /\ ToSet(Holding') = ToSet(Holding) \cup {a}
      /\ IsInjective(Holding')
  BY <1>1, <1>2, CallPlaces DEF Kinds
<1>4. PoolTypeOK'
  BY <1>1, <1>2, <1>3, MsgTypes DEF PlaceInv, PoolTypeOK, OnePlace, Kinds
<1>5. OnePlace'
  BY <1>1, <1>2, <1>3 DEF PlaceInv, PoolTypeOK, OnePlace, Apart
<1>6. HeldOK'
  <2>1. \A f \in ToSet(calls) : f[2] # a
    BY <1>2, HeldIn DEF PlaceInv
  <2>2. \A f \in ToSet(calls') :
          f \in ToSet(calls) \/ (f[1] = "connect" /\ f[2] = a)
    BY <1>3
  <2>3. \A f \in ToSet(calls) : f[2] \in Addr
    BY HeldIn DEF PlaceInv
  <2> QED
    BY <1>2, <2>1, <2>2, <2>3 DEF PlaceInv, PoolTypeOK, HeldOK
<1> QED
  BY <1>4, <1>5, <1>6 DEF PlaceInv

LEMMA ReturnFacts ==
  ASSUME PlaceInv, NEW kind \in Kinds, NEW a \in Addr, Held(kind, a), Return
  PROVE  /\ calls' \in Seq(Kinds \X Addr)
         /\ ToSet(calls) = ToSet(calls') \cup {<<kind, a>>}
         /\ ToSet(Holding) = ToSet(Holding') \cup {a}
         /\ a \notin ToSet(Holding')
         /\ IsInjective(Holding')
         /\ a \notin ToSet(pool) \cup ToSet(unsent) \cup ToSet(in_flight) \cup lost
<1>1. calls' = Front(calls)
  BY DEF Return
<1>2. /\ calls' \in Seq(Kinds \X Addr)
      /\ ToSet(calls) = ToSet(calls') \cup {<<kind, a>>}
      /\ ToSet(Holding) = ToSet(Holding') \cup {a}
      /\ a \notin ToSet(Holding')
      /\ IsInjective(Holding')
  BY <1>1, HeldFacts, HoldingIs
<1> QED
  BY <1>2 DEF PlaceInv, OnePlace, Apart

LEMMA RecyclePlaces ==
  ASSUME PlaceInv, NEW kind \in Kinds, NEW a \in Addr, Held(kind, a), Return,
         dp_msg_recycle(a), UNCHANGED <<mem, unsent, in_flight>>
  PROVE  PlaceInv'
<1>1. /\ calls' \in Seq(Kinds \X Addr)
      /\ ToSet(calls) = ToSet(calls') \cup {<<kind, a>>}
      /\ ToSet(Holding) = ToSet(Holding') \cup {a}
      /\ a \notin ToSet(Holding')
      /\ IsInjective(Holding')
      /\ a \notin ToSet(pool) \cup ToSet(unsent) \cup ToSet(in_flight) \cup lost
  BY ReturnFacts
<1>2. mem' = mem /\ unsent' = unsent /\ in_flight' = in_flight
  OBVIOUS
<1>3. HeldOK'
  BY <1>1, <1>2 DEF PlaceInv, HeldOK
<1>4. CASE /\ mem[a].ctx = NoCtx
           /\ pool' = Append(pool, a)
           /\ pool' \in Seq(Addr) /\ ToSet(pool') = ToSet(pool) \cup {a}
           /\ IsInjective(pool) /\ a \notin ToSet(pool) => IsInjective(pool')
           /\ UNCHANGED <<lost, leaked>>
  <2>1. PoolTypeOK'
    BY <1>1, <1>2, <1>4 DEF PlaceInv, PoolTypeOK, Kinds
  <2>2. OnePlace'
    BY <1>1, <1>2, <1>4 DEF PlaceInv, OnePlace, Apart
  <2> QED
    BY <1>3, <2>1, <2>2 DEF PlaceInv
<1>5. CASE lost' = lost \cup {a} /\ UNCHANGED pool
  <2>1. PoolTypeOK'
    BY <1>1, <1>2, <1>5 DEF PlaceInv, PoolTypeOK, Kinds
  <2>2. OnePlace'
    BY <1>1, <1>2, <1>5 DEF PlaceInv, OnePlace, Apart
  <2> QED
    BY <1>3, <2>1, <2>2 DEF PlaceInv
<1> QED
  BY <1>4, <1>5, RecycleFacts DEF PlaceInv

LEMMA SentPlaces ==
  ASSUME PlaceInv, NEW kind \in Kinds, NEW a \in Addr, Held(kind, a), Return,
         mem[a] \in RequestMsg, in_flight' = Append(in_flight, a),
         UNCHANGED <<mem, pool, unsent, lost>>
  PROVE  PlaceInv'
<1>1. /\ calls' \in Seq(Kinds \X Addr)
      /\ ToSet(calls) = ToSet(calls') \cup {<<kind, a>>}
      /\ ToSet(Holding) = ToSet(Holding') \cup {a}
      /\ a \notin ToSet(Holding')
      /\ IsInjective(Holding')
      /\ a \notin ToSet(pool) \cup ToSet(unsent) \cup ToSet(in_flight) \cup lost
  BY ReturnFacts
<1>2. mem' = mem /\ unsent' = unsent /\ pool' = pool /\ lost' = lost
  OBVIOUS
<1>3. /\ in_flight' \in Seq(Addr)
      /\ ToSet(in_flight') = ToSet(in_flight) \cup {a}
      /\ IsInjective(in_flight')
  BY <1>1, StructAppended DEF PlaceInv, PoolTypeOK, OnePlace
<1>4. HeldOK'
  BY <1>1, <1>2 DEF PlaceInv, HeldOK
<1>5. PoolTypeOK'
  BY <1>1, <1>2, <1>3 DEF PlaceInv, PoolTypeOK, Kinds
<1>6. OnePlace'
  BY <1>1, <1>2, <1>3 DEF PlaceInv, OnePlace, Apart
<1> QED
  BY <1>4, <1>5, <1>6 DEF PlaceInv

\* What each kind of call holds.
LEMMA HeldMessage ==
  ASSUME PlaceInv, NEW a \in Addr
  PROVE  /\ Held("send", a) => mem[a] \in UnsentMsg
         /\ Held("connect", a) => mem[a] = ConnectMsg
         /\ Held("answer", a) => mem[a] = ConnectMsg \/ mem[a].op = "Object"
<1>1. ASSUME NEW kind \in Kinds, Held(kind, a)
      PROVE  \E f \in ToSet(calls) : f[1] = kind /\ f[2] = a
  <2>1. <<kind, a>> \in ToSet(calls)
    BY <1>1, HeldFacts
  <2> QED
    BY <2>1
<1> QED
  BY <1>1 DEF PlaceInv, HeldOK, Kinds

LEMMA SendSucceedsPlaces ==
  ASSUME PlaceInv, NEW a \in Addr, SendSucceeds(a)
  PROVE  PlaceInv'
<1>1. Held("send", a) /\ Return /\ mem[a] \in UnsentMsg
  BY HeldMessage DEF SendSucceeds
<1>2. CASE IsRequest(mem[a])
  BY <1>1, <1>2, SentPlaces, MsgTypes DEF SendSucceeds, Kinds
<1>3. CASE ~IsRequest(mem[a])
  BY <1>1, <1>3, RecyclePlaces DEF SendSucceeds, Kinds
<1> QED
  BY <1>2, <1>3

LEMMA SendFailsPlaces ==
  ASSUME PlaceInv, NEW a \in Addr, SendFails(a)
  PROVE  PlaceInv'
<1>1. /\ Held("send", a) /\ Return /\ mem[a] \in UnsentMsg
      /\ mem' = mem /\ pool' = pool /\ in_flight' = in_flight /\ lost' = lost
  BY HeldMessage DEF SendFails
<1>2. /\ calls' \in Seq(Kinds \X Addr)
      /\ ToSet(calls) = ToSet(calls') \cup {<<"send", a>>}
      /\ ToSet(Holding) = ToSet(Holding') \cup {a}
      /\ a \notin ToSet(Holding')
      /\ IsInjective(Holding')
      /\ a \notin ToSet(pool) \cup ToSet(unsent) \cup ToSet(in_flight) \cup lost
  BY <1>1, ReturnFacts DEF Kinds
<1>3. /\ unsent' \in Seq(Addr)
      /\ ToSet(unsent') = ToSet(unsent) \cup {a}
      /\ IsInjective(unsent')
  <2>1. unsent \in Seq(Addr) /\ IsInjective(unsent) /\ unsent' = <<a>> \o unsent
    BY DEF PlaceInv, PoolTypeOK, OnePlace, SendFails
  <2> QED
    BY <1>2, <2>1, StructPutBack
<1>4. HeldOK'
  BY <1>1, <1>2 DEF PlaceInv, HeldOK
<1>5. PoolTypeOK'
  BY <1>1, <1>2, <1>3 DEF PlaceInv, PoolTypeOK, Kinds
<1>6. OnePlace'
  BY <1>1, <1>2, <1>3 DEF PlaceInv, OnePlace, Apart
<1> QED
  BY <1>4, <1>5, <1>6 DEF PlaceInv

LEMMA ConnectSentPlaces ==
  ASSUME PlaceInv, NEW a \in Addr, ConnectSent(a)
  PROVE  PlaceInv'
BY HeldMessage, SentPlaces, MsgTypes DEF ConnectSent, Kinds

LEMMA ConnectNotSentPlaces ==
  ASSUME PlaceInv, NEW a \in Addr, ConnectNotSent(a)
  PROVE  PlaceInv'
BY RecyclePlaces DEF ConnectNotSent, Kinds

LEMMA RecycleAnsweredPlaces ==
  ASSUME PlaceInv, NEW a \in Addr, RecycleAnswered(a)
  PROVE  PlaceInv'
BY RecyclePlaces DEF RecycleAnswered, Kinds

LEMMA HandOffPlaces ==
  ASSUME PlaceInv, NEW a \in Addr, NEW res \in {"success", "failure"},
         dp_msg_hand_off(a, res)
  PROVE  PlaceInv'
<1>1. /\ Held("answer", a) /\ mem[a].ctx # NoCtx
      /\ mem' = [mem EXCEPT ![a] = [mem[a] EXCEPT !.ctx = NoCtx]]
      /\ UNCHANGED <<pool, unsent, in_flight, calls, lost>>
  BY DEF dp_msg_hand_off
<1>2. /\ ToSet(calls) = ToSet(Front(calls)) \cup {<<"answer", a>>}
      /\ ToSet(Holding) = ToSet(StructsOf(Front(calls))) \cup {a}
      /\ a \notin ToSet(StructsOf(Front(calls)))
      /\ \A f \in ToSet(Front(calls)) : f[2] \in ToSet(StructsOf(Front(calls)))
  BY <1>1, HeldFacts DEF Kinds
<1>3. mem[a].op = "Object"
  BY <1>1, HeldMessage, MsgTypes
<1>4. /\ a \notin ToSet(pool) \cup ToSet(unsent) \cup ToSet(in_flight) \cup lost
      /\ mem[a] # FREE
  BY <1>2 DEF PlaceInv, OnePlace, Apart
<1>5. /\ mem'[a] \in [op : {"Object"}, seqn : Nat, ctx : {NoCtx}]
      /\ mem' \in [Addr -> [op : {"free", "none", "Connect", "Object",
                   "Keepalive", "Refresh"}, seqn : Nat, ctx : Ctx \cup {NoCtx}]]
      /\ \A b \in Addr \ {a} : mem'[b] = mem[b]
  BY <1>1, <1>3 DEF PlaceInv, PoolTypeOK
<1>6. PoolTypeOK'
  BY <1>1, <1>4, <1>5 DEF PlaceInv, PoolTypeOK
<1>7. OnePlace'
  <2>1. mem'[a] # FREE
    BY <1>5, MsgTypes
  <2>2. {b \in Addr : mem'[b] # FREE} = {b \in Addr : mem[b] # FREE}
    BY <1>4, <1>5, <2>1
  <2> QED
    BY <1>1, <2>2, HoldingIs DEF PlaceInv, OnePlace
<1>8. HeldOK'
  BY <1>1, <1>2, <1>5, HeldIn DEF PlaceInv, HeldOK
<1> QED
  BY <1>6, <1>7, <1>8 DEF PlaceInv

LEMMA FiniPlaces ==
  ASSUME PlaceInv, fini_dp_msg_cache
  PROVE  PlaceInv'
<1> DEFINE all == ToSet(pool) \cup ToSet(unsent) \cup ToSet(in_flight)
<1>1. /\ mem' = [a \in Addr |-> IF a \in all THEN FREE ELSE mem[a]]
      /\ pool' = <<>> /\ unsent' = <<>> /\ in_flight' = <<>>
      /\ calls' = calls /\ calls = <<>> /\ lost' = lost
  BY LoopHoldsNothing DEF PlaceInv, fini_dp_msg_cache
<1>2. /\ ToSet(<<>>) = {} /\ IsInjective(<<>>) /\ <<>> \in Seq(Addr)
      /\ Holding = <<>> /\ Holding' = <<>>
  BY <1>1, EmptySeq DEF ToSet, IsInjective, Holding
<1>3. FREE \in [op : {"free"}, seqn : Nat, ctx : Ctx \cup {NoCtx}]
  BY DEF FREE
<1>4. PoolTypeOK'
  BY <1>1, <1>2, <1>3 DEF PlaceInv, PoolTypeOK
<1>5. OnePlace'
  <2>1. {b \in Addr : mem'[b] # FREE} = lost
    BY <1>1, <1>2 DEF PlaceInv, PoolTypeOK, OnePlace, Apart
  <2> QED
    BY <1>1, <1>2, <2>1 DEF OnePlace, Apart
<1>6. HeldOK'
  BY <1>1, <1>2 DEF HeldOK
<1> QED
  BY <1>4, <1>5, <1>6 DEF PlaceInv

-----------------------------------------------------------------------------
(***************************************************************************)
(* How calls nest.                                                         *)
(***************************************************************************)
LEMMA NestPush ==
  ASSUME PlaceInv, NestOK, NEW kind \in Kinds, NEW a \in Addr,
         calls' = Append(calls, <<kind, a>>),
         kind = "answer" => Caller = "loop",
         kind = "send" => Caller \in {"loop", "answer"}
  PROVE  NestOK'
<1>1. calls \in Seq(Kinds \X Addr)
  BY DEF PlaceInv, PoolTypeOK, Kinds
<1>2. /\ Len(calls) \in Nat /\ DOMAIN calls = 1..Len(calls)
      /\ DOMAIN calls' = 1..(Len(calls) + 1)
      /\ \A i \in 1..Len(calls) : calls'[i] = calls[i]
      /\ calls'[Len(calls) + 1][1] = kind
  <2> DEFINE f == <<kind, a>>
  <2>1. f \in Kinds \X Addr /\ f[1] = kind /\ calls' = Append(calls, f)
    OBVIOUS
  <2> HIDE DEF f
  <2>2. /\ DOMAIN calls' = 1..(Len(calls) + 1)
        /\ \A i \in 1..Len(calls) : calls'[i] = calls[i]
        /\ calls'[Len(calls) + 1] = f
    BY <1>1, <2>1, AppendProperties, LenProperties
  <2> QED
    BY <1>1, <2>1, <2>2, LenProperties
<1>3. Caller = "loop" => Len(calls) = 0
  BY LoopHoldsNothing DEF PlaceInv
<1>4. Caller = "answer" => Len(calls) = 1 /\ calls[1][1] = "answer"
  BY <1>2 DEF Caller, Last, NestOK
<1>5. kind = "send" => \/ Len(calls) = 0
                       \/ Len(calls) = 1 /\ calls[1][1] = "answer"
  BY <1>3, <1>4
<1>6. kind = "answer" => Len(calls) = 0
  BY <1>3
<1> QED
  BY <1>2, <1>5, <1>6 DEF NestOK

LEMMA NestPop ==
  ASSUME PlaceInv, NestOK, calls # <<>>, Return
  PROVE  NestOK'
<1>1. calls \in Seq(Kinds \X Addr)
  BY DEF PlaceInv, PoolTypeOK, Kinds
<1>2. /\ Len(calls) \in Nat /\ DOMAIN calls = 1..Len(calls)
      /\ DOMAIN calls' = 1..(Len(calls) - 1)
      /\ \A i \in 1..(Len(calls) - 1) : calls'[i] = calls[i]
  <2> DEFINE S == Kinds \X Addr
  <2>1. calls \in Seq(S) /\ calls # <<>> /\ calls' = Front(calls)
    BY <1>1 DEF Return
  <2> HIDE DEF S
  <2>2. /\ calls' \in Seq(S)
        /\ Len(calls) \in Nat \ {0} /\ Len(calls') = Len(calls) - 1
        /\ \A i \in 1..(Len(calls) - 1) : calls'[i] = calls[i]
    BY <2>1, LastTaken
  <2> QED
    BY <2>1, <2>2, LenProperties
<1> QED
  BY <1>2 DEF NestOK

LEMMA PoolNest ==
  ASSUME PlaceInv, NestOK, [PoolNext]_poolVars
  PROVE  NestOK'
<1>1. CASE calls' = calls
  BY <1>1 DEF NestOK
<1>2. ASSUME NEW kind \in Kinds, NEW a \in Addr, Held(kind, a), Return
      PROVE  NestOK'
  BY <1>2, HeldFacts, NestPop
<1>3. ASSUME NEW a \in Addr, \/ SendSucceeds(a) \/ SendFails(a) \/ ConnectSent(a)
                             \/ ConnectNotSent(a) \/ RecycleAnswered(a)
      PROVE  NestOK'
  BY <1>2, <1>3 DEF SendSucceeds, SendFails, ConnectSent, ConnectNotSent,
    RecycleAnswered, Kinds
<1>4. ASSUME NEW a \in Addr, StartConnect(a)
      PROVE  NestOK'
  BY <1>4, NestPush DEF StartConnect, Kinds
<1>5. CASE dp_msg_pop_unsent
  <2>1. Head(unsent) \in Addr
    BY <1>5, StructTaken DEF PlaceInv, PoolTypeOK, dp_msg_pop_unsent
  <2> QED
    BY <1>5, <2>1, NestPush DEF dp_msg_pop_unsent, Kinds
<1>6. CASE dp_msg_pop_inflight
  <2>1. Head(in_flight) \in Addr
    BY <1>6, StructTaken DEF PlaceInv, PoolTypeOK, dp_msg_pop_inflight
  <2>2. calls' = Append(calls, <<"answer", Head(in_flight)>>)
    BY <1>6, LoopHoldsNothing DEF PlaceInv, dp_msg_pop_inflight
  <2> QED
    BY <1>6, <2>1, <2>2, NestPush DEF dp_msg_pop_inflight, Kinds
<1> QED
  BY <1>1, <1>3, <1>4, <1>5, <1>6 DEF PoolNext, poolVars, SendRequest,
    SendControl, dp_msg_hand_off, fini_dp_msg_cache

-----------------------------------------------------------------------------
(***************************************************************************)
(* Which contexts the structs refer to.                                    *)
(***************************************************************************)
CtxInv == ZebraOK /\ NoDanglingCtx

LEMMA CtxSame ==
  ASSUME PlaceInv, CtxInv, UNCHANGED <<todo, seqnum, out, freed>>,
         \A a \in Addr : mem'[a].ctx = mem[a].ctx \/ mem'[a].ctx = NoCtx
  PROVE  CtxInv'
<1>1. ZebraOK'
  BY DEF CtxInv, ZebraOK, GivenBack
<1>2. NoDanglingCtx'
  BY DEF CtxInv, NoDanglingCtx
<1> QED
  BY <1>1, <1>2 DEF CtxInv

LEMMA CtxSendRequest ==
  ASSUME PlaceInv, CtxInv, NEW a \in Addr, NEW c \in Ctx, SendRequest(a, c)
  PROVE  CtxInv'
<1> DEFINE m == [op |-> "Object", seqn |-> seqnum, ctx |-> c]
<1>1. dp_msg_new(a, m) /\ m.ctx = c /\ c # NoCtx
  BY PoolConstantsOK DEF SendRequest
<1> HIDE DEF m
<1>2. /\ mem' = [mem EXCEPT ![a] = m]
      /\ c \in todo /\ todo' = todo \ {c} /\ seqnum' = seqnum + 1
      /\ out' = out /\ freed' = freed
  BY <1>1, NewFacts DEF SendRequest
<1>3. /\ mem'[a].ctx = c
      /\ \A b \in Addr \ {a} : mem'[b].ctx = mem[b].ctx
      /\ \A b \in Addr \ {a} : mem[b].ctx # c
  BY <1>1, <1>2 DEF PlaceInv, PoolTypeOK, CtxInv, NoDanglingCtx
<1>4. c \notin freed /\ c \notin GivenBack
  BY <1>2 DEF CtxInv, ZebraOK, Apart
<1>5. ZebraOK'
  BY <1>2 DEF CtxInv, ZebraOK, GivenBack, Apart
<1>6. NoDanglingCtx'
  BY <1>2, <1>3, <1>4 DEF CtxInv, NoDanglingCtx, GivenBack
<1> QED
  BY <1>5, <1>6 DEF CtxInv

LEMMA CtxHandOff ==
  ASSUME PlaceInv, CtxInv, NEW a \in Addr, NEW res \in {"success", "failure"},
         dp_msg_hand_off(a, res)
  PROVE  CtxInv'
<1> DEFINE c == mem[a].ctx
           o == <<c, res>>
<1>1. /\ c \in Ctx /\ c # NoCtx
      /\ out' = Append(out, o) /\ o \in Ctx \X {"success", "failure"} /\ o[1] = c
      /\ mem' = [mem EXCEPT ![a] = [mem[a] EXCEPT !.ctx = NoCtx]]
      /\ UNCHANGED <<todo, seqnum, freed>>
  BY DEF PlaceInv, PoolTypeOK, dp_msg_hand_off
<1>2. c \notin todo /\ \A b \in Addr \ {a} : mem[b].ctx # c
  BY <1>1 DEF CtxInv, NoDanglingCtx
<1>3. /\ mem'[a].ctx = NoCtx
      /\ \A b \in Addr \ {a} : mem'[b].ctx = mem[b].ctx
  BY <1>1 DEF PlaceInv, PoolTypeOK
<1> HIDE DEF c, o
<1>4. out' \in Seq(Ctx \X {"success", "failure"}) /\ GivenBack' = GivenBack \cup {c}
  <2>1. out \in Seq(Ctx \X {"success", "failure"})
    BY DEF CtxInv, ZebraOK
  <2>2. /\ out' \in Seq(Ctx \X {"success", "failure"})
        /\ DOMAIN out' = 1..(Len(out) + 1) /\ DOMAIN out = 1..Len(out)
        /\ Len(out) \in Nat
        /\ \A i \in 1..Len(out) : out'[i] = out[i]
        /\ out'[Len(out) + 1] = o
    BY <1>1, <2>1, AppendProperties, LenProperties
  <2>3. \A i \in DOMAIN out' : out'[i][1] \in GivenBack \cup {c}
    BY <1>1, <2>2 DEF GivenBack
  <2>4. \A i \in DOMAIN out : i \in DOMAIN out' /\ out'[i][1] = out[i][1]
    BY <2>2
  <2>5. c \in GivenBack'
    <3>1. Len(out) + 1 \in DOMAIN out' /\ out'[Len(out) + 1][1] = c
      BY <1>1, <2>2
    <3> QED
      BY <3>1 DEF GivenBack
  <2>6. GivenBack \subseteq GivenBack'
    BY <2>4 DEF GivenBack
  <2>7. GivenBack' \subseteq GivenBack \cup {c}
    BY <2>3 DEF GivenBack
  <2> QED
    BY <2>2, <2>5, <2>6, <2>7
<1>5. ZebraOK'
  BY <1>1, <1>2, <1>4 DEF CtxInv, ZebraOK, Apart
<1>6. NoDanglingCtx'
  BY <1>1, <1>2, <1>3, <1>4 DEF CtxInv, NoDanglingCtx, GivenBack
<1> QED
  BY <1>5, <1>6 DEF CtxInv

LEMMA CtxFini ==
  ASSUME PlaceInv, CtxInv, fini_dp_msg_cache
  PROVE  CtxInv'
<1> DEFINE all == ToSet(pool) \cup ToSet(unsent) \cup ToSet(in_flight)
<1>1. /\ mem' = [a \in Addr |-> IF a \in all THEN FREE ELSE mem[a]]
      /\ freed' = freed \cup ({mem[a].ctx : a \in all} \ {NoCtx})
      /\ UNCHANGED <<todo, seqnum, out>>
  BY DEF fini_dp_msg_cache
<1>2. all \subseteq Addr
  BY DEF PlaceInv, OnePlace
<1> HIDE DEF all
<1>3. ZebraOK'
  BY <1>1, <1>2 DEF PlaceInv, PoolTypeOK, CtxInv, ZebraOK, NoDanglingCtx,
    GivenBack, Apart
<1>4. NoDanglingCtx'
  BY <1>1, <1>2, MsgTypes DEF CtxInv, NoDanglingCtx
<1> QED
  BY <1>3, <1>4 DEF CtxInv

LEMMA PoolCtx ==
  ASSUME PlaceInv, CtxInv, [PoolNext]_poolVars
  PROVE  CtxInv'
<1>1. CASE UNCHANGED <<mem, todo, seqnum, out, freed>>
  BY <1>1, CtxSame
<1>2. ASSUME NEW a \in Addr, NEW m, m.ctx = NoCtx, dp_msg_new(a, m),
             UNCHANGED <<todo, seqnum, out, freed>>
      PROVE  CtxInv'
  <2>1. mem' = [mem EXCEPT ![a] = m]
    BY <1>2, NewFacts
  <2> QED
    BY <1>2, <2>1, CtxSame DEF PlaceInv, PoolTypeOK
<1>3. ASSUME NEW a \in Addr, NEW m \in {KeepaliveMsg, RefreshMsg}, SendControl(a, m)
      PROVE  CtxInv'
  BY <1>2, <1>3, MsgTypes DEF SendControl
<1>4. ASSUME NEW a \in Addr, StartConnect(a)
      PROVE  CtxInv'
  BY <1>2, <1>4, MsgTypes DEF StartConnect
<1> QED
  BY <1>1, <1>3, <1>4, CtxSendRequest, CtxHandOff, CtxFini DEF PoolNext,
    poolVars, SendSucceeds, SendFails, ConnectSent, ConnectNotSent,
    RecycleAnswered, dp_msg_pop_unsent, dp_msg_pop_inflight

-----------------------------------------------------------------------------
(***************************************************************************)
(* Every operation of hh_dp_msg_cache.c and of its callers keeps all of    *)
(* it.                                                                     *)
(***************************************************************************)
LEMMA PoolPlaces ==
  ASSUME PlaceInv, ZebraOK, [PoolNext]_poolVars
  PROVE  PlaceInv'
<1>1. CASE UNCHANGED poolVars
  <2>1. /\ mem' = mem /\ pool' = pool /\ unsent' = unsent
        /\ in_flight' = in_flight /\ calls' = calls /\ lost' = lost
    BY <1>1 DEF poolVars
  <2> QED
    BY <2>1, HoldingIs DEF PlaceInv, PoolTypeOK, OnePlace, HeldOK
<1> QED
  BY <1>1, SendRequestPlaces, SendControlPlaces, SendSucceedsPlaces,
    SendFailsPlaces, StartConnectPlaces, ConnectSentPlaces,
    ConnectNotSentPlaces, HandOffPlaces, RecycleAnsweredPlaces,
    PopUnsentPlaces, PopInflightPlaces, FiniPlaces DEF PoolNext

LEMMA PoolInit_Inv == PoolInit => PoolInv
<1> SUFFICES ASSUME PoolInit PROVE PoolInv
  OBVIOUS
<1>1. /\ pool \in Seq(Addr) /\ ToSet(pool) \subseteq Addr /\ IsInjective(pool)
  BY PoolConstantsOK, LenProperties, IsASeq DEF PoolInit, ToSet
<1>2. /\ ToSet(<<>>) = {} /\ IsInjective(<<>>) /\ <<>> \in Seq(Addr)
      /\ <<>> \in Seq({"answer", "send", "connect"} \X Addr)
      /\ <<>> \in Seq(Ctx \X {"success", "failure"})
      /\ DOMAIN <<>> = {}
  BY EmptySeq DEF ToSet, IsInjective
<1>3. /\ mem = [a \in Addr |-> IF a \in ToSet(pool) THEN Zero ELSE FREE]
      /\ unsent = <<>> /\ in_flight = <<>> /\ calls = <<>> /\ lost = {}
      /\ todo = Ctx /\ seqnum = 1 /\ out = <<>> /\ leaked = {} /\ freed = {}
  BY DEF PoolInit
<1>4. Holding = <<>>
  BY <1>3 DEF Holding
<1>5. PoolTypeOK
  BY <1>1, <1>2, <1>3 DEF PoolTypeOK, Zero, FREE
<1>6. OnePlace
  BY <1>1, <1>2, <1>3, <1>4 DEF OnePlace, Apart, Zero, FREE
<1>7. HeldOK /\ NestOK
  BY <1>2, <1>3 DEF HeldOK, NestOK
<1>8. ZebraOK
  BY <1>2, <1>3 DEF ZebraOK, GivenBack, Apart
<1>9. NoDanglingCtx
  BY <1>1, <1>3 DEF NoDanglingCtx, Zero, FREE
<1> QED
  BY <1>5, <1>6, <1>7, <1>8, <1>9 DEF PoolInv, PlaceInv

(***************************************************************************)
(* The places of the structs, what calls hold and how they nest, and the   *)
(* contexts, all at once: each needs the others.                           *)
(***************************************************************************)
THEOREM PoolInvariant == PoolSpec => []PoolInv
<1>1. PoolInv /\ [PoolNext]_poolVars => PoolInv'
  BY PoolPlaces, PoolNest, PoolCtx DEF PoolInv, CtxInv
<1> QED
  BY <1>1, PoolInit_Inv, PTL DEF PoolSpec

(***************************************************************************)
(* Each list of hh_dp_msg_cache.c holds only what it may.                  *)
(***************************************************************************)
THEOREM PoolTypeCorrect == PoolSpec => []PoolTypeOK
<1>1. PoolInv => PoolTypeOK
  BY DEF PoolInv, PlaceInv
<1> QED
  BY <1>1, PoolInvariant, PTL

(***************************************************************************)
(* No nesting of calls, failed send or mismatch has a struct dp_msg in two *)
(* lists, in a list and in use, or in none (hh_dp_msg_cache.h:22-26).      *)
(***************************************************************************)
THEOREM StructAlwaysInOnePlace == PoolSpec => []OnePlace
<1>1. PoolInv => OnePlace
  BY DEF PoolInv, PlaceInv
<1> QED
  BY <1>1, PoolInvariant, PTL

(***************************************************************************)
(* No struct, not even one in the pool or lost, refers to a context that   *)
(* zebra has back or that was freed, and no two to the same                *)
(* (hh_dp_msg.c:308).                                                      *)
(***************************************************************************)
THEOREM NeverDanglingCtx == PoolSpec => []NoDanglingCtx
<1>1. PoolInv => NoDanglingCtx
  BY DEF PoolInv
<1> QED
  BY <1>1, PoolInvariant, PTL

-----------------------------------------------------------------------------
(***************************************************************************)
(* The contents of a list of structs are a list of messages, and what is   *)
(* done to the one is done to the other.                                   *)
(***************************************************************************)
AnyMsg == [op : {"free", "none", "Connect", "Object", "Keepalive", "Refresh"},
           seqn : Nat, ctx : Ctx \cup {NoCtx}]

ContentsIn(m, list) == [i \in DOMAIN list |-> m[list[i]]]

LEMMA ContentsTyped ==
  ASSUME NEW m \in [Addr -> AnyMsg], NEW s \in Seq(Addr)
  PROVE  /\ ContentsIn(m, s) \in Seq(AnyMsg)
         /\ DOMAIN ContentsIn(m, s) = DOMAIN s
         /\ DOMAIN s = 1..Len(s) /\ Len(s) \in Nat
         /\ Len(ContentsIn(m, s)) = Len(s)
         /\ \A i \in 1..Len(s) : /\ s[i] \in Addr
                                 /\ ContentsIn(m, s)[i] = m[s[i]]
<1>1. Len(s) \in Nat /\ DOMAIN s = 1..Len(s) /\ \A i \in 1..Len(s) : s[i] \in Addr
  BY LenProperties, ElementOfSeq
<1>2. \A i \in 1..Len(s) : m[s[i]] \in AnyMsg
  BY <1>1
<1>3. ContentsIn(m, s) \in Seq(AnyMsg) /\ DOMAIN ContentsIn(m, s) = 1..Len(s)
  BY <1>1, <1>2, IsASeq DEF ContentsIn
<1>4. Len(ContentsIn(m, s)) = Len(s)
  BY <1>1, <1>3, LenProperties
<1> QED
  BY <1>1, <1>3, <1>4 DEF ContentsIn

\* A message is moved with its struct.
LEMMA ContentsAppended ==
  ASSUME NEW m \in [Addr -> AnyMsg], NEW s \in Seq(Addr), NEW a \in Addr
  PROVE  ContentsIn(m, Append(s, a)) = Append(ContentsIn(m, s), m[a])
<1> DEFINE t == Append(s, a)
           c == ContentsIn(m, s)
<1>1. /\ t \in Seq(Addr) /\ Len(t) = Len(s) + 1 /\ Len(s) \in Nat
      /\ \A i \in 1..Len(s) : t[i] = s[i]
      /\ t[Len(s) + 1] = a
  BY AppendProperties, LenProperties
<1>2. /\ c \in Seq(AnyMsg) /\ Len(c) = Len(s)
      /\ \A i \in 1..Len(s) : c[i] = m[s[i]]
  BY ContentsTyped
<1> HIDE DEF t, c
<1>3. /\ ContentsIn(m, t) \in Seq(AnyMsg) /\ Len(ContentsIn(m, t)) = Len(s) + 1
      /\ \A i \in 1..(Len(s) + 1) : ContentsIn(m, t)[i] = m[t[i]]
  BY <1>1, ContentsTyped
<1>4. m[a] \in AnyMsg
  OBVIOUS
<1>5. /\ Append(c, m[a]) \in Seq(AnyMsg) /\ Len(Append(c, m[a])) = Len(s) + 1
      /\ \A i \in 1..Len(s) : Append(c, m[a])[i] = c[i]
      /\ Append(c, m[a])[Len(s) + 1] = m[a]
  BY <1>2, <1>4, AppendProperties
<1>6. \A i \in 1..(Len(s) + 1) : ContentsIn(m, t)[i] = Append(c, m[a])[i]
  BY <1>1, <1>2, <1>3, <1>5
<1>7. ContentsIn(m, t) = Append(c, m[a])
  BY <1>3, <1>5, <1>6, SeqEqual
<1> QED
  BY <1>7 DEF t, c

LEMMA ContentsPutBack ==
  ASSUME NEW m \in [Addr -> AnyMsg], NEW s \in Seq(Addr), NEW a \in Addr
  PROVE  ContentsIn(m, <<a>> \o s) = <<m[a]>> \o ContentsIn(m, s)
<1> DEFINE t == <<a>> \o s
           c == ContentsIn(m, s)
           d == <<m[a]>> \o c
<1>1. /\ <<a>> \in Seq(Addr) /\ Len(<<a>>) = 1 /\ <<a>>[1] = a
      /\ <<m[a]>> \in Seq(AnyMsg) /\ Len(<<m[a]>>) = 1 /\ <<m[a]>>[1] = m[a]
      /\ Len(s) \in Nat
  BY LenProperties
<1>2. /\ c \in Seq(AnyMsg) /\ Len(c) = Len(s)
      /\ \A i \in 1..Len(s) : c[i] = m[s[i]]
  BY ContentsTyped
<1> HIDE DEF c
<1>3. /\ t \in Seq(Addr) /\ Len(t) = 1 + Len(s)
      /\ \A i \in 1..Len(t) : t[i] = IF i <= 1 THEN <<a>>[i] ELSE s[i - 1]
  BY <1>1, ConcatProperties
<1>4. /\ d \in Seq(AnyMsg) /\ Len(d) = 1 + Len(c)
      /\ \A i \in 1..Len(d) : d[i] = IF i <= 1 THEN <<m[a]>>[i] ELSE c[i - 1]
  BY <1>1, <1>2, ConcatProperties
<1> HIDE DEF t, d
<1>5. /\ ContentsIn(m, t) \in Seq(AnyMsg) /\ Len(ContentsIn(m, t)) = Len(t)
      /\ \A i \in 1..Len(t) : ContentsIn(m, t)[i] = m[t[i]]
  BY <1>3, ContentsTyped
<1>6. ASSUME NEW i \in 1..Len(t) PROVE ContentsIn(m, t)[i] = d[i]
  <2>1. CASE i = 1
    BY <1>1, <1>2, <1>3, <1>4, <1>5, <2>1
  <2>2. CASE i # 1
    <3>1. i - 1 \in 1..Len(s) /\ t[i] = s[i - 1] /\ d[i] = c[i - 1]
      BY <1>1, <1>2, <1>3, <1>4, <2>2
    <3> QED
      BY <1>2, <1>5, <3>1
  <2> QED
    BY <2>1, <2>2
<1>7. ContentsIn(m, t) = d
  BY <1>1, <1>2, <1>3, <1>4, <1>5, <1>6, SeqEqual
<1> QED
  BY <1>7 DEF t, c, d

LEMMA TakenPutBack ==
  ASSUME NEW S, NEW s \in Seq(S), s # <<>>
  PROVE  <<Head(s)>> \o Tail(s) = s
<1>1. /\ Head(s) = s[1] /\ s[1] \in S /\ Tail(s) \in Seq(S)
      /\ Len(s) \in Nat \ {0} /\ Len(Tail(s)) = Len(s) - 1
      /\ \A i \in 1..(Len(s) - 1) : Tail(s)[i] = s[i + 1]
  BY HeadTailProperties, LenProperties, EmptySeq
<1> DEFINE t == <<Head(s)>> \o Tail(s)
<1>2. <<Head(s)>> \in Seq(S) /\ Len(<<Head(s)>>) = 1 /\ <<Head(s)>>[1] = s[1]
  BY <1>1
<1>3. t \in Seq(S) /\ Len(t) = Len(s)
  BY <1>1, <1>2, ConcatProperties
<1>4. ASSUME NEW i \in 1..Len(s) PROVE t[i] = s[i]
  <2>1. CASE i = 1
    BY <1>1, <1>2, <2>1, ConcatProperties
  <2>2. CASE i # 1
    <3>1. t[i] = Tail(s)[i - 1] /\ i - 1 \in 1..(Len(s) - 1)
      BY <1>1, <1>2, <2>2, ConcatProperties
    <3> QED
      BY <1>1, <3>1
  <2> QED
    BY <2>1, <2>2
<1> HIDE DEF t
<1>5. t = s
  BY <1>3, <1>4, SeqEqual
<1> QED
  BY <1>5 DEF t

LEMMA PutBackTaken ==
  ASSUME NEW S, NEW s \in Seq(S), NEW x \in S
  PROVE  /\ <<x>> \o s # <<>>
         /\ Head(<<x>> \o s) = x
         /\ Tail(<<x>> \o s) = s
<1> DEFINE t == <<x>> \o s
<1>1. <<x>> \in Seq(S) /\ Len(<<x>>) = 1 /\ <<x>>[1] = x /\ Len(s) \in Nat
  BY LenProperties
<1>2. /\ t \in Seq(S) /\ Len(t) = 1 + Len(s)
      /\ \A i \in 1..Len(t) : t[i] = IF i <= 1 THEN <<x>>[i] ELSE s[i - 1]
  BY <1>1, ConcatProperties
<1> HIDE DEF t
<1>3. t # <<>>
  BY <1>1, <1>2, EmptySeq
<1>4. /\ Head(t) = t[1] /\ Tail(t) \in Seq(S) /\ Len(Tail(t)) = Len(t) - 1
      /\ \A i \in 1..(Len(t) - 1) : Tail(t)[i] = t[i + 1]
  BY <1>2, <1>3, HeadTailProperties
<1>5. \A i \in 1..Len(s) : Tail(t)[i] = s[i]
  BY <1>1, <1>2, <1>4
<1>6. Tail(t) = s
  BY <1>1, <1>2, <1>4, <1>5, SeqEqual
<1>7. Head(t) = x
  BY <1>1, <1>2, <1>4
<1> QED
  BY <1>3, <1>6, <1>7 DEF t

LEMMA ConcatAppend ==
  ASSUME NEW S, NEW h \in Seq(S), NEW s \in Seq(S), NEW x \in S
  PROVE  h \o Append(s, x) = Append(h \o s, x)
<1>1. /\ <<x>> \in Seq(S)
      /\ Append(s, x) = s \o <<x>>
      /\ h \o s \in Seq(S)
      /\ Append(h \o s, x) = (h \o s) \o <<x>>
  BY AppendIsConcat, ConcatProperties
<1> QED
  BY <1>1, ConcatAssociative

LEMMA ContentsSame ==
  ASSUME NEW m \in [Addr -> AnyMsg], NEW n \in [Addr -> AnyMsg],
         NEW s \in Seq(Addr), \A a \in ToSet(s) : n[a] = m[a]
  PROVE  ContentsIn(n, s) = ContentsIn(m, s)
BY DEF ContentsIn, ToSet

LEMMA ContentsCtxs ==
  ASSUME NEW m \in [Addr -> AnyMsg], NEW s \in Seq(Addr)
  PROVE  CtxsOf(ContentsIn(m, s)) = {m[a].ctx : a \in ToSet(s)} \ {NoCtx}
BY ContentsTyped DEF CtxsOf, ToSet

LEMMA ContentsEmpty ==
  ASSUME NEW m
  PROVE  ContentsIn(m, <<>>) = <<>>
BY DEF ContentsIn

-----------------------------------------------------------------------------
(***************************************************************************)
(* The two lists of the promise: what a call holds, then the contents of   *)
(* the list.                                                               *)
(***************************************************************************)
LEMMA MemTyped ==
  PoolTypeOK => /\ mem \in [Addr -> AnyMsg]
                /\ unsent \in Seq(Addr) /\ in_flight \in Seq(Addr)
BY DEF PoolTypeOK, AnyMsg

\* Which message heads each list, if any: the one a call of its kind holds.
Heads(S) == S = {} \/ \E a \in Addr : S = {a}

LEMMA HeldMsgIs ==
  /\ HeldMsg({}) = <<>>
  /\ \A a \in Addr : HeldMsg({a}) = <<mem[a]>>
BY DEF HeldMsg

LEMMA HeldIsSent ==
  ASSUME PlaceInv
  PROVE  \A kind \in Kinds : HeldBy(kind) \subseteq ToSet(Holding)
BY HeldIn DEF HeldBy, PlaceInv

LEMMA HeldByFacts ==
  ASSUME PlaceInv, NestOK
  PROVE  /\ Caller = "loop" => \A kind \in Kinds : HeldBy(kind) = {}
         /\ Caller = "answer" => HeldBy("send") = {}
         /\ \A a \in Addr : Held("answer", a) =>
              HeldBy("answer") = {a} /\ HeldBy("send") = {}
         /\ \A a \in Addr : Held("send", a) => HeldBy("send") = {a}
         /\ \A kind \in {"answer", "send"} : Heads(HeldBy(kind))
<1>1. calls \in Seq(Kinds \X Addr)
  BY DEF PlaceInv, PoolTypeOK, Kinds
<1>2. /\ Len(calls) \in Nat /\ DOMAIN calls = 1..Len(calls)
      /\ \A i \in 1..Len(calls) : calls[i] \in Kinds \X Addr
  BY <1>1, LenProperties, ElementOfSeq
<1>3. ASSUME NEW kind \in Kinds
      PROVE  HeldBy(kind) = {calls[i][2] : i \in {j \in DOMAIN calls : calls[j][1] = kind}}
  BY DEF HeldBy, ToSet
<1>4. ASSUME Caller = "loop", NEW kind \in Kinds
      PROVE  HeldBy(kind) = {}
  BY <1>2, <1>3, <1>4, LoopHoldsNothing DEF PlaceInv
<1>5. ASSUME NEW kind \in {"answer", "send"},
             NEW i \in DOMAIN calls, calls[i][1] = kind,
             NEW j \in DOMAIN calls, calls[j][1] = kind
      PROVE  i = j
  BY <1>5 DEF NestOK
<1>6. ASSUME NEW kind \in {"answer", "send"}, NEW i \in DOMAIN calls,
             calls[i][1] = kind
      PROVE  HeldBy(kind) = {calls[i][2]} /\ calls[i][2] \in Addr
  <2>1. {j \in DOMAIN calls : calls[j][1] = kind} = {i}
    BY <1>5, <1>6
  <2>2. kind \in Kinds
    BY DEF Kinds
  <2> QED
    BY <1>2, <1>3, <2>1, <2>2
<1>7. ASSUME NEW kind \in {"answer", "send"}
      PROVE  Heads(HeldBy(kind))
  <2>1. CASE \E i \in DOMAIN calls : calls[i][1] = kind
    BY <1>6, <2>1 DEF Heads
  <2>2. CASE ~ \E i \in DOMAIN calls : calls[i][1] = kind
    BY <1>3, <2>2 DEF Heads, Kinds
  <2> QED
    BY <2>1, <2>2
<1>8. ASSUME NEW kind \in {"answer", "send"}, Caller = kind
      PROVE  /\ Len(calls) \in DOMAIN calls /\ calls[Len(calls)][1] = kind
             /\ Last(calls)[2] = calls[Len(calls)][2]
  <2>1. calls # <<>>
    BY <1>8 DEF Caller
  <2>2. Len(calls) # 0
    BY <1>1, <2>1, EmptySeq
  <2> QED
    BY <1>2, <1>8, <2>1, <2>2 DEF Caller, Last
<1>9. ASSUME Caller = "answer" PROVE HeldBy("send") = {}
  <2>1. Len(calls) = 1 /\ calls[1][1] = "answer"
    BY <1>2, <1>8, <1>9 DEF NestOK
  <2>2. \A i \in DOMAIN calls : calls[i][1] # "send"
    BY <1>2, <2>1
  <2> QED
    BY <1>3, <2>2 DEF Kinds
<1>10. ASSUME NEW kind \in {"answer", "send"}, NEW a \in Addr, Held(kind, a)
       PROVE  HeldBy(kind) = {a}
  BY <1>6, <1>8, <1>10 DEF Held
<1>11. ASSUME NEW a \in Addr, Held("answer", a) PROVE HeldBy("send") = {}
  BY <1>9, <1>11 DEF Held
<1> QED
  BY <1>4, <1>7, <1>9, <1>10, <1>11

LEMMA StackIn ==
  ASSUME NEW c \in Seq(Kinds \X Addr)
  PROVE  \A f \in ToSet(c) : f[2] \in ToSet(StructsOf(c))
BY DEF ToSet, StructsOf

\* What entering and leaving a call changes.
LEMMA HeldByPush ==
  ASSUME PlaceInv, NEW kind \in Kinds, NEW a \in Addr,
         calls' = Append(calls, <<kind, a>>), a \notin ToSet(Holding)
  PROVE  /\ HeldBy(kind)' = HeldBy(kind) \cup {a}
         /\ \A k \in Kinds \ {kind} : HeldBy(k)' = HeldBy(k)
<1>1. ToSet(calls') = ToSet(calls) \cup {<<kind, a>>}
  BY CallPlaces
<1> QED
  BY <1>1 DEF HeldBy

LEMMA HeldByPop ==
  ASSUME PlaceInv, NEW kind \in Kinds, NEW a \in Addr, Held(kind, a), Return
  PROVE  /\ HeldBy(kind)' = HeldBy(kind) \ {a}
         /\ \A k \in Kinds \ {kind} : HeldBy(k)' = HeldBy(k)
<1>1. /\ ToSet(calls) = ToSet(calls') \cup {<<kind, a>>}
      /\ a \notin ToSet(Holding')
  BY ReturnFacts
<1>2. calls' \in Seq(Kinds \X Addr)
  BY ReturnFacts
<1>3. \A f \in ToSet(calls') : f[2] \in ToSet(StructsOf(calls'))
  BY <1>2, StackIn
<1>4. \A f \in ToSet(calls') : f[2] # a
  BY <1>1, <1>3, HoldingIs
<1>5. HeldBy(kind) = HeldBy(kind)' \cup {a} /\ a \notin HeldBy(kind)'
  <2>1. HeldBy(kind)' = {f[2] : f \in {g \in ToSet(calls') : g[1] = kind}}
    BY DEF HeldBy
  <2>2. {g \in ToSet(calls) : g[1] = kind} =
          {g \in ToSet(calls') : g[1] = kind} \cup {<<kind, a>>}
    BY <1>1
  <2>3. HeldBy(kind) = {f[2] : f \in {g \in ToSet(calls') : g[1] = kind}} \cup {a}
    <3> DEFINE G == {g \in ToSet(calls') : g[1] = kind}
               e == <<kind, a>>
    <3>1. HeldBy(kind) = {f[2] : f \in G \cup {e}} /\ e[2] = a
      BY <2>2 DEF HeldBy
    <3> HIDE DEF G, e
    <3>2. {f[2] : f \in G \cup {e}} = {f[2] : f \in G} \cup {a}
      BY <3>1
    <3> QED
      BY <3>1, <3>2 DEF G
  <2> QED
    BY <1>4, <2>1, <2>3
<1>6. \A k \in Kinds \ {kind} : HeldBy(k)' = HeldBy(k)
  BY <1>1 DEF HeldBy
<1> QED
  BY <1>5, <1>6

HeadIn(m, S) == IF S = {} THEN <<>> ELSE <<m[CHOOSE a \in S : TRUE]>>

OpenIn(m, S) == {a \in S : m[a].op = "Connect" \/ m[a].ctx # NoCtx}

LEMMA MapIs ==
  /\ UnsentMsgs = HeadIn(mem, HeldBy("send")) \o ContentsIn(mem, unsent)
  /\ UnsentMsgs' = HeadIn(mem', HeldBy("send")') \o ContentsIn(mem', unsent')
  /\ InFlightMsgs = HeadIn(mem, OpenIn(mem, HeldBy("answer")))
                      \o ContentsIn(mem, in_flight)
  /\ InFlightMsgs' = HeadIn(mem', OpenIn(mem', HeldBy("answer")'))
                      \o ContentsIn(mem', in_flight')
BY DEF UnsentMsgs, InFlightMsgs, HeldMsg, Unanswered, Contents, HeadIn, OpenIn,
  ContentsIn

LEMMA HeadIs ==
  ASSUME NEW m
  PROVE  /\ HeadIn(m, {}) = <<>>
         /\ \A a : HeadIn(m, {a}) = <<m[a]>>
BY DEF HeadIn

LEMMA HeadSame ==
  ASSUME NEW m, NEW n, NEW S, \A a \in S : n[a] = m[a]
  PROVE  HeadIn(n, S) = HeadIn(m, S) /\ OpenIn(n, S) = OpenIn(m, S)
         /\ HeadIn(n, OpenIn(n, S)) = HeadIn(m, OpenIn(m, S))
<1>1. ASSUME NEW T, \A a \in T : n[a] = m[a]
      PROVE  HeadIn(n, T) = HeadIn(m, T)
  <2>1. CASE T = {}
    BY <2>1 DEF HeadIn
  <2>2. CASE T # {}
    <3>1. (CHOOSE a \in T : TRUE) \in T
      BY <2>2
    <3>2. n[CHOOSE a \in T : TRUE] = m[CHOOSE a \in T : TRUE]
      BY <1>1, <3>1
    <3> QED
      BY <2>2, <3>2 DEF HeadIn
  <2> QED
    BY <2>1, <2>2
<1>2. OpenIn(n, S) = OpenIn(m, S) /\ OpenIn(m, S) \subseteq S
  BY DEF OpenIn
<1>3. HeadIn(n, S) = HeadIn(m, S)
  BY <1>1
<1>4. HeadIn(n, OpenIn(m, S)) = HeadIn(m, OpenIn(m, S))
  BY <1>1, <1>2
<1> QED
  BY <1>2, <1>3, <1>4

LEMMA HeadTyped ==
  ASSUME NEW m \in [Addr -> AnyMsg], NEW S, Heads(S)
  PROVE  /\ HeadIn(m, S) \in Seq(AnyMsg)
         /\ HeadIn(m, OpenIn(m, S)) \in Seq(AnyMsg)
<1>1. ASSUME NEW T, Heads(T) PROVE HeadIn(m, T) \in Seq(AnyMsg)
  <2>1. CASE T = {}
    BY <2>1, HeadIs, EmptySeq
  <2>2. ASSUME NEW a \in Addr, T = {a} PROVE HeadIn(m, T) \in Seq(AnyMsg)
    <3>1. m[a] \in AnyMsg /\ HeadIn(m, T) = <<m[a]>>
      BY <2>2, HeadIs
    <3> QED
      BY <3>1
  <2> QED
    BY <1>1, <2>1, <2>2 DEF Heads
<1>2. Heads(OpenIn(m, S))
  BY DEF Heads, OpenIn
<1> QED
  BY <1>1, <1>2

LEMMA NothingBefore ==
  ASSUME NEW S, NEW s \in Seq(S)
  PROVE  <<>> \o s = s
BY ConcatEmptySeq

-----------------------------------------------------------------------------
(***************************************************************************)
(* Steps that leave a list of the promise alone.                           *)
(***************************************************************************)
LEMMA UnsentKept ==
  ASSUME PlaceInv, PlaceInv', HeldBy("send")' = HeldBy("send"), unsent' = unsent,
         \A a \in ToSet(unsent) \cup HeldBy("send") : mem'[a] = mem[a]
  PROVE  UnsentMsgs' = UnsentMsgs
<1>1. mem \in [Addr -> AnyMsg] /\ mem' \in [Addr -> AnyMsg] /\ unsent \in Seq(Addr)
  BY MemTyped DEF PlaceInv, PoolTypeOK, AnyMsg
<1>2. ContentsIn(mem', unsent) = ContentsIn(mem, unsent)
  BY <1>1, ContentsSame
<1>3. HeadIn(mem', HeldBy("send")) = HeadIn(mem, HeldBy("send"))
  BY HeadSame
<1> QED
  BY <1>2, <1>3, MapIs

LEMMA InFlightKept ==
  ASSUME PlaceInv, PlaceInv', HeldBy("answer")' = HeldBy("answer"),
         in_flight' = in_flight,
         \A a \in ToSet(in_flight) \cup HeldBy("answer") : mem'[a] = mem[a]
  PROVE  InFlightMsgs' = InFlightMsgs
<1>1. mem \in [Addr -> AnyMsg] /\ mem' \in [Addr -> AnyMsg] /\ in_flight \in Seq(Addr)
  BY MemTyped DEF PlaceInv, PoolTypeOK, AnyMsg
<1>2. ContentsIn(mem', in_flight) = ContentsIn(mem, in_flight)
  BY <1>1, ContentsSame
<1>3. HeadIn(mem', OpenIn(mem', HeldBy("answer"))) =
        HeadIn(mem, OpenIn(mem, HeldBy("answer")))
  BY HeadSame
<1> QED
  BY <1>2, <1>3, MapIs

FlowSame == UNCHANGED <<todo, seqnum, UnsentMsgs, InFlightMsgs, out, leaked, freed>>

-----------------------------------------------------------------------------
(***************************************************************************)
(* The step of the promise that each operation on structs is.              *)
(***************************************************************************)
LEMMA NewUnsentFlow ==
  ASSUME PlaceInv, PlaceInv', NestOK, Caller = "loop",
         NEW a \in Addr, NEW m, dp_msg_new(a, m),
         unsent' = Append(unsent, a), UNCHANGED <<in_flight, calls>>
  PROVE  /\ UnsentMsgs' = Append(UnsentMsgs, m)
         /\ InFlightMsgs' = InFlightMsgs
<1>1. /\ mem \in [Addr -> AnyMsg] /\ mem' \in [Addr -> AnyMsg]
      /\ unsent \in Seq(Addr) /\ unsent' \in Seq(Addr)
  BY MemTyped DEF PlaceInv, PoolTypeOK, AnyMsg
<1>2. /\ mem' = [mem EXCEPT ![a] = m]
      /\ a \notin ToSet(unsent) \cup ToSet(in_flight) \cup ToSet(Holding)
  BY NewFacts
<1>3. /\ mem'[a] = m
      /\ \A b \in ToSet(unsent) \cup ToSet(in_flight) : mem'[b] = mem[b]
  BY <1>1, <1>2
<1>4. /\ \A kind \in Kinds : HeldBy(kind) = {} /\ HeldBy(kind)' = {}
  BY HeldByFacts DEF HeldBy
<1>5. InFlightMsgs' = InFlightMsgs
  BY <1>3, <1>4, InFlightKept DEF Kinds
<1>6. ContentsIn(mem', unsent') = Append(ContentsIn(mem, unsent), m)
  <2>1. ContentsIn(mem', Append(unsent, a)) = Append(ContentsIn(mem', unsent), m)
    BY <1>1, <1>3, ContentsAppended
  <2>2. ContentsIn(mem', unsent) = ContentsIn(mem, unsent)
    BY <1>1, <1>3, ContentsSame
  <2> QED
    BY <2>1, <2>2
<1>7. UnsentMsgs = ContentsIn(mem, unsent) /\ UnsentMsgs' = ContentsIn(mem', unsent')
  <2>1. HeldBy("send") = {} /\ HeldBy("send")' = {}
    BY <1>4 DEF Kinds
  <2>2. ContentsIn(mem, unsent) \in Seq(AnyMsg) /\ ContentsIn(mem', unsent') \in Seq(AnyMsg)
    BY <1>1, ContentsTyped
  <2> QED
    BY <2>1, <2>2, MapIs, HeadIs, NothingBefore
<1> QED
  BY <1>5, <1>6, <1>7

LEMMA SendRequestFlow ==
  ASSUME PlaceInv, PlaceInv', NestOK, NEW a \in Addr, NEW c \in Ctx, SendRequest(a, c)
  PROVE  PoolFlow!Accept(c)
<1> DEFINE m == [op |-> "Object", seqn |-> seqnum, ctx |-> c]
<1>1. UnsentMsgs' = Append(UnsentMsgs, m) /\ InFlightMsgs' = InFlightMsgs
  BY NewUnsentFlow DEF SendRequest
<1> QED
  BY <1>1 DEF SendRequest, PoolFlow!Accept

LEMMA SendControlFlow ==
  ASSUME PlaceInv, PlaceInv', NestOK, NEW a \in Addr,
         NEW m \in {KeepaliveMsg, RefreshMsg}, SendControl(a, m)
  PROVE  PoolFlow!QueueControl(m)
<1>1. UnsentMsgs' = Append(UnsentMsgs, m) /\ InFlightMsgs' = InFlightMsgs
  BY NewUnsentFlow DEF SendControl
<1> QED
  BY <1>1 DEF SendControl, PoolFlow!QueueControl

LEMMA PopUnsentFlow ==
  ASSUME PlaceInv, PlaceInv', NestOK, dp_msg_pop_unsent
  PROVE  FlowSame
<1> DEFINE a == Head(unsent)
<1>1. /\ calls' = Append(calls, <<"send", a>>) /\ unsent' = Tail(unsent)
      /\ unsent # <<>> /\ mem' = mem /\ in_flight' = in_flight
      /\ UNCHANGED <<todo, seqnum, out, leaked, freed>>
      /\ Caller \in {"loop", "answer"}
  BY DEF dp_msg_pop_unsent
<1>2. /\ mem \in [Addr -> AnyMsg] /\ unsent \in Seq(Addr)
  BY MemTyped DEF PlaceInv
<1>3. a \in Addr /\ a \in ToSet(unsent) /\ unsent' \in Seq(Addr)
      /\ <<a>> \o Tail(unsent) = unsent
  BY <1>1, <1>2, StructTaken, TakenPutBack
<1> HIDE DEF a
<1>4. a \notin ToSet(Holding)
  BY <1>3 DEF PlaceInv, OnePlace, Apart
<1>5. /\ HeldBy("send")' = HeldBy("send") \cup {a}
      /\ HeldBy("answer")' = HeldBy("answer")
  BY <1>1, <1>3, <1>4, HeldByPush DEF Kinds
<1>6. HeldBy("send") = {}
  BY <1>1, HeldByFacts DEF Kinds
<1>7. InFlightMsgs' = InFlightMsgs
  BY <1>1, <1>5, InFlightKept
<1>8. UnsentMsgs = ContentsIn(mem, unsent)
  <2>1. /\ UnsentMsgs = <<>> \o ContentsIn(mem, unsent)
        /\ ContentsIn(mem, unsent) \in Seq(AnyMsg)
    BY <1>2, <1>6, ContentsTyped, MapIs, HeadIs
  <2> QED
    BY <2>1, NothingBefore
<1>9. UnsentMsgs' = <<mem[a]>> \o ContentsIn(mem, Tail(unsent))
  BY <1>1, <1>5, <1>6, MapIs, HeadIs
<1>10. <<mem[a]>> \o ContentsIn(mem, Tail(unsent)) = ContentsIn(mem, unsent)
  BY <1>1, <1>2, <1>3, ContentsPutBack
<1> QED
  BY <1>1, <1>7, <1>8, <1>9, <1>10 DEF FlowSame

LEMMA PopInflightFlow ==
  ASSUME PlaceInv, PlaceInv', NestOK, dp_msg_pop_inflight
  PROVE  FlowSame
<1> DEFINE a == Head(in_flight)
<1>1. /\ calls = <<>> /\ calls' = <<<<"answer", a>>>> /\ in_flight' = Tail(in_flight)
      /\ in_flight # <<>> /\ mem' = mem /\ unsent' = unsent
      /\ UNCHANGED <<todo, seqnum, out, leaked, freed>>
      /\ Caller = "loop"
  BY LoopHoldsNothing DEF PlaceInv, dp_msg_pop_inflight
<1>2. /\ mem \in [Addr -> AnyMsg] /\ in_flight \in Seq(Addr)
  BY MemTyped DEF PlaceInv
<1>3. a \in Addr /\ a \in ToSet(in_flight) /\ in_flight' \in Seq(Addr)
      /\ <<a>> \o Tail(in_flight) = in_flight
  BY <1>1, <1>2, StructTaken, TakenPutBack
<1> HIDE DEF a
<1>4. a \notin ToSet(Holding) /\ calls' = Append(calls, <<"answer", a>>)
  BY <1>1, <1>3 DEF PlaceInv, OnePlace, Apart
<1>5. /\ HeldBy("answer")' = HeldBy("answer") \cup {a}
      /\ HeldBy("send")' = HeldBy("send")
  BY <1>3, <1>4, HeldByPush DEF Kinds
<1>6. HeldBy("answer") = {}
  BY <1>1, HeldByFacts DEF Kinds
<1>7. UnsentMsgs' = UnsentMsgs
  BY <1>1, <1>5, UnsentKept
<1>8. InFlightMsgs = ContentsIn(mem, in_flight)
  <2>1. OpenIn(mem, {}) = {}
    BY DEF OpenIn
  <2> QED
    <3>1. /\ InFlightMsgs = <<>> \o ContentsIn(mem, in_flight)
          /\ ContentsIn(mem, in_flight) \in Seq(AnyMsg)
      BY <1>2, <1>6, <2>1, ContentsTyped, MapIs, HeadIs
    <3> QED
      BY <3>1, NothingBefore
<1>9. InFlightMsgs' = <<mem[a]>> \o ContentsIn(mem, Tail(in_flight))
  <2>1. mem[a] \in RequestMsg
    BY <1>3 DEF PlaceInv, PoolTypeOK
  <2>2. OpenIn(mem, {a}) = {a}
    BY <2>1, PoolConstantsOK DEF OpenIn, RequestMsg, ObjectMsg, ConnectMsg
  <2> QED
    BY <1>1, <1>5, <1>6, <2>2, MapIs, HeadIs
<1>10. <<mem[a]>> \o ContentsIn(mem, Tail(in_flight)) = ContentsIn(mem, in_flight)
  BY <1>1, <1>2, <1>3, ContentsPutBack
<1> QED
  BY <1>1, <1>7, <1>8, <1>9, <1>10 DEF FlowSame

LEMMA NoHead ==
  ASSUME NEW m \in [Addr -> AnyMsg], NEW s \in Seq(Addr)
  PROVE  /\ HeadIn(m, {}) \o ContentsIn(m, s) = ContentsIn(m, s)
         /\ HeadIn(m, OpenIn(m, {})) \o ContentsIn(m, s) = ContentsIn(m, s)
<1>1. ContentsIn(m, s) \in Seq(AnyMsg)
  BY ContentsTyped
<1>2. HeadIn(m, {}) = <<>> /\ OpenIn(m, {}) = {}
  BY HeadIs DEF OpenIn
<1> QED
  BY <1>1, <1>2, NothingBefore

LEMMA StartConnectFlow ==
  ASSUME PlaceInv, PlaceInv', NEW a \in Addr, StartConnect(a)
  PROVE  FlowSame
<1>1. /\ dp_msg_new(a, ConnectMsg)
      /\ calls' = Append(calls, <<"connect", a>>)
      /\ unsent' = unsent /\ in_flight' = in_flight
      /\ UNCHANGED <<todo, seqnum, out, leaked, freed>>
  BY DEF StartConnect
<1>2. /\ mem' = [mem EXCEPT ![a] = ConnectMsg]
      /\ a \notin ToSet(unsent) \cup ToSet(in_flight) \cup ToSet(Holding)
  BY <1>1, NewFacts
<1>3. HeldBy("send")' = HeldBy("send") /\ HeldBy("answer")' = HeldBy("answer")
  BY <1>1, <1>2, HeldByPush DEF Kinds
<1>4. /\ HeldBy("send") \subseteq ToSet(Holding)
      /\ HeldBy("answer") \subseteq ToSet(Holding)
  BY HeldIsSent DEF Kinds
<1>5. /\ ToSet(unsent) \subseteq Addr /\ ToSet(in_flight) \subseteq Addr
      /\ ToSet(Holding) \subseteq Addr
  BY DEF PlaceInv, OnePlace
<1>6. \A b \in ToSet(unsent) \cup ToSet(in_flight) \cup ToSet(Holding) : mem'[b] = mem[b]
  BY <1>2, <1>5 DEF PlaceInv, PoolTypeOK
<1>7. UnsentMsgs' = UnsentMsgs
  BY <1>1, <1>3, <1>4, <1>6, UnsentKept
<1>8. InFlightMsgs' = InFlightMsgs
  BY <1>1, <1>3, <1>4, <1>6, InFlightKept
<1> QED
  BY <1>1, <1>7, <1>8 DEF FlowSame

\* in_flight gets a message, behind whatever an answer holds.
LEMMA InFlightAppended ==
  ASSUME PlaceInv, PlaceInv', NestOK, NEW a \in Addr,
         HeldBy("answer")' = HeldBy("answer"), mem' = mem,
         in_flight' = Append(in_flight, a)
  PROVE  InFlightMsgs' = Append(InFlightMsgs, mem[a])
<1> DEFINE h == HeadIn(mem, OpenIn(mem, HeldBy("answer")))
           s == ContentsIn(mem, in_flight)
<1>1. mem \in [Addr -> AnyMsg] /\ in_flight \in Seq(Addr) /\ mem[a] \in AnyMsg
  BY MemTyped DEF PlaceInv
<1>2. h \in Seq(AnyMsg) /\ s \in Seq(AnyMsg)
  BY <1>1, HeldByFacts, HeadTyped, ContentsTyped
<1>3. ContentsIn(mem, Append(in_flight, a)) = Append(s, mem[a])
  BY <1>1, ContentsAppended
<1>4. /\ InFlightMsgs = h \o s
      /\ InFlightMsgs' = h \o ContentsIn(mem, Append(in_flight, a))
  BY MapIs
<1> HIDE DEF h, s
<1>5. h \o Append(s, mem[a]) = Append(h \o s, mem[a])
  BY <1>1, <1>2, ConcatAppend
<1> QED
  BY <1>3, <1>4, <1>5

LEMMA ConnectSentFlow ==
  ASSUME PlaceInv, PlaceInv', NestOK, NEW a \in Addr, ConnectSent(a)
  PROVE  PoolFlow!SendConnect
<1>1. /\ Held("connect", a) /\ Return /\ mem[a] = ConnectMsg
      /\ in_flight' = Append(in_flight, a)
      /\ mem' = mem /\ unsent' = unsent
      /\ UNCHANGED <<todo, seqnum, out, leaked, freed>>
  BY HeldMessage DEF ConnectSent
<1>2. HeldBy("send")' = HeldBy("send") /\ HeldBy("answer")' = HeldBy("answer")
  BY <1>1, HeldByPop DEF Kinds
<1>3. UnsentMsgs' = UnsentMsgs
  BY <1>1, <1>2, UnsentKept
<1>4. InFlightMsgs' = Append(InFlightMsgs, ConnectMsg)
  BY <1>1, <1>2, InFlightAppended
<1> QED
  BY <1>1, <1>3, <1>4 DEF PoolFlow!SendConnect, PoolFlow!ConnectMsg, ConnectMsg

LEMMA ConnectNotSentFlow ==
  ASSUME PlaceInv, PlaceInv', NEW a \in Addr, ConnectNotSent(a)
  PROVE  FlowSame
<1>1. /\ Held("connect", a) /\ Return /\ mem[a] = ConnectMsg
      /\ dp_msg_recycle(a)
      /\ mem' = mem /\ unsent' = unsent /\ in_flight' = in_flight
      /\ UNCHANGED <<todo, seqnum, out, freed>>
  BY HeldMessage DEF ConnectNotSent
<1>2. HeldBy("send")' = HeldBy("send") /\ HeldBy("answer")' = HeldBy("answer")
  BY <1>1, HeldByPop DEF Kinds
<1>3. leaked' = leaked
  BY <1>1, MsgTypes DEF dp_msg_recycle
<1>4. UnsentMsgs' = UnsentMsgs
  BY <1>1, <1>2, UnsentKept
<1>5. InFlightMsgs' = InFlightMsgs
  BY <1>1, <1>2, InFlightKept
<1> QED
  BY <1>1, <1>3, <1>4, <1>5 DEF FlowSame

LEMMA SendSucceedsFlow ==
  ASSUME PlaceInv, PlaceInv', NestOK, NEW a \in Addr, SendSucceeds(a)
  PROVE  PoolFlow!Send
<1>1. /\ Held("send", a) /\ Return /\ mem[a] \in UnsentMsg
      /\ mem' = mem /\ unsent' = unsent
      /\ UNCHANGED <<todo, seqnum, out, freed>>
  BY HeldMessage DEF SendSucceeds
<1>2. mem \in [Addr -> AnyMsg] /\ unsent \in Seq(Addr) /\ mem[a] \in AnyMsg
  BY MemTyped DEF PlaceInv
<1>3. HeldBy("send") = {a} /\ HeldBy("send")' = {} /\ HeldBy("answer")' = HeldBy("answer")
  BY <1>1, HeldByPop, HeldByFacts DEF Kinds
<1> DEFINE s == ContentsIn(mem, unsent)
<1>4. s \in Seq(AnyMsg)
  BY <1>2, ContentsTyped
<1>5. UnsentMsgs = <<mem[a]>> \o s /\ UnsentMsgs' = s
  BY <1>1, <1>2, <1>3, MapIs, HeadIs, NoHead
<1> HIDE DEF s
<1>6. UnsentMsgs # <<>> /\ Head(UnsentMsgs) = mem[a] /\ UnsentMsgs' = Tail(UnsentMsgs)
  BY <1>2, <1>4, <1>5, PutBackTaken
<1>7. CASE IsRequest(mem[a])
  <2>1. in_flight' = Append(in_flight, a) /\ leaked' = leaked
    BY <1>7 DEF SendSucceeds
  <2>2. InFlightMsgs' = Append(InFlightMsgs, mem[a])
    BY <1>1, <1>3, <2>1, InFlightAppended
  <2> QED
    BY <1>1, <1>6, <1>7, <2>1, <2>2 DEF PoolFlow!Send, PoolFlow!IsRequest, IsRequest,
      PoolFlow!RequestOp, RequestOp
<1>8. CASE ~IsRequest(mem[a])
  <2>1. in_flight' = in_flight /\ dp_msg_recycle(a)
    BY <1>8 DEF SendSucceeds
  <2>2. leaked' = leaked
    BY <1>1, <1>8, <2>1, MsgTypes DEF dp_msg_recycle
  <2>3. InFlightMsgs' = InFlightMsgs
    BY <1>1, <1>3, <2>1, InFlightKept
  <2> QED
    BY <1>1, <1>6, <1>8, <2>2, <2>3 DEF PoolFlow!Send, PoolFlow!IsRequest, IsRequest,
      PoolFlow!RequestOp, RequestOp
<1> QED
  BY <1>7, <1>8

LEMMA SendFailsFlow ==
  ASSUME PlaceInv, PlaceInv', NestOK, NEW a \in Addr, SendFails(a)
  PROVE  FlowSame
<1>1. /\ Held("send", a) /\ Return /\ unsent' = <<a>> \o unsent
      /\ mem' = mem /\ in_flight' = in_flight
      /\ UNCHANGED <<todo, seqnum, out, leaked, freed>>
  BY DEF SendFails
<1>2. mem \in [Addr -> AnyMsg] /\ unsent \in Seq(Addr) /\ unsent' \in Seq(Addr)
  BY MemTyped DEF PlaceInv, PoolTypeOK
<1>3. HeldBy("send") = {a} /\ HeldBy("send")' = {} /\ HeldBy("answer")' = HeldBy("answer")
  BY <1>1, HeldByPop, HeldByFacts DEF Kinds
<1>4. InFlightMsgs' = InFlightMsgs
  BY <1>1, <1>3, InFlightKept
<1>5. /\ UnsentMsgs = <<mem[a]>> \o ContentsIn(mem, unsent)
      /\ UnsentMsgs' = ContentsIn(mem, unsent')
  BY <1>1, <1>2, <1>3, MapIs, HeadIs, NoHead
<1>6. ContentsIn(mem, <<a>> \o unsent) = <<mem[a]>> \o ContentsIn(mem, unsent)
  BY <1>2, ContentsPutBack
<1> QED
  BY <1>1, <1>4, <1>5, <1>6 DEF FlowSame

LEMMA HandOffFlow ==
  ASSUME PlaceInv, PlaceInv', NestOK, NEW a \in Addr,
         NEW res \in {"success", "failure"}, dp_msg_hand_off(a, res)
  PROVE  PoolFlow!Respond(res)
<1>1. /\ Held("answer", a) /\ mem[a].ctx # NoCtx
      /\ out' = Append(out, <<mem[a].ctx, res>>)
      /\ mem' = [mem EXCEPT ![a] = [mem[a] EXCEPT !.ctx = NoCtx]]
      /\ unsent' = unsent /\ in_flight' = in_flight /\ calls' = calls
      /\ UNCHANGED <<todo, seqnum, leaked, freed>>
  BY DEF dp_msg_hand_off
<1>2. /\ mem \in [Addr -> AnyMsg] /\ mem' \in [Addr -> AnyMsg]
      /\ in_flight \in Seq(Addr) /\ mem[a] \in AnyMsg
  BY MemTyped DEF PlaceInv, PoolTypeOK, AnyMsg
<1>3. /\ HeldBy("answer") = {a} /\ HeldBy("answer")' = {a}
      /\ HeldBy("send") = {} /\ HeldBy("send")' = {}
  BY <1>1, HeldByFacts DEF HeldBy
<1>4. a \in ToSet(Holding)
  BY <1>3, HeldIsSent DEF Kinds
<1>5. a \notin ToSet(unsent) \cup ToSet(in_flight)
  BY <1>4 DEF PlaceInv, OnePlace, Apart
<1>6. /\ \A b \in ToSet(unsent) \cup ToSet(in_flight) : mem'[b] = mem[b]
      /\ mem'[a].ctx = NoCtx /\ mem'[a].op = mem[a].op
  BY <1>1, <1>2, <1>5 DEF AnyMsg
<1>7. mem[a].op = "Object"
  BY <1>1, HeldMessage, MsgTypes
<1>8. UnsentMsgs' = UnsentMsgs
  BY <1>1, <1>3, <1>6, UnsentKept
<1> DEFINE s == ContentsIn(mem, in_flight)
<1>9. s \in Seq(AnyMsg) /\ ContentsIn(mem', in_flight) = s
  BY <1>2, <1>6, ContentsTyped, ContentsSame
<1>10. InFlightMsgs = <<mem[a]>> \o s
  <2>1. OpenIn(mem, {a}) = {a}
    BY <1>1 DEF OpenIn
  <2> QED
    BY <1>3, <2>1, MapIs, HeadIs
<1>11. InFlightMsgs' = s
  <2>1. OpenIn(mem', {a}) = {}
    BY <1>6, <1>7 DEF OpenIn
  <2>2. InFlightMsgs' = <<>> \o s
    BY <1>1, <1>3, <1>9, <2>1, MapIs, HeadIs
  <2> QED
    BY <1>9, <2>2, NothingBefore
<1> HIDE DEF s
<1>12. /\ InFlightMsgs # <<>> /\ Head(InFlightMsgs) = mem[a]
       /\ InFlightMsgs' = Tail(InFlightMsgs)
  BY <1>2, <1>9, <1>10, <1>11, PutBackTaken
<1> QED
  BY <1>1, <1>8, <1>12 DEF PoolFlow!Respond

LEMMA RecycleAnsweredFlow ==
  ASSUME PlaceInv, PlaceInv', NestOK, NEW a \in Addr, RecycleAnswered(a)
  PROVE  FlowSame \/ PoolFlow!RespondConnect \/ PoolFlow!Mismatch
<1>1. /\ Held("answer", a) /\ Return /\ dp_msg_recycle(a)
      /\ mem' = mem /\ unsent' = unsent /\ in_flight' = in_flight
      /\ UNCHANGED <<todo, seqnum, out, freed>>
  BY DEF RecycleAnswered
<1>2. mem \in [Addr -> AnyMsg] /\ in_flight \in Seq(Addr) /\ mem[a] \in AnyMsg
  BY MemTyped DEF PlaceInv
<1>3. /\ HeldBy("answer") = {a} /\ HeldBy("answer")' = {}
      /\ HeldBy("send")' = HeldBy("send")
  BY <1>1, HeldByFacts, HeldByPop DEF Kinds
<1>4. UnsentMsgs' = UnsentMsgs
  BY <1>1, <1>3, UnsentKept
<1>5. mem[a] = ConnectMsg \/ mem[a].op = "Object"
  BY <1>1, HeldMessage
<1> DEFINE s == ContentsIn(mem, in_flight)
<1>6. s \in Seq(AnyMsg) /\ InFlightMsgs' = s
  BY <1>1, <1>2, <1>3, ContentsTyped, MapIs, NoHead
<1>7. CASE mem[a].op = "Object" /\ mem[a].ctx = NoCtx
  <2>1. OpenIn(mem, {a}) = {}
    BY <1>7 DEF OpenIn
  <2>2. InFlightMsgs = <<>> \o s
    BY <1>3, <2>1, MapIs, HeadIs
  <2>3. InFlightMsgs' = InFlightMsgs
    BY <1>6, <2>2, NothingBefore
  <2>4. leaked' = leaked
    BY <1>1, <1>7 DEF dp_msg_recycle
  <2> QED
    BY <1>1, <1>4, <2>3, <2>4 DEF FlowSame
<1>8. CASE mem[a].op = "Connect" \/ mem[a].ctx # NoCtx
  <2>1. OpenIn(mem, {a}) = {a}
    BY <1>8 DEF OpenIn
  <2>2. InFlightMsgs = <<mem[a]>> \o s
    BY <1>3, <2>1, MapIs, HeadIs
  <2> HIDE DEF s
  <2>3. /\ InFlightMsgs # <<>> /\ Head(InFlightMsgs) = mem[a]
        /\ InFlightMsgs' = Tail(InFlightMsgs)
    BY <1>2, <1>6, <2>2, PutBackTaken
  <2>4. CASE mem[a].ctx = NoCtx
    <3>1. leaked' = leaked
      BY <1>1, <2>4 DEF dp_msg_recycle
    <3> QED
      BY <1>1, <1>4, <2>3, <2>4, <3>1 DEF PoolFlow!RespondConnect
  <2>5. CASE mem[a].ctx # NoCtx
    <3>1. leaked' = leaked \cup {mem[a].ctx}
      BY <1>1, <2>5 DEF dp_msg_recycle
    <3> QED
      BY <1>1, <1>4, <2>3, <2>5, <3>1 DEF PoolFlow!Mismatch
  <2> QED
    BY <2>4, <2>5
<1> QED
  BY <1>5, <1>7, <1>8 DEF ConnectMsg

LEMMA FiniFlow ==
  ASSUME PlaceInv, PlaceInv', NestOK, fini_dp_msg_cache
  PROVE  PoolFlow!Stop
<1> DEFINE all == ToSet(pool) \cup ToSet(unsent) \cup ToSet(in_flight)
<1>1. /\ freed' = freed \cup ({mem[a].ctx : a \in all} \ {NoCtx})
      /\ unsent' = <<>> /\ in_flight' = <<>> /\ calls' = calls
      /\ UNCHANGED <<todo, seqnum, out, leaked>>
      /\ Caller = "loop"
  BY DEF fini_dp_msg_cache
<1>2. /\ mem \in [Addr -> AnyMsg] /\ unsent \in Seq(Addr) /\ in_flight \in Seq(Addr)
      /\ mem' \in [Addr -> AnyMsg] /\ <<>> \in Seq(Addr)
  BY MemTyped, EmptySeq DEF PlaceInv, PoolTypeOK, AnyMsg
<1>3. /\ HeldBy("send") = {} /\ HeldBy("answer") = {}
      /\ HeldBy("send")' = {} /\ HeldBy("answer")' = {}
  BY <1>1, HeldByFacts DEF Kinds, HeldBy
<1>4. /\ UnsentMsgs = ContentsIn(mem, unsent)
      /\ InFlightMsgs = ContentsIn(mem, in_flight)
  BY <1>2, <1>3, MapIs, NoHead
<1>5. UnsentMsgs' = <<>> /\ InFlightMsgs' = <<>>
  <2>1. /\ UnsentMsgs' = ContentsIn(mem', <<>>)
        /\ InFlightMsgs' = ContentsIn(mem', <<>>)
    BY <1>1, <1>2, <1>3, MapIs, NoHead
  <2> QED
    BY <2>1, ContentsEmpty
<1>6. {mem[a].ctx : a \in all} \ {NoCtx} =
        CtxsOf(ContentsIn(mem, unsent)) \cup CtxsOf(ContentsIn(mem, in_flight))
  <2>1. \A a \in ToSet(pool) : mem[a].ctx = NoCtx
    BY DEF PlaceInv, PoolTypeOK
  <2>2. /\ CtxsOf(ContentsIn(mem, unsent)) = {mem[a].ctx : a \in ToSet(unsent)} \ {NoCtx}
        /\ CtxsOf(ContentsIn(mem, in_flight)) =
             {mem[a].ctx : a \in ToSet(in_flight)} \ {NoCtx}
    BY <1>2, ContentsCtxs
  <2> QED
    BY <2>1, <2>2
<1>7. freed' = (freed \cup CtxsOf(UnsentMsgs)) \cup CtxsOf(InFlightMsgs)
  BY <1>1, <1>4, <1>6
<1> QED
  BY <1>1, <1>5, <1>7 DEF PoolFlow!Stop, PoolFlow!CtxsOf, CtxsOf

LEMMA PoolFlowStep ==
  ASSUME PlaceInv, PlaceInv', NestOK, [PoolNext]_poolVars
  PROVE  [PoolFlow!Next]_(PoolFlow!flowVars)
<1>1. SUFFICES FlowSame \/ PoolFlow!Next
  BY DEF FlowSame, PoolFlow!flowVars
<1>2. CASE UNCHANGED poolVars
  <2>1. /\ mem' = mem /\ unsent' = unsent /\ in_flight' = in_flight
        /\ HeldBy("send")' = HeldBy("send") /\ HeldBy("answer")' = HeldBy("answer")
        /\ UNCHANGED <<todo, seqnum, out, leaked, freed>>
    BY <1>2 DEF poolVars, HeldBy
  <2>2. UnsentMsgs' = UnsentMsgs
    BY <2>1, UnsentKept
  <2>3. InFlightMsgs' = InFlightMsgs
    BY <2>1, InFlightKept
  <2> QED
    BY <2>1, <2>2, <2>3 DEF FlowSame
<1>3. ASSUME NEW a \in Addr, NEW c \in Ctx, SendRequest(a, c)
      PROVE  PoolFlow!Next
  BY <1>3, SendRequestFlow DEF PoolFlow!Next
<1>4. ASSUME NEW a \in Addr, NEW m \in {KeepaliveMsg, RefreshMsg}, SendControl(a, m)
      PROVE  PoolFlow!Next
  <2>1. PoolFlow!QueueControl(m)
    BY <1>4, SendControlFlow
  <2>2. m \in {PoolFlow!KeepaliveMsg, PoolFlow!RefreshMsg}
    BY DEF KeepaliveMsg, RefreshMsg, PoolFlow!KeepaliveMsg, PoolFlow!RefreshMsg
  <2> QED
    BY <2>1, <2>2 DEF PoolFlow!Next
<1>5. ASSUME NEW a \in Addr, SendSucceeds(a)
      PROVE  PoolFlow!Next
  BY <1>5, SendSucceedsFlow DEF PoolFlow!Next
<1>6. ASSUME NEW a \in Addr, SendFails(a) \/ StartConnect(a) \/ ConnectNotSent(a)
      PROVE  FlowSame
  BY <1>6, SendFailsFlow, StartConnectFlow, ConnectNotSentFlow
<1>7. ASSUME NEW a \in Addr, ConnectSent(a)
      PROVE  PoolFlow!Next
  BY <1>7, ConnectSentFlow DEF PoolFlow!Next
<1>8. ASSUME NEW a \in Addr, NEW res \in {"success", "failure"}, dp_msg_hand_off(a, res)
      PROVE  PoolFlow!Next
  BY <1>8, HandOffFlow DEF PoolFlow!Next, PoolFlow!Results
<1>9. ASSUME NEW a \in Addr, RecycleAnswered(a)
      PROVE  FlowSame \/ PoolFlow!Next
  BY <1>9, RecycleAnsweredFlow DEF PoolFlow!Next
<1>10. CASE dp_msg_pop_unsent
  BY <1>10, PopUnsentFlow
<1>11. CASE dp_msg_pop_inflight
  BY <1>11, PopInflightFlow
<1>12. CASE fini_dp_msg_cache
  BY <1>12, FiniFlow DEF PoolFlow!Next
<1> QED
  BY <1>2, <1>3, <1>4, <1>5, <1>6, <1>7, <1>8, <1>9, <1>10, <1>11, <1>12
  DEF PoolNext

LEMMA PoolFlowInit == PoolInit => PoolFlow!Init
<1> SUFFICES ASSUME PoolInit PROVE PoolFlow!Init
  OBVIOUS
<1>1. PlaceInv /\ NestOK
  BY PoolInit_Inv DEF PoolInv
<1>2. /\ calls = <<>> /\ unsent = <<>> /\ in_flight = <<>>
      /\ todo = Ctx /\ seqnum = 1 /\ out = <<>> /\ leaked = {} /\ freed = {}
  BY DEF PoolInit
<1>3. /\ mem \in [Addr -> AnyMsg] /\ <<>> \in Seq(Addr)
  BY <1>1, MemTyped, EmptySeq DEF PlaceInv
<1>4. HeldBy("send") = {} /\ HeldBy("answer") = {}
  BY <1>1, <1>2, HeldByFacts DEF Kinds, Caller
<1>5. UnsentMsgs = <<>> /\ InFlightMsgs = <<>>
  <2>1. UnsentMsgs = ContentsIn(mem, <<>>) /\ InFlightMsgs = ContentsIn(mem, <<>>)
    BY <1>2, <1>3, <1>4, MapIs, NoHead
  <2> QED
    BY <2>1, ContentsEmpty
<1> QED
  BY <1>2, <1>5 DEF PoolFlow!Init

(***************************************************************************)
(* The structs implement the promise to zebra: with what calls hold put    *)
(* back at the head of the list it came from, every operation of the cache *)
(* is a step of CtxFlow or moves nothing.                                  *)
(***************************************************************************)
THEOREM PoolAlwaysImplementsFlow == PoolSpec => PoolImplementsFlow
<1>1. PoolInv /\ PoolInv' /\ [PoolNext]_poolVars => [PoolFlow!Next]_(PoolFlow!flowVars)
  BY PoolFlowStep DEF PoolInv
<1> QED
  BY <1>1, PoolFlowInit, PoolInvariant, PTL DEF PoolSpec, PoolImplementsFlow, PoolFlow!Spec
=============================================================================
