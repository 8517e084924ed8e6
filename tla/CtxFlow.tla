------------------------------ MODULE CtxFlow ------------------------------
(***************************************************************************)
(* What the plugin promises zebra about its contexts, whatever happens to  *)
(* the socket, the dataplane and the calls under way: a context zebra      *)
(* gives is answered at once, or becomes a numbered request that waits     *)
(* unsent, then in flight, and is answered, first come first served; on    *)
(* the way it can only be lost to a response that does not match, or freed *)
(* when the plugin stops.  DpPlugin implements this specification.         *)
(***************************************************************************)
EXTENDS DpMessages

VARIABLES
  todo,       \* contexts zebra has not yet given
  seqnum,     \* the number of the next request
  unsent, in_flight,
  out,        \* <<context, result>> pairs given back to zebra
  leaked,     \* contexts lost to a response that did not match
  freed       \* contexts freed at the end

flowVars == <<todo, seqnum, unsent, in_flight, out, leaked, freed>>

Results == {"success", "failure"}

Init ==
  /\ todo = Ctx
  /\ seqnum = 1
  /\ unsent = <<>> /\ in_flight = <<>> /\ out = <<>>
  /\ leaked = {} /\ freed = {}

-----------------------------------------------------------------------------
AnswerAtOnce(c, res) ==
  /\ c \in todo
  /\ todo' = todo \ {c}
  /\ out' = Append(out, <<c, res>>)
  /\ UNCHANGED <<seqnum, unsent, in_flight, leaked, freed>>

Accept(c) ==
  /\ c \in todo
  /\ todo' = todo \ {c}
  /\ unsent' = Append(unsent, [op |-> "Object", seqn |-> seqnum, ctx |-> c])
  /\ seqnum' = seqnum + 1
  /\ UNCHANGED <<in_flight, out, leaked, freed>>

QueueControl(m) ==
  /\ unsent' = Append(unsent, m)
  /\ UNCHANGED <<todo, seqnum, in_flight, out, leaked, freed>>

\* Only the oldest unsent message is ever sent.
Send ==
  /\ unsent # <<>>
  /\ unsent' = Tail(unsent)
  /\ in_flight' = IF IsRequest(Head(unsent))
                  THEN Append(in_flight, Head(unsent)) ELSE in_flight
  /\ UNCHANGED <<todo, seqnum, out, leaked, freed>>

SendConnect ==
  /\ in_flight' = Append(in_flight, ConnectMsg)
  /\ UNCHANGED <<todo, seqnum, unsent, out, leaked, freed>>

\* Only the oldest request in flight is ever answered.
Respond(res) ==
  /\ in_flight # <<>>
  /\ Head(in_flight).ctx # NoCtx
  /\ in_flight' = Tail(in_flight)
  /\ out' = Append(out, <<Head(in_flight).ctx, res>>)
  /\ UNCHANGED <<todo, seqnum, unsent, leaked, freed>>

RespondConnect ==
  /\ in_flight # <<>>
  /\ Head(in_flight).ctx = NoCtx
  /\ in_flight' = Tail(in_flight)
  /\ UNCHANGED <<todo, seqnum, unsent, out, leaked, freed>>

Mismatch ==
  /\ in_flight # <<>>
  /\ Head(in_flight).ctx # NoCtx
  /\ in_flight' = Tail(in_flight)
  /\ leaked' = leaked \cup {Head(in_flight).ctx}
  /\ UNCHANGED <<todo, seqnum, unsent, out, freed>>

Stop ==
  /\ freed' = freed \cup CtxsOf(unsent) \cup CtxsOf(in_flight)
  /\ unsent' = <<>>
  /\ in_flight' = <<>>
  /\ UNCHANGED <<todo, seqnum, out, leaked>>

Next ==
  \/ \E c \in Ctx : Accept(c) \/ \E res \in Results : AnswerAtOnce(c, res)
  \/ \E m \in {KeepaliveMsg, RefreshMsg} : QueueControl(m)
  \/ Send
  \/ SendConnect
  \/ \E res \in Results : Respond(res)
  \/ RespondConnect
  \/ Mismatch
  \/ Stop

Spec == Init /\ [][Next]_flowVars

-----------------------------------------------------------------------------
FlowTypeOK ==
  /\ todo \subseteq Ctx
  /\ seqnum \in Nat
  /\ unsent \in Seq(UnsentMsg)
  /\ in_flight \in Seq(RequestMsg)
  /\ out \in Seq(Ctx \X Results)
  /\ leaked \subseteq Ctx
  /\ freed \subseteq Ctx

(***************************************************************************)
(* A context has one owner at a time, and exactly one: zebra's input, a    *)
(* message of one of the lists, zebra's output, or the few places where    *)
(* the code loses or frees it.  It is answered at most once, whatever is   *)
(* sent, put back, purged or mismatched: a second hand-off would give      *)
(* zebra a context it has freed.                                           *)
(***************************************************************************)
NoCtxTwice(list) ==
  \A i, j \in DOMAIN list :
    list[i].ctx = list[j].ctx /\ list[i].ctx # NoCtx => i = j

Answered == {out[i][1] : i \in DOMAIN out}

AnsweredOnce == \A i, j \in DOMAIN out : out[i][1] = out[j][1] => i = j

Apart(A, B) == A \cap B = {}

OneOwner ==
  /\ Apart(todo, CtxsOf(unsent) \cup CtxsOf(in_flight) \cup Answered
                   \cup leaked \cup freed)
  /\ Apart(CtxsOf(unsent), CtxsOf(in_flight) \cup Answered
                             \cup leaked \cup freed)
  /\ Apart(CtxsOf(in_flight), Answered \cup leaked \cup freed)
  /\ Apart(Answered, leaked \cup freed)
  /\ Apart(leaked, freed)

NoneForgotten ==
  Ctx = todo \cup CtxsOf(unsent) \cup CtxsOf(in_flight) \cup Answered
          \cup leaked \cup freed

OwnedOnce ==
  /\ NoCtxTwice(unsent)
  /\ NoCtxTwice(in_flight)
  /\ AnsweredOnce
  /\ OneOwner
  /\ NoneForgotten

(***************************************************************************)
(* Requests keep the order zebra gave them in: along in_flight, then       *)
(* unsent, their numbers increase and are below the next one, however many *)
(* sends failed and were put back, and whatever overtook them.             *)
(***************************************************************************)
Objects(list) == {i \in DOMAIN list : list[i].op = "Object"}

Ordered(list) ==
  \A i, j \in Objects(list) : i < j => list[i].seqn < list[j].seqn

Below(list, n) == \A i \in Objects(list) : list[i].seqn < n

InOrder ==
  /\ Ordered(in_flight)
  /\ Ordered(unsent)
  /\ \A j \in Objects(unsent) : Below(in_flight, unsent[j].seqn)
  /\ Below(in_flight, seqnum)
  /\ Below(unsent, seqnum)
=============================================================================
