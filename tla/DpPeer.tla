------------------------------- MODULE DpPeer -------------------------------
(***************************************************************************)
(* What is outside src/: the kernel's unix datagram sockets and the        *)
(* dataplane process, as the plugin's code uses them.  A connected         *)
(* datagram socket does not notice that its peer died until it sends: the  *)
(* send then fails, the socket loses its peer and the kernel discards what *)
(* was waiting in its receive queue.                                       *)
(***************************************************************************)
EXTENDS DpState

PeerAlive == up /\ peer = inc

\* poll() reports dp_sock writable unless its live peer's queue is full.
Writable == ~(PeerAlive /\ Len(inbox) = QLen)

\* The plugin's path is bound: a datagram sent to it arrives.
PluginBound == dp_sock # NO_SOCK /\ pc # "aborted"

Deliver(r) == rxq' = IF PluginBound THEN Append(rxq, r) ELSE rxq

-----------------------------------------------------------------------------
(***************************************************************************)
(* The dataplane process starts, dies, and serves its queue in order.      *)
(* Token tells the sync token each incarnation reports.                    *)
(***************************************************************************)
DpStart ==
  /\ ~up
  /\ inc < MaxInc
  /\ inc' = inc + 1
  /\ up' = TRUE
  /\ UNCHANGED <<callVars, connVars, evVars, seqnum, cacheVars, zebraVars,
                 netVars, inbox, acked, refreshed, faults, histVars>>

OwesConnect == \E i \in DOMAIN inbox : inbox[i].op = "Connect"

\* Bound: the last incarnation stays up.
DpCrash ==
  /\ up
  /\ inc < MaxInc
  /\ CrashBeforeReply \/ ~OwesConnect
  /\ up' = FALSE
  /\ inbox' = <<>>
  /\ acked' = FALSE
  /\ refreshed' = FALSE
  /\ UNCHANGED <<callVars, connVars, evVars, seqnum, cacheVars, zebraVars,
                 netVars, inc, faults, histVars>>

\* A Connect is accepted; refusing one is counted as a fault.
DpServeConnect(ok) ==
  /\ up
  /\ inbox # <<>>
  /\ Head(inbox).op = "Connect"
  /\ ok \/ CanFault("refuse")
  /\ faults' = IF ok THEN faults ELSE faults + 1
  /\ inbox' = Tail(inbox)
  /\ acked' = (acked \/ ok)
  /\ Deliver([op |-> "Connect", seqn |-> Head(inbox).seqn,
              ok |-> ok, info |-> Token(inc)])
  /\ UNCHANGED <<callVars, connVars, evVars, seqnum, cacheVars, zebraVars,
                 peer, inc, up, refreshed, histVars>>

\* A request is applied, or fails, and is answered with its own number.
DpServeObject(ok) ==
  /\ up
  /\ inbox # <<>>
  /\ Head(inbox).op = "Object"
  /\ inbox' = Tail(inbox)
  /\ applied' = IF ok THEN [applied EXCEPT ![Head(inbox).ctx] = inc]
                ELSE applied
  /\ Deliver([op |-> "Object", seqn |-> Head(inbox).seqn,
              ok |-> ok, info |-> NoInfo])
  /\ UNCHANGED <<callVars, connVars, evVars, seqnum, cacheVars, zebraVars,
                 peer, inc, up, acked, refreshed, faults, sent_to>>

DpServeControl ==
  /\ up
  /\ inbox # <<>>
  /\ ~IsRequest(Head(inbox))
  /\ inbox' = Tail(inbox)
  /\ UNCHANGED <<callVars, connVars, evVars, seqnum, cacheVars, zebraVars,
                 netVars, inc, up, acked, refreshed, faults, histVars>>

\* Once connected, an incarnation asks once for a refresh of the state.
DpRequestRefresh ==
  /\ up /\ acked /\ ~refreshed
  /\ refreshed' = TRUE
  /\ Deliver([NoResp EXCEPT !.op = "Refresh"])
  /\ UNCHANGED <<callVars, connVars, evVars, seqnum, cacheVars, zebraVars,
                 peer, inc, up, inbox, acked, faults, histVars>>

\* A message the protocol does not call for: a response nobody waits for,
\* one with a wrong number, or a type the plugin does not handle.
DpRogue(r) ==
  /\ up
  /\ CanFault(IF r.op = "Other" THEN "other" ELSE "rogue")
  /\ faults' = faults + 1
  /\ Deliver(r)
  /\ UNCHANGED <<callVars, connVars, evVars, seqnum, cacheVars, zebraVars,
                 peer, dpVars, histVars>>

RogueMsgs ==
  [op : {"Connect"}, seqn : {0}, ok : BOOLEAN, info : {NoInfo} \cup 1..MaxInc]
    \cup [op : {"Object"}, seqn : 0..seqnum, ok : BOOLEAN, info : {NoInfo}]
    \cup {NoResp}

DpServe == \/ \E ok \in BOOLEAN : DpServeConnect(ok) \/ DpServeObject(ok)
           \/ DpServeControl

DpNext ==
  \/ DpStart
  \/ DpCrash
  \/ DpServe
  \/ DpRequestRefresh
  \/ \E r \in RogueMsgs : DpRogue(r)
=============================================================================
