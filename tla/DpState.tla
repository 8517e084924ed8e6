------------------------------ MODULE DpState ------------------------------
(***************************************************************************)
(* The state shared by the modules of the plugin's RPC engine: the static  *)
(* variables of hh_dp_comm.c, hh_dp_msg.c, hh_dp_msg_cache.c and           *)
(* hh_dp_plugin.c, the part of the kernel and of the dataplane process     *)
(* they talk to, and the call state of the dplane pthread between two      *)
(* system calls.                                                           *)
(***************************************************************************)
EXTENDS DpMessages, FiniteSets

CONSTANTS
  Unencodable,      \* the contexts whose request encode_msg() rejects
  Fd,               \* the descriptors socket() may return
  MaxInc,           \* bound: incarnations of the dataplane process
  QLen,             \* datagrams the dataplane's receive queue holds
  MaxKeepalives,    \* bound: keepalives waiting in the unsent list
  MaxFaults,        \* bound: faults of the kinds below
  FaultKinds,       \* which faults happen, among AllFaults
  Token(_),         \* sync token an incarnation reports, or NoInfo
  OpenMayFail,      \* can dp_unix_sock_open() fail when reopening?
  CrashBeforeReply, \* can the dataplane die owing a Connect response?
  DebugBuild        \* DEBUG_BUILD of hh_dp_config.h

NO_SOCK == -1
UNSET   == -1        \* a NULL struct event *
NoInfo  == -1        \* a response without a conn_info object

\* send() or encode_msg() fails with the connection up; recv() fails; a
\* datagram cannot be decoded; a Connect is refused; a message of a type
\* the plugin does not handle; a response that the protocol does not call for.
AllFaults == {"send", "recv", "decode", "refuse", "other", "rogue"}

ASSUME ConstantsOK ==
  /\ NoCtx \notin Ctx
  /\ Unencodable \subseteq Ctx
  /\ Fd \subseteq Nat /\ Fd # {}
  /\ MaxInc \in Nat /\ QLen \in Nat \ {0}
  /\ MaxKeepalives \in Nat \ {0} /\ MaxFaults \in Nat
  /\ FaultKinds \subseteq AllFaults
  /\ \A i \in 1..MaxInc : Token(i) \in Nat \cup {NoInfo}
  /\ OpenMayFail \in BOOLEAN
  /\ CrashBeforeReply \in BOOLEAN
  /\ DebugBuild \in BOOLEAN

VARIABLES
  \* control state of the dplane pthread
  pc,                \* where it is between two system calls
  ret,               \* what the sending code returns to
  nested,            \* dp_connect() runs inside another dp_connect()
  resp,              \* the Connect response a purge is answering
  \* hh_dp_comm.c
  dp_sock, dp_sock_connected, is_ready, synt,
  ev_connect_timer,  \* is the retry timer pending?
  ev_recv, ev_send,  \* descriptor the pending event waits on, or UNSET
  \* hh_dp_msg.c, hh_dp_msg_cache.c
  seqnum, unsent, in_flight,
  leaked, freed,     \* contexts lost by dp_msg_recycle, freed by dp_msg_del
  \* hh_dp_plugin.c and zebra
  finalizing,
  todo,              \* contexts zebra has not yet given to the plugin
  out,               \* <<context, result>> pairs queued back to zebra
  \* the kernel: dp_sock's connected peer and its receive queue
  peer, rxq,
  \* the dataplane process
  inc, up,           \* its current incarnation; is its socket bound?
  inbox,             \* its socket's receive queue
  acked,             \* this incarnation has accepted a Connect
  refreshed,         \* this incarnation has asked for a refresh
  faults,            \* faults so far
  \* history
  sent_to,           \* incarnation each request was sent to, 0 if unsent
  applied            \* incarnation that applied it with success, or 0

CanFault(kind) == kind \in FaultKinds /\ faults < MaxFaults

\* What the dataplane sends: responses, refresh Controls, and the types the
\* plugin only logs ("Other").
Incoming == [op : RequestOp \cup {"Refresh", "Other"},
             seqn : Nat, ok : BOOLEAN, info : Nat \cup {NoInfo}]
NoResp == [op |-> "Other", seqn |-> 0, ok |-> FALSE, info |-> NoInfo]

callVars  == <<pc, ret, nested, resp>>
connVars  == <<dp_sock, dp_sock_connected, is_ready, synt>>
evVars    == <<ev_connect_timer, ev_recv, ev_send>>
cacheVars == <<unsent, in_flight, leaked, freed>>
zebraVars == <<finalizing, todo, out>>
netVars   == <<peer, rxq>>
dpVars    == <<inc, up, inbox, acked, refreshed>>
histVars  == <<sent_to, applied>>
vars == <<callVars, connVars, evVars, seqnum, cacheVars, zebraVars,
          netVars, dpVars, faults, histVars>>
=============================================================================
