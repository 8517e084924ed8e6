------------------------------- MODULE DpStats -------------------------------
(***************************************************************************)
(* hh_dp_rpc_stats.c: the counters of requests, responses, and of Controls *)
(* and datagrams sent, kept beside the plugin of DpPlugin by the functions *)
(* of hh_dp_comm.c and hh_dp_msg.c that call rpc_count_*().  A counter has *)
(* a fixed width, 2^64 in the code, and wraps.  The counters of errors, of *)
(* retries and of what is received stand alone and are left out.           *)
(***************************************************************************)
EXTENDS DpProps

CONSTANT Wrap   \* values of a counter

ASSUME WrapOK == Wrap \in Nat \ {0}

VARIABLES
  stat,      \* RPC_STATS
  dropped    \* history: requests that left in_flight without an answer

\* How an answer is counted: its result code, or unk_err for a code that
\* the plugin does not know.
ResultCodes == {"Ok", "Failure", "unk_err"}

Zeros(S) == [x \in S |-> 0]

StatsInit ==
  /\ Init
  /\ stat = [tx_ok |-> 0, control_tx |-> 0,
             sent |-> Zeros(RequestOp), replied |-> Zeros(RequestOp),
             rescode |-> [op \in RequestOp |-> Zeros(ResultCodes)]]
  /\ dropped = Zeros(RequestOp)

Plus(n, k) == (n + k) % Wrap

-----------------------------------------------------------------------------
Mut_count_request_before_send(m) ==
  IF IsRequest(m) THEN [stat EXCEPT !.sent[m.op] = Plus(@, 1)]
  ELSE [stat EXCEPT !.tx_ok = Plus(@, 1), !.control_tx = Plus(@, 1)]

\* rpc_count_tx(), then rpc_count_request_sent() or rpc_count_ctl_tx().
rpc_count_sent(m) ==
  LET s == [stat EXCEPT !.tx_ok = Plus(@, 1)]
  IN  IF IsRequest(m) THEN [s EXCEPT !.sent[m.op] = Plus(@, 1)]
      ELSE [s EXCEPT !.control_tx = Plus(@, 1)]

Mut_result_of_response(s, op, rc) ==
  [s EXCEPT !.replied[op] = Plus(@, 1),
            !.rescode["Object"][rc] = Plus(@, 1)]

\* rpc_count_request_replied()
rpc_count_replied(s, op, rc) ==
  [s EXCEPT !.replied[op] = Plus(@, 1), !.rescode[op][rc] = Plus(@, 1)]

CodesOf(ok) == IF ok THEN {"Ok"} ELSE ResultCodes \ {"Ok"}

\* These messages leave in_flight without an answer.
Drop(list) ==
  dropped' = [op \in RequestOp |->
    Plus(dropped[op], Cardinality({i \in DOMAIN list : list[i].op = op}))]

SendCounted ==
  /\ \/ DrainSent /\ stat' = rpc_count_sent(Head(unsent))
     \/ SendConnect("ok") /\ stat' = rpc_count_sent(ConnectMsg)
  /\ UNCHANGED dropped

ReceiveCounted ==
  /\ pc = "recv" /\ rxq # <<>>
  /\ LET r == Head(rxq) IN
     \/ /\ \/ RecvUndecodable
           \/ RecvIgnored(r)
           \/ handle_rpc_control(r)
           \/ RecvRestart(r)
           \/ RecvUnsolicited(r)
        /\ UNCHANGED <<stat, dropped>>
     \/ /\ RecvMismatch(r)
        /\ UNCHANGED stat /\ Drop(<<Head(in_flight)>>)
     \/ /\ RecvConnectResponse(r) \/ handle_rpc_ctx_response(r)
        /\ \E rc \in CodesOf(r.ok) : stat' = rpc_count_replied(stat, r.op, rc)
        /\ UNCHANGED dropped

\* A purge counts the answers it fakes as replies, and the Connect it
\* answers with the response that revealed the restart.
PurgeCounted ==
  /\ \/ PurgeRequest /\ stat' = rpc_count_replied(stat, "Object", "Ok")
     \/ /\ PurgeConnect
        /\ \E rc \in CodesOf(resp.ok) :
             stat' = rpc_count_replied(stat, "Connect", rc)
  /\ UNCHANGED dropped

Uncounted ==
  /\ \/ ConnectNoSock
     \/ \E f \in Fd \cup {NO_SOCK} : ConnectFails(f)
     \/ ConnectSucceeds
     \/ \E o \in {"again", "conn", "error"} : SendConnect(o)
     \/ DrainDone \/ DrainNotReady \/ DrainFailed
     \/ RecvNothing \/ PurgeDone
     \/ Events \/ Process \/ FiniEarly \/ DpNext
  /\ UNCHANGED <<stat, dropped>>

StatsNext ==
  \/ SendCounted
  \/ ReceiveCounted
  \/ PurgeCounted
  \/ Uncounted
  \/ FiniLate /\ Drop(in_flight) /\ UNCHANGED stat

statsVars == <<vars, stat, dropped>>

StatsSpec == StatsInit /\ [][StatsNext]_statsVars

-----------------------------------------------------------------------------
(***************************************************************************)
(* What is displayed as sent and not replied is in flight or was lost to a *)
(* response that did not match, and every reply has one result, through    *)
(* restarts, purges and the wrap of the counters                           *)
(* (hh_dp_rpc_stats.h:11-24).                                              *)
(***************************************************************************)
RequestsAccounted ==
  \A op \in RequestOp :
    LET waiting == Cardinality({i \in DOMAIN in_flight : in_flight[i].op = op})
        codes == stat.rescode[op]
    IN  /\ stat.sent[op] = Plus(stat.replied[op], waiting + dropped[op])
        /\ stat.replied[op] = Plus(codes["Ok"], codes["Failure"] + codes["unk_err"])

(***************************************************************************)
(* Every datagram sent is a request or a Control, counted as such once.    *)
(***************************************************************************)
TxAccounted ==
  stat.tx_ok = Plus(stat.control_tx, stat.sent["Connect"] + stat.sent["Object"])
=============================================================================
