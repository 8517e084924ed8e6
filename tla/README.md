# A TLA+ model of the Hedgehog dataplane plugin

The plugin is a loadable module of FRR's zebra. Zebra's *dplane* pthread gives
it contexts (routes, interface addresses, rmacs to install or remove); the
plugin turns those it cares about into RPC requests, sends them over a unix
datagram socket to an external *dataplane* process, and hands each context back
to zebra with a result when the response arrives. The code is small, sequential
within one thread, and hard to get right for one reason: **the dataplane may die
and restart between any two system calls of the plugin, and a connected datagram
socket does not say so until it is written to.** The model is about that.

Paths below are relative to the repository (`src/hh_dp_comm.c` and so on).

## 1. Inventory

| Component | Files | State | Operations | Modelled in |
|---|---|---|---|---|
| Connection and sockets | `hh_dp_comm.[ch]` | `dp_sock`, `dp_sock_connected`, `__dplane_is_ready`, `synt`, the three events and the keepalive timer, tx/rx buffers | `dp_connect`, reopen, `do_send_rpc_msg`, `send_pending_rpc_msgs`, `send_rpc_msg`, `dp_sock_send_cb`, `dp_rpc_recv`, `dp_send_keepalive`, init/fini | `DpComm`, `DpPlugin`; start and end in `PluginStart` |
| RPC messages and responses | `hh_dp_msg.[ch]` | `seqnum` | request building, `recover_request`, Connect responses, context responses, restart detection and purge, refresh Controls; the choice and encoding of next-hops | `DpMsg`, `DpPlugin`, `RouteEncode` |
| Message cache | `hh_dp_msg_cache.[ch]` | lists `pool`, `unsent`, `in_flight` | push, push back, pop, recycle, empty | `DpMsgCache`; the structs behind it in `DpMsgPool` |
| Provider callbacks | `hh_dp_plugin.c` | `finalizing`, `prov_p` | `zd_hh_start`, `zd_hh_process`, `zd_hh_fini`, option dispatch, registration | `DpPlugin`, `PluginArgs`, `PluginStart` |
| Dispatch of contexts | `hh_dp_process.[ch]` | none | `hh_process` and its sub-switches, `zd_hh_process_update` | `HhProcess`, `HhProcessProps`, `HhDispatch` |
| Dataplane process, kernel sockets | outside the repository | receive queues, the connected peer, incarnation | serve, die, restart, ask for a refresh | `DpPeer` (external) |
| RPC statistics | `hh_dp_rpc_stats.[ch]` | atomic counters | count, show | `DpStats` (counting requests, replies, what is sent) |
| Plugin arguments | `hh_dp_utils.[ch]` | a bounded argv | tokenize, getopt, dispatch | `PluginArgs` |
| vty commands | `hh_dp_vty.[ch]`, `vtysh_hhdplane.c` | one logging flag | text output | not modelled |
| Build and version | `CMakeLists.txt`, `hh_dp_config.h.in` | none | none | not modelled (`DEBUG_BUILD` is a constant) |

**How they interact.** Everything but shutdown's early call and the vty runs in
the dplane pthread, so callbacks do not interleave with each other; they
interleave with the dataplane process, with the kernel, and with zebra's main
thread (`finalizing`). Calls nest: a response handled by `dp_rpc_recv` drains the
unsent list, whose failing send reconnects, whose Connect may fail and reconnect
again, all before `dp_rpc_recv` reads the next message.

**Hard behaviours.** Restart of the dataplane with requests in flight (the purge
of `handle_rpc_response`); matching of responses by position; a Connect that
overtakes the unsent list; events that stay pending over the reopening of the
socket; backpressure and write notifications; liveness that rests on keepalives.
`PROJECT.json` lists each of them as a hazard at its line, with the properties
that cover it or the reason none does.

**What makes each component correct.**

- *Cache and zebra's contexts*: every context has exactly one owner at every
  moment and is answered at most once (`CtxOwnedOnce`); requests keep zebra's
  order through failures and push-backs (`RequestsInOrder`).
- *Responses*: what is read answers the oldest request in flight or reveals a
  restart (`ResponseExpected`); more precisely, responses under way followed by
  requests not yet served are the end of `in_flight` (`ConversationAligned`); the
  success the purge fakes is never told of a request the live dataplane holds
  (`NoFalseSuccess`); a restart that is noticed repairs a conversation that had
  been shifted (`PurgeRealigns`).
- *Connection*: nothing precedes an accepted Connect (`ConnectFirst`); the event
  loop always has a way on (`RetryScheduled`, `ReceivingScheduled`,
  `GivesUpOnlyWithoutSocket`, `ConnectAwaited`); every context is answered in the
  end (`EveryCtxAnswered`) and every refresh confirmed (`RefreshHonoured`).
- *Structs of the cache*: each is in one place, none is used after it is recycled
  or refers to a context given back (`OnePlace`, `NoDanglingCtx`).
- *Statistics*: what is shown as sent and not replied is in flight or was lost to
  a mismatch, through purges and the wrap of the counters (`RequestsAccounted`,
  `TxAccounted`).
- *Dispatch*: the nested switches agree (`NoBugReached`), no route is withheld
  from both kernel and dataplane (`KeptFromKernelIsSent`), whatever is installed
  can be removed (`RemovalMirrorsInstall`).
- *Next-hops of a route*: a usable route is sent with a next-hop
  (`UsableRouteSent`), never a next-hop with what it resolves to
  (`NoHopWithItsResolution`), each as it was (`HopsReadBack`).
- *Start*: the argument vector is the string's tokens (`ArgvFaithful`), the paths in
  use are the last ones given (`PathsAsConfigured`, `PathsReadBack`), only one
  length of path is accepted and then refused (`RefusedOnlyAtLimit`), and a start
  that fails leaves nothing behind (`NothingLeft`).

## 2. Modules

```
DpMessages         the messages, and the contexts they refer to
  CtxFlow          the promise to zebra (abstract specification)
    CtxFlowProofs    proofs about it
  DpMsgPool        hh_dp_msg_cache.c: the structs behind the lists
    MC_Pool          an instance for TLC
    PoolProofs       its properties and that it implements CtxFlow, proved
  DpState          constants, variables
    DpMsgCache     hh_dp_msg_cache.c: the lists
    DpPeer         kernel sockets and the dataplane process (external)
      DpComm       hh_dp_comm.c: connect, drain, event callbacks
        DpMsg      hh_dp_msg.c: what is done with each received message
          DpPlugin hh_dp_plugin.c, composition, Init, Next, Spec, FairSpec
            DpProps        the properties
              MC_Plugin      instances for TLC
              DpStats        hh_dp_rpc_stats.c, superposed on the plugin
                MC_Stats       an instance for TLC
              DpProofs       the type invariant, proved
                DpConnProofs   handshake and events, proved
                DpRefinement   DpPlugin implements CtxFlow, DpStats DpPlugin, proved
                DpConvProofs   the conversation with the dataplane, proved
HhProcess          hh_dp_process.c as operators  (used by DpPlugin)
  HhProcessProps     the dispatch as a machine, and its properties
RouteEncode        hh_dp_msg.c: the next-hops of a route
  HhDispatch         the dispatch and, for a route, its next-hops
    RouteProofs        the properties of both, proved
PluginArgs         hh_dp_utils.c, options and paths of hh_dp_plugin.c, hh_dp_comm.c
  PluginStart        from loading the module to its end
    MC_Start           an instance for TLC
    StartProofs        its properties, proved
```

**The promise.** `CtxFlow` says what zebra may rely on, with nothing of sockets,
events, incarnations or calls under way: a context is answered at once (`AnswerAtOnce`),
or numbered and queued (`Accept`); only the oldest unsent message is sent (`Send`),
only the oldest request in flight is answered (`Respond`) or lost (`Mismatch`), a
Connect may join and leave the requests in flight (`SendConnect`,
`RespondConnect`), and stopping frees what is left (`Stop`). `DpPlugin` implements it
with the same variables, so `Flow == INSTANCE CtxFlow` in `DpProps` needs no
explicit mapping; what has to hold is that every step of the plugin either is
one of these or moves nothing - a failed send that puts its message back is a
stutter, the purge is a series of `Respond`.

**Granularity.** An action runs from one system call of the plugin to the next:
`connect()`, `send()`, `recv()`. Between two of them nobody else changes what the
plugin reads (bar `finalizing`), so a finer model would add no behaviour. `pc`
holds the plugin to the order of the code: `"connect"` and `"send_connect"` are
inside `dp_connect`, `"drain"` is the top of the loop of `send_pending_rpc_msgs`,
`"recv"` the top of the loop of `dp_rpc_recv`, `"purge"` the loop of
`handle_rpc_response`, `"idle"` the event loop. `ret` says which callback the
sending code returns to, `nested` that `dp_connect` was entered from the send of
its own Connect (whose caller still schedules the receive event afterwards).

**Data.** Add, Del and Update requests are one form, `"Object"`, told apart by
number and context: no code between `send_rpc_msg` and the hand-off looks at more.
A result code is a Boolean: `Ok` and `Ignored` are reported alike. `Token` gives the
sync token that each incarnation of the dataplane reports: its own number
(`OwnToken`), or one that repeats or is missing (`StaleToken`).

**Events.** `ev_recv` and `ev_send` hold the descriptor the pending event waits
on. As in FRR's library, adding an event whose reference is set does nothing, the
reference is cleared before the callback runs, and a negative descriptor aborts.

**Kernel.** A connected datagram socket keeps a dead peer until a send fails with
ECONNREFUSED; the failing send drops the peer and the kernel purges the receive
queue; so does connecting to another peer. A full receive queue makes `send()`
return EAGAIN and the socket not writable.

**Faults.** `MaxFaults` bounds how many happen, and `FaultKinds` says of which kind:
a transient failure of `send()` or of the encoding (`"send"`) or of `recv()`
(`"recv"`), a message lost in decoding (`"decode"`), a refused Connect
(`"refuse"`), a message of a type the plugin only logs (`"other"`), a response that
the protocol does not call for (`"rogue"`). Without any, the dataplane follows the
protocol, but dies and restarts at will. `Unencodable` are contexts whose request
can never be encoded, and `OpenMayFail` lets the reopening of the socket fail.

**History variables.** `sent_to` and `applied` record the incarnation each request
was sent to and the one that applied it, `dropped` (in `DpStats`) the requests that left
without an answer, `given` (in `PluginArgs`) the paths that were accepted; no guard
reads them.

**The structs.** `DpMsgPool` gives each message the `struct dp_msg` it lives in. A
list of structs is a sequence of addresses, and the calls under way are a stack of
what they hold: the drain holds the message it popped while its failing send
reconnects, which creates a Connect, and so on to any depth. What the socket does
is left open. It implements `CtxFlow` too (`PoolFlow == INSTANCE CtxFlow WITH ...`):
each list is that of the contents of its structs, and a struct that a call has
popped and not yet disposed of counts as still at the head of its list - of the
unsent one until the send has succeeded, of `in_flight` until its context is handed
off.

**Order of the conditions.** Where the code tests conditions that do not exclude
each other (the outcome of a send, the cases of an interface address), the model is a
chain of `IF` in the code's order. A `CASE` would leave the choice open, which no
run shows, since TLC takes the first guard that holds, and every proof does.

**The counters.** `DpStats` runs each action of the plugin together with the
counters it moves, and the others with none, so its behaviours are those of
`DpPlugin`. A counter wraps at `Wrap`.

**Next-hops.** `RouteEncode` makes each turn of the two loops of
`send_rpc_request_iproute()` a step. What zebra guarantees of a group is `Groups`:
a recursive next-hop is an active gateway followed by what it resolves to, of
which one at least is active. The struct on the stack, shared by the turns, starts
with whatever was there.

**The start.** In `PluginArgs` the string is a sequence of tokens, each with the way
`getopt_long()` reads it, and a path is a sequence of octets copied into a fixed
buffer. `PluginStart` acquires what the plugin needs one step after another, any of
which may fail (`MayFail`). `SaveptrKept` says whether the build happens to keep the
uninitialized variable of the tokenizer from one turn of its loop to the next:
what it does otherwise is undefined.

## 3. Runs

| Run | Question | Properties | Bounds |
|---|---|---|---|
| `core` | Is everything right with a correct dataplane that dies and restarts at any step? | `TypeOK`, `CtxOwnedOnce`, `RequestsInOrder`, `ConnectFirst`, `ResponseExpected`, `ConversationAligned`, `RetryScheduled`, `ReceivingScheduled`, `ConnectAwaited`, `NoFalseSuccess` | 2 contexts, 3 incarnations, queue of 2 |
| `faults` | What survives a fault of any kind, and do the counters agree with the lists? | `TypeOK`, `ImplementsFlow`, `RequestsAccounted`, `TxAccounted` | 1 context, 2 incarnations, queue of 1, 1 fault, counters of 2 values |
| `harsh` | What survives a socket that cannot be reopened, or comes back as another descriptor, and a request that cannot be encoded, in a debug build? | `GivesUpOnlyWithoutSocket`, `ResponseExpected`, `ConversationAligned`, `NoFalseSuccess`, `ImplementsFlow` | 2 contexts, 2 incarnations, queue of 1, 2 descriptors, 1 fault that does not lose or forge a response |
| `restarts` | What if a restart is not noticed, because sync tokens repeat or are missing, or a response is lost in decoding? | `ConnectFirst`, `PurgeRealigns`, `NoFalseSuccess` | 2 contexts, 4 incarnations with tokens 1, 1, none, 2, queue of 2, 1 lost response |
| `live` | Is every context answered and every refresh confirmed in the end? | `EveryCtxAnswered`, `RefreshHonoured` | 2 contexts, 2 incarnations, queue of 1 |
| `start` | Are the arguments read right, and is a failing start undone? | `ArgvFaithful`, `PathsReadBack`, `PathsAsConfigured`, `NothingLeft`, `RefusedOnlyAtLimit` | up to 5 tokens, `argv` of 6, paths of 1 to 3 octets with `sun_path` of 2, 1 failing `strdup`, any failing step |
| `process` | Is the dispatch complete and coherent, and the route it leads to? | `NoBugReached`, `KeptFromKernelIsSent`, `RemovalMirrorsInstall`, `HopsReadBack`, `NoHopWithItsResolution`, `UsableRouteSent` | every combination of attributes, every group of up to 3 next-hops |
| `pool` | Is each message struct in one place? | `PoolTypeOK`, `OnePlace`, `NoDanglingCtx`, `PoolImplementsFlow` | 2 contexts, 5 structs, a pool of 2 |

Three incarnations are the fewest with which a restart can be missed twice in a
row (a Connect of the second one still in flight when the third answers); two
contexts are the fewest with an order, one in flight and one unsent; a queue of
one already gives backpressure, of two a conversation with two requests under
way. The fourth incarnation of `restarts` is the one whose restart is noticed after
two that were not. One keepalive in the unsent list stands for any number: a
keepalive has no effect but to be sent. One fault is enough to reach every error
path, and restarts come on top of it; two of the same run would only repeat
them. Counters of two values wrap at once, and there are more than two requests,
Connects included. Five structs are a pool of two and enough others for the
deepest nesting of calls with both contexts queued. Two octets of `sun_path`
have a path below, at and above the limit; `argv` of 6 keeps four tokens of up to
five. A group of three has a recursive next-hop with two resolutions, or beside
another one. Contexts and structs are symmetric where a safety run tells them
not apart.

`CHECK_DEADLOCK FALSE`: the plugin stops (`"stopped"`, `"aborted"`), and the number of
incarnations is bounded.

**Fairness** (`FairSpec`, in `live` and `lost_connect`). The thread keeps running the call it is in
(weak). Each callback, and zebra's queue, get their turn although other callbacks
keep making the thread busy: FRR's event loop runs every ready event in each turn,
so strong fairness on each of them is what the code gets. A dead dataplane is
restarted and a live one serves its queue. Nothing is assumed of crashes,
finalizing or faults.

**What does not hold.** Four runs expect a violation; `PROJECT.json` quotes the
comment or assertion each contradicts.

- `stale_descriptor`: nothing cancels `ev_recv` when the socket is reopened. If the
  new socket gets another descriptor, `event_add_read` finds the old event still
  pending and does nothing: the plugin connects, and never hears the answer. (The
  `live` run has one descriptor, `core` too; `harsh` shows that safety survives.)
- `lost_connect`: a dataplane that dies owing the response to Connect leaves the
  plugin connected and not ready, when it neither sends requests nor keepalives
  and thus never learns of the death. `live` therefore assumes
  `CrashBeforeReply = FALSE`.
- `rogue_response`: a response that does not match recycles the oldest request
  with its context still in it; the context is lost (or a debug build aborts).
- `saveptr`: the tokenizer declares `saveptr` inside its loop, so every `strtok_r()`
  after the first reads an uninitialized variable; a build that does not keep its
  value follows a wild pointer at the second token.

Other weaknesses are the exceptions that properties which hold have to make:

- When the socket cannot be reopened the retry timer fires once more and then no
  attempt is ever made again (the exception of `GivesUpOnlyWithoutSocket`).
- A path of exactly `MAX_SUN_PATH` octets is valid, and refused by every open and
  connect (the exception of `RefusedOnlyAtLimit`).
- When the buffers cannot be allocated, the cache and the format buffer are
  finalized without having been initialized (`NothingLeft` excludes it only of a
  plugin that ran).
- A Connect that fails with EAGAIN or EINTR is dropped, and nothing sends another:
  `ConnectAwaited` holds only without `"send"` faults.
- A request that cannot be encoded is put back at the head of the unsent list for
  ever and blocks all others: `live` has no `Unencodable` context.
- Equal sync tokens hide a restart: the next response may then not match, which
  costs the oldest context in flight. A response lost in decoding does the same.
  `ResponseExpected` and `ConversationAligned` are not claimed of `restarts`.
- `replied` counts the answers a purge fakes (`RequestsAccounted` says so).

## 4. Proofs

Proved for every value of the constants, that is for any set of contexts and of
descriptors, any number of incarnations, faults and keepalives, any length of
paths, strings and groups, any size of the pool and any depth of nested calls, from
`ConstantsOK`, `WrapOK`, `PoolConstantsOK`, `ArgsConstantsOK`, `StartConstantsOK` and
`MaxHopsOK` alone, unless the table says more:

| Theorem | Module | Says |
|---|---|---|
| `TypeCorrect` | `DpProofs` | `Spec => []TypeOK` |
| `FlowInvariant` | `CtxFlowProofs` | `CtxFlow` keeps `OwnedOnce` and `InOrder` |
| `PluginImplementsFlow` | `DpRefinement` | `Spec => ImplementsFlow`: the plugin implements `CtxFlow` |
| `CtxAlwaysOwnedOnce` | `DpRefinement` | `Spec => []CtxOwnedOnce` |
| `RequestsAlwaysInOrder` | `DpRefinement` | `Spec => []RequestsInOrder` |
| `ConnectAlwaysFirst` | `DpConnProofs` | `Spec => []ConnectFirst`, when no response is forged (`"rogue" \notin FaultKinds`) |
| `EventsInvariant` | `DpConnProofs` | `Spec => []LoopInv`, which gives the next three |
| `NeverGivesUpWithSocket` | `DpConnProofs` | `Spec => []GivesUpOnlyWithoutSocket` |
| `RetryAlwaysScheduled` | `DpConnProofs` | `Spec => []RetryScheduled`, when the socket can always be reopened |
| `ReceivingAlwaysScheduled` | `DpConnProofs` | `Spec => []ReceivingScheduled`, when it also always gets the same descriptor |
| `TurnInvariant` | `DpConvProofs` | `Spec => []TurnInv`, when no response is forged, which gives the next two |
| `SuccessAlwaysEarned` | `DpConvProofs` | `Spec => NoFalseSuccess`, when no response is forged |
| `PurgeAlwaysRealigns` | `DpConvProofs` | `Spec => []PurgeRealigns`, when no response is forged |
| `AlignInvariant` | `DpConvProofs` | `Spec => []AlignInv`, when `AnswersInOrder`, which gives the next three |
| `ResponseAlwaysExpected` | `DpConvProofs` | `Spec => []ResponseExpected`, when `AnswersInOrder` |
| `ConversationAlwaysAligned` | `DpConvProofs` | `Spec => []ConversationAligned`, when `AnswersInOrder` |
| `ConnectAlwaysAwaited` | `DpConvProofs` | `Spec => []ConnectAwaited`, when `AnswersInOrder` and no send fails on a live connection (`"send" \notin FaultKinds`) |
| `StatsImplementPlugin` | `DpRefinement` | `StatsSpec => Spec`: all that is said of `Spec` holds of the plugin that counts |
| `RequestsAlwaysAccounted` | `DpRefinement` | `StatsSpec => []RequestsAccounted` |
| `TxAlwaysAccounted` | `DpRefinement` | `StatsSpec => []TxAccounted` |
| `PoolInvariant` | `PoolProofs` | `PoolSpec => []PoolInv`, which gives the next three |
| `PoolTypeCorrect` | `PoolProofs` | `PoolSpec => []PoolTypeOK` |
| `StructAlwaysInOnePlace` | `PoolProofs` | `PoolSpec => []OnePlace` |
| `NeverDanglingCtx` | `PoolProofs` | `PoolSpec => []NoDanglingCtx` |
| `PoolAlwaysImplementsFlow` | `PoolProofs` | `PoolSpec => PoolImplementsFlow`: the recycled structs implement `CtxFlow` |
| `WalkInvariant` | `RouteProofs` | `RouteSpec => []WalkInv`, which gives the next three |
| `HopsAlwaysReadBack` | `RouteProofs` | `RouteSpec => []HopsReadBack` |
| `NeverHopWithItsResolution` | `RouteProofs` | `RouteSpec => []NoHopWithItsResolution` |
| `UsableRouteAlwaysSent` | `RouteProofs` | `RouteSpec => []UsableRouteSent` |
| `DispatchInvariant` | `RouteProofs` | `DispatchSpec => [](TakenInv /\ WalkInv)`, which gives the next three |
| `BugNeverReached` | `RouteProofs` | `DispatchSpec => []NoBugReached` |
| `RemovalAlwaysMirrorsInstall` | `RouteProofs` | `DispatchSpec => []RemovalMirrorsInstall` |
| `KeptFromKernelAlwaysSent` | `RouteProofs` | `DispatchSpec => []KeptFromKernelIsSent` |
| `StartInvariant` | `StartProofs` | `StartSpec => []StartInv`, which gives the next three |
| `PathsAlwaysReadBack` | `StartProofs` | `StartSpec => []PathsReadBack` |
| `NothingEverLeft` | `StartProofs` | `StartSpec => []NothingLeft` |
| `RefusedAlwaysAtLimit` | `StartProofs` | `StartSpec => []RefusedOnlyAtLimit` |
| `ArgvAlwaysFaithful` | `StartProofs` | `StartSpec => []ArgvFaithful` |
| `PathsAlwaysAsConfigured` | `StartProofs` | `StartSpec => []PathsAsConfigured` |

**The assumptions on faults.** "No response is forged" leaves out the one fault with
which these properties fail: a dataplane that answers what it was not asked
(`rogue_response` is its run). `AnswersInOrder` says further that no response is
lost in decoding and that the sync tokens of the incarnations differ and are there
(`TokensDiffer`). The `restarts` run has neither and does not claim
`ResponseExpected` and `ConversationAligned`; `SuccessAlwaysEarned` and
`PurgeAlwaysRealigns` need neither. A dataplane may die and restart at any step, the
socket may fail to reopen, and requests may fail to be encoded, in all of them.

*Type invariant.* `TypeOK` is inductive as it stands, because it says of the lists
what the code relies on without checking: no Connect waits unsent, only requests are
in flight, and a request other than Connect has a context. The mismatch of a
response and the hand-off use exactly that. One lemma for each group of actions.

*Ownership and order.* Proving them about the plugin itself would repeat the same
argument in each of its more than thirty actions. They are proved about `CtxFlow`, which has
nine: `OwnedOnce` and `InOrder` are each inductive given the types, since every
step takes a context from the head of one list, or from `todo`, to the end of one
other place. The lemmas about `Append` and `Tail` say what happens to the contexts,
the absence of duplicates and the order of a list. `InOrder` needs its middle
conjunct (everything in flight is below everything unsent) for `Send`, and `Below`
`seqnum` for `Accept`.

*Refinement.* `FlowStep` maps every step of `DpPlugin` to a step of `CtxFlow` or a
stutter, given `TypeOK`. The one fact about data it needs is `PutBackSame`: a popped
message put back at the head leaves the list as it was. The invariants of `CtxFlow`
then carry over.

*Handshake.* `ConnectFirst` speaks of what the dataplane has received; what the plugin
sends depends on `__dplane_is_ready`. `HandshakeInv` follows the leave to send on its
way: a response to Connect waiting on the socket, then held by a purge, then in
`is_ready`, each only while the peer has accepted a Connect (`LeaveInv`); a dataplane
that the plugin is not connected to has received nothing (`ServedInv`); a socket
without a peer has no response to Connect to read, and `dp_connect` starts only
from there (`PeerInv`). Most steps are quiet: they at most take a message off the
socket, and one lemma (`QuietKeeps`) serves them all.

*Events.* `LoopInv` says that a retry is pending, a connection under way or the socket
gone whenever the plugin is not connected, and the first two never otherwise; its second part
adds what the two assumptions give.

*Conversation.* Whether a success is earned depends on everything under way.
`TurnInv` says it in sets, not positions: what is in flight was sent to the peer
or, while the plugin is not ready or purges, to an earlier incarnation that is dead
(`SentInv`); such a peer owes no answer to a request (`ObjectInv`) and at most one to
a Connect (`ConnectInv`); a successful response on its way with the number of a
request in flight was earned by that one (`ServedRight`), because no number is given
twice (`NumberInv`). A purge then only answers for requests to dead incarnations.
`StepKinds` reduces the actions of the plugin to a dozen kinds of step, and each part
of `TurnInv` has one lemma that goes through the kinds.

*Alignment.* That responses meet the requests they answer needs order, and that a
restart is noticed. `TokenInv` says that, until the plugin is ready, the token it
remembers is a dead incarnation's unless nothing is in flight, so the response to
Connect cannot pass for one without restart. `WaitInv` keeps the Connect last in
`in_flight`, and there for as long as it is under way. `NumsInv` says that the numbers
in flight are those of the responses received followed by those of the requests
still to be served, all rising. Since numbers rise, equal sets mean equal order, and
the positions `ConversationAligned` asks for follow.

*Awaited.* `ConnectAwaited` needs one fact more (`AwaitInv`): when `dp_connect` sends its
Connect, the queue of the dataplane it has just connected to is empty, so the send
is not refused for lack of room.

*Counters.* Each step of `DpStats` is one of five: counting a sent message, an
answer, a purged request, a dropped one, or nothing. `RequestsAccounted` is modulo
`Wrap`, and its sum over `in_flight` is the cardinality of a set of positions, about
which the lemmas on `Append`, `Tail` and push-back are stated once.

*Structs.* `PoolInv` has four parts. `OnePlace` with the types, and `HeldOK`: what a call
holds is what that call can dispose of. `NestOK`: calls nest in one way - an answer,
from which a drain may send, from which any number of connections may start - so the
popped message that `PoolFlow` counts at the head of a list is the only one popped
from it. `NoDanglingCtx`, which needs `ZebraOK` (what zebra has still to give it never had
back). The proof treats places as sets (`ToSet`), and goes back to sequences only for
the refinement.

*Dispatch.* `TakenInv` says that a context that was taken has had what `hh_process()`
makes of it. The three properties are then about that operator; `SwitchesAgree`
goes through the outer and inner switches once.

*Next-hops.* `WalkInv` relates `has_recursive` and the route to the part of the group
already visited. That a usable route is not left empty needs a fact about zebra's
groups: what makes the first pass set `has_recursive` is itself active.

*Start.* `StartInv` says what is held in each phase; about the buffers it says that
their octets are the path followed by NULs to the end, which is why a shorter path
after a longer one reads back.

*Argument vector.* `ArgvInv`: while no `strdup()` has failed, `argv` is the beginning of
the string and `rest` what follows it, and `argc` is one more than its length, so that
the loop ends with `argv` full or the string exhausted.

*Options.* Which tokens `getopt_long()` takes for options depends on all before them: the
argument of `-l` may look like an option. `PathsAsConfigured` names them without a
walk, as the least set of positions that has the first and is closed under going on
(`Looked`), so that no induction is needed: `StandsBehind` shows that nothing between an
option and the next place looked at is in that set, by exhibiting a closed set
without it. `GetoptInv` then says that the paths are those of the last options before
`optind`.

Only model-checked: `EveryCtxAnswered` and `RefreshHonoured` (liveness under fairness is
out of TLAPS's reach). Every other property of a passing run is proved. The inductive
invariants above were checked by TLC, on the instances of the runs, before they
were proved.

## 5. Plan

1. *(done)* Core: state, cache, sockets, messages, provider callbacks; dispatch;
   first theorems.
2. *(done)* The promise to zebra as an abstract specification, implemented by
   `DpPlugin`, by TLC and by TLAPS. Left: the conversation with one incarnation as an
   abstract specification of its own (Connect, then FIFO).
3. *(done)* Restarts that go unnoticed (`restarts`) and the refresh of
   `handle_rpc_control` (`RefreshHonoured`). Left: zebra's desired state and the
   dataplane's state, and their convergence after a refresh.
4. *(done)* The pool of the cache with the identities of the messages.
5. *(done)* The statistics as a superposition. Left: the counters of errors, which
   relate to nothing else, and what the vty thread reads while they move.
6. *(done)* Arguments, paths, start and its failures; the next-hops of a route.
7. *(done)* Theorems: all the safety properties and refinements of the passing runs.
   Left: with the abstract specification of 2, that `DpPlugin` implements it.

## 6. Not modelled

- Text output and logging (vty, `fmt_rpc_msg`), and the registration of the vty
  commands: the one flag they write selects logging.
- The wire format of the `dplane-rpc` library: encoding and decoding either succeed
  or fail. The fields of the requests for interface addresses and rmacs, and those
  of a route beside its next-hops, are copies.
- Memory exhaustion outside the start (FRR's allocator aborts).
- The counters of errors, of retries and of what is received, each incremented in
  one place and related to no other state. The vty thread reads the counters one by
  one while the dplane pthread moves them (`hh_dp_rpc_stats.c:120`): what it shows
  need not be the counters of any one moment, and no property claims it.
- Time. While the plugin is not ready its socket is writable and the write callback
  asks for the next notification at once (`hh_dp_comm.c:367`): the model has the
  loop, as steps that change little, but not its cost.
- The kernel provider behind the plugin: a context answered at once overtakes one
  that waits for the dataplane (`hh_dp_process.c:300`), which only matters there.
- The build (`DEBUG_BUILD` is a constant).
