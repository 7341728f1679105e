# Verification of the triangle JS SDKs

TLA+ models of the parts of this repository whose correctness depends on the
order in which things happen, TLC instances that check them, and theorems
about them proved with TLAPS. Paths below are relative to `packages/`.

Contents: 1 inventory, 2 modules and what they model, 3 runs, 4 bounds,
5 fairness, 6 deviations found and facts read in the code, 7 proofs, 8 what is
not modelled, 9 plan.

## 1. Inventory

The repository is a set of single-threaded TypeScript packages: a *host* (a
wallet application) and *products* that run inside it talk over a message
channel; the host pairs with a phone application over a statement store, a
gossip-backed key/value store with one statement per channel of an account.
Nothing runs in parallel, but every `await`, timer, subscription callback and
abort signal is a point where another handler may run, and both peers, the
store and the network are concurrent with all of it.

### 1.1 Statement store (`statement-store/src`)

| component | state | operations | correct when |
| --- | --- | --- | --- |
| session reducer, `session/stateMachine.ts` | phase, the outgoing batch (request ids, messages, tokens), the queue behind it, status of each incoming request | `transition`, one case per event | no token is lost, duplicated or attached to the wrong message; messages leave in FIFO order; a queue never waits behind nothing |
| session driver, `session/core.ts`, with `session.ts` | machine state, promises by token, replay buffer, seen statements, subscribers, store subscription, newest response id, disposed flag, init timer | `submitRequestMessage`, `submitResponseMessage`, `subscribe`, `waitForRequestMessage`, `clearOutgoingStatement`, `dispose`; init; incoming statements | the live batch is always on its way or stored; the newest answer is the one that lands; requests are given to a subscriber once; nothing unread is overwritten, also over a restart; every promise settles |
| several devices, `multiDeviceSession.ts`, `codec/incomingTopics.ts`, `envelope.ts`, `outgoingBody.ts`, `decoder.ts` | the peer's roster, topics and keys derived from it | roster changes, wrap, open, classify | every device of the roster hears us and is heard; what cannot be opened is told from what is broken |
| expiries and submission, `submit/*.ts` | the last priority drawn; per call two retry budgets and a back-off timer | `next`, `raiseFloor`, `submitWithRetry` | no ties, floors cleared, honest outcomes, superseded retries stop |
| in-memory store, `adapter/inMemory.ts` | a statement per channel, subscriptions | submit, query, subscribe | a statement of a channel is replaced by one of a higher expiry only |
| RPC adapter, `adapter/rpc.ts`, `lazyClient.ts` | subscriptions shared by topic filter, gathered pages, the client | subscribe, query, submit, connect | every listener gets every statement once, and one node subscription serves them all |

The driver dispatches events to the reducer and performs its effects in the
same turn; submissions run as detached promises through `submitWithRetry`,
which asks the driver (`shouldRetry`) whether they still matter and reports
back with events. The store streams statements to the driver. Hard here:
retries that wake up superseded, failures of calls that landed, decoders that
finish out of order, init racing the stream, a restart over an occupied store,
a clock that lags behind stored priorities, devices that come and go.

### 1.2 Host side of pairing (`host-papp/src`)

| component | state | operations | correct when |
| --- | --- | --- | --- |
| authentication, `sso/auth/impl.ts`, `v2/service.ts`, `v2/state.ts` | the attempt in progress, its abort handle, the status shown, the marker of the last processed statement | `authenticate`, `abortAuthentication`; answers, polls | a flow that can still end can be aborted, what is shown belongs to the flow there is, a success is stored once |
| session manager, `sso/sessionManager/impl.ts` | the stored list, live sessions, secrets, slot keys | add, `disconnect`, `forget`, dispose, `Disconnected` from the wallet | live sessions follow the list; what is removed leaves nothing behind |
| calls to the wallet, `userSession.ts`, `helpers/createAsyncTaskPool.ts` | one slot and a queue, reply waiters, the abort signal, the log of processed messages | 14 calls, abort, dispose, incoming messages | each call has one outcome and gives its slot back; a message is processed once |
| identity, `identity/impl.ts` | cached record, shared stream per account, its timer | `getIdentity`, `watchIdentity` | a watcher sees what the chain says, and silence ends |

### 1.3 Host container, protocol and transport

| component | state | operations | correct when |
| --- | --- | --- | --- |
| transport, `host-api/src/transport.ts` | handshake, pending requests, shared subscriptions on both sides, abort controllers | request, handleRequest, subscribe, handleSubscription, abort, destroy | exactly one response per request; an interrupted subscription is closed once on both sides; nothing hangs after destroy |
| protocol, `host-api/src/protocol`, `hostApi.ts` | none | the tables of methods, ids, versions and errors | four tables describe one protocol |
| request handlers, `host-container/src/createContainer.ts` | the handler of each slot | register, remove, call, subscribe | the newest handler serves, a permission comes before the call it is for, every failure is the method's own error |
| chain connections, `chainConnectionManager.ts` | a client and a reference count per chain, follows | follow, head operations, spec, broadcast, stop, dispose | what uses a chain holds it, each reference is given back once |
| rate limiter, `rateLimiter.ts` | tokens, queue, timer | schedule | FIFO, at most the budget per interval, the line moves |
| wrapper, `host-api-wrapper/src` | `papiProvider.ts`: follows, broadcasts; `renderer.ts`: the open bodies | JSON-RPC to host calls, functions of the product's API, rendering | each JSON-RPC request is answered once, a followed chain is followed at the host, a body ends once |

### 1.4 Chain connections (`host-substrate-chain-connection/src`)

`connectionPool.ts` keeps a client per chain with a reference count, delayed
destruction, a cache of resolved APIs and pending resolutions.
`restartableProvider.ts` replaces the transport below it, `branchedProvider.ts`
multiplexes one provider, `pauseController.ts` takes sockets down and
`subscriptionReplayProvider.ts` re-subscribes after a reconnection. Correct when
a client lives exactly as long as somebody holds it, a resolved API belongs to
the present client, a transport that was replaced reports nothing, and a
subscription survives reconnections without leaks or duplicates.

### 1.5 Worker sandbox, drawing, files

`host-worker-sandbox` runs product code in QuickJS: the message port with its
handlers, timers, microtasks, fetch, WebCrypto keys, modules, and a disposal
that may come at any time. Correct when every handle the host holds is released
once and not used afterwards, and what the host does for the sandbox ends with
it. `product-react-renderer` draws a widget tree with React; the tree sent must
be the tree React has. `handoff-service` cuts a file into chunks that a claim
evicts; a download is the whole file or an error. The rest is codecs, user
interface and generated descriptors (section 8).

`PROJECT.json` lists the hazards found while reading, each at its line with the
properties that watch it.


## 2. Modules

| modules | component |
| --- | --- |
| `ExpiryAllocator`, `SubmitRetry`, `SubmitRetryProofs` | priorities and submission with retries |
| `SessionReducer` (pure), `SessionMachine`, `Outbox` (abstract), `SessionMachineProofs` | the reducer of a session |
| `Session`, `SessionProofs` | the driver of a session over a store and a peer |
| `DeviceRosters` (proofs in `SubmitRetryProofs`) | sessions of several devices |
| `StatementFeed` | subscriptions of the RPC adapter |
| `TransportRequests`, `RemoteCall` (abstract), `TransportRequestsProofs` | requests over the transport |
| `TransportSubscriptions`, `TransportSubscriptionsProofs` | streams over the transport |
| `HostProtocol`, `ProductWrapper` (tables), `HostCalls` | protocol, wrapper and the container's slots |
| `RateLimiter`, `ChainConnections` | what the container puts before and behind its handlers |
| `ConnectionPool`, `SubscriptionReplay` | connections to nodes |
| `HostContainerProofs` | proofs about the slots, the errors of calls, the limiter, the chains and the pool |
| `PapiFollows`, `ProductRenderer`, `ReactTree` | what a product has of the host |
| `SandboxPort`, `SandboxCalls` | the worker sandbox |
| `ProductProofs` | proofs about the renderer, React's tree, the follows and the sandbox's handles and calls |
| `SsoPairing`, `SsoSessions`, `SsoRequests`, `IdentityWatch` | the paired wallet and identities |
| `FileHandoff` | files handed over |
| `RemotesProofs` | proofs about wallets, identities, files, the feed of statements and the replay |
| `MCHost`, `MCRemotes` | independent components side by side, one run each |
| other `MC...` | constants of one component's instances |

**Composition.** `Session` composes the reducer and the allocator with a store
and a peer. `HostCalls` composes the wrapper's table, the protocol's and the
container's slots: a call goes from a function of the product to the answer it
gets. `ConnectionPool` composes the pool with the branched and the restartable
provider, `SubscriptionReplay` the replay with the pause controller and the
proxy above it, `SsoRequests` the queue with the session that uses it,
`PapiFollows` the provider with the transport's table of streams. `MCHost` and
`MCRemotes` do not compose in that sense: their parts share no state in the
code that a step looks into, so a behaviour is one of a single part and the
state space is their sum.

**SessionReducer** is `stateMachine.ts`: `machine` is `SessionState`, an absent
batch is the record `NoBatch`, a transition returns a state and effects (the
tokens to settle, how, and the submissions to start). Messages are model
values and equal bytes are equal values; the size check `fits` is the constant
`Fits`, which may depend on the present devices, as the envelope does.
**SessionMachine** dispatches any event at any time the driver could, with the
promises beside it. Its abstract view, a line of messages of which a prefix is
on the wire, is `Outbox`: `FIFO` is the refinement.

**Session** is `core.ts`. An action is what the driver does in one turn. A call
of `submitWithSessionRetry` is a record in `runs` that goes round `sending`
(`StoreAccepts`, `StoreRejects`, `CallFails`, `AccountFull` answer it),
`answered` (`RequestEnds`, `ResponseEnds`, `ClearEnds` or `BackOff`) and
`backoff` (`Resend`). `own` and `peer` are the request and response channel of
our account and of the peer's devices. A peer statement is streamed on
acceptance to the topics listened to, passes `Intake` (the seen check) and is
`decoding` until one of `Dropped`, `Nacked`, `RequestArrives`,
`ResponseArrives` ends it. `init` has the two queries, the floor and seen
update (`InitLoaded`) and the restoring turn (`InitFinishes`) apart, because
other handlers run between them. `Restart` is a new session in the same store.
The peer is external: a device reads what our channel holds when it looks, and
answers what it has read.

**DeviceRosters** adds what `Session` abstracts to `Sender` and `opaque`: keys,
topics and envelopes. A shared secret is the pair of keys behind it, a topic
the tuple `createSessionId` hashes, a statement carries an entry per device of
the roster its author had. `session` keeps what of the driver depends on these:
the live batch with the ids it went out under, requests to be answered,
statements seen. Messages are numbers, sent in their order; each is submitted
once, so the messages of a request serve as its id.

**SubmitRetry** is `submitWithRetry` with both budgets (`Unbounded` is the
session's priority policy), `settle`, the liveness gate before and after the
back-off, and the allocator's floor. The store is external: one statement per
channel, at most `Quota` of an account, and a refusal names the expiry to
exceed. **StatementFeed** is `subscribeStatements` of `rpc.ts`: the array of
listeners, the node's subscription, the page gathered until a timer fires, and
the hand-out, during which listeners join and leave the array it walks.

**TransportRequests** and **TransportSubscriptions** are `transport.ts`, with a
product at one end, a host at the other and the frames between them in order.
They are separate because frames are told apart by request id, so calls and
streams meet in `destroy` only, which both have. In the first, `link` is
`isReady` with its retried handshake and its timeout, `call` is where each
`request()` is, `inFlight` the host's table and `working` the handlers that
have not settled, cancelled ones included. Frames may be lost until the host
listens, which is why the handshake is repeated and requests wait for it.
`RemoteCall` says what is left when frames, handshake and aborts are forgotten.
In the second, a caller's `handle` is what `subscribe` returned; unsubscribing
goes through `active`, the table by key, as in the code. Handlers are external
and may send or interrupt when they should not, or throw instead of starting
(`threw`).

**HostProtocol** and **ProductWrapper** are the tables: wire id, kind, versions
and error of each method (`protocol/impl.ts`), the fallback errors of
`hostApi.ts`, the slots of `createContainer.ts` with gate and default, and
which method each function of `host-api-wrapper` calls. **HostCalls** runs on
them: `Register` and `RemoveHandler` are a slot's `handle…` and the function it
returns, a call passes its gate (`asking`) and is then served by whatever
handler is current *now*; `Folded` and `FoldedInterrupt` are what `hostApi.ts`
makes of a failure below the domain layer.

**ChainConnections** is `chainConnectionManager.ts` as `createContainer.ts`
drives it: `chains` is its map, `use` where each call of the product is.
**RateLimiter** counts time in quarters of an interval and numbers the calls as
they are made; `served`, the order they are executed in, and `recent` are history.
**ConnectionPool** names what the pool keeps (`refs`, `client`, `resolved`,
`pendingRes`, `status`) and what the providers below do (`branches`, `root`,
`open`); each await of `lockApi` and of the provider factory is a step of its
own. **SubscriptionReplay** has the three maps of the replay provider, the
node's subscriptions and what is unanswered on the wire.

**PapiFollows**: `feed` is the provider's follows and the transport's streams,
`rpc` each JSON-RPC request. An eager consumer follows again from within the
handler of a stop, as polkadot-api does. **ProductRenderer**: one record per
body with the closure's flags and the frames sent; a handler runs within its
start frame (`calling`). **ReactTree**: `Committed` is the list of host-config
calls React makes from one list of children to the next, folded over
`instances`; effects run later (`RunEffects`).

**SandboxPort** names every handle the host takes (`alive`) and where it is
kept; what product code does in a turn of the VM is any sequence of calls while
`running` is somebody. **SandboxCalls** is what the host does meanwhile: fetch
with its signals, keys with their finalizer, module loads. `lifetime` is "closing"
while `dispose` runs the jobs that were waiting, after it has torn the bridges
down (`sandbox.ts:437-464`); what those call is marked `late`.

**SsoPairing** has a record per flow, because an aborted flow ends beside its
successor, and the one-statement channel of the wallet. **SsoSessions** has the
stored list, its read and its write apart (`fieldView.ts`), and what follows a
write: the subscription of the manager. **SsoRequests** has the task pool, the
abort signal's listeners in order, and the log of processed messages with its
read and write apart, each of which may fail or be cut off by the end of the
process (`Lost`). **IdentityWatch** is the RxJS pipeline of `identity/impl.ts`:
a stream is a run of `concat`, `merge` and `timeout` that starts with its first
subscriber and can start again. **FileHandoff** is `fileLoader.ts` over a pool
whose claims evict.

Operators whose comment begins with "Mutant of" (or that are marked "mutant")
are plausible mistakes in the operator they precede. No specification uses them;
putting one in the place of the operator must break the property listed with it
in `PROJECT.json`, which shows that the property watches that code.

## 3. Runs

| run | instance | shows |
| --- | --- | --- |
| `machine` | three messages, one of double size, 4 submissions, two devices that shrink the budget from 4 to 2, one peer request, batches of 0 or 1 message to restore | type; every unsettled promise is owned by the batch or the queue, by one of them only, and with its own message; a queue has a live batch before it; the line is FIFO (refinement of `Outbox`) |
| `outgoing` | two messages, one device that comes and goes, clearing, one retry, two faults, a clock behind every floor; symmetric; 1.1M states | the driver's promises agree with the reducer's tokens; the live batch is being sent or stored, so an answer can come; a superseded or cleared batch never comes back |
| `incoming` | two peer requests on one channel, one readable and one malformed or opaque, a subscriber that may leave and a one-shot waiter, a retry, a fault, disposal; 1.5M states | an unanswered request is given to each subscription once and not twice; what is buffered awaits its answer; the newest answer is sent or stored and no request has two submissions; a disposed session starts no call |
| `restart` | statements that hold one message (so the second queues), three submissions, one fault, one restart; fair; 29k states | every promise of the first session settles; the second outranks the first's statements at once and overwrites nothing that no device has read |
| `late_landing` | two messages a statement, and calls of a dead session that land afterwards, under a clock that has moved on | the request channel still only moves forward |
| `submit_retry` | three writers (a session without priority bound, two bounded ones), two channels, quota of one, one fault, one tick; fair; 160k states | no ties, floors cleared in one step, termination |
| `transport_requests` | two calls, two handshake requests; fair; 41k states | a waiting request is in the channel, at the host or on the way back; a withdrawal reaches the host; one answer at most (refinement of `RemoteCall`); every request ends unless one side is destroyed while it waits |
| `transport_subscriptions` | three callers with one start payload and callbacks of their own, two streams, one value each; symmetric; 1.1M states | both sides agree which streams run; a cleanup is run once; a subscriber stays attached, hears every value and is told of the interrupt once |
| `host` | ten components of the host and the product, one at a time; 960k states | below |
| `remotes` | eight components that talk to nodes, pools and the wallet, one at a time; fair; 410k states | below |
| `early_response`, `papi_refollow` | minimal; expected to be violated | section 6 |

What `host` and `remotes` show, part by part:

| part | property | instance |
| --- | --- | --- |
| `calls` | `SlotsServe`: a call is served by the newest registration there is, gated ones only after the call's own grant. `OneErrorType`: however a call fails, the product sees the method's error in the version it called; the four tables of the protocol fit together | one call of any of six methods (gated, two versions, signature, two subscriptions), three registrations |
| `limiter` | `OrderlyLine`: calls are executed in the order they were made and each once, a line has its timer armed, at most two budgets in any interval | seven calls, budget 2, a line of 3 |
| `chains` | `ConnectionsAreHeld`: the count is the number of holders, an operation runs on a follow that is open, nothing outlives disposal but a transaction in need | two follows, an operation, a spec request, two transactions, two genesis hashes of which one is supported |
| `pool` | `SharedChainIsKept`: holders keep their client and api, one transport is open and heard | two `lockApi`, one connector, two clients with two transports each, with and without delay |
| `port` | `HandlesEndWithTheSandbox`: handles are alive iff kept, each function is a listener once, none is called after disposal | two functions, four handles, limits of 2 |
| `bridge`, `imports` | `HostSideAgrees`: an abort reaches all that depends on the signal, once; keys outlive their wrappers; a file has one source; once dispose has begun no answer is handed on and no fetch made before it goes on unaborted | two calls, three signals, two keys; three names of a file |
| `follows` | `FollowsAreServed`: active follows are exactly the listeners of live streams; one stop each | two connections, one eager, two follows each |
| `renderer` | `BodiesEndOnce`: cleanup and last frame once, however a body ends | two handlers, two bodies, three frames |
| `tree` | `TreeIsDrawn`: children, props and frame are React's; an action runs the newest callback | three widgets, two commits |
| `rosters` | `RostersAreServed`: what is written for a device is heard and opened by it; nothing unread is overwritten but by a session that could not have opened it, or whose batch was ended by a response to a part of it | a device each, one more known of, three messages (two for a batch that grows, one that overwrites it), one change, one restart |
| `replay` | `ConsumersAreReached`: index and replay state agree; every subscription is served in the end | two subscriptions, three drops, pauses |
| `feed` | `ListenersShareOneFeed`: one node subscription while somebody listens; every statement heard but for a page in which another left | three listeners, two statements |
| `identity` | `WatchersSeeTheChain`: one stream per account, all its watchers see one value, the chain's once it has spoken, and silence ends | two watchers, a `getIdentity`, two versions |
| `handoff` | `FileIsWhole`: a finished download is the file, at any length and chunk size, at most one | up to 4 bytes, two downloads |
| `requests` | `EveryCallEnds`: one slot, never idle while somebody waits, an abort takes all before it and none after; every call ends unless one without timeout is in its way | a signature, a ring-VRF call, a notice, one abort |
| `messages` | `HandledOnce`: a message is handled once, and once more for each delivery that overtook the log, each write of it that failed or a restart prevented, and each entry written over (`excused`) | two messages, three deliveries of one and one of the other |
| `sessions` | `SessionsAgree`: live sessions are the list's; what is removed leaves nothing behind | two sessions, two removals, one slot key |
| `pairing` | `PairingIsInReach`: a flow that can still pair can be aborted and is the one shown; an aborted flow stores nothing | three flows, two answers |

A property that says "but for" names an exception the code has; it is history
in the model (`doubled`, `crossed`, `lost`, `late`, `excused`, `threw`, `revived`,
`unheard`, `blind`, `early`, `stale`, `broken`) set where the code does it, and section 6
says what it is.

## 4. Bounds

Two messages are a batch and its extension, three are a batch, a queue and what
would overtake it; one retry and two faults exhaust a budget once and then use
it up in another submission; two requests are an older and a newer answer on one
response channel; one restart has a predecessor's statements in the store, and
its own, in every combination. Two calls show a withdrawal that crosses another
call's answer, two handshake requests a late answer to the first; three callers
are one with a stale handle, one that re-opens and one that joins. One key
suffices, since nothing in the table of streams relates two keys, as do one
chain of the pool and one account of the identities. Three registrations are two
that override and one between them. Two commits and an unmount suffice for the
tree, since a commit depends on the previous list only, and three widgets have
every kind of move. Seven calls are a budget, a full line, one too
many and one after the line has moved.
Three deliveries of a message are one that is handled, one that finds nothing of
it in the log, and one that does; a message beside it writes over the log.
Three flows of pairing are an aborted one, its successor and one that finds the
statement of either.

Named bounds on the environment: `MaxSubmits`, `MaxFaults`, `MaxRestarts`,
`MaxClock`, `Stream`, `Shake`, `MaxValues`, `MaxDrops`, `MaxStatements`,
`MaxStreams`, `MaxLength`, `MaxAborts`, `Delivery`, `MaxScheduled`, `MaxGrants`,
`MaxFlows`, `MaxAnswers`, `MaxClients`, `MaxTransports`, `MaxResolves`,
`MaxHandles`, `MaxSignals`, `MaxKeys`, `MaxFollows`, `MaxTrees`, `MaxCommits`,
`MaxDeviceKeys`, `MaxChanges`. `MaxSubmitRetries`, `MaxInitRetries`,
`MaxListeners`, `MaxMicrotasks`, `MaxQueued` and `Budget` are the code's own
limits at small values. Two functions do not reach the cap on listeners; that it is
kept for any number of them is part of `HandlesAlwaysEnd`. Only `machine` looks for deadlock: everywhere else the
system may stop, because its bounds are used up and all has been answered, or
because a side was destroyed. Devices are symmetric in `machine`, messages in
`outgoing`, callers and streams in `transport_subscriptions`; runs with liveness use no symmetry.

## 5. Fairness

`Session!Fairness`: weak fairness of the store's answers (a call of the adapter
returns or throws), of the driver's steps (promises and timers resume), of
init, of decoding, and of the peer reading and answering, which is what
`EveryTokenSettles` is conditional on. No fairness of calls of the application,
of faults, roster changes or restarts. `SubmitRetry`: weak fairness of each
writer's steps. `TransportRequests`: weak fairness of the handshake's timeout, of
frames on their way at either end, of promises that resume and of handlers,
which settle; a handler that never does is the only other way to keep a request
waiting. `MCRemotes!FairSpec`: the node answers, the proxy connects again and a
pause ends (replay); timers fire, and a closed session settles what it was
handed (calls to the wallet). The wallet need not answer. Faults and drops are
bounded: an account that stays full for ever keeps an unbounded retry going for
ever, by intention of the code.

## 6. Deviations found, and facts read in the code

Two runs show a statement of the repository that the program does not keep;
`PROJECT.json` quotes the lines.

- `early_response`: a response to a superseded submission resolves the callers
  of messages that were added after it and that the peer has not read. The
  batch is dropped with them.
- `papi_refollow`: a follow that hears `stop` and follows again at once joins
  the stream that has just ended, if another connection of the chain still
  listens to it; the new follow never reaches the host. The comment at
  `papiProvider.ts:209-214` names that failure and its remedy, which releases
  the connection's own listener only.

The following was read while modelling. Where a property is conditional, its
condition is one of these.

Sessions and the store:
- init asks for the peer's statements and for its own separately; a response in
  between is dropped and its batch restored as unanswered (`stateMachine.ts:64`,
  `session.spec.ts:330`). A malformed request is answered with an error when it
  is streamed, never when init finds it (`core.ts:306`, `:446`). With several
  peer devices only the first request and the first response found are looked at
  (`core.ts:475-478`): a request behind them is marked as seen, so the application
  gets it only with the next statement its sender makes of it, and a batch
  answered by a response behind them is restored.
- A call of a dead session that lands between init's queries, or before a clear,
  is overwritten or cleared unseen; `late_landing` runs without clearing.
- Two answers to one request, the first failing after the second pruned the
  replay buffer, leave an open request no later subscriber is given. A message
  queued during init may equal one of the restored batch and goes out twice.
- `incomingTopics.ts:47` says topics are "recomputed whenever the roster
  changes"; a change while nobody is subscribed is missed by the next
  `subscribe()` (`incomingTopics.ts:97-100`, `core.ts:364`). That is `unheard`.
- `docs/migration/v0.9.md` says roster entries that are not 32 bytes "are
  dropped"; one malformed recipient makes the whole wrap fail
  (`envelope.ts:140-147`). A device added after a request was built cannot open
  it. A session that starts with an empty roster does not restore its unread
  request and overwrites it (`blind`). A response to a part of a batch that has
  grown ends all of it, as in `early_response`: the next message overwrites what
  nobody has read (`early`).
- A page of `rpc.ts` is walked over the live array of listeners, so one is
  skipped when an earlier one leaves during it (`rpc.ts:85`). `inMemory.ts:19`
  promises all statements after subscription. A failed node subscription is
  logged and kept; a callback that throws starves those behind it.

Transport and host:
- `unsubscribe()` on an interrupted subscription is documented to do nothing
  (`docs/migration/v0.11.md:204`); it looks the stream up by key and the
  listener by callback, so if the same callback has subscribed again it ends the
  new stream. The model has one callback per caller.
- A handshake that timed out leaves the transport disconnected for ever
  (`transport.ts:477`). Destroying a side leaves waiting requests without an
  outcome (`:832`). A host that removes its handler cleans up without an
  interrupt (`:803`). A subscription handler that throws is logged and no more
  (`:759`, `:208-213`): no entry, no cleanup, no interrupt, so the product listens to
  nothing until it unsubscribes (`threw`).
- `subscribe` posts its start without waiting for readiness (`transport.ts:376`),
  and every early frame polls for the port with a timer of its own
  (`sandboxTransport.ts:38-48`): early frames may be lost or change places.
- The container's handlers ask `hasActiveFollow` before each chain-head
  operation, so the recovery window of the manager, with its queue of pending
  operations (`chainConnectionManager.ts:45-48`, `:194-219`), is never entered.
- `getLegacyAccountSigner` signs raw data always as bytes, the injected signer by
  `raw.type` (`accounts.ts`). Two concurrent `registerRoom` both ask (`chat.ts`).
- A broadcast whose operation id arrives after its connection was closed is
  orphaned (`papiProvider.ts:379`). A task that schedules from within the rate
  limiter's queue overwrites the timer. A cleanup that calls `onRender` again
  leaves its handler uninstalled (`unheard` of the renderer); a tree that breaks
  within the handler lets later frames follow the last (`broken`).
- `appendChild` of the React renderer does not take the child out first
  (`reconciler.ts:133-138`): `[A, B]` to `[B, A]` gives `[A, B, A]` (`doubled`).

Chains:
- `unlock` is not idempotent; a failed `lockApi` empties a newer pending
  resolution, so an api can be resolved twice; status generations of two clients
  are not told apart (`stale`); `pauseAll` does not pause later clients.
- A second reconnection over an unconfirmed re-subscribe puts it on the wire
  twice; unsubscribing meanwhile leaves an orphan at the node.

Sandbox:
- A handler that removes a later one while a message is delivered makes
  `deliver` throw; a microtask that is pending at disposal has its handle
  released twice; an interval that clears itself releases the handle it runs on;
  promise jobs left at disposal run after the registries were emptied;
  what they fetch is aborted by nobody, since the fetch bridge does not ask whether
  it was disposed (`sandbox.ts:464`, `fetch.ts:479-544`; `late`);
  `new Request(request)` drops the body; a `run()` suspended in an import
  resumes on a freed VM.

Wallet, identities, files:
- An aborted pairing's late handlers reset its successor's status, handle and
  result (`auth/impl.ts:158-182`, `crossed`); an abort while the session is
  persisted still stores it. The marker holds one statement, so an older success
  can be replayed (`service.ts:57-62` says otherwise). A failing `onAuthSuccess`
  leaves the session stored.
- Mutations of one field that overlap lose an update (`fieldView.ts:71`,
  `lost`); a slot key in flight is written after its session was purged
  (`late`); `disconnect` queues its message and disposes the session that would
  send it (`impl.ts:136`). The manager follows the storage after its disposal.
- An abort sends each queued call to the wallet before it aborts it; the reply
  waiters of calls that timed out stay; the two ring-VRF calls have no queue
  timeout, which is the condition of `EveryCallEnds`. The pool's retry timer
  (`createAsyncTaskPool.ts:149`) is never used. A wallet's message is handled
  again when it comes before the log has it, when the log could not be written,
  which is only told to the console (`userSession.ts:709-714`), when the process
  ended before, and when another message's entry was written over (`excused`).
- A storage that cannot be read fails `getIdentity` (`identity/impl.ts:127`, `:142`),
  while a watcher takes it for an empty cache.
- `getIdentity` may write an older record after a watcher's newer one; a stream
  that ended and is subscribed to again (`revived`) runs beside its successor
  and replays the record its first run read.
- A claim evicts, so a download that was interrupted cannot be completed by
  another. The handoff README says AES-256-GCM, the code uses
  ChaCha20-Poly1305 (`crypto/encryption.ts`).

## 7. Proofs

Every theorem holds for all values of the constants that satisfy the named
assumptions, which TLC evaluates in the runs: `MachineAssumption` (restorable
batches are sequences of messages, the bound is a number), `SubmitAssumption`
(budgets are numbers or `Unbounded`, which is none), `TransportAssumption` (ids
of calls and handshakes differ), `SubscriptionAssumption` (callers use keys and
callbacks there are; `None` is no stream), `RateAssumption` (the budget and the
line are numbers), `MethodAssumption` and `NoneAssumption` (methods are of the
protocol's table; `None` is neither a registration nor a record of one),
`ChainAssumption` (a follow, an operation, a one-shot call and a broadcast are
different calls; `NoChain` is no connection), `PoolAssumption`,
`PairingAssumption`, `BoundAssumption`, `HandoffAssumption`, `FeedAssumption`,
`ReplayAssumption` and `IdentityAssumption` (bounds are numbers),
`RequestAssumption` (calls are of the methods there are, bounds are numbers),
`DeliveryAssumption` (deliveries are numbered deliveries of messages, finitely many),
`RendererAssumption` (`NoRenderer` is none), `CallBoundAssumption` (host calls are
not numbers, which signals are; bounds are), `SessionAssumption` (waiters and
eager consumers are subscribers, a request has a sender among the devices, `None`
is no request, rosters are sets of devices, budgets and clock readings are
numbers), `RosterAssumption` (a session is between two users, who have finitely many
devices; messages and bounds are numbers, and a device has a key), `TreeAssumption`
(the bound is a number), and `FollowsAssumption` (eager
connections are connections, the choice of a payload is Boolean, the bound is a
number).

**SessionMachineProofs.** `TypeCorrect`, `WaitersOwned`, `TokensOwnedOnce` and
`QueueNeverStranded` from `MachineInvariant`. The four invariants are not
inductive together: a new token must differ from all that exist, hence
`TokensNumbered` (all are numbered at most `submits`); and restoring a batch or
failing init would drop the tokens of a live batch, hence `NoBatchYet` (there
is none before init ends). The argument goes through one lemma per reducer
operation on an arbitrary well-formed state (`ShipFacts`, `DrainFacts` and so
on: which tokens the result owns, that they are owned once, whether a batch is
live), so that the step lemmas only compare token sets. Draining takes a prefix
of the queue at once (`Min` of the stopping points, lemma `MinIsLeast`),
instead of recursion, which is what makes it provable.
`SessionIsALine` (`FIFO`) is the refinement of `Outbox`. The line of the abstract
specification is the messages of the batch followed by those of the queue, so
each reducer operation has a lemma on what it does to that line (`ShipLine`,
`DrainLine`: a prefix moves from the queue to the batch and the line stays as it
is), and each action is then a step of `Outbox` or none.
`TokensWithTheirMessages` (`TokenWithItsMessage`) needs only that a token is at
home where it is made: `AtHome` holds of a state whose batch and queue carry
every token with its message, and each operation keeps it.

**SessionProofs.** The driver with the reducer inside it, for any messages,
devices, requests, subscribers, faults, retries and restarts. What the reducer
does is not proved again: the module instantiates `SessionMachineProofs` with
the driver's `pending` for `waiting`, and each operation has a lemma that names
its new state, tokens and submissions (`SubmitEvent`, `EndedEvents` and so on).
- `SessionTyped`: `SessionTypes` is the conjunction of what the reducer
  (`MachineOK`), the submissions (`RunsOK`), our channels (`ChannelsOK`), init
  (`InitOK`) and the peer (`OutsideOK`) hold. It is more than types: request ids
  of the batch are below the next one (else a new submission could answer for
  an old one), a submission's expiry is at most the counter, there is no batch
  before init ends, and a disposed session has given up all. `EveryPromiseOwned`
  and `DisposedIsSilent` follow from it.
- `RequestsServed` and `RequestsAlwaysHandledOnce` (`RequestsAreHandledOnce`) add
  `RequestsOK` (a request that has an answer under way was taken in) and
  `AnswersOK` (the newest answer of a request's channel outranks the others, and
  is not both accepted and gone).
- `RequestChannelMovesForward` (`RequestChannelForward`) adds `LineOK`: batches are
  ranked by their id and whether they clear it, and among all submissions, under
  way or stored, a higher rank has a higher expiry; only the newest may be sent
  again. The store refuses a lower expiry, so a lower rank never lands.
- `PromisesAlwaysCarried` (`PromisesAreCarried`) adds `OursOK` (what init read of
  our channel is what it holds, since nothing is sent before init ends) and
  `Carried`.

The last three properties are proved where no submit call of a dead session lands
late (`"late" \notin Behaviour`). They need it: one that lands between init's
queries is overwritten unseen, against `PromisesAreCarried`, and under a clock that
has not moved on it outranks what the next session sends, against the other two
(TLC finds each in a few thousand states). `late_landing` checks one of them under
a clock that has. The other theorems hold with such calls.

**SubmitRetryProofs.** `TypeCorrect`, `NeverTies`, `AlwaysClearsFloor` and
`AlwaysHonest` from `SubmitInvariant`, for any number of writers and channels
and any quota. Needed besides: `FloorAdopted` (a writer's reported minimum is
below the allocator's counter except while it has not looked at the answer),
`AnswerIsHonest` and `BackOffHasError`.

**TransportRequestsProofs.** From `TransportInvariant`, for any number of calls
and handshakes: `TypeCorrect`, `WaitsAreCarried`, `WithdrawalsFollow`, and
`Implements`, the refinement of `RemoteCall`, whose steps are matched one by one
(`OneCallMoves`, `OneAnswer`, `Stutter`). That an id is used once must be
carried through the channels: request frames are distinct, not yet in the
host's table and not answered (`RequestsAreNew`, `RequestsAreDistinct`), a
cancel frame is behind its request (`CancelFollowsRequest`) and only for aborted
calls, and nothing comes back before the host listens (`Unheard`). Lemmas on
`Append` and `Tail` (`Push`, `Pop`, `TakenFacts`) keep sequences out of the
step proofs.

**TransportSubscriptionsProofs.** `StreamsAlwaysServed` (`StreamsAreServed`) from
`StreamInvariant`, for any callers, keys, streams and values, with both ends
and both channels in one state. Needed besides: a stream is used once
(`FreshStreams`), by one key (`OneKeyPerStream`); its start is ahead of
everything else (`StartsFirst`), and a stop or an interrupt is its last frame
(`EndsAreFinal`); a start that was taken has an entry, an end or a handler that
threw, of which the last leaves nothing behind. That no value is lost is
counted: the values of a stream in the channel never exceed those sent
(`CountsMatch`), so the lemmas on `Append` and `Tail` are about cardinalities of
positions. `CallersAlwaysAttached`
(`CallersStayAttached`) assumes `OwnCallbacks`, that no two callers share a
callback: listeners leave a stream by their callback (transport.ts:668), so of
two callers with one callback the first to leave takes the other with it. The
run has callers with callbacks of their own.

**HostContainerProofs, the limiter.** `LimiterIsOrderly` (`OrderlyLine`) from
`LimiterInvariant`, for any budget, any length of the line and any calls. That
an interval has at most two budgets of calls is not inductive: the invariant
says who pays. Calls of the quarters since the last refill and the tokens left
fit in one budget (`PaidFromRefill`), all calls of an interval and the tokens
left fit in two (`PaidFromTwo`). `LineIsExact` (the line is exactly the queued
calls, each once) makes serving from it the serving of a prefix. That what was
executed and what waits behind it stand in the order the calls were made
(`FirstComeFirstServed`) needs besides that a call not made yet is later than
every call made (`NumberedAsMade`).

**HostContainerProofs, the slots.** `SlotsAlwaysServe` (`SlotsServe`) from `CallsInvariant`, for
any registrations and calls of the methods of the table. The code finds the
newest handler by comparing a stamp with the slot's version; that this is
the newest registration needs `VersionsDiffer` and `CurrentIsStamped` (a slot's
handler has the slot's version) beside `NewestIsCurrent`. That a gated call is
served only after its grant needs `NobodyServesYet`: a call that asks has no
handler.

**HostContainerProofs, the errors.** `OneErrorAlways` (`OneErrorType`). Its
hypothesis `TablesAgree` is about no constant: TLC evaluates it in full in `host`,
and the proof shows what follows from it in every state, for any methods,
registrations and calls. Inductive is `CallsInKind`: a call under way is one the
host API offers (`Offered`: a slot of the container that is not internal, in a
version the method has), one that asks is gated, an open subscription is of a
method that subscribes. From the tables the proof still needs that every method
has a first version (`EveryMethodHasV1`, over all traits), and that a denial of a
gated method, unlike a fallback, is written at the slot (`DenialInKind`). The
attempt found two places where the model was looser than the code, and both are
now as the code is: the
downgrade is of `localStorage.read` alone (`createContainer.ts:355-377`), and a
product cannot request the internal `permissions.authorize*`, which have a slot but
no fallback error (`hostApi.ts:265`).

**HostContainerProofs, the chains.** `ConnectionsAlwaysHeld` (`ConnectionsAreHeld`)
for any chains, follows, operations and broadcasts. A connection's count is the
cardinality of its holders (`HoldersAreCounted`), so every step that takes or
gives back a reference is a lemma on the cardinality of a set with one element
more or less. That fails after `dispose`, when those who held a connection
before let go of one that is not theirs: then the count is at most the number
of broadcasts that joined it since (`SendersAreEnough`), which still closes it
in time. Follows leave a connection by their key, so what is left of the
sequence once its first occurrence is gone has lemmas of its own (`CutOut`,
`FirstRemoved`).

**HostContainerProofs, the pool.** `SharedChainAlwaysKept` (`SharedChainIsKept`) for
any holders, clients, transports and resolutions. The transport goes with the
last branch, so the branches must be exactly the client's own and those of the
consumers that are connected (`BranchesAreCounted`): a second count beside that
of the holders (`HoldersAreGiven`), and every holder on a branch is one that
holds. `OneTransport` says which transport it is.

**ProductProofs.** `BodiesAlwaysEndOnce` (`BodiesEndOnce`): whether a body has
ended is known in three places (its own flag, the set of open bodies, the frames
sent), and `BodySound` relates them at every stage, while the handler runs and
after it threw. `HandlesAlwaysEnd` (`HandlesEndWithTheSandbox`, an invariant and
an action property): each handle is owned by one of `onmessage`, the listeners,
the timers and the jobs (`OwnedOnce`), the queue of jobs holds what it must
(`QueueMatches`), and nothing of it is left after disposal
(`QuietAfterDispose`).

**RemotesProofs, the sessions.** `SessionsAlwaysAgree` (`SessionsAgree`) from
`SessionsInvariant`, for any number of sessions and overlapping additions and
removals. A list that was read is written back later, so the invariant speaks of
the lists that are held meanwhile: what they name has been added (`Listed`), and
a session that was filtered out, or is missing from the list a removal read,
stays out while no update was lost (`StaysOut`). `Provable` and `Purged` then
relate the stored list to secrets and slot keys.

**RemotesProofs, pairing and messages.** `PairingAlwaysInReach` (`PairingIsInReach`)
for any flows and answers. That a flow which pairs is the one both calls know
of is not inductive, since one that persists still ends: the youngest is the
only one not aborted (`YoungestInReach`), and an abort leaves a flow nothing to
persist unless its success was handled (`Stops`). `MessagesHandledOnce`
(`HandledOnce`) counts: what was handled of a message and what is on its way to
the callback (`Fresh`) never exceed what is excused by more than one, and only
while the log or a delivery under way tells of it (`Accounted`, `Told`). So a step
that makes everything forget a handled message, or lets in a delivery that cannot
know of it, must be one that excuses, and there are no others.

**RemotesProofs, identities.** `WatchersAlwaysSeeTheChain` (`WatchersSeeTheChain`) for
any watchers, readers and versions. That all subscribers of a stream see the
chain's value needs what its parts do meanwhile: while the record is read or the
timer is armed the chain has not spoken (`RunIsSound`), so neither can overwrite
it; a stream that has not ended is the one in the map, and one that nobody
listens to does not run (`StreamIsSound`), so a first subscriber starts from
nothing.

**RemotesProofs, files.** `FileAlwaysWhole` (`FileIsWhole`) for any bytes, chunk
size, number of downloads and lost answers. The chunks are submitted in order and
the list last (`SentInOrder`); who has claimed the list is the only one that has,
and what it claimed since is a beginning of the chunks (`ClaimedInOrder`). That
the pieces a file is cut into give the file when joined
(`ChunksMakeTheFile`) is an induction over the number of pieces: `FlattenSeq` is
a recursive function, and the least number of pieces that joins to something else
leads to a contradiction (`LeastOf`, `JoinedFromLeft`), which needs no induction
theorem with an operator parameter.

**RemotesProofs, the feed.** `ListenersAlwaysShareOneFeed` (`ListenersShareOneFeed`)
for any listeners and pages. Between two calls of a page a listener's
statements may still be on their way to it (`PageIsOnItsWay`), and a new array
of listeners may have taken the place of the one being gone through (`OneList`).
That a page passes over at most one listener for each that leaves is not
inductive: the index may stand past the end of the shortened array, and whoever
joins there is passed over, too. So the places passed over are counted whether
somebody is at them or not (`Skipped`, `LeaversAreCounted`); a removal is an
injection of all of them but one into those there were (`LeavingSkips`), and an
addition takes one (`JoinedFacts`).

**RemotesProofs, the slot of the calls.** `TheSlotIsAlwaysKept` (the safety part of
`EveryCallEnds`: `SlotIsKept`) for any requests, methods and aborts. The calls in
the pool are the unsettled ones and listen to the signal there is
(`MembersAreUnsettled`, `ListenersAreMade`). An abort tells the listeners one after
the other, and each that leaves starts the next one, which is told in its turn:
after the first i of them the pool holds everybody but them (`AbortedFacts`). The
fold over the listeners is first shown to be that sequence of pools
(`AbortingInTurn`): `FoldLeft` is a recursive function over sets of indexes, and
there is a longest interval it is defined for (`LeastOf`, `MaxOf`).

**RemotesProofs, the replay.** `ReplayAlwaysExact` (the safety part of
`ConsumersAreReached`: `ReplayIsExact`) for any subscriptions and drops. A
first subscribe is on the wire exactly once until it is answered, one that is
replayed at least once (`OnTheWire`), and on an open connection every active
subscription that is not being replayed is at the node (`ServedOrReplayed`).

**ProductProofs, the tree.** `TreeAlwaysDrawn` (`TreeIsDrawn`) for any widgets and
commits: that the host-config calls of one commit turn the old list of children
into the next one, whichever widgets come, go and move. After the deletions the
common widgets are left in their old order (`KeptOK`), in which those that stay
are sorted as in the next list (`StaysSorted`). Once the first i widgets of the
next list are placed, the children are those and the common ones, and all that
are placed or stay are in the next list's order (`PlacedOK`, `Sorted`): a widget
put before the next one that stays is after all that were placed (`PutBefore`),
one put last has nothing that stays behind it (`PutLast`). At the end nothing else
is a child, and two lists of the same widgets in one order are the same
(`SameList`). A widget that is appended while it is a child is the exception
(`doubled`), from which only the children's membership is kept. The folds are again
shown to be sequences of lists and trees (`KeptInTurn`, `PlacedInTurn`).

**ProductProofs, the follows.** `FollowsAlwaysServed` (`FollowsAreServed`) for any
connections, requests and numbers of follows, where the connection of an eager
consumer shares its payload with no other (`EagerAlone`): two that do are the
finding of section 6, and the theorem says there is no other case. The invariant
(`Wired`) relates the follows and the streams that are served both ways. While a
stop is told, the stream is still the one its payload has: the streams served
include the dying one, whoever is on it has not been told yet (`StopsAt`), and an
eager consumer that follows again finds it gone, since it was alone on it
(`StoppedStep`). While an interrupt is told, those who have not heard of it are
active without a stream (`InterruptsAt`); while a connection closes, those who are
unsubscribed already are (`ReleasesAt`).

**ProductProofs, the calls of the sandbox.** `HostSideAlwaysAgrees`
(`HostSideAgrees`) for any calls, bodies, signals, keys and files, where host calls
are not signals (`CallBoundAssumption`). The property speaks of aborts that have
been told to everybody; the invariant (`BridgeInv`) says what holds in between. A
derived signal that is not aborted listens to each source that is not either, and
is in line to hear of each that is (`AbortsPass`); only signals with an aborted
source are in line (`SignalsWired`); a fetch under way listens to its signal, is in
line, or its host side is aborted (`FetchesHear`). A signal that dispatches leaves
its sources' listeners and puts its own in line before the rest (`DispatchKeeps`),
so each is aborted once, whatever order diamonds of signals are reached in.
The last jobs of a disposal run after its aborts: a fetch one of them starts is
marked late, and the property says of it only that it is not answered.
`removeEventListener` takes out one entry, which is enough: the signal that leaves
is aborted.

**SubmitRetryProofs, the rosters.** `RostersAlwaysServed` (`RostersAreServed`) for
any devices of two users, rosters, keys and messages. `RostersInv` says how every
statement was made (`WellMade`: the topic of its sender's key, an entry for each
device of the roster it then had) and which topics a listener can be on
(`SpecsFor`). From these alone, since a pair of keys determines its secret and a
topic its sender and key (`SamePair`, `OwnTopic`), `SealedFor` follows: whoever
finds a statement on a topic of his is a peer of its sender and opens it exactly
if it was written for the key he uses, though both derived topic and secret apart.
`SeenOpened` keeps that for what was seen. For the messages: what a response
names was read (`HonestResponse`, `DueRead`), so a session that opened its own
request and was never ended early carries all that nobody has read (`Carried`);
`init` restores what it can open unless it was answered, and any device common to
the old and the new roster with its key unchanged is enough to open it
(`InitReadsStep`).

**Only model-checked.** Liveness, and whatever needs ENABLED:
`EverySubmissionSettles`, `EveryTokenSettles`, `EveryRequestEnds`, and what
`EveryCallEnds` and `ConsumersAreReached` say happens in the end. No inductive
invariant has been found yet for `RestartLosesNothing` (what two sessions and
every device know of one channel).

## 8. Not modelled

**Bytes.** Codecs, encryption, signatures, key agreement, channel derivation and
the decoding of identities are what they decide. Buffers, encoders, `Blob` and
the console of the sandbox are conversions.

**Left out of modelled components.**
- Sessions: callbacks that re-enter the session they are called from (an action
  is one whole turn; a subscriber added inside a callback is given the event
  twice, by the replay and by the loop); the store's `known` answer to an
  identical statement, since every attempt draws a new expiry; expiry of
  statements with time.
- RPC adapter: a node that refuses a re-subscribe; paging of queries, the mapping of submit errors, the lazy client.
- Transport: a handler's cleanup that throws; debug listeners and raw frames, which
  change no other state; a
  callback that subscribes or unsubscribes while a value is fanned out (it sees
  the listeners of that moment). A provider that delivers inside `postMessage`
  is the schedule in which the other end moves next.
- Pairing: `resetDeviceIdentity`, and the read-modify-write of
  `deviceIdentityStore.loadOrCreate`; the marker is written in one step.
- Sandbox: `deliver` and `dispose` called by code that runs in the VM.
- Sessions of the remote: the first read of a list that is not empty (`fieldView.ts:38-41`);
  the purge of a removed session is one step.
- Task pool: the retry timer, which nothing in the repository asks for.
- Container: the recovery window of chain connections, which its callers never
  enter (section 6). Calls the limiter runs do not schedule others.
- Wrapper: the cache of chat rooms and the mapping of accounts.
- Renderer: a cleanup that throws while the renderers are unregistered
  (`renderer.ts:195`); props of the single widgets; React's choice of when to render is
  external.

**Frame channels** (`createWebviewProvider.ts`, `createIframeProvider.ts`,
`sandboxTransport.ts`). Which frames a page that loads or reloads is given
depends on Electron and the browser. To be read in the code: a webview that is
disposed while its script runs keeps its port; a failed load before one that
succeeds loses the frames that waited; frames posted to an iframe before its page
is there are lost.

**Whole components.** Host chat (its session has no body yet), scale helpers,
React bindings and the user interface, generated descriptors.

**Assumptions of the models.** `DeviceRosters`: a roster names a device once,
and init's two queries are one step (`Session` has them apart).
`SubscriptionReplay`: a node does not use a subscription id twice. `MCHost` and
`MCRemotes`: components of different parts do not interfere.

## 9. Plan

1. `RestartLosesNothing`, on the invariants of `SessionProofs`; the refinement of
   `Outbox` by the driver.
2. `ChainConnections` in its recovery window, should a caller reach it; the
   container over the transport, with `RemoteCall` in the transport's place.
3. Paging of the RPC adapter, and `resetDeviceIdentity` beside a pairing.
