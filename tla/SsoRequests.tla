---------------------------- MODULE SsoRequests -----------------------------
(* The requests a host makes of a paired wallet (userSession.ts) and the     *)
(* queue they wait in (createAsyncTaskPool.ts): one runs at a time, a call   *)
(* ends by the wallet's reply, by a failed delivery, by its timeout or by an *)
(* abort of everything there is; and the wallet's own messages, which a log  *)
(* in the storage keeps from being handled twice.                            *)
(*                                                                          *)
(* The session beneath is Session: here it carries what it is handed, tells  *)
(* of a failure, and gives replies.                                          *)
EXTENDS Naturals, Sequences, FiniteSets, SequencesExt

CONSTANTS
    Request,      \* calls: each a record of the method and a number
    MaxAborts,    \* bound: calls of abortPendingRequests
    Message,      \* message ids of the wallet
    Delivery      \* bound: their deliveries, <<message, number>>

-----------------------------------------------------------------------------
(* The methods of a session, all alike but for their timeout: each sends a   *)
(* message with an id of its own and awaits the reply that names the id.     *)

Signing == {"signPayload", "signRaw", "signRawLegacy"}
Transactions == {"createTransaction", "createTransactionLegacy"}

\* Without a queue timeout: nothing but an abort gets a silent one out.
RingProofs == {"getRingVrfAlias", "createRingVrfProof"}

RingKeys == {"ringVrfSign", "registerRingVrfKey", "listRingVrfKeys"}
Account == {"getProductSubtree", "signVrf", "requestResourceAllocation"}

\* Taken by the session at once; no reply is awaited.
Notices == {"sendDisconnectMessage"}

ASSUME RequestAssumption ==
    /\ \A r \in Request : r.method \in Signing \cup Transactions \cup RingProofs \cup RingKeys \cup Account \cup Notices
    /\ MaxAborts \in Nat

ASSUME DeliveryAssumption == Delivery \subseteq Message \X (Nat \ {0}) /\ IsFiniteSet(Delivery)

Timeless == {r \in Request : r.method \in RingProofs}
Notice == {r \in Request : r.method \in Notices}
-----------------------------------------------------------------------------

VARIABLES
    pool,       \* AsyncTaskPool: its queue, its active tasks, and whom it has started
    line,       \* the calls that listen to the abort signal there is, oldest first
    signal,     \* the number of that signal
    rq,         \* per call its outcome, and the signal it was made under, 0 before it is made
    running,    \* calls whose function has begun and not ended
    waiting,    \* calls with a reply waiter at the session
    closed,     \* the session is disposed
    log,        \* processedMessages in the storage
    delivery,   \* per delivery of a message its stage and what mutate has read
    handled,    \* per message how often a callback has said it was processed
    excused     \* per message how often it could not be known that it was handled

taskVars == <<pool, line, signal, rq, running, waiting, closed>>
messageVars == <<log, delivery, handled, excused>>
requestVars == <<taskVars, messageVars>>

PoolSize == 1

RequestsInit ==
    /\ pool = [queue |-> <<>>, active |-> {}, started |-> {}]
    /\ line = <<>> /\ signal = 1 /\ closed = FALSE
    /\ rq = [r \in Request |-> [outcome |-> "none", signal |-> 0]]
    /\ running = {} /\ waiting = {}
    /\ log = {} /\ delivery = [d \in Delivery |-> [stage |-> "none", read |-> {}]]
    /\ handled = [m \in Message |-> 0] /\ excused = [m \in Message |-> 0]

-----------------------------------------------------------------------------
(* createAsyncTaskPool.ts                                                  *)

\* processPool: a free slot takes the oldest call, whose function runs at once.
ProcessPool(p) ==
    IF Cardinality(p.active) >= PoolSize \/ p.queue = <<>> THEN p
    ELSE [queue |-> Tail(p.queue), active |-> p.active \cup {Head(p.queue)},
          started |-> p.started \cup {Head(p.queue)}]

\* Mutant of Freed: the slot is given back, and nobody looks for the next call.
FreedIdle(p, r) == [p EXCEPT !.queue = RemoveFirst(@, r), !.active = @ \ {r}]

\* abortTask, and finish: a call leaves the pool, which goes on.
Freed(p, r) == ProcessPool([p EXCEPT !.queue = RemoveFirst(@, r), !.active = @ \ {r}])

\* The functions that begin send the request and await the reply.
Becomes(p, ended) ==
    LET begun == p.started \ pool.started IN
    /\ pool' = p
    /\ running' = (running \cup begun) \ ended
    /\ waiting' = waiting \cup (begun \ Notice)

\* A promise settles once.
Settled(rs, outcome) ==
    [r \in Request |-> IF r \in rs /\ rq[r].outcome = "none" THEN [rq[r] EXCEPT !.outcome = outcome] ELSE rq[r]]

-----------------------------------------------------------------------------
(* userSession.ts: requests                                                *)

\* signPayload and its kin: enqueue under the signal there is.
Ask(r) ==
    /\ rq[r].signal = 0
    /\ rq' = [rq EXCEPT ![r].signal = signal]
    /\ line' = Append(line, r)
    /\ Becomes(ProcessPool([pool EXCEPT !.queue = Append(@, r)]), {})
    /\ UNCHANGED <<signal, closed, messageVars>>

\* The function of a call ends, maybe long after its call was aborted.
Ends(r, outcome) ==
    /\ rq' = Settled({r}, outcome)
    /\ pool' = Freed(pool, r)
    /\ LET begun == pool'.started \ pool.started IN
       /\ running' = (running \cup begun) \ {r}
       /\ waiting' = (waiting \cup (begun \ Notice)) \ (IF outcome = "reply" THEN {r} ELSE {})
    /\ UNCHANGED <<line, signal, closed, messageVars>>

\* The wallet's reply, well or badly; for a call that has ended it ends a waiter.
Replies(r) == ~closed /\ r \in waiting /\ r \in running /\ Ends(r, "reply")

RepliesLate(r) ==
    /\ ~closed /\ r \in waiting \ running
    /\ waiting' = waiting \ {r}
    /\ UNCHANGED <<pool, line, signal, rq, running, closed, messageVars>>

\* The session refuses the request, or its delivery fails: the waiter stays.
DeliveryFails(r) == r \in running /\ Ends(r, "failed")

\* withQueueTimeout: the slot is given up, the waiter stays.
TimesOut(r) == r \in running \ (Timeless \cup Notice) /\ Ends(r, "timeout")

NoticeIsTaken(r) == r \in running \cap Notice /\ ~closed /\ Ends(r, "reply")

\* Mutant of Aborting: only the call that runs is told.
AbortingActive == FoldLeft(Freed, pool, SelectSeq(line, LAMBDA r : r \in pool.active))

\* The listeners of the signal run oldest first, and each one that gives a slot
\* back starts the next call, which is sent before it is aborted in its turn.
Aborting == FoldLeft(Freed, pool, line)

\* abortPendingRequests: a new signal, and the session drops what it carries,
\* whose delivery fails.
AbortPendingRequests ==
    /\ signal <= MaxAborts
    /\ rq' = Settled(ToSet(line), "aborted")
    /\ Becomes(Aborting, {})
    /\ signal' = signal + 1 /\ line' = <<>>
    /\ UNCHANGED <<closed, messageVars>>

\* The session rejects all it knows of: waiters and deliveries.
Close ==
    /\ ~closed /\ closed' = TRUE /\ waiting' = {}
    /\ UNCHANGED <<pool, line, signal, rq, running, messageVars>>

-----------------------------------------------------------------------------
(* userSession.ts: subscribe                                               *)

Moves(d, stage, read) == delivery' = [delivery EXCEPT ![d] = [stage |-> stage, read |-> read]]

\* Mutant of Known: nothing is.
KnownNever(d) == FALSE

Known(d) == d[1] \in delivery[d].read

\* The deliveries of a message on their way to the callback, and with those
\* that have yet to log it.
OnItsWay(d) ==
    \/ delivery[d].stage = "called"
    \/ delivery[d].stage = "looked up" /\ ~Known(d)

Fresh(m) == {d \in Delivery : d[1] = m /\ OnItsWay(d)}
Live(m) == {d \in Delivery : d[1] = m /\ (OnItsWay(d) \/ delivery[d].stage = "read")}

Excused(ms) == excused' = [m \in Message |-> IF m \in ms THEN excused[m] + 1 ELSE excused[m]]

\* A message comes, the first time or again: it is acknowledged whatever comes
\* of it, and the log is read, which another delivery may have yet to write.
Arrives(d) ==
    /\ delivery[d].stage = "none"
    /\ \A e \in Delivery : e[1] = d[1] /\ e[2] < d[2] => delivery[e].stage # "none"
    /\ Moves(d, "looked up", log)
    /\ Excused(IF Live(d[1]) # {} THEN {d[1]} \ log ELSE {})
    /\ UNCHANGED <<taskVars, log, handled>>

\* What is in the log is left alone, the rest goes to the callback.
LookedUp(d) ==
    /\ delivery[d].stage = "looked up"
    /\ Moves(d, IF Known(d) THEN "over" ELSE "called", {})
    /\ UNCHANGED <<taskVars, log, handled, excused>>

\* The callback fails or declines, or has processed the message: then mutate
\* reads the log and, later, writes it with the id added.
CallbackEnds(d) ==
    /\ delivery[d].stage = "called"
    /\ \/ Moves(d, "over", {}) /\ UNCHANGED handled
       \/ Moves(d, "read", log) /\ handled' = [handled EXCEPT ![d[1]] = @ + 1]
    /\ UNCHANGED <<taskVars, log, excused>>

\* Mutant of MutateWrites: the list is written as it was read.
MutateWritesTheSame(d) ==
    /\ delivery[d].stage = "read"
    /\ log' = delivery[d].read /\ Excused(log \ log') /\ Moves(d, "over", {})
    /\ UNCHANGED <<taskVars, handled>>

\* What another delivery has logged meanwhile is written over.
MutateWrites(d) ==
    /\ delivery[d].stage = "read"
    /\ log' = delivery[d].read \cup {d[1]} /\ Excused(log \ log') /\ Moves(d, "over", {})
    /\ UNCHANGED <<taskVars, handled>>

\* The storage fails, at the first read or at one of mutate's steps, and that is
\* only told to the console; or the process ends, and what was under way with
\* it.  A message that was handled may then be in no log.
Lost(d) ==
    /\ delivery[d].stage \in {"looked up", "called", "read"}
    /\ Excused(IF delivery[d].stage = "read" THEN {d[1]} \ log ELSE {}) /\ Moves(d, "over", {})
    /\ UNCHANGED <<taskVars, log, handled>>

RequestsNext ==
    \/ \E r \in Request :
         Ask(r) \/ Replies(r) \/ RepliesLate(r) \/ DeliveryFails(r) \/ TimesOut(r) \/ NoticeIsTaken(r)
    \/ AbortPendingRequests \/ Close

MessagesNext == \E d \in Delivery : Arrives(d) \/ LookedUp(d) \/ CallbackEnds(d) \/ MutateWrites(d) \/ Lost(d)

RequestsSpec == RequestsInit /\ [][RequestsNext \/ MessagesNext]_requestVars

-----------------------------------------------------------------------------
(* Properties                                                              *)

RequestsTypeOK ==
    /\ pool.queue \in Seq(Request) /\ pool.active \subseteq Request
    /\ signal \in 1..(MaxAborts + 1) /\ \A r \in Request : rq[r].signal \in 0..signal
    /\ \A m \in Message : {handled[m], excused[m]} \subseteq Nat

\* The slot is never left idle while somebody waits for it nor held by two; who
\* is in the pool is unsettled and made under the signal there is, and nobody
\* is unsettled outside of it: an abort takes everybody before it and nobody
\* after (createAsyncTaskPool.ts:106-108, userSession.ts:729-735).
SlotIsKept ==
    /\ Cardinality(pool.active) <= PoolSize
    /\ pool.queue # <<>> => pool.active # {}
    /\ ToSet(pool.queue) \cup pool.active = {r \in Request : rq[r].signal # 0 /\ rq[r].outcome = "none"}
    /\ \A r \in ToSet(pool.queue) \cup pool.active : rq[r].signal = signal
    /\ pool.active \subseteq running

\* Calls are served in turn, and every one ends, wallet or no wallet, unless one
\* that has no timeout is in its way.
EveryCallEnds ==
    /\ [](RequestsTypeOK /\ SlotIsKept)
    /\ \A r \in Request : rq[r].signal # 0 ~> (rq[r].outcome # "none" \/ pool.active \cap Timeless # {})

\* A message is handled once, and once more for every time that nothing could
\* tell it had been: it came while an earlier delivery of it was still on its way
\* to the log, the log was not written for a failure or a restart
\* (userSession.ts:709, 712-714), or another message's entry was written over it.
HandledOnce == \A m \in Message : handled[m] <= 1 + excused[m]
=============================================================================
