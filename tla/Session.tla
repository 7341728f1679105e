------------------------------- MODULE Session ------------------------------
(***************************************************************************)
(* The session driver, statement-store/src/session/core.ts, over one       *)
(* statement store and against the devices of a peer.  The driver runs on  *)
(* a single thread: an action is what it does between two awaits.          *)
(*                                                                         *)
(* The store keeps one statement per channel and streams a statement to    *)
(* the subscriptions open when it is accepted (adapter/inMemory.ts).  The  *)
(* peer's side is external: each device reads what the request channel     *)
(* holds when it looks, and answers the requests it has read.              *)
(***************************************************************************)
EXTENDS SessionReducer, ExpiryAllocator

CONSTANTS
    Message,        \* what the application sends
    Device,         \* devices of the peer; one in a single-device session
    Sender(_),      \* the device that sends a peer request
    Subscriber,     \* names for the calls of subscribe and waitForRequestMessage
    Waiter,         \* those of waitForRequestMessage: they leave once served
    Eager,          \* subscribed in the turn that creates the session
    Form(_),        \* of a peer request: among "readable", "malformed", "opaque"
    Roster,         \* the rosters the peer moves between
    Behaviour,      \* what may happen in this instance: "clear", "dispose",
                    \* "leave" a subscription, "late" landing of a submit
                    \* call of a session that died
    MaxSubmits,     \* bound: calls of submitRequestMessage
    MaxSubmitRetries,
    MaxInitRetries,
    MaxFaults,      \* bound: failed, lost and unanswered calls of the store
    MaxRestarts,    \* bound: sessions created after the first
    Clock(_)        \* Clock(n): the wall clock's priority in the n-th session;
                    \* 0 is a clock that lags behind every floor

\* No statement, and the id of no request: null and undefined.
None == [kind |-> "none"]

ASSUME SessionAssumption ==
    /\ Waiter \subseteq Subscriber /\ Eager \subseteq Subscriber
    /\ \A q \in PeerRequest : Sender(q) \in Device /\ q # None
    /\ Roster \subseteq SUBSET Device
    /\ \A q \in PeerRequest : Form(q) \subseteq {"readable", "malformed", "opaque"}
    /\ Behaviour \subseteq {"clear", "dispose", "leave", "late"}
    /\ {MaxSubmits, MaxSubmitRetries, MaxInitRetries, MaxFaults, MaxRestarts} \subseteq Nat
    /\ \A n \in 0..MaxRestarts : Clock(n) \in Nat

VARIABLES
    machine,        \* machineState
    nextId,         \* first unused request id
    current,        \* the allocator's counter
    pending,        \* tokens in pendingDelivery
    runs,           \* submissions under way, see Run
    lastResponse,   \* lastResponseRequestId
    init,           \* where init() stands, see InitState
    disposed

VARIABLES           \* the incoming side of the driver
    roster,         \* peerRoster.current()
    topics,         \* incomingTopics.current()
    subscribers,
    buffered,       \* peer requests in bufferedMessages
    seen,           \* seenStatements
    decoding        \* statements whose decoding has not finished

VARIABLES           \* the store and the peer's devices
    own,            \* our request and response channel
    peer,           \* the same of each device
    heard,          \* ids of ours a device has read
    owed            \* those of them it has not answered

VARIABLES           \* history and bounds
    received,       \* messages some device has read
    resolved,       \* tokens whose promise was resolved by a response
    got,            \* how often a subscription was given a request
    submits, faults, restarts

outgoingVars == <<machine, nextId, current, pending, runs, resolved>>
sessionVars == <<init, disposed, roster, topics>>
deliveryVars == <<subscribers, buffered, got>>
intakeVars == <<seen, decoding>>
incomingVars == <<deliveryVars, intakeVars>>
peerVars == <<peer, heard, owed, received>>
bounds == <<submits, faults, restarts>>
outsideVars == <<own, peerVars, bounds>>
vars == <<outgoingVars, lastResponse, sessionVars, incomingVars, outsideVars>>

-----------------------------------------------------------------------------
(* Statements.  Bodies of ours name the devices they are sealed for.       *)

RequestBody(id, messages, to) ==
    [kind |-> "request", id |-> id, messages |-> messages, to |-> to]

ResponseBody(q) == [kind |-> "response", id |-> q, to |-> roster]

\* A statement of a peer device.  A malformed one decrypts, and its request id
\* can be recovered; an opaque one does not.
PeerStatement(kind, d, id, form) == [kind |-> kind, from |-> d, id |-> id, form |-> form]

-----------------------------------------------------------------------------
(* submitWithSessionRetry: one record per submission.  `pc' is "sending"   *)
(* while a submit call is out, "answered" until the driver resumes with    *)
(* its outcome, and "backoff" while the retry timer runs.                  *)

Run(policy, body, expiry, left) ==
    [policy |-> policy, body |-> body, expiry |-> expiry, left |-> left,
     pc |-> "sending", error |-> "none", min |-> 0, owned |-> TRUE]

\* A body that cannot be built fails without an attempt.
Unbuilt(body) ==
    [Run("request", body, 0, 0) EXCEPT !.pc = "answered", !.error = "transient"]

\* buildRequest and buildResponse need a device to seal the body for.
CanBuild(to) == to # {}

ExpiryAfter(base, n) == NextExpiry(base, Clock(restarts)) + n - 1

RequestRuns(starts, base, to) ==
    {LET body == RequestBody(starts[i].id, starts[i].messages, to)
     IN  IF CanBuild(to)
         THEN Run("request", body, ExpiryAfter(base, i), MaxSubmitRetries)
         ELSE Unbuilt(body) : i \in 1..Len(starts)}

CurrentAfter(starts, base, to) ==
    IF starts = <<>> \/ ~CanBuild(to) THEN base ELSE ExpiryAfter(base, Len(starts))

\* dispatch: adopt the reducer's state and start the submissions it asks for.
\* `kept' are the other submissions, `to' the devices now.
Start(t, kept, to) ==
    /\ machine' = t.state
    /\ nextId' = nextId + Len(t.effects.submits)
    /\ runs' = kept \cup RequestRuns(t.effects.submits, current, to)
    /\ current' = CurrentAfter(t.effects.submits, current, to)

\* The same, with the tokens of a finished batch settled before.
Perform(t, kept) ==
    /\ Start(t, kept, roster)
    /\ pending' = pending \ t.effects.tokens
    /\ resolved' = IF t.effects.settle = "resolve" THEN resolved \cup t.effects.tokens ELSE resolved

DispatchEvent(t) == Perform(t, runs)

\* Mutants of ShouldRetry: a retry whose liveness is not checked, that does not
\* know it was superseded by another answer, or that outlives the session.
ShouldAlwaysRetry(r) == ~disposed /\ r.policy # "clear"

ShouldRetryEveryAnswer(r) ==
    /\ ~disposed
    /\ r.policy = "request" => LiveRequestId(machine) = r.body.id
    /\ r.policy # "clear"

ShouldRetryDisposed(r) ==
    CASE r.policy = "request" -> LiveRequestId(machine) = r.body.id
      [] r.policy = "response" -> lastResponse = r.body.id
      [] OTHER -> FALSE

\* A request is live while it is the newest submission of the batch, a
\* response while no other response was started.
ShouldRetry(r) ==
    /\ ~disposed
    /\ CASE r.policy = "request" -> LiveRequestId(machine) = r.body.id
         [] r.policy = "response" -> lastResponse = r.body.id
         [] OTHER -> FALSE

-----------------------------------------------------------------------------
(* The store and the network under a submit call *)

Channel(r) == r.body.kind

Occupied(r) == own[Channel(r)] # None /\ own[Channel(r)].expiry >= r.expiry

Stored(r) == [own EXCEPT ![Channel(r)] = [expiry |-> r.expiry, body |-> r.body]]

\* What is left of a submission when its call has come back.
Answered(r, error, min) ==
    (runs \ {r}) \cup
        (IF r.owned THEN {[r EXCEPT !.pc = "answered", !.error = error, !.min = min]} ELSE {})

Uninvolved == <<machine, nextId, current, pending, resolved, lastResponse, sessionVars, incomingVars,
                peerVars, submits, restarts>>

StoreAccepts(r) ==
    /\ r.pc = "sending" /\ ~Occupied(r)
    /\ own' = Stored(r)
    /\ runs' = Answered(r, "none", 0)
    /\ UNCHANGED <<Uninvolved, faults>>

StoreRejects(r) ==
    /\ r.pc = "sending" /\ Occupied(r)
    /\ runs' = Answered(r, "priority", own[Channel(r)].expiry)
    /\ UNCHANGED <<Uninvolved, own, faults>>

\* The connection fails before or after the store has the statement.
CallFails(r) ==
    /\ r.pc = "sending" /\ faults < MaxFaults
    /\ faults' = faults + 1
    /\ \/ UNCHANGED own
       \/ ~Occupied(r) /\ own' = Stored(r)
    /\ runs' = Answered(r, "transient", 0)
    /\ UNCHANGED Uninvolved

\* The account's quota is full of statements of a higher priority.
AccountFull(r) ==
    /\ r.pc = "sending" /\ faults < MaxFaults
    /\ faults' = faults + 1
    /\ runs' = Answered(r, "priority", r.expiry)
    /\ UNCHANGED <<Uninvolved, own>>

-----------------------------------------------------------------------------
(* The driver resumes with the outcome of a submit call, or after a delay. *)

FloorAfter(r) == IF r.error = "priority" THEN RaisedFloor(current, r.min) ELSE current

\* Mutant of GivesUp: priority rejections end it.
GivesUpOnPriority(r) == ~ShouldRetry(r) \/ r.error = "priority" \/ r.left = 0

\* Priority rejections are retried without limit while the submission is live.
GivesUp(r) == ~ShouldRetry(r) \/ (r.error = "transient" /\ r.left = 0)

Ends(r) ==
    \/ r.pc = "answered" /\ (r.error = "none" \/ GivesUp(r))
    \/ r.pc = "backoff" /\ ~ShouldRetry(r)

\* A priority rejection of a submission that is no longer live is a success.
Failed(r) == r.error = "transient"

BackOff(r) ==
    /\ r.pc = "answered" /\ ~Ends(r)
    /\ current' = FloorAfter(r)
    /\ runs' = (runs \ {r}) \cup
         {[r EXCEPT !.pc = "backoff", !.left = IF r.error = "transient" THEN @ - 1 ELSE @]}
    /\ UNCHANGED <<machine, nextId, pending, resolved, lastResponse, sessionVars, incomingVars,
                   outsideVars>>

Resend(r) ==
    /\ r.pc = "backoff" /\ ShouldRetry(r)
    /\ current' = NextExpiry(current, Clock(restarts))
    /\ runs' = (runs \ {r}) \cup {Run(r.policy, r.body, current', r.left)}
    /\ UNCHANGED <<machine, nextId, pending, resolved, lastResponse, sessionVars, incomingVars,
                   outsideVars>>

RequestEnds(r) ==
    /\ r.policy = "request" /\ Ends(r)
    /\ IF Failed(r) /\ ~disposed
       THEN Perform(RequestSubmitFailed(machine, r.body.id, roster, nextId), runs \ {r})
       ELSE /\ runs' = runs \ {r}
            /\ current' = FloorAfter(r)
            /\ UNCHANGED <<machine, nextId, pending, resolved>>
    /\ UNCHANGED <<lastResponse, sessionVars, incomingVars, outsideVars>>

\* Mutant of Pruned: answered requests stay in the buffer.
NotPruned(q) == buffered

\* pruneBufferedRequest
Pruned(q) == buffered \ {q}

\* Only the failure of the newest response reopens its request; otherwise the
\* request counts as answered and is not replayed any more.
ResponseEnds(r) ==
    /\ r.policy = "response" /\ Ends(r)
    /\ runs' = runs \ {r}
    /\ current' = FloorAfter(r)
    /\ IF Failed(r) /\ ~disposed /\ lastResponse = r.body.id
       THEN /\ machine' = ResponseSubmitFailed(machine, r.body.id).state
            /\ UNCHANGED buffered
       ELSE /\ buffered' = Pruned(r.body.id)
            /\ UNCHANGED machine
    /\ UNCHANGED <<nextId, pending, resolved, lastResponse, sessionVars, subscribers, got,
                   intakeVars, outsideVars>>

\* One shot: clearing is a supersede, not a request that must land.
ClearEnds(r) ==
    /\ r.policy = "clear" /\ Ends(r)
    /\ runs' = runs \ {r}
    /\ current' = FloorAfter(r)
    /\ UNCHANGED <<machine, nextId, pending, resolved, lastResponse, sessionVars, incomingVars,
                   outsideVars>>

-----------------------------------------------------------------------------
(* Incoming statements *)

Listening == IF subscribers = {} THEN {} ELSE topics

\* Mutant of Replay: a new subscriber hears only of what comes.
NoReplay == [q \in PeerRequest |-> 0]

\* How often subscribe() gives each request to the subscriber it registers.
Replay == [q \in PeerRequest |-> IF q \in buffered THEN 1 ELSE 0]

\* deliver: buffer the request, hand it to every subscriber; a waiter leaves.
Deliver(q) ==
    /\ buffered' = buffered \cup {q}
    /\ subscribers' = subscribers \ Waiter
    /\ got' = [s \in Subscriber |->
                 IF s \in subscribers THEN [got[s] EXCEPT ![q] = @ + 1] ELSE got[s]]

\* processIncomingStatement up to the decoder's first await.
Intake(st) ==
    IF st.from \in Listening /\ st \notin seen
    THEN seen' = seen \cup {st} /\ decoding' = decoding \cup {st}
    ELSE UNCHANGED intakeVars

\* What submitResponseMessage does once it has decided to answer q.
StartResponse(s, q) ==
    LET run == Run("response", ResponseBody(q), NextExpiry(current, Clock(restarts)), MaxSubmitRetries)
    IN  /\ machine' = ResponseSubmitted(s, q).state
        /\ lastResponse' = q
        /\ current' = run.expiry
        /\ runs' = runs \cup {run}

\* The decoders of two statements finish in any order.
Decoded(st) ==
    /\ st \in decoding
    /\ decoding' = decoding \ {st}
    /\ UNCHANGED <<sessionVars, seen, outsideVars>>

Dropped(st) ==
    /\ st.form = "opaque" \/ (st.kind = "request" /\ IsTracked(machine, st.id))
    /\ Decoded(st)
    /\ UNCHANGED <<outgoingVars, lastResponse, deliveryVars>>

\* A new request that decrypts but does not decode is answered with an error.
Nacked(st) ==
    /\ st.form = "malformed" /\ ~IsTracked(machine, st.id)
    /\ Decoded(st)
    /\ LET tracked == RequestReceived(machine, st.id).state
       IN  IF disposed \/ ~CanBuild(roster)
           THEN /\ machine' = tracked
                /\ UNCHANGED <<current, runs, lastResponse>>
           ELSE StartResponse(tracked, st.id)
    /\ UNCHANGED <<nextId, pending, resolved, deliveryVars>>

RequestArrives(st) ==
    /\ st.kind = "request" /\ st.form = "readable" /\ ~IsTracked(machine, st.id)
    /\ Decoded(st)
    /\ machine' = RequestReceived(machine, st.id).state
    /\ Deliver(st.id)
    /\ UNCHANGED <<nextId, current, pending, runs, resolved, lastResponse>>

ResponseArrives(st) ==
    /\ st.kind = "response"
    /\ Decoded(st)
    /\ DispatchEvent(ResponseReceived(machine, st.id, roster, nextId))
    /\ UNCHANGED <<lastResponse, deliveryVars>>

-----------------------------------------------------------------------------
(* init(): two queries at their own pace, then decoding, then one turn     *)
(* that restores what the store held and opens the session.                *)

Queries(retries, specs) ==
    [pc |-> "querying", retries |-> retries, specs |-> specs, own |-> {}, peer |-> {}]

InitQueryOwn ==
    /\ init.pc = "querying" /\ init.own = {}
    /\ init' = [init EXCEPT !.own = {own}]
    /\ UNCHANGED <<outgoingVars, lastResponse, disposed, roster, topics, incomingVars,
                   outsideVars>>

InitQueryPeer ==
    /\ init.pc = "querying" /\ init.peer = {}
    /\ init' = [init EXCEPT !.peer = {[d \in init.specs |-> peer[d]]}]
    /\ UNCHANGED <<outgoingVars, lastResponse, disposed, roster, topics, incomingVars,
                   outsideVars>>

Idle == [Queries(0, {}) EXCEPT !.pc = "ended"]

InitQueryFails ==
    /\ init.pc = "querying" /\ faults < MaxFaults
    /\ faults' = faults + 1
    /\ IF ~disposed /\ init.retries < MaxInitRetries
       THEN /\ init' = [Queries(init.retries + 1, {}) EXCEPT !.pc = "backoff"]
            /\ UNCHANGED <<machine, pending>>
       ELSE /\ init' = Idle
            /\ IF disposed THEN UNCHANGED <<machine, pending>>
               ELSE machine' = InitFailed(machine).state /\ pending' = {}
    /\ UNCHANGED <<nextId, current, runs, resolved, lastResponse, disposed, roster, topics,
                   incomingVars, own, peerVars, submits, restarts>>

InitRetries ==
    /\ init.pc = "backoff"
    /\ init' = Queries(init.retries, topics)
    /\ UNCHANGED <<outgoingVars, lastResponse, disposed, roster, topics, incomingVars,
                   outsideVars>>

\* Held by the two channels of a device, or of ours.
Held(channels) == {channels[c] : c \in {"request", "response"}} \ {None}

\* Our own statements are read back through a device they were sealed for.
ReadBack(held) == {st.body : st \in {s \in held : s.body.to \cap roster # {}}}

InitLoaded ==
    /\ init.pc = "querying" /\ init.own # {} /\ init.peer # {}
    /\ LET ours == UNION {Held(channels) : channels \in init.own}
           theirs == UNION {UNION {Held(found[d]) : d \in DOMAIN found} : found \in init.peer}
       IN  /\ current' = RaisedFloor(current, Max({0} \cup {st.expiry : st \in ours}))
           /\ seen' = seen \cup theirs
           /\ init' = [init EXCEPT !.pc = "decoding", !.retries = 0, !.own = ReadBack(ours),
                                   !.peer = {st \in theirs : st.form = "readable"}]
    /\ UNCHANGED <<machine, nextId, pending, runs, resolved, lastResponse, disposed, roster,
                   topics, deliveryVars, decoding, outsideVars>>

\* `find': one statement of the kind, if there is any.
Found(statements, kind) ==
    LET some == {st \in statements : st.kind = kind} IN IF some = {} THEN {None} ELSE some

\* Mutant of Restored: the store's batch is left to its fate.
NeverRestored(s, request, response) == s

Restored(s, request, response) ==
    IF request = None \/ (response # None /\ response.id = request.id) THEN s
    ELSE OutgoingRestored(s, request.id, request.messages).state

InitFinishes ==
    /\ init.pc = "decoding" /\ ~disposed
    /\ init' = Idle
    /\ \E request \in Found(init.own, "request"), response \in Found(init.own, "response"),
          asked \in Found(init.peer, "request"), answer \in Found(init.peer, "response") :
         LET responded == response # None /\ response.id = asked.id
             outgoing == Restored(machine, request, answer)
         IN  IF asked = None
             THEN DispatchEvent(Activated(outgoing, roster, nextId)) /\ UNCHANGED deliveryVars
             ELSE /\ DispatchEvent(Activated(IncomingRestored(outgoing, asked.id, responded).state,
                                             roster, nextId))
                  /\ IF IsTracked(machine, asked.id) \/ responded THEN UNCHANGED deliveryVars
                     ELSE Deliver(asked.id)
    /\ UNCHANGED <<lastResponse, disposed, roster, topics, intakeVars, outsideVars>>

\* A session disposed while init was decoding stays as it is.
InitAbandoned ==
    /\ init.pc = "decoding" /\ disposed
    /\ init' = Idle
    /\ UNCHANGED <<outgoingVars, lastResponse, disposed, roster, topics, incomingVars,
                   outsideVars>>

-----------------------------------------------------------------------------
(* Calls of the application *)

SubmitRequestMessage(m) ==
    /\ submits < MaxSubmits
    /\ ~disposed /\ machine.phase # "failed"
    /\ CanBuild(roster) /\ Fits(roster, <<m>>)
    /\ submits' = submits + 1
    /\ LET token == <<m, submits + 1>>
       IN  /\ Start(MessageSubmitted(machine, m, token, roster, nextId), runs, roster)
           /\ pending' = pending \cup {token}
    /\ UNCHANGED <<resolved, lastResponse, sessionVars, incomingVars, own, peerVars, faults,
                   restarts>>

SubmitResponseMessage(q) ==
    /\ ~disposed /\ CanBuild(roster)
    /\ machine.incoming[q] = "open"
    /\ StartResponse(machine, q)
    /\ UNCHANGED <<nextId, pending, resolved, sessionVars, incomingVars, outsideVars>>

RespondAgain(q) ==
    /\ ~disposed
    /\ machine.incoming[q] = "responded"
    /\ buffered' = Pruned(q)
    /\ UNCHANGED <<outgoingVars, lastResponse, sessionVars, subscribers, got, intakeVars,
                   outsideVars>>

Subscribe(s) ==
    /\ s \notin subscribers
    /\ subscribers' = IF s \in Waiter /\ buffered # {} THEN subscribers ELSE subscribers \cup {s}
    /\ got' = [got EXCEPT ![s] = Replay]
    /\ UNCHANGED <<outgoingVars, lastResponse, sessionVars, buffered, intakeVars, outsideVars>>

Unsubscribe(s) ==
    /\ "leave" \in Behaviour
    /\ s \in subscribers \ Waiter
    /\ subscribers' = subscribers \ {s}
    /\ UNCHANGED <<outgoingVars, lastResponse, sessionVars, buffered, got, intakeVars,
                   outsideVars>>

\* The live batch is superseded by an empty one of the same id.
ClearOutgoingStatement ==
    /\ "clear" \in Behaviour
    /\ ~disposed
    /\ machine' = OutgoingCleared(machine).state
    /\ pending' = {}
    /\ IF IsLive(machine.outgoing) /\ CanBuild(roster)
       THEN LET empty == RequestBody(LiveRequestId(machine), <<>>, roster)
            IN  /\ current' = NextExpiry(current, Clock(restarts))
                /\ runs' = runs \cup {Run("clear", empty, current', 0)}
       ELSE UNCHANGED <<current, runs>>
    /\ UNCHANGED <<nextId, resolved, lastResponse, sessionVars, incomingVars, outsideVars>>

Dispose ==
    /\ "dispose" \in Behaviour
    /\ ~disposed
    /\ disposed' = TRUE
    /\ init' = IF init.pc = "backoff" THEN Idle ELSE init
    /\ subscribers' = {}
    /\ machine' = OutgoingCleared(machine).state
    /\ pending' = {}
    /\ UNCHANGED <<nextId, current, runs, resolved, lastResponse, roster, topics, buffered, got,
                   intakeVars, outsideVars>>

\* The peer adds or removes a device.  The topics are recomputed, and the
\* queue re-evaluated, only in a session that has a subscriber.  Changes are
\* modelled until the session is disposed.
RosterChanges(devices) ==
    /\ ~disposed /\ devices # roster
    /\ roster' = devices
    /\ IF subscribers = {} THEN UNCHANGED <<outgoingVars, topics>>
       ELSE /\ topics' = devices
            /\ Start(CapacityChanged(machine, devices, nextId), runs, devices)
            /\ UNCHANGED <<pending, resolved>>
    /\ UNCHANGED <<lastResponse, init, disposed, incomingVars, outsideVars>>

-----------------------------------------------------------------------------
(* The peer's devices (external) *)

\* A device looks at our request channel.  A cleared one asks for nothing.
PeerReads(d) ==
    /\ own["request"] # None
    /\ LET body == own["request"].body
       IN  /\ d \in body.to
           /\ body.id \notin heard
           /\ heard' = heard \cup {body.id}
           /\ owed' = IF body.messages = <<>> THEN owed ELSE owed \cup {body.id}
           /\ received' = received \cup ToSet(body.messages)
    /\ UNCHANGED <<outgoingVars, lastResponse, sessionVars, incomingVars, own, peer, bounds>>

Published(st) ==
    /\ peer' = [peer EXCEPT ![st.from][st.kind] = st]
    /\ Intake(st)
    /\ UNCHANGED <<outgoingVars, lastResponse, sessionVars, deliveryVars, own, heard, received,
                   bounds>>

PeerAnswers(d, id) ==
    /\ id \in owed
    /\ owed' = owed \ {id}
    /\ Published(PeerStatement("response", d, id, "readable"))

PeerAsks(q, form) ==
    /\ peer[Sender(q)]["request"] # PeerStatement("request", Sender(q), q, form)
    /\ Published(PeerStatement("request", Sender(q), q, form))
    /\ UNCHANGED owed

-----------------------------------------------------------------------------
(* The process dies, or the application drops the session, and a new one   *)
(* starts over the same store.                                             *)

NothingGiven == [s \in Subscriber |-> [q \in PeerRequest |-> 0]]

\* Submit calls that are out may still reach the store.
Orphans ==
    IF "late" \in Behaviour
    THEN {[r EXCEPT !.owned = FALSE] : r \in {x \in runs : x.pc = "sending"}}
    ELSE {}

Restart ==
    /\ restarts < MaxRestarts
    /\ restarts' = restarts + 1
    /\ machine' = InitialSessionState
    /\ current' = 0
    /\ pending' = {}
    /\ runs' = Orphans
    /\ lastResponse' = None
    /\ init' = Queries(0, roster)
    /\ disposed' = FALSE
    /\ topics' = roster
    /\ subscribers' = Eager
    /\ buffered' = {}
    /\ seen' = {}
    /\ decoding' = {}
    /\ got' = NothingGiven
    /\ UNCHANGED <<nextId, resolved, roster, own, peerVars, submits, faults>>

Init ==
    /\ machine = InitialSessionState
    /\ nextId = 1 /\ current = 0
    /\ pending = {} /\ resolved = {} /\ runs = {}
    /\ lastResponse = None
    /\ roster \in Roster
    /\ init = Queries(0, roster)
    /\ disposed = FALSE
    /\ topics = roster
    /\ subscribers = Eager
    /\ buffered = {} /\ seen = {} /\ decoding = {}
    /\ own = [c \in {"request", "response"} |-> None]
    /\ peer = [d \in Device |-> own]
    /\ heard = {} /\ owed = {} /\ received = {}
    /\ got = NothingGiven
    /\ submits = 0 /\ faults = 0 /\ restarts = 0

StoreStep ==
    \E r \in runs : StoreAccepts(r) \/ StoreRejects(r) \/ CallFails(r) \/ AccountFull(r)

DriverStep ==
    \E r \in runs : BackOff(r) \/ Resend(r) \/ RequestEnds(r) \/ ResponseEnds(r) \/ ClearEnds(r)

InitStep ==
    InitQueryOwn \/ InitQueryPeer \/ InitQueryFails \/ InitRetries
    \/ InitLoaded \/ InitFinishes \/ InitAbandoned

DecoderStep ==
    \E st \in decoding : Dropped(st) \/ Nacked(st) \/ RequestArrives(st) \/ ResponseArrives(st)

PeerRead == \E d \in Device : PeerReads(d)

PeerAnswer == \E d \in Device, id \in owed : PeerAnswers(d, id)

Application ==
    \/ \E m \in Message : SubmitRequestMessage(m)
    \/ \E q \in PeerRequest : SubmitResponseMessage(q) \/ RespondAgain(q)
    \/ \E s \in Subscriber : Subscribe(s) \/ Unsubscribe(s)
    \/ ClearOutgoingStatement
    \/ Dispose

Environment ==
    \/ \E q \in PeerRequest : \E form \in Form(q) : PeerAsks(q, form)
    \/ \E devices \in Roster : RosterChanges(devices)
    \/ Restart

Next ==
    StoreStep \/ DriverStep \/ InitStep \/ DecoderStep \/ PeerRead \/ PeerAnswer
    \/ Application \/ Environment

Spec == Init /\ [][Next]_vars

\* Calls of the store return, timers and awaits resume, and a device of the
\* peer that can open a request answers it.
Fairness ==
    /\ WF_vars(StoreStep) /\ WF_vars(DriverStep) /\ WF_vars(InitStep) /\ WF_vars(DecoderStep)
    /\ WF_vars(PeerRead) /\ WF_vars(PeerAnswer)

FairSpec == Spec /\ Fairness

-----------------------------------------------------------------------------
(* Properties *)

Token == Message \X (1..MaxSubmits)

Owner == [policy : {"request", "response", "clear"}, pc : {"sending", "answered", "backoff"},
          error : {"none", "transient", "priority"}]

\* The type of the driver's book-keeping: a submission's budget is never
\* overdrawn, its expiry never ahead of the allocator, and what is being
\* decoded has been seen.
TypeOK ==
    /\ pending \cup resolved \cup LiveTokens(machine) \subseteq Token
    /\ machine.phase \in {"initialization", "active", "failed"}
    /\ machine.incoming \in [PeerRequest -> {"unknown", "open", "responded"}]
    /\ \A r \in runs :
         /\ [policy |-> r.policy, pc |-> r.pc, error |-> r.error] \in Owner
         /\ r.expiry \in 0..current \/ ~r.owned
         /\ r.left \in 0..MaxSubmitRetries
    /\ init.pc \in {"querying", "backoff", "decoding", "ended"}
    /\ init.retries \in 0..MaxInitRetries
    /\ subscribers \subseteq Subscriber /\ buffered \subseteq PeerRequest
    /\ decoding \subseteq seen
    /\ heard \cup owed \subseteq 1..nextId - 1
    /\ got \in [Subscriber -> [PeerRequest -> 0..2]]

\* pendingDelivery and the reducer agree at every turn of the driver: a promise
\* is unsettled exactly while the live batch or the queue holds its token.
EveryWaiterIsOwned == pending = LiveTokens(machine)

\* The live batch is always on its way or in the store: its newest submission
\* is being sent or retried, or our request channel holds it.  Otherwise no
\* response could come, and nothing would ever settle or drain.
LiveBatchIsCarried ==
    IsLive(machine.outgoing) =>
        \/ \E r \in runs : r.owned /\ r.policy = "request" /\ r.body.id = LiveRequestId(machine)
        \/ own["request"] # None /\ own["request"].body.id = LiveRequestId(machine)

\* A promise is never given up in silence: what a caller waits for is owned by
\* the reducer, and what the reducer owns is on its way to the peer.
PromisesAreCarried == TypeOK /\ EveryWaiterIsOwned /\ LiveBatchIsCarried

\* A session that has just started overtakes its predecessor at once: nothing
\* is submitted before init has raised the floor, so our own statements never
\* outrank the live batch.  (A submit call of the predecessor that lands late,
\* or a floor the driver was not told of, is beyond this.)
LiveBatchOutranks ==
    \A r \in runs :
        r.owned /\ r.policy = "request" /\ r.pc = "sending" /\ r.body.id = LiveRequestId(machine)
          => ~Occupied(r)

\* The store is the outbox: a statement of ours that no device has read is
\* overwritten only by one that carries its messages on, by this session or
\* by the next one.  (Of messages whose caller was told they were answered, see
\* ResolvedWasRead, and of a batch that was rejected or cleared, nothing is
\* promised: the runs that check this have neither faults nor clears.)
UnreadIsNotOverwritten ==
    [][own["request"] # None =>
         ToSet(own["request"].body.messages) \subseteq
           ToSet(own'["request"].body.messages) \cup received \cup {t[1] : t \in resolved}]_vars

\* A restart loses nothing: the next session takes the live batch over, and what
\* it submits first replaces neither that nor anything else that is unread.
RestartLosesNothing == []LiveBatchOutranks /\ UnreadIsNotOverwritten

\* A cleared statement keeps the id of the batch it supersedes.
RequestRank(st) ==
    IF st = None THEN 0 ELSE 2 * st.body.id + (IF st.body.messages = <<>> THEN 1 ELSE 0)

\* The request channel only moves forward: whatever the order in which calls,
\* rejections and retries land, a superseded batch never replaces a newer one,
\* and a cleared batch never comes back.
RequestChannelForward ==
    [][RequestRank(own'["request"]) >= RequestRank(own["request"])]_vars

\* The newest answer is not lost: while its request counts as answered, it is
\* being sent or retried, or the response channel holds it.  A retry of an
\* older answer would displace it.
NewestAnswerIsCarried ==
    (~disposed /\ \E q \in PeerRequest : lastResponse = q /\ machine.incoming[q] = "responded") =>
        \/ \E r \in runs : r.owned /\ r.policy = "response" /\ r.body.id = lastResponse
        \/ own["response"] # None /\ own["response"].body.id = lastResponse

\* A request is answered by one submission at a time, however often and from
\* wherever (application, NACK) the session is asked to answer it.
OneRunPerResponse ==
    \A r1, r2 \in {r \in runs : r.owned /\ r.policy = "response"} :
        r1.body.id = r2.body.id => r1 = r2

\* What a future subscriber is replayed still waits for its answer, or has an
\* answer on its way: an answered request is not handled twice.
BufferedAwaitsAnswer ==
    \A q \in buffered :
        \/ machine.incoming[q] = "open"
        \/ \E r \in runs : r.owned /\ r.policy = "response" /\ r.body.id = q

\* A subscription is given a request at most once: by the stream, by init's
\* restore or by the replay, whichever comes first (session.spec.ts:933).
GivenOnce == \A s \in Subscriber, q \in PeerRequest : got[s][q] <= 1

\* A subscriber never misses a request that still waits for its answer.
SubscribersAreServed ==
    \A s \in subscribers, q \in buffered : got[s][q] >= 1

\* A request of the peer is handled once and its answer is kept: the stream,
\* the replay, init and the answers leave no request out and give none twice,
\* and each answer has one submission, the newest the last word.
RequestsAreHandledOnce ==
    /\ BufferedAwaitsAnswer /\ GivenOnce /\ SubscribersAreServed
    /\ NewestAnswerIsCarried /\ OneRunPerResponse

\* A disposed session starts no submit call: no retry, no drain, no NACK.
DisposedStaysSilent ==
    [][disposed /\ disposed' => \A r \in runs' : r.pc = "sending" => r \in runs]_vars

\* Every promise is settled in the end: answered, rejected or dropped by its
\* caller.  Promised of the first session only: one that restores a batch may
\* wait for an answer its predecessor has already taken in.
EveryTokenSettles ==
    \A t \in Token : t \in pending /\ restarts = 0 ~> t \notin pending

-----------------------------------------------------------------------------
(* What comments and documentation say of the program, and the program     *)
(* does not do.                                                            *)

\* stateMachine.ts:232-233: a response to a superseded retransmit "still
\* answers the same messages", so a caller whose promise it resolves may rely
\* on the peer having read the message.
ResolvedWasRead == \A t \in resolved : t[1] \in received
=============================================================================
