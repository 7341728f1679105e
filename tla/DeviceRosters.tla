---------------------------- MODULE DeviceRosters ----------------------------
(* Multi-device sessions (multiDeviceSession.ts): each device of two users    *)
(* addresses a statement to every device its roster names (envelope.ts,      *)
(* outgoingBody.ts), listens to the topics its roster gives                  *)
(* (incomingTopics.ts), and opens what it finds (decoder.ts).  Batches,      *)
(* retries and the store's ranks are Session's.                              *)
(*                                                                          *)
(* Keys are symbolic: a shared secret is the pair of the two keys behind it, *)
(* and opens what it sealed.  A roster names a device once.                  *)
EXTENDS Naturals, FiniteSets

CONSTANTS
    Device,
    Running,        \* the devices that are in use, the others are only known of
    Owner(_),       \* the user a device belongs to
    Pin(_),         \* the pin of a user
    Author,         \* the devices whose applications send messages
    Note,           \* messages, by number: each is submitted once, in their order
    MaxDeviceKeys,  \* bound: encryption keys a device has had
    MaxChanges,     \* bound: roster changes
    MaxRestarts     \* bound: devices started again

\* A session is between two users.
ASSUME RosterAssumption ==
    /\ Author \subseteq Running /\ Running \subseteq Device /\ IsFiniteSet(Device)
    /\ \A d, e, f \in Device : Owner(d) # Owner(e) /\ Owner(d) # Owner(f) => Owner(e) = Owner(f)
    /\ MaxDeviceKeys \in Nat \ {0} /\ {MaxChanges, MaxRestarts} \cup Note \subseteq Nat

VARIABLES
    key,        \* per device its encryption key, by number
    roster,     \* per device the peer's devices and their keys, 0 for a malformed one
    listener,   \* per device: incomingTopics' specs, and those of the store subscription
    session,    \* per device: "init" or "active", its live batch, ...
    shelf,      \* the statements of all devices in the store
    opened,     \* <<device, statement>> of the sessions there are (history)
    dropped,    \* notes overwritten before anybody read or carried them (history)
    readNotes,  \* notes read by some device (history)
    changes,    \* roster changes so far
    restarts    \* and restarts

historyVars == <<dropped, readNotes, changes, restarts>>
rosterVars == <<key, roster, listener, session, shelf, opened, historyVars>>

PeersOf(d) == {e \in Device : Owner(e) # Owner(d)}
OtherUser(d) == Owner(CHOOSE e \in PeersOf(d) : TRUE)

Secret(x, y) == {x, y}
DeviceKey(d, k) == <<d, k>>
IdentityKey(u) == <<u, 0>>

\* createSessionId
SessionTopic(secret, from, fromPin, to, toPin) == <<secret, from, to, fromPin, toPin>>

-----------------------------------------------------------------------------
(* Topics and envelopes                                                     *)

OutgoingTopic(d) ==
    SessionTopic(Secret(DeviceKey(d, key[d]), IdentityKey(OtherUser(d))),
                 d, Pin(Owner(d)), OtherUser(d), Pin(OtherUser(d)))

\* Mutant of RemotePin: the pin of the listener's own user.
RemotePinOwn(d) == Pin(Owner(d))

RemotePin(d) == Pin(OtherUser(d))

\* toSpecs: one topic per well-formed device.
SpecOf(d, e, k) ==
    [topic |-> SessionTopic(Secret(IdentityKey(Owner(d)), DeviceKey(e, k)), e, RemotePin(d), Owner(d), Pin(Owner(d))),
     sender |-> DeviceKey(e, k)]

Valid(r) == {e \in DOMAIN r : r[e] # 0}

Specs(d, r) == {SpecOf(d, e, r[e]) : e \in Valid(r)}

\* wrap: no device, or one that is malformed, and nothing is sent.
CanWrap(r) == DOMAIN r # {} /\ Valid(r) = DOMAIN r

Wrapped(d, r) == [e \in DOMAIN r |-> Secret(DeviceKey(d, key[d]), DeviceKey(e, r[e]))]

\* unwrapForOwnDevice
OpensEntry(e, s, sender) == e \in DOMAIN s.entries /\ s.entries[e] = Secret(DeviceKey(e, key[e]), sender)

\* Mutant of OpensOwn: an entry that cannot be opened ends the search.
OpensOwnUnlessStale(d, s, r) ==
    \A e \in DOMAIN s.entries : e \in Valid(r) /\ s.entries[e] = Secret(DeviceKey(d, key[d]), DeviceKey(e, r[e]))

\* unwrapOwn: any device of the roster the statement was wrapped for will do.
OpensOwn(d, s, r) ==
    \E e \in Valid(r) \cap DOMAIN s.entries : s.entries[e] = Secret(DeviceKey(d, key[d]), DeviceKey(e, r[e]))

\* specForStatement: a single topic is not compared.
SpecFor(specs, s) ==
    IF Cardinality(specs) = 1 THEN CHOOSE x \in specs : TRUE ELSE CHOOSE x \in specs : x.topic = s.topic

Matches(specs, s) == \E x \in specs : x.topic = s.topic

\* A statement replaces the one before it on its channel.
Put(d, kind, notes) ==
    shelf' = {s \in shelf : s.topic # OutgoingTopic(d) \/ s.kind # kind}
               \cup {[topic |-> OutgoingTopic(d), kind |-> kind, notes |-> notes, entries |-> Wrapped(d, roster[d]),
                      from |-> d, key |-> key[d], to |-> roster[d]]}

OnShelf(d, kind) == {s \in shelf : s.topic = OutgoingTopic(d) /\ s.kind = kind}

NotesOf(ss) == UNION {s.notes : s \in ss}

Unsent == Note \ (NotesOf(shelf) \cup dropped \cup readNotes)

-----------------------------------------------------------------------------
(* The driver (core.ts), as far as it depends on the roster                 *)

\* Messages of the live batch and the ids it went out under, requests yet to
\* be answered, statements seen; whether init could not open its own request,
\* a batch ended by a response to a part of it, a roster changed unheard.
NewSession ==
    [stage |-> "init", live |-> {}, ids |-> {}, due |-> {}, seen |-> {},
     blind |-> FALSE, early |-> FALSE, unheard |-> FALSE]

NotListening(specs) == [specs |-> specs, on |-> FALSE, open |-> {}]

\* The sessions have found the store empty and every device knows its peers.
RostersInit ==
    /\ key = [d \in Device |-> 1]
    /\ roster = [d \in Device |-> [e \in PeersOf(d) |-> 1]]
    /\ listener = [d \in Device |-> NotListening(Specs(d, roster[d]))]
    /\ session = [d \in Device |-> [NewSession EXCEPT !.stage = "active"]]
    /\ shelf = {} /\ opened = {} /\ dropped = {} /\ readNotes = {}
    /\ changes = 0 /\ restarts = 0

\* What device d can open of the statements ss it reads under specs.
OpenedBy(d, ss, specs) == {s \in ss : OpensEntry(d, s, SpecFor(specs, s).sender)}

OfKind(ss, kind) == {s \in ss : s.kind = kind}

\* The messages of a request are its id: each is submitted once.
Names(responses, request) == \E r \in responses : r.notes = request.notes

\* find: the first of some statements, in the order of the store.
FirstOf(ss) == IF ss = {} THEN {{}} ELSE {{s} : s \in ss}

Opened(d, ss) == opened' = opened \cup {<<d, s>> : s \in ss}

\* init: what is on the topics is marked as seen.  The application is given the
\* first request, if it is new and unanswered; the own request is restored if it
\* opens and the first response does not name it.
InitReads(d) ==
    /\ session[d].stage = "init"
    /\ LET specs == listener[d].specs
           found == {s \in shelf : Matches(specs, s)}
           mine == OpenedBy(d, found, specs)
           Own(kind) == {s \in OnShelf(d, kind) : OpensOwn(d, s, roster[d])}
       IN \E request \in FirstOf(OfKind(mine, "request")), response \in FirstOf(OfKind(mine, "response")) :
          LET given == {s \in request : <<d, s>> \notin opened /\ ~Names(Own("response"), s)}
              kept == {s \in Own("request") : ~Names(response, s)}
          IN /\ Opened(d, mine) /\ readNotes' = readNotes \cup NotesOf(given)
             /\ session' = [session EXCEPT ![d].stage = "active",
                  ![d].live = NotesOf(kept), ![d].ids = {s.notes : s \in kept},
                  ![d].due = @ \cup given, ![d].seen = @ \cup found,
                  ![d].blind = \E s \in OnShelf(d, "request") :
                                 \A e \in DOMAIN s.to \cap DOMAIN roster[d] : s.to[e] # roster[d][e]]
    /\ UNCHANGED <<key, roster, listener, shelf, dropped, changes, restarts>>

\* A message goes out with what is still unanswered; without a recipient it is
\* refused.
Submit(d, m) ==
    /\ d \in Author /\ session[d].stage = "active" /\ CanWrap(roster[d])
    /\ m \in Unsent /\ \A n \in Unsent : m <= n
    /\ LET notes == session[d].live \cup {m} IN
       /\ Put(d, "request", notes)
       /\ session' = [session EXCEPT ![d].live = notes, ![d].ids = @ \cup {notes}]
       /\ dropped' = dropped \cup (NotesOf(OnShelf(d, "request")) \ (notes \cup readNotes))
    /\ UNCHANGED <<key, roster, listener, opened, readNotes, changes, restarts>>

\* A request is answered once, on one channel for all requests.
Respond(e, s) ==
    /\ s \in session[e].due /\ CanWrap(roster[e])
    /\ Put(e, "response", s.notes)
    /\ session' = [session EXCEPT ![e].due = @ \ {s}]
    /\ UNCHANGED <<key, roster, listener, opened, historyVars>>

\* The store hands a statement to the subscription.  A response to any id the
\* batch went out under ends the batch, with what has joined it since.
Receive(e, s) ==
    /\ listener[e].on /\ s \in shelf \ session[e].seen /\ Matches(listener[e].open, s)
    /\ LET mine == OpenedBy(e, {s}, listener[e].open)
           requests == OfKind(mine, "request")
           x == session[e]
           ends == OfKind(mine, "response") # {} /\ s.notes \in x.ids
       IN /\ Opened(e, mine) /\ readNotes' = readNotes \cup NotesOf(requests)
          /\ session' = [session EXCEPT ![e].seen = @ \cup {s}, ![e].due = @ \cup requests,
               ![e].live = IF ends THEN {} ELSE @, ![e].ids = IF ends THEN {} ELSE @,
               ![e].early = @ \/ (ends /\ x.live # s.notes)]
    /\ UNCHANGED <<key, roster, listener, shelf, dropped, changes, restarts>>

\* ensureStoreSubscription, closeStoreSubscription: the first subscriber opens
\* the topics there are, the last one leaves them and the roster.
OpensTopics(d) ==
    /\ ~listener[d].on
    /\ listener' = [listener EXCEPT ![d] = [specs |-> @.specs, on |-> TRUE, open |-> @.specs]]
    /\ UNCHANGED <<key, roster, session, shelf, opened, historyVars>>

ClosesTopics(d) ==
    /\ listener[d].on
    /\ listener' = [listener EXCEPT ![d] = NotListening(@.specs)]
    /\ UNCHANGED <<key, roster, session, shelf, opened, historyVars>>

Rosters(d) == UNION {[E -> 0..MaxDeviceKeys] : E \in SUBSET PeersOf(d)}

\* Mutant of Heard: the subscription stays on the topics it was opened with.
HeardLate(d, r) == [listener[d] EXCEPT !.specs = Specs(d, r)]

\* A roster change reaches the session only while it listens.
Heard(d, r) ==
    IF listener[d].on THEN [on |-> TRUE, specs |-> Specs(d, r), open |-> Specs(d, r)] ELSE listener[d]

RosterChanges(d, r) ==
    /\ changes < MaxChanges /\ changes' = changes + 1
    /\ \A e \in DOMAIN r : r[e] <= key[e]
    /\ r # roster[d] /\ roster' = [roster EXCEPT ![d] = r]
    /\ listener' = [listener EXCEPT ![d] = Heard(d, r)]
    /\ session' = [session EXCEPT ![d].unheard = ~listener[d].on]
    /\ UNCHANGED <<key, shelf, opened, dropped, readNotes, restarts>>

\* The device is started again, maybe with another encryption key.
StartAgain(d, k) ==
    /\ restarts < MaxRestarts /\ restarts' = restarts + 1 /\ k \in key[d]..MaxDeviceKeys
    /\ key' = [key EXCEPT ![d] = k]
    /\ listener' = [listener EXCEPT ![d] = NotListening(Specs(d, roster[d]))]
    /\ session' = [session EXCEPT ![d] = NewSession]
    /\ opened' = {x \in opened : x[1] # d}
    /\ UNCHANGED <<roster, shelf, dropped, readNotes, changes>>

RostersNext ==
    \/ \E d \in Running :
         \/ InitReads(d) \/ OpensTopics(d) \/ ClosesTopics(d)
         \/ \E m \in Note : Submit(d, m)
         \/ \E r \in Rosters(d) : RosterChanges(d, r)
         \/ \E k \in 1..MaxDeviceKeys : StartAgain(d, k)
         \/ \E s \in session[d].due : Respond(d, s)
         \/ \E s \in shelf : Receive(d, s)

RostersSpec == RostersInit /\ [][RostersNext]_rosterVars

-----------------------------------------------------------------------------
(* Properties                                                              *)

RostersTypeOK ==
    /\ key \in [Device -> 1..MaxDeviceKeys]
    /\ \A d \in Device : DOMAIN roster[d] \subseteq PeersOf(d) /\ session[d].stage \in {"init", "active"}
    /\ dropped \cup readNotes \subseteq Note

\* Each listening device is on the topic of every device of its roster that
\* publishes under the key the roster has, and opens what it finds there
\* exactly when it was written for the key it uses: sender and receiver derive
\* topics and secrets apart, from what each knows of the other.  A roster that
\* changed while nobody was subscribed is the exception: the session returns
\* to the topics it had (core.ts:364, incomingTopics.ts:97-100).
DevicesAreReached ==
    \A s \in shelf : \A e \in Device \ {s.from} : Owner(e) # Owner(s.from) =>
      LET written == e \in DOMAIN s.to /\ s.to[e] = key[e] IN
      /\ listener[e].on /\ ~session[e].unheard /\ s.from \in DOMAIN roster[e] /\ roster[e][s.from] = s.key
           => Matches(listener[e].open, s)
      /\ s \in session[e].seen => (<<e, s>> \in opened <=> written)

\* A message that nobody has read is overwritten without being carried on only
\* by a session that could not open its own request with the roster it has
\* (decoder.ts:165, core.ts:450-457), or whose batch was ended by a response to
\* a part of it (stateMachine.ts:232-234).
LostAt(d, n) == n \in NotesOf(OnShelf(d, "request")) /\ (session[d].blind \/ session[d].early)

NothingIsLostUnseen == [][\A n \in dropped' \ dropped : \E d \in Device : LostAt(d, n)]_rosterVars

RostersAreServed == [](RostersTypeOK /\ DevicesAreReached) /\ NothingIsLostUnseen
=============================================================================
