--------------------------- MODULE SessionMachine ---------------------------
(***************************************************************************)
(* The reducer under every order of events its driver may dispatch, with   *)
(* the promises (`pendingDelivery' in core.ts) the driver settles for it.  *)
(* Submissions, responses and failures are the environment here; Session   *)
(* replaces it by the driver, the store and the peer.                      *)
(***************************************************************************)
EXTENDS SessionReducer

CONSTANTS
    Message,
    Device,         \* devices of the peer
    MaxSubmits,     \* bound on the number of submitRequestMessage calls
    Restorable      \* batches a former run may have left in the store

ASSUME MachineAssumption ==
    /\ MaxSubmits \in Nat
    /\ Restorable \subseteq Seq(Message)

VARIABLES
    machine,    \* machineState
    waiting,    \* tokens with an unsettled promise: the keys of pendingDelivery
    submits,    \* number of tokens handed out
    nextId,     \* the first unused request id
    roster      \* the peer's devices now: recipients of a new statement

vars == <<machine, waiting, submits, nextId, roster>>

\* A token is the message it was handed out for and its number.
Token == Message \X (1..MaxSubmits)

-----------------------------------------------------------------------------
(* Dispatching: adopt the next state, then settle tokens and start         *)
(* submissions; each of those takes an id.                                 *)

Dispatch(t) ==
    /\ machine' = t.state
    /\ nextId' = nextId + Len(t.effects.submits)

DispatchSettling(t) ==
    /\ Dispatch(t)
    /\ waiting' = waiting \ t.effects.tokens

Init ==
    /\ machine = InitialSessionState
    /\ waiting = {}
    /\ submits = 0
    /\ nextId = 1
    /\ roster \in SUBSET Device

\* A message that no statement could hold is refused before the reducer sees it.
Submit(m) ==
    /\ Fits(roster, <<m>>)
    /\ machine.phase # "failed"
    /\ submits < MaxSubmits
    /\ submits' = submits + 1
    /\ LET t == <<m, submits + 1>>
       IN  /\ waiting' = waiting \cup {t}
           /\ Dispatch(MessageSubmitted(machine, m, t, roster, nextId))
    /\ UNCHANGED roster

\* A response may name any id the session ever used, the live batch's or not.
Response(id) ==
    /\ DispatchSettling(ResponseReceived(machine, id, roster, nextId))
    /\ UNCHANGED <<submits, roster>>

SubmitFails(id) ==
    /\ DispatchSettling(RequestSubmitFailed(machine, id, roster, nextId))
    /\ UNCHANGED <<submits, roster>>

Incoming(t) ==
    /\ Dispatch(t)
    /\ UNCHANGED <<waiting, submits, roster>>

PeerAsks(q) == Incoming(RequestReceived(machine, q))

Answer(q) == Incoming(ResponseSubmitted(machine, q))

AnswerFails(q) == Incoming(ResponseSubmitFailed(machine, q))

\* The peer adds or removes a device.  Only a session with a subscriber
\* hears of it and re-evaluates its queue.
RosterChanges(devices) ==
    /\ roster' = devices
    /\ \/ Dispatch(CapacityChanged(machine, devices, nextId))
       \/ UNCHANGED <<machine, nextId>>
    /\ UNCHANGED <<waiting, submits>>

\* clearOutgoingStatement and dispose: every waiter is rejected.
Clear ==
    /\ Dispatch(OutgoingCleared(machine))
    /\ waiting' = {}
    /\ UNCHANGED <<submits, roster>>

\* The end of init: a batch without an answer is restored under its own id,
\* an unanswered peer request is tracked, and the queue ships.
Initialized ==
    /\ machine.phase = "initialization"
    /\ \/ Dispatch(Activated(machine, roster, nextId))
       \/ \E batch \in Restorable :
            LET restored == OutgoingRestored(machine, nextId, batch).state
                t == Activated(restored, roster, nextId + 1)
            IN  /\ machine' = t.state
                /\ nextId' = nextId + 1 + Len(t.effects.submits)
    /\ UNCHANGED <<waiting, submits, roster>>

RestoreIncoming(q, responded) ==
    /\ machine.phase = "initialization"
    /\ Incoming(IncomingRestored(machine, q, responded))

\* failInit: the queue is dropped and every waiter rejected.
InitFails ==
    /\ machine.phase = "initialization"
    /\ Dispatch(InitFailed(machine))
    /\ waiting' = {}
    /\ UNCHANGED <<submits, roster>>

Next ==
    \/ \E m \in Message : Submit(m)
    \/ \E id \in 1..nextId - 1 : Response(id) \/ SubmitFails(id)
    \/ \E q \in PeerRequest : PeerAsks(q) \/ Answer(q) \/ AnswerFails(q)
    \/ \E q \in PeerRequest, responded \in BOOLEAN : RestoreIncoming(q, responded)
    \/ \E devices \in SUBSET Device : RosterChanges(devices)
    \/ Clear
    \/ Initialized
    \/ InitFails

Spec == Init /\ [][Next]_vars

-----------------------------------------------------------------------------
(* Properties *)

Batch == [ids : Seq(Nat), messages : Seq(Message), tokens : SUBSET Token]

Queued == [message : Message, tokens : SUBSET Token]

Machine == [phase : {"initialization", "active", "failed"},
            outgoing : Batch,
            queue : Seq(Queued),
            incoming : [PeerRequest -> {"unknown", "open", "responded"}]]

\* The type of the reducer's state and of the driver's book-keeping.
TypeOK ==
    /\ machine \in Machine
    /\ waiting \subseteq Token
    /\ submits \in 0..MaxSubmits
    /\ nextId \in Nat \ {0}
    /\ roster \subseteq Device

\* No promise hangs and none is settled behind the reducer's back: the tokens
\* with an unsettled promise are those of the live batch and of the queue.
EveryWaiterIsOwned == waiting = LiveTokens(machine)

\* A token belongs to the batch or to one queued message, so that one response
\* settles it and no later one could settle it again.
OneOwnerPerToken ==
    /\ machine.outgoing.tokens \cap TokensOf(machine.queue) = {}
    /\ \A i, j \in 1..Len(machine.queue) :
         i # j => machine.queue[i].tokens \cap machine.queue[j].tokens = {}

\* An active session never leaves messages waiting behind nothing: a queue
\* without a live batch would see no response, so nothing would drain it.
QueueBehindLiveBatch ==
    machine.phase = "active" /\ machine.queue # <<>> => IsLive(machine.outgoing)

\* A caller's promise is answered for the message the caller sent: a token is
\* attached only to its own message's entry or to the batch carrying it.
TokenWithItsMessage ==
    /\ \A t \in machine.outgoing.tokens : t[1] \in ToSet(machine.outgoing.messages)
    /\ \A i \in 1..Len(machine.queue) :
         \A t \in machine.queue[i].tokens : t[1] = machine.queue[i].message

\* The session implements the FIFO line of Outbox: messages are shipped and
\* settled from the front and join at the back, whatever the retransmits.
Line ==
    INSTANCE Outbox WITH
        line <- machine.outgoing.messages \o MessagesOf(machine.queue),
        sent <- Len(machine.outgoing.messages)

FIFO == Line!Spec
=============================================================================
