------------------------- MODULE SubscriptionReplay --------------------------
(* Subscriptions that outlive their connection: withSubscriptionReplay on    *)
(* the websocket provider (wsProvider.ts), whose socket the pause controller *)
(* can take down.  The proxy of polkadot-api beneath sends a request that is *)
(* unanswered when the connection drops once more on the next one; the       *)
(* subscriptions the node has for a connection end with it.                  *)
(*                                                                          *)
(* The node never names two subscriptions alike, on any connection.          *)
EXTENDS Naturals, FiniteSets

CONSTANTS
    Sub,            \* subscribe requests of the consumer
    MaxDrops        \* bound: how often the connection is lost

ASSUME ReplayAssumption == MaxDrops \in Nat

VARIABLES
    sub,        \* activeSubscriptions: per request its stage and the node's id in use
    replay,     \* pendingSubscriptions: per request "none", "fresh" or "again"
    mapped,     \* currentToConsumer: <<the node's id, request>>
    wire,       \* per request how many of it are unanswered
    node,       \* the subscriptions of this connection at the node: <<id, request>>
    ids,        \* how many ids the node has given out
    link,       \* "waiting" for the proxy, "idle" (no socket), "connecting", "open"
    halted,     \* the pause controller's flag
    drops       \* how often the connection has been lost

tableVars == <<sub, replay, mapped>>
lineVars == <<wire, node, ids>>
replayVars == <<tableVars, lineVars, link, halted, drops>>

ReplayInit ==
    /\ sub = [c \in Sub |-> [stage |-> "idle", current |-> 0]]
    /\ replay = [c \in Sub |-> "none"]
    /\ mapped = {} /\ wire = [c \in Sub |-> 0] /\ node = {} /\ ids = 0
    /\ link = "connecting" /\ halted = FALSE /\ drops = 0

Active == {c \in Sub : sub[c].stage = "active"}

-----------------------------------------------------------------------------
(* subscriptionReplayProvider.ts                                           *)

Subscribe(c) ==
    /\ sub[c].stage = "idle"
    /\ sub' = [sub EXCEPT ![c].stage = "asked"]
    /\ replay' = [replay EXCEPT ![c] = "fresh"]
    /\ wire' = [wire EXCEPT ![c] = @ + 1]
    /\ UNCHANGED <<mapped, node, ids, link, halted, drops>>

\* Mutant of Confirmed: the id that was in use stays in the index.
ConfirmedKeeping(c, id) ==
    /\ replay' = [replay EXCEPT ![c] = "none"]
    /\ sub' = [sub EXCEPT ![c] = [stage |-> "active", current |-> id]]
    /\ mapped' = mapped \cup {<<id, c>>}

\* A subscribe response: the first gives the consumer its id, one of a replay
\* replaces the id in use; one nobody waits for is passed on.
Confirmed(c, id) ==
    IF replay[c] = "none" THEN UNCHANGED tableVars
    ELSE /\ replay' = [replay EXCEPT ![c] = "none"]
         /\ sub' = [sub EXCEPT ![c] = [stage |-> "active", current |-> id]]
         /\ mapped' = (mapped \ {<<sub[c].current, c>>}) \cup {<<id, c>>}

NodeConfirms(c) ==
    /\ link = "open" /\ wire[c] > 0
    /\ wire' = [wire EXCEPT ![c] = @ - 1]
    /\ ids' = ids + 1 /\ node' = node \cup {<<ids + 1, c>>}
    /\ Confirmed(c, ids + 1)
    /\ UNCHANGED <<link, halted, drops>>

\* The consumer unsubscribes under the id it knows: a replay under way is
\* forgotten, and the node is told the id in use, if it still has it.
Unsubscribe(c) ==
    /\ c \in Active
    /\ sub' = [sub EXCEPT ![c].stage = "gone"]
    /\ mapped' = mapped \ {<<sub[c].current, c>>}
    /\ replay' = [replay EXCEPT ![c] = "none"]
    /\ node' = IF link = "open" THEN node \ {<<sub[c].current, c>>} ELSE node
    /\ UNCHANGED <<wire, ids, link, halted, drops>>

\* Mutant of Replayed: only what the node has never confirmed is sent.
ReplayedFresh == {c \in Sub : sub[c].stage = "asked"}

\* onReconnect: the confirmed subscriptions, and no others.
Replayed == Active

-----------------------------------------------------------------------------
(* wsProvider.ts and pauseController.ts                                     *)

\* The socket is open: the replay sends its subscribes.
Connected ==
    /\ link = "connecting" /\ link' = "open"
    /\ replay' = [c \in Sub |-> IF c \in Replayed THEN "again" ELSE replay[c]]
    /\ wire' = [c \in Sub |-> IF c \in Replayed THEN wire[c] + 1 ELSE wire[c]]
    /\ UNCHANGED <<sub, mapped, node, ids, halted, drops>>

\* The socket is lost, or could not be opened: the proxy tries again later.
Dropped ==
    /\ link \in {"connecting", "open"} /\ drops < MaxDrops
    /\ link' = "waiting" /\ drops' = drops + 1 /\ node' = {}
    /\ UNCHANGED <<tableVars, wire, ids, halted>>

\* Mutant of Reinvoked: a socket is opened, paused or not.
ReinvokedUp ==
    /\ link = "waiting" /\ link' = "connecting"
    /\ UNCHANGED <<tableVars, lineVars, halted, drops>>

\* The proxy invokes the middleware again, which opens a socket unless paused.
Reinvoked ==
    /\ link = "waiting" /\ link' = IF halted THEN "idle" ELSE "connecting"
    /\ UNCHANGED <<tableVars, lineVars, halted, drops>>

\* pause closes the socket there is and halts the proxy.
Pause_ ==
    /\ ~halted /\ halted' = TRUE /\ drops < MaxDrops
    /\ IF link \in {"connecting", "open"} THEN link' = "waiting" /\ node' = {} /\ drops' = drops + 1
       ELSE UNCHANGED <<link, node, drops>>
    /\ UNCHANGED <<tableVars, wire, ids>>

\* Mutant of Resume: a socket that was not opened stays so.
ResumeIdle ==
    /\ halted /\ halted' = FALSE
    /\ UNCHANGED <<tableVars, lineVars, link, drops>>

\* resume opens a socket, or leaves it to the invocation that is scheduled.
Resume ==
    /\ halted /\ halted' = FALSE
    /\ link' = IF link = "idle" THEN "connecting" ELSE link
    /\ UNCHANGED <<tableVars, lineVars, drops>>

ReplayNext ==
    \/ \E c \in Sub : Subscribe(c) \/ NodeConfirms(c) \/ Unsubscribe(c)
    \/ Connected \/ Dropped \/ Reinvoked \/ Pause_ \/ Resume

ReplaySpec == ReplayInit /\ [][ReplayNext]_replayVars

-----------------------------------------------------------------------------
(* Properties                                                              *)

ReplayTypeOK ==
    /\ \A c \in Sub : sub[c].stage \in {"idle", "asked", "active", "gone"} /\ wire[c] \in Nat
    /\ \A c \in Sub : replay[c] \in {"none", "fresh", "again"}
    /\ mapped \cup node \subseteq (1..ids) \X Sub
    /\ link \in {"waiting", "idle", "connecting", "open"}

\* The index leads from one id per confirmed subscription to its consumer, so a
\* notification reaches the consumer it is for and no other, however often the
\* connection was lost and whatever was unsubscribed meanwhile.
IndexIsExact ==
    /\ mapped = {<<sub[c].current, c>> : c \in Active}
    /\ \A c \in Sub : sub[c].stage = "asked" => wire[c] = 1 /\ replay[c] = "fresh"

\* Once a connection has answered everything, each confirmed subscription is
\* one the node has on this connection.
NobodyIsForgotten ==
    link = "open" /\ (\A c \in Sub : wire[c] = 0) => \A c \in Active : <<sub[c].current, c>> \in node

\* No socket is up while the provider is paused, and none is missing when it is
\* not, whatever order pauses, losses and invocations come in.
PauseIsKept == (halted => link \in {"waiting", "idle"}) /\ (link = "idle" => halted)

\* Losses and pauses leave every consumer with its subscription and none with
\* another's, and a subscription that is not given up is served in the end.
ConsumersAreReached ==
    /\ [](ReplayTypeOK /\ IndexIsExact /\ NobodyIsForgotten /\ PauseIsKept)
    /\ \A c \in Sub : sub[c].stage = "asked" ~> (sub[c].stage = "gone" \/ <<sub[c].current, c>> \in node)
=============================================================================
