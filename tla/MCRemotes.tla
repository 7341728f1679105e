------------------------------ MODULE MCRemotes ------------------------------
(* What a host keeps with the parties far from it: the subscriptions that    *)
(* outlive a lost connection to a node, those to the statement store of one, *)
(* the identities it watches on a chain and the files it leaves in a pool of *)
(* one, and with the paired wallet the pairing, the sessions it makes and    *)
(* the requests of one session.  They share nothing but storage and          *)
(* connections that no step of theirs looks into: a behaviour is one of a    *)
(* single part.                                                              *)
EXTENDS SubscriptionReplay, StatementFeed, IdentityWatch, FileHandoff, SsoRequests, SsoSessions, SsoPairing

VARIABLE part

Calls(method, n) == {[method |-> method, number |-> i] : i \in 1..n}
MCRequest == Calls("signPayload", 1) \cup Calls("getRingVrfAlias", 1) \cup Calls("sendDisconnectMessage", 1)

MCDelivery == {<<"m1", 1>>, <<"m1", 2>>, <<"m1", 3>>, <<"m2", 1>>}

Init ==
    /\ ReplayInit /\ FeedInit /\ IdentityInit /\ HandoffInit /\ RequestsInit /\ SessionsInit /\ PairingInit
    /\ part \in {"replay", "feed", "identity", "handoff", "requests", "messages", "sessions", "pairing"}
    /\ part = "handoff" \/ file = [bytes |-> <<>>, chunkSize |-> 1]

Part(p) == part = p /\ UNCHANGED part

nodeVars == <<replayVars, feedVars, identityVars, handoffVars>>
walletVars == <<requestVars, sessionsVars, pairingVars>>

ReplayPart(A) == Part("replay") /\ A /\ UNCHANGED <<feedVars, identityVars, handoffVars, walletVars>>
RequestStep(A) == Part("requests") /\ A /\ UNCHANGED <<sessionsVars, pairingVars, nodeVars>>

Next ==
    \/ ReplayPart(ReplayNext)
    \/ Part("feed") /\ FeedNext /\ UNCHANGED <<replayVars, identityVars, handoffVars, walletVars>>
    \/ Part("identity") /\ IdentityNext /\ UNCHANGED <<replayVars, feedVars, handoffVars, walletVars>>
    \/ Part("handoff") /\ HandoffNext /\ UNCHANGED <<replayVars, feedVars, identityVars, walletVars>>
    \/ RequestStep(RequestsNext)
    \/ Part("messages") /\ MessagesNext /\ UNCHANGED <<sessionsVars, pairingVars, nodeVars>>
    \/ Part("sessions") /\ SessionsNext /\ UNCHANGED <<requestVars, pairingVars, nodeVars>>
    \/ Part("pairing") /\ PairingNext /\ UNCHANGED <<requestVars, sessionsVars, nodeVars>>

vars == <<nodeVars, walletVars, part>>

\* The node answers, the proxy and the socket get on, and a pause ends.  Timers
\* fire, and the session beneath settles what it was handed once it is closed;
\* the wallet need not answer.
FairSpec ==
    /\ Init /\ [][Next]_vars
    /\ WF_vars(ReplayPart(Connected)) /\ WF_vars(ReplayPart(Reinvoked)) /\ WF_vars(ReplayPart(Resume))
    /\ \A c \in Sub : WF_vars(ReplayPart(NodeConfirms(c)))
    /\ \A r \in Request :
         /\ WF_vars(RequestStep(TimesOut(r))) /\ WF_vars(RequestStep(NoticeIsTaken(r)))
         /\ WF_vars(RequestStep(closed /\ DeliveryFails(r)))
=============================================================================
