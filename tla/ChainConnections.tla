-------------------------- MODULE ChainConnections --------------------------
(* The chain connections of a host container: chainConnectionManager.ts as  *)
(* handleChainConnection (createContainer.ts) drives it.  A connection is a  *)
(* substrate client shared by reference count: follows, spec requests and    *)
(* broadcasts hold it, chain-head operations borrow a follow.  The calls     *)
(* come in and their answers go out through the transport.                   *)
(*                                                                          *)
(* The handlers ask hasActiveFollow before every chain-head operation, so    *)
(* the manager never holds one back for a follow to come: its recovery       *)
(* window has no state here.                                                 *)
EXTENDS Naturals, Sequences, FiniteSets, SequencesExt

CONSTANTS
    Chain,        \* genesis hashes
    Supported,    \* those the factory has a provider for
    Follow,       \* followHeadSubscribe calls
    HeadOp,       \* header, body, storage, use, unpin, continue, stopOperation calls
    Spec_,        \* chainSpec calls
    Broadcast,    \* broadcastTransaction calls
    NoChain

\* A call is of one method; no connection is NoChain.
ASSUME ChainAssumption ==
    /\ Supported \subseteq Chain
    /\ NoChain \notin [client : Nat, refs : Nat, follows : Seq(Follow)]
    /\ Follow \cap HeadOp = {} /\ Follow \cap Spec_ = {} /\ Follow \cap Broadcast = {}
    /\ HeadOp \cap Spec_ = {} /\ HeadOp \cap Broadcast = {} /\ Spec_ \cap Broadcast = {}

VARIABLES
    chains,    \* per chain: NoChain, or its client, reference count and live follows
    clients,   \* how many clients have been created
    use,      \* per call: its stage, chain, and the client or follow it runs on
    disposed   \* the handler has been removed, or the transport destroyed

chainVars == <<chains, clients, use, disposed>>

Calls == Follow \cup HeadOp \cup Spec_ \cup Broadcast

Unmade == [stage |-> "idle", chain |-> NoChain, on |-> NoChain]

ChainInit ==
    /\ chains = [g \in Chain |-> NoChain]
    /\ clients = 0
    /\ use = [c \in Calls |-> Unmade]
    /\ disposed = FALSE

Enters(c, g, stage) == [use EXCEPT ![c] = [stage |-> stage, chain |-> g, on |-> NoChain]]

-----------------------------------------------------------------------------
(* chainConnectionManager.ts                                               *)

HasActiveFollow(g) == chains[g] # NoChain /\ chains[g].follows # <<>>

\* The substrate client rejects what runs on a follow that ends.
Rejected(calls, follows) ==
    [c \in Calls |-> IF c \in HeadOp /\ calls[c].on \in follows
                     THEN [calls[c] EXCEPT !.stage = "settled", !.on = NoChain] ELSE calls[c]]

\* getOrCreateChain: another reference, or a client of its own.
Acquired(g) ==
    IF chains[g] # NoChain THEN [chains EXCEPT ![g].refs = @ + 1]
    ELSE [chains EXCEPT ![g] = [client |-> clients + 1, refs |-> 1, follows |-> <<>>]]

Created(g) == IF chains[g] = NoChain THEN clients + 1 ELSE clients

\* Mutant of Released: only a count that is spent already closes.
ReleasedLate(g, table) ==
    IF table[g] = NoChain THEN table
    ELSE IF table[g].refs = 0 THEN [table EXCEPT ![g] = NoChain]
    ELSE [table EXCEPT ![g].refs = @ - 1]

\* releaseChain: the last reference tears the connection down.
Released(g, table) ==
    IF table[g] = NoChain THEN table
    ELSE IF table[g].refs <= 1 THEN [table EXCEPT ![g] = NoChain]
    ELSE [table EXCEPT ![g].refs = @ - 1]

\* What a release ends: the follows of a connection it tears down.
TornDown(g, table) == IF table[g] # NoChain /\ table[g].refs <= 1 THEN ToSet(table[g].follows) ELSE {}

FollowsWithout(g, f) ==
    IF chains[g] = NoChain THEN chains ELSE [chains EXCEPT ![g].follows = RemoveFirst(@, f)]

-----------------------------------------------------------------------------
(* Follows                                                                 *)

\* The handler takes a reference and starts the follow on the client; without
\* a provider it interrupts.
StartFollow(f, g) ==
    /\ ~disposed /\ use[f] = Unmade
    /\ IF g \notin Supported
         THEN use' = Enters(f, g, "settled") /\ UNCHANGED <<chains, clients>>
         ELSE /\ use' = Enters(f, g, "open")
              /\ clients' = Created(g)
              /\ chains' = [Acquired(g) EXCEPT ![g].follows = Append(@, f)]
    /\ UNCHANGED disposed

\* The node stops the follow, or it fails: the entry is dropped, the product's
\* subscription and its reference stay until the product unsubscribes.
FollowDies(f, g) ==
    /\ chains[g] # NoChain /\ f \in ToSet(chains[g].follows)
    /\ chains' = FollowsWithout(g, f)
    /\ use' = Rejected(use, {f})
    /\ UNCHANGED <<clients, disposed>>

\* Mutant of StopFollow: the connection is let go, the follow is not ended.
StopFollowLeaking(f) ==
    /\ use[f].stage = "open"
    /\ LET g == use[f].chain IN
       /\ chains' = Released(g, chains)
       /\ use' = [Rejected(use, TornDown(g, chains)) EXCEPT ![f].stage = "settled"]
    /\ UNCHANGED <<clients, disposed>>

\* The cleanup the handler returned: stopFollow, then releaseChain.
StopFollow(f) ==
    /\ use[f].stage = "open"
    /\ LET g == use[f].chain
           without == FollowsWithout(g, f)
       IN /\ chains' = Released(g, without)
          /\ use' = [Rejected(use, {f} \cup TornDown(g, without)) EXCEPT ![f].stage = "settled"]
    /\ UNCHANGED <<clients, disposed>>

-----------------------------------------------------------------------------
(* Chain-head operations                                                   *)

\* All seven handlers: the oldest live follow runs the operation, and there is
\* an error if there is none.
StartHeadOp(c, g) ==
    /\ ~disposed /\ use[c] = Unmade
    /\ use' = IF HasActiveFollow(g)
                 THEN [use EXCEPT ![c] = [stage |-> "running", chain |-> g, on |-> Head(chains[g].follows)]]
                 ELSE Enters(c, g, "settled")
    /\ UNCHANGED <<chains, clients, disposed>>

HeadOpEnds(c) ==
    /\ use[c].stage = "running"
    /\ use' = [use EXCEPT ![c].stage = "settled", ![c].on = NoChain]
    /\ UNCHANGED <<chains, clients, disposed>>

-----------------------------------------------------------------------------
(* Requests that hold the connection while they are under way              *)

Send(c, g) ==
    IF g \notin Supported
      THEN use' = Enters(c, g, "settled") /\ UNCHANGED <<chains, clients>>
      ELSE /\ use' = [Enters(c, g, "sending") EXCEPT ![c].on = Acquired(g)[g].client]
           /\ chains' = Acquired(g) /\ clients' = Created(g)

\* The request is over, well or badly, and lets the connection go.
Ends(c) ==
    LET g == use[c].chain IN
    /\ chains' = Released(g, chains)
    /\ use' = [Rejected(use, TornDown(g, chains)) EXCEPT ![c].stage = "settled", ![c].on = NoChain]
    /\ UNCHANGED <<clients, disposed>>

StartSpec(c, g) == ~disposed /\ use[c] = Unmade /\ Send(c, g) /\ UNCHANGED disposed

SpecEnds(c) == use[c].stage = "sending" /\ Ends(c)

StartBroadcast(c, g) ==
    /\ ~disposed /\ use[c] = Unmade
    /\ use' = Enters(c, g, "asking")
    /\ UNCHANGED <<chains, clients, disposed>>

\* The permission is decided, maybe after the handler has been removed: the
\* broadcast goes on with the connections as they are then.
PermissionDenied(c) ==
    /\ use[c].stage = "asking"
    /\ use' = Enters(c, use[c].chain, "settled")
    /\ UNCHANGED <<chains, clients, disposed>>

PermissionGranted(c) ==
    /\ use[c].stage = "asking"
    /\ Send(c, use[c].chain)
    /\ UNCHANGED disposed

IsConnected(c) == chains[use[c].chain] # NoChain /\ chains[use[c].chain].client = use[c].on

\* The node has an operation id for it: the broadcast lives as long as the
\* connection, whose reference it keeps.
BroadcastStarts(c) ==
    /\ use[c].stage = "sending" /\ IsConnected(c)
    /\ use' = [use EXCEPT ![c].stage = "live"]
    /\ UNCHANGED <<chains, clients, disposed>>

\* The node declined, or the request failed.
BroadcastFails(c) == use[c].stage = "sending" /\ Ends(c)

\* Mutant of StopTransaction: a second stop is sent, too.
StopTransactionAgain(c) ==
    /\ ~disposed /\ use[c].stage \in {"live", "stopping"}
    /\ IF use[c].stage = "live"
         THEN use' = [use EXCEPT ![c].stage = "stopping"] /\ UNCHANGED chains
         ELSE UNCHANGED use /\ chains' = Released(use[c].chain, chains)
    /\ UNCHANGED <<clients, disposed>>

\* stopTransaction: of a live broadcast only; any other stop is a no-op.
StopTransaction(c) ==
    /\ ~disposed /\ use[c].stage = "live"
    /\ use' = [use EXCEPT ![c].stage = "stopping"]
    /\ UNCHANGED <<chains, clients, disposed>>

StopEnds(c) == use[c].stage = "stopping" /\ Ends(c)

\* Mutant of Dispose: the open connections are forgotten, not closed.
DisposeKeeping ==
    /\ ~disposed /\ disposed' = TRUE
    /\ UNCHANGED <<chains, clients, use>>

\* The slots get their defaults back and the manager tears every chain down.
\* Requests and permission prompts under way come back later.
Dispose ==
    /\ ~disposed /\ disposed' = TRUE
    /\ chains' = [g \in Chain |-> NoChain]
    /\ use' = Rejected(use, Follow)
    /\ UNCHANGED clients

-----------------------------------------------------------------------------

NodeStep ==
    \/ \E c \in HeadOp : HeadOpEnds(c)
    \/ \E c \in Spec_ : SpecEnds(c)
    \/ \E c \in Broadcast : BroadcastStarts(c) \/ BroadcastFails(c) \/ StopEnds(c)

ChainNext ==
    \/ \E f \in Follow : StopFollow(f) \/ \E g \in Chain : StartFollow(f, g) \/ FollowDies(f, g)
    \/ \E c \in HeadOp, g \in Chain : StartHeadOp(c, g)
    \/ \E c \in Spec_, g \in Chain : StartSpec(c, g)
    \/ \E c \in Broadcast :
         PermissionDenied(c) \/ PermissionGranted(c) \/ StopTransaction(c) \/ \E g \in Chain : StartBroadcast(c, g)
    \/ NodeStep
    \/ Dispose

ChainSpec == ChainInit /\ [][ChainNext]_chainVars

-----------------------------------------------------------------------------
(* Properties                                                              *)

ChainTypeOK ==
    /\ \A g \in Chain : chains[g] # NoChain =>
         /\ chains[g].client \in 1..clients /\ chains[g].refs \in Nat \ {0}
         /\ chains[g].follows \in Seq(Follow)
    /\ \A c \in Calls : use[c].chain \in Chain \cup {NoChain}
    /\ disposed \in BOOLEAN

Holders(g) ==
    {c \in Follow \cup Spec_ \cup Broadcast :
       use[c].chain = g /\ use[c].stage \in {"open", "sending", "live", "stopping"}}

\* A connection is open exactly as long as somebody holds it, and its count is
\* the number of its holders: neither a stop that comes twice nor a request
\* that fails drives it off.
CountsItsHolders ==
    ~disposed => \A g \in Chain :
      IF Holders(g) = {} THEN chains[g] = NoChain
      ELSE chains[g] # NoChain /\ chains[g].refs = Cardinality(Holders(g))

\* A broadcast that is live stays on the connection it was made on, which no
\* other call can close: the node re-broadcasts only while it lives
\* (createContainer.ts:880-882).
BroadcastsStayConnected ==
    ~disposed => \A c \in Broadcast : use[c].stage = "live" => IsConnected(c)

\* An operation runs on a follow the product still has open, or is settled: a
\* follow that stops or is closed takes its operations with it, so nobody waits
\* for an answer that cannot come.
OperationsHaveAFollow ==
    \A c \in HeadOp : use[c].stage = "running" =>
      /\ HasActiveFollow(use[c].chain) /\ use[c].on \in ToSet(chains[use[c].chain].follows)
      /\ use[use[c].on].stage = "open"

\* After dispose no connection is left but one that a broadcast opened whose
\* permission was granted later, and only while it needs it.
NothingOutlivesDispose ==
    disposed => \A g \in Chain : chains[g] # NoChain =>
      \E c \in Broadcast : use[c].stage \in {"sending", "live"} /\ use[c].on = chains[g].client

\* Whatever a product does with a chain is done on a connection it holds, and
\* it holds none that it has let go of.
ConnectionsAreHeld ==
    ChainTypeOK /\ CountsItsHolders /\ BroadcastsStayConnected /\ OperationsHaveAFollow /\ NothingOutlivesDispose
=============================================================================
