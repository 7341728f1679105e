--------------------------- MODULE ConnectionPool ----------------------------
(* One chain of the host's connection pool (connectionPool.ts): a client     *)
(* shared by count, the apis resolved on it, the branches of its provider    *)
(* (branchedProvider.ts) and the transport beneath them, which can be        *)
(* replaced and paused (restartableProvider.ts).  Chains share nothing.      *)
(*                                                                          *)
(* A holder calls lockApi or connects getProvider, and gives back what it    *)
(* got once: unlock itself does not count its callers.                       *)
EXTENDS Naturals, Sequences, FiniteSets

CONSTANTS
    Locker,        \* lockApi calls
    Connector,     \* connections of getProvider
    MaxClients,    \* bound: how many clients are made
    MaxTransports, \* bound: how many transports a client asks for
    MaxResolves    \* bound: how many times an api is resolved

ASSUME PoolAssumption == {MaxClients, MaxTransports, MaxResolves} \subseteq Nat

VARIABLES
    refs,       \* refCounter
    client,     \* existingClients: the client's number, 0 for none
    made,       \* how many clients there have been
    destruction, \* a destruction timer runs
    holder,     \* per holder its stage, its client and the resolution it awaits
    resolves,   \* per resolution so far its client and whether it runs
    resolved,   \* resolvedApis: the client of the api there is, 0 for none
    pendingRes, \* pendingResolutions: the resolution under way, 0 for none
    branches,   \* connections of the branched provider
    root,       \* the restartable provider: "off", "waiting" for a factory call, "up"
    generation, \* per client how many transports have been asked for
    open,       \* the transports that are open: [client, gen, paused]
    paused,     \* the restartable provider is paused
    status,     \* the connection status of the chain
    last,       \* what the newest transport of the client there is reported last
    stale,      \* a transport of an earlier client has reported since
    delayed     \* destroyDelay is more than 0

clientVars == <<refs, client, made, destruction>>
apiVars == <<resolves, resolved, pendingRes>>
transportVars == <<branches, root, generation, open, paused>>
statusVars == <<status, last, stale>>
poolVars == <<clientVars, holder, apiVars, transportVars, statusVars, delayed>>

Holder == Locker \cup Connector
Status == {"connecting", "connected", "disconnected"}
Free == [stage |-> "free", client |-> 0, awaits |-> 0]

PoolInit ==
    /\ refs = 0 /\ client = 0 /\ made = 0 /\ destruction = FALSE
    /\ holder = [h \in Holder |-> Free]
    /\ resolves = <<>> /\ resolved = 0 /\ pendingRes = 0
    /\ branches = 0 /\ root = "off" /\ generation = [n \in 1..MaxClients |-> 0] /\ open = {} /\ paused = FALSE
    /\ status = "disconnected" /\ last = "disconnected" /\ stale = FALSE
    /\ delayed \in BOOLEAN

-----------------------------------------------------------------------------
(* The transport                                                           *)

\* The provider asks for a transport: a paused provider pauses it before it
\* connects, and a factory that throws is asked again later.
Built(n, g) == open' = open \cup {[client |-> n, gen |-> g, paused |-> paused]}

\* Mutant of BuildTransport: the new transport comes up whether or not.
BuildTransportUp ==
    /\ root = "waiting" /\ generation[client] < MaxTransports
    /\ generation' = [generation EXCEPT ![client] = @ + 1]
    /\ root' = "up" /\ open' = open \cup {[client |-> client, gen |-> generation[client] + 1, paused |-> FALSE]}
    /\ UNCHANGED <<clientVars, holder, apiVars, branches, paused, statusVars>>

BuildTransport ==
    /\ root = "waiting" /\ generation[client] < MaxTransports
    /\ generation' = [generation EXCEPT ![client] = @ + 1]
    /\ \/ root' = "up" /\ Built(client, generation[client] + 1) /\ UNCHANGED <<status, last>>
       \/ status' = "disconnected" /\ last' = "disconnected" /\ UNCHANGED <<root, open>>
    /\ UNCHANGED <<clientVars, holder, apiVars, branches, paused, stale>>

\* Mutant of Report: any transport's word is taken.
ReportAny(n, g, s) ==
    /\ n <= made /\ g \in 1..generation[n]
    /\ s = "disconnected" \/ \E t \in open : t.client = n /\ t.gen = g
    /\ status' = s
    /\ IF client = n /\ g = generation[n] THEN last' = s /\ UNCHANGED stale
       ELSE stale' = (stale \/ n # client) /\ UNCHANGED last
    /\ UNCHANGED <<clientVars, holder, apiVars, transportVars>>

\* A transport reports its status, one that was closed a trailing
\* disconnected.  Only the newest generation of a client is listened to.
Report(n, g, s) ==
    /\ n <= made /\ g \in 1..generation[n]
    /\ s = "disconnected" \/ \E t \in open : t.client = n /\ t.gen = g
    /\ g = generation[n]
    /\ status' = s
    /\ IF client = n THEN last' = s /\ UNCHANGED stale ELSE stale' = TRUE /\ UNCHANGED last
    /\ UNCHANGED <<clientVars, holder, apiVars, transportVars>>

-----------------------------------------------------------------------------
(* Clients and their count                                                 *)

\* getOrCreateClient: a client is one branch of its provider.
GetOrCreate ==
    IF client # 0 THEN UNCHANGED <<client, made, transportVars, last, stale>>
    ELSE /\ made < MaxClients
         /\ made' = made + 1 /\ client' = made + 1
         /\ branches' = 1 /\ root' = "waiting" /\ paused' = FALSE /\ UNCHANGED <<generation, open>>
         /\ last' = status /\ stale' = FALSE

\* destroyClient: the client's own branch goes with it, and the last branch
\* closes the transport.
Destroyed(others) ==
    /\ client' = 0 /\ destruction' = FALSE /\ status' = "disconnected" /\ branches' = others
    /\ IF others = 0 THEN root' = "off" /\ open' = {} ELSE UNCHANGED <<root, open>>
    /\ UNCHANGED <<made, generation, paused, last, stale>>

Emptied == resolved' = 0 /\ pendingRes' = 0

\* Mutant of Acquire: a client on its way out is taken without a word.
AcquireLate == refs' = refs + 1 /\ UNCHANGED destruction /\ GetOrCreate

Acquire == refs' = refs + 1 /\ destruction' = FALSE /\ GetOrCreate

\* Branches other than the client's own.
Others == IF client # 0 THEN branches - 1 ELSE branches

\* Mutant of Unlock: the first to unlock ends it for all.
UnlockAll(others) == refs' = refs - 1 /\ Destroyed(others)

\* unlock: the last one destroys the client, or has it destroyed later.
Unlock(others) ==
    /\ refs' = refs - 1
    /\ IF refs = 1 /\ ~delayed THEN Destroyed(others)
       ELSE /\ destruction' = (refs = 1) /\ branches' = others + 1
            /\ UNCHANGED <<client, made, root, generation, open, paused, statusVars>>

\* The resolve caches go with the client.
KeepsApis == IF client' = 0 THEN Emptied ELSE UNCHANGED <<resolved, pendingRes>>

TimerFires == destruction /\ Destroyed(Others) /\ Emptied /\ UNCHANGED <<refs, holder, resolves>>

-----------------------------------------------------------------------------
(* lockApi                                                                 *)

Takes(h, stage, awaits) == holder' = [holder EXCEPT ![h] = [stage |-> stage, client |-> client', awaits |-> awaits]]

\* The api there is, the resolution there is, or one of its own.
Lock(h) ==
    /\ holder[h] = Free /\ Acquire
    /\ IF resolved = client' THEN Takes(h, "held", 0) /\ UNCHANGED apiVars
       ELSE IF pendingRes # 0 /\ resolves[pendingRes].client = client'
         THEN Takes(h, "resolving", pendingRes) /\ UNCHANGED apiVars
       ELSE /\ Len(resolves) < MaxResolves
            /\ resolves' = Append(resolves, [client |-> client', stage |-> "running"])
            /\ pendingRes' = Len(resolves) + 1 /\ Takes(h, "resolving", Len(resolves) + 1)
            /\ UNCHANGED resolved
    /\ UNCHANGED status

\* The resolution ends: its entry goes, whoever it belongs to, and an api is
\* kept.
ResolveEnds(r, stage) ==
    /\ r \in DOMAIN resolves /\ resolves[r].stage = "running"
    /\ resolves' = [resolves EXCEPT ![r].stage = stage]
    /\ pendingRes' = 0
    /\ resolved' = IF stage = "ok" THEN resolves[r].client ELSE resolved
    /\ UNCHANGED <<clientVars, holder, transportVars, statusVars>>

Locked(h) ==
    /\ holder[h].stage = "resolving" /\ resolves[holder[h].awaits].stage = "ok"
    /\ holder' = [holder EXCEPT ![h].stage = "held"]
    /\ UNCHANGED <<clientVars, apiVars, transportVars, statusVars>>

Done(h) == holder' = [holder EXCEPT ![h] = [Free EXCEPT !.stage = "done"]]

\* The api failed: the lock is given back and the caches are emptied.
LockFails(h) ==
    /\ holder[h].stage = "resolving" /\ resolves[holder[h].awaits].stage = "failed"
    /\ Unlock(Others) /\ Emptied /\ Done(h) /\ UNCHANGED resolves

Unlocks(h) ==
    /\ h \in Locker /\ holder[h].stage = "held"
    /\ Unlock(Others) /\ KeepsApis /\ Done(h) /\ UNCHANGED resolves

-----------------------------------------------------------------------------
(* getProvider                                                             *)

Connect(h) ==
    /\ holder[h] = Free /\ Acquire /\ Takes(h, "acquiring", 0)
    /\ UNCHANGED <<apiVars, status>>

\* The client is there: the consumer gets a branch, unless it has gone, which
\* gives the lock back.
Branched(h) ==
    /\ holder[h].stage = "acquiring"
    /\ holder' = [holder EXCEPT ![h].stage = "branched"]
    /\ branches' = branches + 1
    /\ UNCHANGED <<clientVars, apiVars, root, generation, open, paused, statusVars>>

ConsumerIsGone(h) ==
    /\ holder[h].stage = "acquiring"
    /\ Unlock(Others) /\ KeepsApis /\ Done(h) /\ UNCHANGED resolves

\* The consumer disconnects its branch, and the branch its lock.
Disconnects(h) ==
    /\ holder[h].stage = "branched"
    /\ Unlock(Others - 1) /\ KeepsApis /\ Done(h) /\ UNCHANGED resolves

-----------------------------------------------------------------------------
(* The whole pool                                                          *)

\* Mutant of Reconnect: the transport is replaced and stays open.
ReconnectKeeping ==
    /\ client # 0 /\ ~destruction /\ root = "up" /\ root' = "waiting"
    /\ UNCHANGED <<clientVars, holder, apiVars, branches, generation, open, paused, statusVars>>

\* reconnect skips a chain nobody holds; restart closes the transport before
\* it has the next one made, and leaves one that is already on its way.
Reconnect ==
    /\ client # 0 /\ ~destruction /\ root = "up" /\ root' = "waiting" /\ open' = {}
    /\ UNCHANGED <<clientVars, holder, apiVars, branches, generation, paused, statusVars>>

Pause(on) ==
    /\ client # 0 /\ paused # on /\ paused' = on
    /\ open' = {[t EXCEPT !.paused = on] : t \in open}
    /\ UNCHANGED <<clientVars, holder, apiVars, branches, root, generation, statusVars>>

PoolStep ==
    \/ \E h \in Locker : Lock(h) \/ Locked(h) \/ LockFails(h) \/ Unlocks(h)
    \/ \E h \in Connector : Connect(h) \/ Branched(h) \/ ConsumerIsGone(h) \/ Disconnects(h)
    \/ \E r \in 1..MaxResolves, stage \in {"ok", "failed"} : ResolveEnds(r, stage)
    \/ \E n \in 1..MaxClients, g \in 1..MaxTransports, s \in Status : Report(n, g, s)
    \/ \E on \in BOOLEAN : Pause(on)
    \/ TimerFires \/ BuildTransport \/ Reconnect

PoolNext == PoolStep /\ UNCHANGED delayed

PoolSpec == PoolInit /\ [][PoolNext]_poolVars

-----------------------------------------------------------------------------
(* Properties                                                              *)

PoolTypeOK ==
    /\ refs \in Nat /\ client \in 0..made /\ made \in 0..MaxClients
    /\ \A h \in Holder : holder[h].client \in 0..made /\ holder[h].awaits \in 0..Len(resolves)
    /\ resolved \in 0..made /\ pendingRes \in 0..Len(resolves)
    /\ branches \in Nat /\ root \in {"off", "waiting", "up"} /\ status \in Status

Holds(h) == holder[h].stage \in {"resolving", "held", "acquiring", "branched"}

\* Whoever holds the chain has the client it was given, from the call to the
\* moment it lets go, whatever others do in between: the count is that of the
\* holders, no client is destroyed under one, and one that nobody holds has
\* its destruction ahead.
HoldersKeepTheirClient ==
    /\ PoolTypeOK
    /\ refs = Cardinality({h \in Holder : Holds(h)})
    /\ \A h \in Holder : Holds(h) => holder[h].client = client /\ client # 0
    /\ client # 0 => refs > 0 \/ destruction
    /\ destruction => refs = 0

\* At most one transport is open, the newest of the client there is: none is
\* left by a reconnect, a destroyed client or the last branch, and none is up
\* while the provider is paused (restartableProvider.ts:52-54, 72-75).
NoTransportIsLost ==
    /\ Cardinality(open) <= 1
    /\ \A t \in open : root = "up" /\ t.client = client /\ t.gen = generation[client] /\ t.paused = paused
    /\ client = 0 => root = "off" /\ branches = 0

\* The chain has the status its newest transport reported, not what a replaced
\* one said when it went down (connectionPool.ts:84-87), unless a transport of
\* a client that is gone has spoken: the generations of two clients are not
\* told apart.
StatusIsTheNewest == client # 0 /\ ~stale => status = last

\* A chain that is shared is kept for all who hold it: none loses its client to
\* another's release, reconnect, pause or failed resolution, and the client has
\* one transport, the only one that is heard.
SharedChainIsKept == HoldersKeepTheirClient /\ NoTransportIsLost /\ StatusIsTheNewest
=============================================================================
