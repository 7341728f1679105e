---------------------------- MODULE IdentityWatch ----------------------------
(* The identity repository (identity/impl.ts) for one account: watchers      *)
(* share a stream that is made of the cached record, what the chain emits,   *)
(* and a timer that ends the silence of both; calls of getIdentity ask the   *)
(* chain only for what is not cached.                                        *)
(*                                                                          *)
(* A value is the number of a version on the chain, 0 for no identity.       *)
EXTENDS Integers, Sequences, FiniteSets

CONSTANTS
    Watcher,     \* the callers of watchIdentity
    Asker,       \* the calls of getIdentity
    MaxValues,   \* bound: versions on the chain
    MaxStreams   \* bound: streams built

ASSUME IdentityAssumption == {MaxValues, MaxStreams} \subseteq Nat

VARIABLES
    onChain,   \* the newest version on the chain
    cached,    \* the record in the storage
    writes,    \* write-throughs under way
    shared,    \* the streams there have been
    watched,   \* the one in watchCache, 0 for none
    watcher,   \* per watcher the stream it was given, what it does, the last value it saw
    asker      \* per call of getIdentity how far it is, and its answer

identityVars == <<onChain, cached, writes, shared, watched, watcher, asker>>

Nothing == -1

\* A run of a stream nobody is subscribed to.
Cold == [seed |-> "off", timer |-> "off", live |-> Nothing, out |-> Nothing]

IdentityInit ==
    /\ onChain = 0 /\ cached = 0 /\ writes = {}
    /\ shared = <<>> /\ watched = 0
    /\ watcher = [w \in Watcher |-> [stream |-> 0, stage |-> "new", saw |-> Nothing]]
    /\ asker = [a \in Asker |-> [stage |-> "new", answer |-> Nothing]]

Subscribers(s) == {w \in Watcher : watcher[w].stream = s /\ watcher[w].stage = "subscribed"}

\* A value of the stream; an equal one is not repeated.
Emits(s, run, v, record) ==
    /\ shared' = [shared EXCEPT ![s].run = [run EXCEPT !.out = v, !.timer = "off"], ![s].record = record]
    /\ watcher' = [w \in Watcher |-> IF w \in Subscribers(s) THEN [watcher[w] EXCEPT !.saw = v] ELSE watcher[w]]

-----------------------------------------------------------------------------
(* Watchers                                                                 *)

\* watchIdentity
Watch(w) ==
    /\ watcher[w].stage = "new"
    /\ IF watched # 0 THEN UNCHANGED <<shared, watched>>
       ELSE /\ Len(shared) < MaxStreams
            /\ shared' = Append(shared, [run |-> Cold, record |-> Nothing, ended |-> FALSE, revived |-> FALSE])
            /\ watched' = Len(shared) + 1
    /\ watcher' = [watcher EXCEPT ![w].stage = "holds", ![w].stream = watched']
    /\ UNCHANGED <<onChain, cached, writes, asker>>

\* The subscriber that is first starts a run: what an earlier run found in the
\* cache, if only that there was no use for it, it does not read again.
Started(s) ==
    LET v == shared[s].record IN
    CASE v = Nothing -> [Cold EXCEPT !.seed = "reading", !.timer = "armed"]
      [] v = 0 -> [Cold EXCEPT !.timer = "armed"]
      [] OTHER -> [Cold EXCEPT !.out = v]

\* The others hear the last value; a stream that has ended can be started again.
SubscribeTo(w) ==
    /\ watcher[w].stage = "holds"
    /\ LET s == watcher[w].stream IN
       /\ shared' = IF Subscribers(s) # {} THEN shared
                    ELSE [shared EXCEPT ![s].run = Started(s), ![s].revived = shared[s].ended]
       /\ watcher' = [watcher EXCEPT ![w].stage = "subscribed", ![w].saw = shared'[s].run.out]
    /\ UNCHANGED <<onChain, cached, writes, watched, asker>>

\* Mutant of Finalized: whoever is in the map goes.
FinalizedAnyway(s) == 0

\* finalize: a stream that has ended leaves the map, unless another is there.
Finalized(s) == IF watched = s THEN 0 ELSE watched

EndsStream(s) ==
    /\ shared' = [shared EXCEPT ![s].run = Cold, ![s].ended = TRUE]
    /\ watched' = Finalized(s)

Unsubscribe_(w) ==
    /\ watcher[w].stage = "subscribed"
    /\ LET s == watcher[w].stream IN
       IF Subscribers(s) = {w} THEN EndsStream(s) ELSE UNCHANGED <<shared, watched>>
    /\ watcher' = [watcher EXCEPT ![w].stage = "holds", ![w].saw = Nothing]
    /\ UNCHANGED <<onChain, cached, writes, asker>>

-----------------------------------------------------------------------------
(* What a running stream hears                                              *)

\* The record that was read; one that cannot be read counts as none.
SeedComes(s) ==
    /\ shared[s].run.seed = "reading"
    /\ LET run == [shared[s].run EXCEPT !.seed = "off"] IN
       \/ cached # 0 /\ Emits(s, run, cached, cached)
       \/ shared' = [shared EXCEPT ![s].run = run, ![s].record = 0] /\ UNCHANGED watcher
    /\ UNCHANGED <<onChain, cached, writes, watched, asker>>

\* Mutant of SeedLeft: a record that is read late is passed on as well.
SeedStill(seed) == seed

\* takeUntil: once the chain has spoken there is no use for the record.
SeedLeft(seed) == "off"

\* What the chain emits is passed on and written through.
ChainEmits(s) ==
    /\ Subscribers(s) # {} /\ shared[s].run.live # onChain
    /\ Emits(s, [shared[s].run EXCEPT !.live = onChain, !.seed = SeedLeft(@)], onChain,
             IF shared[s].record = Nothing THEN 0 ELSE shared[s].record)
    /\ writes' = writes \cup ({onChain} \ {0})
    /\ UNCHANGED <<onChain, cached, watched, asker>>

\* The adapter's error ends the stream for everybody.
ChainFails(s) ==
    /\ Subscribers(s) # {}
    /\ EndsStream(s)
    /\ watcher' = [w \in Watcher |->
         IF w \in Subscribers(s) THEN [watcher[w] EXCEPT !.stage = "holds", !.saw = Nothing] ELSE watcher[w]]
    /\ UNCHANGED <<onChain, cached, writes, asker>>

\* initialEmissionTimeoutMs: neither the cache nor the chain has spoken.
TimerEnds(s) ==
    /\ shared[s].run.timer = "armed"
    /\ Emits(s, shared[s].run, 0, shared[s].record)
    /\ UNCHANGED <<onChain, cached, writes, watched, asker>>

-----------------------------------------------------------------------------
(* getIdentity, the storage and the chain                                   *)

\* What is cached is the answer, nothing has the chain asked, and a storage that
\* cannot be read fails the call.
AskIdentity(a) ==
    /\ asker[a].stage = "new"
    /\ \/ asker' = [asker EXCEPT ![a] = IF cached # 0 THEN [stage |-> "done", answer |-> cached]
                                        ELSE [stage |-> "asking", answer |-> Nothing]]
       \/ asker' = [asker EXCEPT ![a] = [stage |-> "failed", answer |-> Nothing]]
    /\ UNCHANGED <<onChain, cached, writes, shared, watched, watcher>>

\* The chain answers with what it has now; only an identity is written.
ChainAnswers(a) ==
    /\ asker[a].stage = "asking"
    /\ asker' = [asker EXCEPT ![a] = [stage |-> IF onChain = 0 THEN "done" ELSE "writing", answer |-> onChain]]
    /\ UNCHANGED <<onChain, cached, writes, shared, watched, watcher>>

\* The call ends when its record is written; a failure is its failure.
AskEnds(a) ==
    /\ asker[a].stage \in {"asking", "writing"}
    /\ \/ asker' = [asker EXCEPT ![a] = [stage |-> "failed", answer |-> Nothing]] /\ UNCHANGED cached
       \/ /\ asker[a].stage = "writing" /\ cached' = asker[a].answer
          /\ asker' = [asker EXCEPT ![a].stage = "done"]
    /\ UNCHANGED <<onChain, writes, shared, watched, watcher>>

\* A write-through lands, or fails unheard.
WriteEnds(v) ==
    /\ v \in writes /\ writes' = writes \ {v}
    /\ cached' \in {cached, v}
    /\ UNCHANGED <<onChain, shared, watched, watcher, asker>>

ChainMoves ==
    /\ onChain < MaxValues /\ onChain' = onChain + 1
    /\ UNCHANGED <<cached, writes, shared, watched, watcher, asker>>

IdentityNext ==
    \/ \E w \in Watcher : Watch(w) \/ SubscribeTo(w) \/ Unsubscribe_(w)
    \/ \E s \in DOMAIN shared : SeedComes(s) \/ ChainEmits(s) \/ ChainFails(s) \/ TimerEnds(s)
    \/ \E a \in Asker : AskIdentity(a) \/ ChainAnswers(a) \/ AskEnds(a)
    \/ \E v \in writes : WriteEnds(v)
    \/ ChainMoves

IdentitySpec == IdentityInit /\ [][IdentityNext]_identityVars

-----------------------------------------------------------------------------
(* Properties                                                              *)

IdentityTypeOK ==
    /\ cached \in 0..onChain /\ watched \in 0..Len(shared)
    /\ \A s \in DOMAIN shared : shared[s].run.out \in Nothing..onChain
    /\ \A a \in Asker : asker[a].answer \in Nothing..onChain

\* Watchers of an account share one subscription of the chain, but for those
\* of a stream that had ended when they subscribed (impl.ts:95-98).  All
\* watchers of a stream see the same value: the chain's once it has spoken,
\* which no record read late displaces (impl.ts:77-81); until something is
\* emitted the timer that ends the wait is armed.
WatchersSeeTheChain ==
    /\ IdentityTypeOK
    /\ \A s \in DOMAIN shared :
         LET run == shared[s].run IN
         /\ Subscribers(s) # {} /\ ~shared[s].revived => watched = s
         /\ \A w \in Subscribers(s) : watcher[w].saw = run.out
         /\ run.live # Nothing => run.out = run.live
         /\ Subscribers(s) # {} /\ run.out = Nothing => run.timer = "armed"
         /\ Subscribers(s) = {} => run = Cold
    /\ watched # 0 => ~shared[watched].ended
=============================================================================
