---------------------------- MODULE SsoSessions -----------------------------
(* The sessions a host has with paired wallets (sessionManager/impl.ts): the *)
(* list of them in the storage, written by read-and-write (fieldView.ts),    *)
(* the live sessions that follow the list, and what else the storage keeps   *)
(* of a session.  The storage notifies as part of a write.                   *)
EXTENDS Naturals, Sequences, FiniteSets

CONSTANTS
    Session,    \* session ids: each is paired once
    Removal,    \* calls of disconnect and forget, and the wallets' Disconnected messages
    MaxGrants   \* bound: slot keys fetched per session

ASSUME SessionsAssumption == MaxGrants \in Nat

VARIABLES
    stored,     \* the list in the storage
    secrets,    \* sessions with an entry of the secret repository
    grants,     \* sessions with an entry of the allowance repository
    live,       \* localSessions
    disposed,   \* sessions whose live object was disposed since they were last made live
    adding,     \* per session the stage of persistAndNotify, and the list add has read
    removing,   \* per removal its stage, its session and the list filter has read
    granting,   \* sessions that read their allowances to add a slot key
    granted,    \* how many slot keys were fetched
    over,       \* the manager has been disposed
    lost,       \* a list was written over a list that is not the one it was made from
    late        \* sessions with a slot key written after they were purged

listVars == <<stored, live, disposed>>
storeVars == <<secrets, grants, granting, granted, late>>
sessionsVars == <<listVars, storeVars, adding, removing, over, lost>>

SessionsInit ==
    /\ stored = {} /\ secrets = {} /\ grants = {} /\ live = {} /\ disposed = {}
    /\ adding = [s \in Session |-> [stage |-> "none", read |-> {}]]
    /\ removing = [r \in Removal |-> [stage |-> "none", of |-> {}, read |-> {}]]
    /\ granting = {} /\ granted = [s \in Session |-> 0]
    /\ over = FALSE /\ lost = FALSE /\ late = {}

-----------------------------------------------------------------------------
(* The list and the sessions that follow it                                *)

\* Mutant of Follows: what has left the list is dropped, not disposed.
FollowsLeaking(list) ==
    /\ live' = (live \cap list) \cup (list \ live)
    /\ disposed' = disposed \ (list \ live)

\* The subscription: what left the list is released and disposed, what is new
\* in it gets a live session.
Follows(list) ==
    /\ live' = list
    /\ disposed' = (disposed \cup (live \ list)) \ (list \ live)

\* The second half of mutate: a list that has not changed is not written.
Writes(read, list) ==
    IF list = read THEN UNCHANGED <<listVars, lost>>
    ELSE stored' = list /\ Follows(list) /\ lost' = (lost \/ stored # read)

-----------------------------------------------------------------------------
(* persistAndNotify (auth/impl.ts)                                         *)

AddStage(s, stage, read) == adding' = [adding EXCEPT ![s] = [stage |-> stage, read |-> read]]

\* Mutant of Persist: the session is listed before its secrets are written.
PersistLate(s) ==
    /\ adding[s].stage = "none"
    /\ AddStage(s, "written", {})
    /\ UNCHANGED <<listVars, storeVars, removing, over, lost>>

\* The secrets first.
Persist(s) ==
    /\ adding[s].stage = "none"
    /\ secrets' = secrets \cup {s} /\ AddStage(s, "written", {})
    /\ UNCHANGED <<listVars, grants, granting, granted, late, removing, over, lost>>

AddReads(s) ==
    /\ adding[s].stage = "written" /\ AddStage(s, "read", stored)
    /\ UNCHANGED <<listVars, storeVars, removing, over, lost>>

AddWrites(s) ==
    /\ adding[s].stage = "read" /\ AddStage(s, "done", {})
    /\ Writes(adding[s].read, adding[s].read \cup {s})
    /\ UNCHANGED <<storeVars, removing, over>>

-----------------------------------------------------------------------------
(* disconnect, forget and Disconnected                                     *)

RemoveStage(r, stage, of, read) ==
    removing' = [removing EXCEPT ![r] = [stage |-> stage, of |-> of, read |-> read]]

\* disconnect hands its message to a session of its own; forget does not, and
\* a wallet's Disconnected comes through a live session.  The message sent, or
\* not, purgeSession reads the list.
BeginRemoval(r, s) ==
    /\ removing[r].stage = "none" /\ adding[s].stage = "done"
    /\ RemoveStage(r, "asked", {s}, {})
    /\ UNCHANGED <<listVars, storeVars, adding, over, lost>>

RemoveReads(r) ==
    /\ removing[r].stage = "asked" /\ RemoveStage(r, "read", removing[r].of, stored)
    /\ UNCHANGED <<listVars, storeVars, adding, over, lost>>

RemoveWrites(r) ==
    /\ removing[r].stage = "read" /\ RemoveStage(r, "filtered", removing[r].of, {})
    /\ Writes(removing[r].read, removing[r].read \ removing[r].of)
    /\ UNCHANGED <<storeVars, adding, over>>

\* Mutant of Purges: the secrets stay.
PurgesGrants(r) ==
    /\ removing[r].stage = "filtered" /\ RemoveStage(r, "done", removing[r].of, {})
    /\ grants' = grants \ removing[r].of
    /\ UNCHANGED <<listVars, secrets, granting, granted, late, adding, over, lost>>

\* Then the secrets, the allowances and the log of processed messages go.
Purges(r) ==
    /\ removing[r].stage = "filtered" /\ RemoveStage(r, "done", removing[r].of, {})
    /\ secrets' = secrets \ removing[r].of /\ grants' = grants \ removing[r].of
    /\ UNCHANGED <<listVars, granting, granted, late, adding, over, lost>>

-----------------------------------------------------------------------------
(* A slot key of a session (allowance/impl.ts)                             *)

\* The wallet has allocated it, through a live session: the entries are read,
GrantReads(s) ==
    /\ s \in live \ disposed /\ s \notin granting /\ granted[s] < MaxGrants
    /\ granting' = granting \cup {s} /\ granted' = [granted EXCEPT ![s] = @ + 1]
    /\ UNCHANGED <<listVars, secrets, grants, late, adding, removing, over, lost>>

\* and written with the new one, whatever has become of the session.
GrantWrites(s) ==
    /\ s \in granting /\ granting' = granting \ {s}
    /\ grants' = grants \cup {s}
    /\ late' = IF \E r \in Removal : removing[r].of = {s} /\ removing[r].stage = "done" THEN late \cup {s} ELSE late
    /\ UNCHANGED <<listVars, secrets, granted, adding, removing, over, lost>>

\* The manager disposes what is live; it goes on following the list.
DisposeManager ==
    /\ ~over /\ over' = TRUE /\ disposed' = disposed \cup live
    /\ UNCHANGED <<stored, live, storeVars, adding, removing, lost>>

SessionsNext ==
    \/ \E s \in Session : Persist(s) \/ AddReads(s) \/ AddWrites(s) \/ GrantReads(s) \/ GrantWrites(s)
    \/ \E r \in Removal : RemoveReads(r) \/ RemoveWrites(r) \/ Purges(r) \/ \E s \in Session : BeginRemoval(r, s)
    \/ DisposeManager

SessionsSpec == SessionsInit /\ [][SessionsNext]_sessionsVars

-----------------------------------------------------------------------------
(* Properties                                                              *)

SessionsTypeOK ==
    /\ stored \cup secrets \cup grants \cup live \cup disposed \cup granting \cup late \subseteq Session
    /\ \A r \in Removal : removing[r].stage \in {"none", "asked", "read", "filtered", "done"}

Removed(s) == \E r \in Removal : removing[r].of = {s} /\ removing[r].stage = "done"

\* The live sessions are those of the list, in whatever order additions and
\* removals interleave; each has its object, and one that left the list has
\* none, until the manager is disposed.
LiveFollowsTheList ==
    /\ live = stored
    /\ ~over => disposed \cap live = {} /\ \A s \in Session : Removed(s) => s \in live \cup disposed

\* A listed session can prove itself, and one that was removed leaves nothing
\* behind: not when two mutations of the list overlapped, the later write of
\* which brings a removed session back or drops a new one, nor the slot key
\* that was on its way.
ListAndSecretsAgree ==
    /\ ~lost => stored \subseteq secrets
    /\ ~lost => \A s \in Session : Removed(s) => s \notin stored \cup secrets
    /\ \A s \in Session : Removed(s) => s \notin grants \ late

\* The list, what a session needs to work and what runs for it are one.
SessionsAgree == SessionsTypeOK /\ LiveFollowsTheList /\ ListAndSecretsAgree
=============================================================================
