--------------------------- MODULE RemotesProofs ----------------------------
(* What a host keeps with the parties far from it, for any number of them:    *)
(* that the sessions with paired wallets, the list of sessions and what is    *)
(* stored for them agree, for any removals and slot keys; that an abort       *)
(* reaches the pairing the caller waits for, for any answers and attempts;    *)
(* that a wallet's message is handled once, for any messages and deliveries,  *)
(* and its calls wait in one line, which an abort empties; that the watchers  *)
(* of an account see what the chain says of it; that a finished download is   *)
(* the file, for any bytes, chunk size and losses; that listeners share one   *)
(* feed of statements, whoever joins or leaves; and that subscriptions over a *)
(* connection that drops are replayed, for any number of them and of drops.   *)
EXTENDS SsoSessions, SsoPairing, SsoRequests, IdentityWatch, FileHandoff, StatementFeed, SubscriptionReplay,
        Integers, SequenceTheorems, FiniteSetTheorems, NaturalsInduction, WellFoundedInduction, TLAPS

(* What inductiveness adds: whom a list, read or stored, may name, what a     *)
(* removal is of, and that a session filtered from the list stays out of it.  *)

Shapes ==
    /\ stored \in SUBSET Session /\ secrets \in SUBSET Session /\ grants \in SUBSET Session
    /\ live \in SUBSET Session /\ disposed \in SUBSET Session
    /\ granting \in SUBSET Session /\ late \in SUBSET Session
    /\ adding \in [Session -> [stage : {"none", "written", "read", "done"}, read : SUBSET Session]]
    /\ removing \in [Removal -> [stage : {"none", "asked", "read", "filtered", "done"},
                                of : SUBSET Session, read : SUBSET Session]]
    /\ over \in BOOLEAN /\ lost \in BOOLEAN

Done(s) == adding[s].stage = "done"

Listed ==
    /\ \A s \in stored : Done(s)
    /\ \A t \in Session : \A s \in adding[t].read : Done(s)
    /\ \A r \in Removal : \A s \in removing[r].read : Done(s)

Removals ==
    \A r \in Removal :
      \/ removing[r].stage = "none" /\ removing[r].of = {}
      \/ removing[r].stage # "none" /\ \E s \in Session : removing[r].of = {s} /\ Done(s)

Filtered(r) == removing[r].stage \in {"filtered", "done"}

StaysOut ==
    ~lost => \A r \in Removal : \A s \in removing[r].of :
      /\ Filtered(r) => s \notin stored
      /\ removing[r].stage = "read" /\ s \notin removing[r].read => s \notin stored

Followed ==
    /\ live = stored
    /\ ~over => disposed \cap live = {}
    /\ \A s \in Session : Done(s) => s \in live \cup disposed

Provable ==
    /\ \A s \in Session : adding[s].stage \in {"written", "read"} => s \in secrets
    /\ ~lost => stored \subseteq secrets

Purged ==
    \A r \in Removal : removing[r].stage = "done" =>
      \A s \in removing[r].of : s \notin secrets /\ s \notin grants \ late

SessionsIInv == Shapes /\ Listed /\ Removals /\ StaysOut /\ Followed /\ Provable /\ Purged

-----------------------------------------------------------------------------

LEMMA SessionsInitIInv == SessionsInit => SessionsIInv
<1> SUFFICES ASSUME SessionsInit PROVE SessionsIInv
  OBVIOUS
<1>1. Shapes
  BY DEF SessionsInit, Shapes
<1>2. Listed
  BY DEF SessionsInit, Listed
<1>3. Removals
  BY DEF SessionsInit, Removals
<1>4. StaysOut
  BY DEF SessionsInit, StaysOut, Filtered
<1>5. Followed
  BY DEF SessionsInit, Followed, Done
<1>6. Provable
  BY DEF SessionsInit, Provable
<1>7. Purged
  BY DEF SessionsInit, Purged
<1> QED BY <1>1, <1>2, <1>3, <1>4, <1>5, <1>6, <1>7 DEF SessionsIInv

\* Writing a list keeps the live sessions with it.
LEMMA WritesFollows ==
    ASSUME Shapes, Followed, NEW read \in SUBSET Session, NEW list \in SUBSET Session,
           Writes(read, list), UNCHANGED over
    PROVE  /\ stored' \in SUBSET Session /\ live' \in SUBSET Session /\ disposed' \in SUBSET Session
           /\ lost' \in BOOLEAN
           /\ live' = stored' /\ (~over' => disposed' \cap live' = {})
           /\ live \cup disposed \subseteq live' \cup disposed'
           /\ ~lost' => ~lost /\ (stored' = stored \/ (stored = read /\ stored' = list))
           /\ stored' = stored \/ stored' = list
           /\ list # read => stored' = list
           /\ list = read => stored' = stored
<1>1. CASE list = read
  BY <1>1 DEF Writes, listVars, Shapes, Followed
<1>2. CASE list # read
  <2>1. /\ stored' = list /\ live' = list
        /\ disposed' = (disposed \cup (live \ list)) \ (list \ live)
        /\ lost' = (lost \/ stored # read)
    BY <1>2 DEF Writes, Follows
  <2> QED BY <1>2, <2>1 DEF Shapes, Followed
<1> QED BY <1>1, <1>2

-----------------------------------------------------------------------------
(* One lemma per step that writes the list, and one for all others.          *)

LEMMA AddWritesStep ==
    ASSUME SessionsIInv, NEW s \in Session, AddWrites(s)
    PROVE  SessionsIInv'
<1> DEFINE read == adding[s].read
           list == read \cup {s}
<1>1. /\ adding[s].stage = "read"
      /\ adding' = [adding EXCEPT ![s] = [stage |-> "done", read |-> {}]]
      /\ Writes(read, list) /\ UNCHANGED <<storeVars, removing, over>>
  BY DEF AddWrites, AddStage
<1>2. read \in SUBSET Session /\ list \in SUBSET Session /\ (\A x \in read : Done(x)) /\ ~Done(s)
  BY <1>1 DEF SessionsIInv, Shapes, Listed, Done
<1>3. s \notin read /\ list # read
  BY <1>2
<1>4. /\ \A x \in Session : Done(x) => Done(x)'
      /\ Done(s)'
      /\ \A x \in Session : x # s => adding'[x] = adding[x]
      /\ adding'[s].stage = "done" /\ adding'[s].read = {}
  BY <1>1 DEF SessionsIInv, Shapes, Done
<1> HIDE DEF read, list
<1>5. /\ stored' \in SUBSET Session /\ live' \in SUBSET Session /\ disposed' \in SUBSET Session
      /\ lost' \in BOOLEAN
      /\ live' = stored' /\ (~over' => disposed' \cap live' = {})
      /\ live \cup disposed \subseteq live' \cup disposed'
      /\ ~lost' => ~lost /\ (stored' = stored \/ (stored = read /\ stored' = list))
      /\ stored' = list
  BY <1>1, <1>2, <1>3, WritesFollows DEF SessionsIInv
<1>6. \A x \in list : x \in read \/ x = s
  BY DEF list
<1>7. Shapes'
  BY <1>1, <1>5 DEF SessionsIInv, Shapes, storeVars
<1>8. Listed'
  BY <1>1, <1>2, <1>4, <1>5, <1>6, <1>7 DEF SessionsIInv, Listed, Shapes
<1>9. Removals'
  BY <1>1, <1>4 DEF SessionsIInv, Removals
<1>10. ~lost' => stored' \subseteq stored \cup {s}
  BY <1>5, <1>6
<1>11. StaysOut'
  <2> SUFFICES ASSUME ~lost', NEW r \in Removal, NEW x \in removing[r].of
               PROVE  /\ Filtered(r) => x \notin stored'
                      /\ removing[r].stage = "read" /\ x \notin removing[r].read => x \notin stored'
    BY <1>1 DEF StaysOut, Filtered
  <2>1. x # s
    BY <1>2 DEF SessionsIInv, Removals
  <2>2. ~lost
    BY <1>5
  <2> QED BY <1>10, <2>1, <2>2 DEF SessionsIInv, StaysOut
<1>12. Followed'
  <2>1. ASSUME NEW x \in Session, Done(x)' PROVE x \in live' \cup disposed'
    <3>1. CASE x = s
      BY <1>5, <3>1 DEF list
    <3>2. CASE x # s
      BY <1>4, <1>5, <2>1, <3>2 DEF SessionsIInv, Followed, Done
    <3> QED BY <3>1, <3>2
  <2> QED BY <1>5, <2>1 DEF Followed
<1>13. Provable'
  <2>1. s \in secrets
    BY <1>1 DEF SessionsIInv, Provable
  <2> QED BY <1>1, <1>4, <1>5, <1>10, <2>1 DEF SessionsIInv, Provable, storeVars
<1>14. Purged'
  BY <1>1 DEF SessionsIInv, Purged, storeVars
<1> QED BY <1>7, <1>8, <1>9, <1>11, <1>12, <1>13, <1>14 DEF SessionsIInv

LEMMA RemoveWritesStep ==
    ASSUME SessionsIInv, NEW r \in Removal, RemoveWrites(r)
    PROVE  SessionsIInv'
<1> DEFINE read == removing[r].read
           of == removing[r].of
           list == read \ of
<1>1. /\ removing[r].stage = "read"
      /\ removing' = [removing EXCEPT ![r] = [stage |-> "filtered", of |-> of, read |-> {}]]
      /\ Writes(read, list) /\ UNCHANGED <<storeVars, adding, over>>
  BY DEF RemoveWrites, RemoveStage
<1>2. read \in SUBSET Session /\ of \in SUBSET Session /\ list \in SUBSET Session /\ (\A x \in read : Done(x))
  BY DEF SessionsIInv, Shapes, Listed
<1>3. \E s \in Session : of = {s} /\ Done(s)
  BY <1>1 DEF SessionsIInv, Removals
<1>4. /\ \A q \in Removal : q # r => removing'[q] = removing[q]
      /\ removing'[r].stage = "filtered" /\ removing'[r].of = of /\ removing'[r].read = {}
  BY <1>1 DEF SessionsIInv, Shapes
<1>5. list = read => of \cap read = {}
  OBVIOUS
<1>6. ~lost => \A x \in of : x \notin read => x \notin stored
  BY <1>1 DEF SessionsIInv, StaysOut
<1>7. \A x \in list : x \in read /\ x \notin of
  OBVIOUS
<1> HIDE DEF read, of, list
<1>8. /\ stored' \in SUBSET Session /\ live' \in SUBSET Session /\ disposed' \in SUBSET Session
      /\ lost' \in BOOLEAN
      /\ live' = stored' /\ (~over' => disposed' \cap live' = {})
      /\ live \cup disposed \subseteq live' \cup disposed'
      /\ ~lost' => ~lost /\ (stored' = stored \/ (stored = read /\ stored' = list))
      /\ stored' = stored \/ stored' = list
      /\ list # read => stored' = list
      /\ list = read => stored' = stored
  BY <1>1, <1>2, WritesFollows DEF SessionsIInv
<1>9. \A x \in Session : Done(x)' <=> Done(x)
  BY <1>1 DEF Done
<1>10. Shapes'
  BY <1>1, <1>2, <1>8 DEF SessionsIInv, Shapes, storeVars
<1>11. Listed'
  <2>1. \A x \in stored' : Done(x)
    BY <1>2, <1>7, <1>8 DEF SessionsIInv, Listed
  <2>2. \A q \in Removal : \A x \in removing'[q].read : Done(x)
    BY <1>4 DEF SessionsIInv, Listed
  <2> QED BY <1>1, <2>1, <2>2 DEF SessionsIInv, Listed, Done
<1>12. Removals'
  BY <1>1, <1>3, <1>4, <1>9 DEF SessionsIInv, Removals
<1>13. ~lost' => stored' \subseteq stored /\ \A x \in of : x \notin stored'
  BY <1>5, <1>6, <1>7, <1>8
<1>14. StaysOut'
  <2> SUFFICES ASSUME ~lost', NEW q \in Removal, NEW x \in removing'[q].of
               PROVE  /\ Filtered(q)' => x \notin stored'
                      /\ removing'[q].stage = "read" /\ x \notin removing'[q].read => x \notin stored'
    BY DEF StaysOut
  <2>1. ~lost
    BY <1>8
  <2>2. CASE q = r
    BY <1>4, <1>13, <2>2
  <2>3. CASE q # r
    BY <1>4, <1>13, <2>1, <2>3 DEF SessionsIInv, StaysOut, Filtered
  <2> QED BY <2>2, <2>3
<1>15. Followed'
  BY <1>8, <1>9 DEF SessionsIInv, Followed
<1>16. Provable'
  BY <1>1, <1>8, <1>13 DEF SessionsIInv, Provable, storeVars
<1>17. Purged'
  BY <1>1, <1>4 DEF SessionsIInv, Purged, storeVars
<1> QED BY <1>10, <1>11, <1>12, <1>14, <1>15, <1>16, <1>17 DEF SessionsIInv

LEMMA PersistStep ==
    ASSUME SessionsIInv, NEW s \in Session, Persist(s)
    PROVE  SessionsIInv'
<1>1. /\ adding[s].stage = "none" /\ secrets' = secrets \cup {s}
      /\ adding' = [adding EXCEPT ![s] = [stage |-> "written", read |-> {}]]
      /\ UNCHANGED <<stored, live, disposed, grants, granting, late, removing, over, lost>>
  BY DEF Persist, AddStage, listVars
<1>2. /\ \A x \in Session : x # s => adding'[x] = adding[x]
      /\ adding'[s].stage = "written" /\ adding'[s].read = {}
      /\ \A x \in Session : Done(x)' <=> Done(x)
  BY <1>1 DEF SessionsIInv, Shapes, Done
<1>3. Shapes'
  BY <1>1 DEF SessionsIInv, Shapes
<1>4. Listed' /\ Removals'
  BY <1>1, <1>2, <1>3 DEF SessionsIInv, Shapes, Listed, Removals
<1>5. StaysOut' /\ Followed' /\ Provable'
  BY <1>1, <1>2 DEF SessionsIInv, Shapes, StaysOut, Filtered, Followed, Provable
<1>6. Purged'
  <2>1. \A r \in Removal : removing[r].stage = "done" => s \notin removing[r].of
    BY <1>1 DEF SessionsIInv, Removals, Done
  <2> QED BY <1>1, <2>1 DEF SessionsIInv, Purged
<1> QED BY <1>3, <1>4, <1>5, <1>6 DEF SessionsIInv

LEMMA AddReadsStep ==
    ASSUME SessionsIInv, NEW s \in Session, AddReads(s)
    PROVE  SessionsIInv'
<1>1. /\ adding[s].stage = "written"
      /\ adding' = [adding EXCEPT ![s] = [stage |-> "read", read |-> stored]]
      /\ UNCHANGED <<stored, live, disposed, secrets, grants, granting, late, removing, over,
                     lost>>
  BY DEF AddReads, AddStage, listVars, storeVars
<1>2. /\ \A x \in Session : x # s => adding'[x] = adding[x]
      /\ adding'[s].stage = "read" /\ adding'[s].read = stored
      /\ \A x \in Session : Done(x)' <=> Done(x)
  BY <1>1 DEF SessionsIInv, Shapes, Done
<1>3. Shapes'
  BY <1>1 DEF SessionsIInv, Shapes
<1>4. Listed' /\ Removals'
  BY <1>1, <1>2, <1>3 DEF SessionsIInv, Shapes, Listed, Removals
<1>5. StaysOut' /\ Followed' /\ Provable' /\ Purged'
  BY <1>1, <1>2 DEF SessionsIInv, Shapes, StaysOut, Filtered, Followed, Provable, Purged
<1> QED BY <1>3, <1>4, <1>5 DEF SessionsIInv

\* A removal that does not write the list: it begins, or it reads.
LEMMA RemovalStep ==
    ASSUME SessionsIInv, NEW r \in Removal, (\E s \in Session : BeginRemoval(r, s)) \/ RemoveReads(r)
    PROVE  SessionsIInv'
<1>1. PICK stage \in {"asked", "read"}, of \in SUBSET Session, read \in SUBSET Session :
        /\ removing' = [removing EXCEPT ![r] = [stage |-> stage, of |-> of, read |-> read]]
        /\ removing[r].stage \in {"none", "asked"}
        /\ \E s \in Session : of = {s} /\ Done(s)
        /\ read \subseteq stored /\ (stage = "read" => read = stored)
        /\ UNCHANGED <<listVars, storeVars, adding, over, lost>>
  <2>1. ASSUME NEW s \in Session, BeginRemoval(r, s)
        PROVE  /\ removing' = [removing EXCEPT ![r] = [stage |-> "asked", of |-> {s}, read |-> {}]]
               /\ removing[r].stage = "none" /\ Done(s) /\ UNCHANGED <<listVars, storeVars, adding,
                                                                       over, lost>>
    BY <2>1 DEF BeginRemoval, RemoveStage, Done
  <2>2. ASSUME RemoveReads(r)
        PROVE  /\ removing' = [removing EXCEPT ![r] = [stage |-> "read", of |-> removing[r].of, read |-> stored]]
               /\ removing[r].stage = "asked" /\ UNCHANGED <<listVars, storeVars, adding, over,
                                                             lost>>
               /\ \E s \in Session : removing[r].of = {s} /\ Done(s)
    BY <2>2 DEF RemoveReads, RemoveStage, SessionsIInv, Removals
  <2>3. stored \in SUBSET Session /\ removing[r].of \in SUBSET Session
    BY DEF SessionsIInv, Shapes
  <2>4. CASE RemoveReads(r)
    BY <2>2, <2>3, <2>4
  <2>5. CASE \E s \in Session : BeginRemoval(r, s)
    <3>1. PICK s \in Session : BeginRemoval(r, s)
      BY <2>5
    <3>2. {s} \in SUBSET Session /\ {} \in SUBSET Session /\ {} \subseteq stored /\ "asked" # "read"
      OBVIOUS
    <3> QED BY <2>1, <3>1, <3>2
  <2> QED BY <2>4, <2>5
<1>2. /\ \A q \in Removal : q # r => removing'[q] = removing[q]
      /\ removing'[r].stage = stage /\ removing'[r].of = of /\ removing'[r].read = read
  BY <1>1 DEF SessionsIInv, Shapes
<1>3. /\ UNCHANGED <<stored, live, disposed, secrets, grants, granting, late, adding, over, lost>>
      /\ \A x \in Session : Done(x)' <=> Done(x)
  BY <1>1 DEF listVars, storeVars, Done
<1>4. Shapes'
  BY <1>1, <1>3 DEF SessionsIInv, Shapes
<1>5. Listed' /\ Removals'
  BY <1>1, <1>2, <1>3 DEF SessionsIInv, Shapes, Listed, Removals
<1>6. StaysOut'
  BY <1>1, <1>2, <1>3 DEF SessionsIInv, StaysOut, Filtered
<1>7. Followed' /\ Provable' /\ Purged'
  BY <1>1, <1>2, <1>3 DEF SessionsIInv, Followed, Provable, Purged
<1> QED BY <1>4, <1>5, <1>6, <1>7 DEF SessionsIInv

LEMMA PurgesStep ==
    ASSUME SessionsIInv, NEW r \in Removal, Purges(r)
    PROVE  SessionsIInv'
<1> DEFINE of == removing[r].of
<1>1. /\ removing[r].stage = "filtered"
      /\ removing' = [removing EXCEPT ![r] = [stage |-> "done", of |-> of, read |-> {}]]
      /\ secrets' = secrets \ of /\ grants' = grants \ of
      /\ UNCHANGED <<stored, live, disposed, granting, late, adding, over, lost>>
  BY DEF Purges, RemoveStage, listVars
<1>2. (\E s \in Session : of = {s} /\ Done(s)) /\ of \in SUBSET Session
  BY <1>1 DEF SessionsIInv, Removals, Shapes
<1>3. /\ \A q \in Removal : q # r => removing'[q] = removing[q]
      /\ removing'[r].stage = "done" /\ removing'[r].of = of /\ removing'[r].read = {}
  BY <1>1 DEF SessionsIInv, Shapes
<1>4. ~lost => \A x \in of : x \notin stored
  BY <1>1 DEF SessionsIInv, StaysOut, Filtered
<1> HIDE DEF of
<1>5. \A x \in Session : Done(x)' <=> Done(x)
  BY <1>1 DEF Done
<1>6. Shapes'
  BY <1>1, <1>2 DEF SessionsIInv, Shapes
<1>7. Listed' /\ Removals'
  BY <1>1, <1>2, <1>3, <1>5 DEF SessionsIInv, Shapes, Listed, Removals
<1>8. StaysOut' /\ Followed'
  BY <1>1, <1>3, <1>4, <1>5 DEF SessionsIInv, StaysOut, Filtered, Followed
<1>9. Provable'
  <2>1. \A s \in of : Done(s)
    BY <1>2
  <2> QED BY <1>1, <1>4, <2>1 DEF SessionsIInv, Provable, Done
<1>10. Purged'
  BY <1>1, <1>3 DEF SessionsIInv, Purged
<1> QED BY <1>6, <1>7, <1>8, <1>9, <1>10 DEF SessionsIInv

LEMMA GrantStep ==
    ASSUME SessionsIInv, NEW s \in Session, GrantReads(s) \/ GrantWrites(s)
    PROVE  SessionsIInv'
<1>1. /\ UNCHANGED <<stored, live, disposed, secrets, adding, removing, over, lost>>
      /\ granting' \in SUBSET Session /\ grants' \in SUBSET Session /\ late' \in SUBSET Session
  BY DEF GrantReads, GrantWrites, listVars, SessionsIInv, Shapes
<1>2. \A r \in Removal : removing[r].stage = "done" =>
        \A x \in removing[r].of : x \notin grants \ late => x \notin grants' \ late'
  <2>1. CASE GrantReads(s)
    BY <2>1 DEF GrantReads
  <2>2. CASE GrantWrites(s)
    <3>1. \A r \in Removal : removing[r].stage = "done" /\ s \in removing[r].of => removing[r].of = {s}
      BY DEF SessionsIInv, Removals
    <3> QED BY <2>2, <3>1 DEF GrantWrites
  <2> QED BY <2>1, <2>2
<1>3. Shapes' /\ Listed' /\ Removals'
  BY <1>1 DEF SessionsIInv, Shapes, Listed, Removals, Done
<1>4. StaysOut' /\ Followed' /\ Provable'
  BY <1>1 DEF SessionsIInv, StaysOut, Filtered, Followed, Provable, Done
<1>5. Purged'
  BY <1>1, <1>2 DEF SessionsIInv, Purged
<1> QED BY <1>3, <1>4, <1>5 DEF SessionsIInv

LEMMA DisposeStep ==
    ASSUME SessionsIInv, DisposeManager \/ UNCHANGED sessionsVars
    PROVE  SessionsIInv'
<1>1. /\ UNCHANGED <<stored, live, secrets, grants, granting, late, adding, removing, lost>>
      /\ \/ over' = TRUE /\ disposed' = disposed \cup live
         \/ over' = over /\ disposed' = disposed
  BY DEF DisposeManager, storeVars, sessionsVars, listVars
<1>2. Shapes' /\ Listed' /\ Removals'
  BY <1>1 DEF SessionsIInv, Shapes, Listed, Removals, Done
<1>3. StaysOut' /\ Followed' /\ Provable' /\ Purged'
  BY <1>1 DEF SessionsIInv, StaysOut, Filtered, Followed, Provable, Purged, Done
<1> QED BY <1>2, <1>3 DEF SessionsIInv

-----------------------------------------------------------------------------

\* The strengthened invariant holds of every behaviour of the manager.
THEOREM SessionsInvariant == SessionsSpec => []SessionsIInv
<1>1. SessionsInit => SessionsIInv
  BY SessionsInitIInv
<1>2. SessionsIInv /\ [SessionsNext]_sessionsVars => SessionsIInv'
  BY PersistStep, AddReadsStep, AddWritesStep, RemovalStep, RemoveWritesStep, PurgesStep, GrantStep, DisposeStep
     DEF SessionsNext
<1> QED BY <1>1, <1>2, PTL DEF SessionsSpec

\* The list, the live sessions and what is stored for them agree, however
\* pairings, removals, slot keys and the manager's disposal interleave
\* (sessionManager/impl.ts, fieldView.ts:71).
THEOREM SessionsAlwaysAgree == SessionsSpec => []SessionsAgree
<1>1. SessionsIInv => SessionsAgree
  <2> SUFFICES ASSUME SessionsIInv PROVE SessionsAgree
    OBVIOUS
  <2>1. \A s \in Session : Removed(s) => \E r \in Removal :
          removing[r].stage = "done" /\ removing[r].of = {s} /\ Done(s)
    BY DEF SessionsIInv, Removals, Removed
  <2>2. SessionsTypeOK
    BY DEF SessionsIInv, Shapes, SessionsTypeOK
  <2>3. LiveFollowsTheList
    BY <2>1 DEF SessionsIInv, Followed, LiveFollowsTheList
  <2>4. ListAndSecretsAgree
    BY <2>1 DEF SessionsIInv, Provable, Purged, StaysOut, Filtered, ListAndSecretsAgree
  <2> QED BY <2>2, <2>3, <2>4 DEF SessionsAgree
<1> QED BY <1>1, SessionsInvariant, PTL

-----------------------------------------------------------------------------
(* Pairing a wallet.                                                         *)

FlowRecord ==
    [stage : {"loading", "pairing", "succeeded", "null", "session", "error", "done"},
     state : {"submitted", "pending", "success", "failed"},
     last : Nat, aborted : BOOLEAN, stopped : BOOLEAN]

PairingTypes ==
    /\ flows \in Seq(FlowRecord) /\ answers \in Seq(Answer)
    /\ result \in 0..Len(flows) /\ handle \in 0..Len(flows) /\ shownBy \in 0..Len(flows)
    /\ marker \in 0..Len(answers)
    /\ \A i \in 1..Len(flows) : flows[i].last \in 0..Len(answers)
    /\ sessions \subseteq 1..Len(flows)
    /\ crossed \in BOOLEAN

Pairing(i) == flows[i].stage \in {"loading", "pairing"} /\ ~flows[i].aborted

\* A flow that was not aborted and has not ended is the youngest, and the one
\* both calls know of; the status is its own while it pairs.
YoungestInReach ==
    ~crossed => \A i \in 1..Len(flows) :
      /\ flows[i].stage # "done" /\ ~flows[i].aborted => i = Len(flows) /\ result = i /\ handle = i
      /\ Pairing(i) => shownBy = i

\* An abort that stops a flow leaves it nothing to persist.
Stops ==
    \A i \in 1..Len(flows) :
      /\ flows[i].stopped => flows[i].aborted
      /\ flows[i].stage = "null" => flows[i].aborted
      /\ flows[i].stage \in {"succeeded", "session"} => flows[i].state = "success" /\ ~flows[i].stopped
      /\ flows[i].stage = "session" => i \in sessions

StoresItsOwn ==
    /\ \A i \in sessions :
         /\ flows[i].state = "success" /\ ~flows[i].stopped
         /\ flows[i].stage \in {"session", "error", "done"}
    /\ progress = "finished" => shownBy \in sessions

PairingInv == PairingTypes /\ YoungestInReach /\ Stops /\ StoresItsOwn

LEMMA InitPairingInv == PairingInit => PairingInv
<1> SUFFICES ASSUME PairingInit PROVE PairingInv
  OBVIOUS
<1>1. /\ flows = <<>> /\ answers = <<>> /\ result = 0 /\ handle = 0 /\ shownBy = 0 /\ marker = 0
      /\ sessions = {} /\ crossed = FALSE /\ progress = "none" /\ Len(<<>>) = 0
      /\ <<>> \in Seq(FlowRecord) /\ <<>> \in Seq(Answer)
  BY DEF PairingInit
<1>2. PairingTypes
  <2>1. flows \in Seq(FlowRecord) /\ answers \in Seq(Answer) /\ Len(flows) = 0 /\ Len(answers) = 0
    BY <1>1
  <2>2. result \in 0..0 /\ handle \in 0..0 /\ shownBy \in 0..0 /\ marker \in 0..0
    BY <1>1
  <2>3. crossed \in BOOLEAN /\ sessions = {}
    BY <1>1
  <2>4. \A i \in 1..0 : FALSE
    OBVIOUS
  <2> QED BY <2>1, <2>2, <2>3, <2>4 DEF PairingTypes
<1>3. YoungestInReach /\ Stops /\ StoresItsOwn
  <2>1. \A i \in 1..Len(flows) : FALSE
    BY <1>1
  <2> QED BY <1>1, <2>1 DEF YoungestInReach, Stops, StoresItsOwn
<1> QED BY <1>2, <1>3 DEF PairingInv

\* What a step that changes one flow does to them all.
LEMMA FlowChanged ==
    ASSUME PairingTypes, NEW i \in 1..Len(flows), NEW x \in FlowRecord,
           flows' = [flows EXCEPT ![i] = x]
    PROVE  /\ flows' \in Seq(FlowRecord) /\ Len(flows') = Len(flows) /\ Len(flows) \in Nat
           /\ \A j \in 1..Len(flows) : flows'[j] = IF j = i THEN x ELSE flows[j]
BY DEF PairingTypes

LEMMA FlowRecords == PairingTypes =>
    /\ Len(flows) \in Nat /\ Len(answers) \in Nat
    /\ DOMAIN flows = 1..Len(flows) /\ DOMAIN answers = 1..Len(answers)
    /\ \A i \in 1..Len(flows) : flows[i] \in FlowRecord
    /\ \A n \in 1..Len(answers) : answers[n] \in Answer
BY LenProperties, ElementOfSeq DEF PairingTypes

\* A step that brings no flow back, and tells nobody.
LEMMA ReachKept ==
    ASSUME YoungestInReach, Len(flows') = Len(flows), UNCHANGED <<result, handle, shownBy,
                                                                  crossed>>,
           \A j \in 1..Len(flows) :
             /\ flows[j].aborted => flows'[j].aborted
             /\ flows[j].stage = "done" => flows'[j].stage = "done"
             /\ flows'[j].stage \in {"loading", "pairing"} => flows[j].stage \in {"loading", "pairing"}
    PROVE  YoungestInReach'
BY DEF YoungestInReach, Pairing

LEMMA AuthenticateKeeps == ASSUME PairingInv, Authenticate PROVE PairingInv'
<1> DEFINE x == [stage |-> "loading", state |-> "submitted", last |-> 0,
                 aborted |-> FALSE, stopped |-> FALSE]
           n == Len(flows) + 1
<1>1. PairingTypes /\ YoungestInReach /\ Stops /\ StoresItsOwn
  BY DEF PairingInv
<1>2. /\ result = 0 /\ flows' = Append(flows, x)
      /\ result' = n /\ handle' = n /\ progress' = "initial" /\ shownBy' = n
      /\ UNCHANGED <<answers, marker, sessions, crossed>>
  BY DEF Authenticate, Shows, answerVars
<1>3. /\ x \in FlowRecord /\ x.stage = "loading" /\ x.last = 0 /\ ~x.aborted /\ ~x.stopped
  BY DEF FlowRecord
<1> HIDE DEF x
<1>4. /\ flows' \in Seq(FlowRecord) /\ Len(flows') = n /\ Len(flows) \in Nat /\ flows'[n] = x
      /\ \A j \in 1..Len(flows) : flows'[j] = flows[j]
  BY <1>1, <1>2, <1>3, AppendProperties, LenProperties DEF PairingTypes
<1>5. PairingTypes'
  BY <1>1, <1>2, <1>3, <1>4, FlowRecords DEF PairingTypes
<1>6. YoungestInReach'
  <2>1. ~crossed => \A j \in 1..Len(flows) : flows[j].stage = "done" \/ flows[j].aborted
    BY <1>1, <1>2, <1>4 DEF YoungestInReach
  <2> QED BY <1>1, <1>2, <1>3, <1>4, <2>1 DEF YoungestInReach, Pairing
<1>7. Stops'
  BY <1>1, <1>2, <1>3, <1>4 DEF Stops
<1>8. StoresItsOwn'
  BY <1>1, <1>2, <1>4 DEF StoresItsOwn, PairingTypes
<1> QED BY <1>5, <1>6, <1>7, <1>8 DEF PairingInv

LEMMA LoadedKeeps == ASSUME PairingInv, NEW i, Loaded(i) PROVE PairingInv'
<1>1. PairingTypes /\ YoungestInReach /\ Stops /\ StoresItsOwn
  BY DEF PairingInv
<1>2. i \in 1..Len(flows) /\ flows[i].stage = "loading" /\ flows[i] \in FlowRecord
  BY <1>1, FlowRecords DEF Loaded, IsFlow
<1>3. UNCHANGED <<result, handle, answers, marker, sessions, crossed>>
  BY DEF Loaded, shownVars, answerVars
<1>4. CASE flows[i].aborted /\ flows' = [flows EXCEPT ![i].stage = "null"] /\ UNCHANGED shownVars
  <2> DEFINE x == [flows[i] EXCEPT !.stage = "null"]
  <2>1. /\ x \in FlowRecord /\ x.stage = "null" /\ x.aborted = flows[i].aborted /\ x.last = flows[i].last
        /\ x.stopped = flows[i].stopped /\ x.state = flows[i].state
    BY <1>2 DEF FlowRecord
  <2>2. flows' = [flows EXCEPT ![i] = x] /\ UNCHANGED <<progress, shownBy>>
    BY <1>4 DEF shownVars
  <2> HIDE DEF x
  <2>3. /\ flows' \in Seq(FlowRecord) /\ Len(flows') = Len(flows) /\ Len(flows) \in Nat
        /\ \A j \in 1..Len(flows) : flows'[j] = IF j = i THEN x ELSE flows[j]
    BY <1>1, <1>2, <2>1, <2>2, FlowChanged
  <2>4. PairingTypes'
    BY <1>1, <1>2, <1>3, <2>1, <2>2, <2>3 DEF PairingTypes
  <2>5. YoungestInReach'
    BY <1>1, <1>2, <1>3, <2>1, <2>2, <2>3, ReachKept
  <2>6. Stops'
    BY <1>1, <1>2, <1>3, <1>4, <2>1, <2>3 DEF Stops
  <2>7. StoresItsOwn'
    BY <1>1, <1>2, <1>3, <2>1, <2>2, <2>3 DEF StoresItsOwn, PairingTypes
  <2> QED BY <2>4, <2>5, <2>6, <2>7 DEF PairingInv
<1>5. CASE /\ ~flows[i].aborted /\ flows' = [flows EXCEPT ![i].stage = "pairing", ![i].last = marker]
           /\ Shows("pairing", i)
  <2> DEFINE x == [flows[i] EXCEPT !.stage = "pairing", !.last = marker]
  <2>1. /\ x \in FlowRecord /\ x.stage = "pairing" /\ x.aborted = flows[i].aborted /\ x.last = marker
        /\ x.stopped = flows[i].stopped /\ x.state = flows[i].state
    <3>1. marker \in Nat
      BY <1>1, FlowRecords DEF PairingTypes
    <3> QED BY <1>2, <3>1 DEF FlowRecord
  <2>2. flows' = [flows EXCEPT ![i] = x] /\ shownBy' = i /\ progress' = "pairing"
    BY <1>1, <1>2, <1>5 DEF Shows, PairingTypes
  <2> HIDE DEF x
  <2>3. /\ flows' \in Seq(FlowRecord) /\ Len(flows') = Len(flows) /\ Len(flows) \in Nat
        /\ \A j \in 1..Len(flows) : flows'[j] = IF j = i THEN x ELSE flows[j]
    BY <1>1, <1>2, <2>1, <2>2, FlowChanged
  <2>4. PairingTypes'
    BY <1>1, <1>2, <1>3, <2>1, <2>2, <2>3 DEF PairingTypes
  <2>5. YoungestInReach'
    <3>1. ~crossed => \A j \in 1..Len(flows) : j # i => flows[j].stage = "done" \/ flows[j].aborted
      BY <1>1, <1>2, <1>5 DEF YoungestInReach
    <3> QED BY <1>1, <1>2, <1>3, <1>5, <2>1, <2>2, <2>3, <3>1 DEF YoungestInReach, Pairing
  <2>6. Stops'
    BY <1>1, <1>2, <1>3, <2>1, <2>3 DEF Stops
  <2>7. StoresItsOwn'
    BY <1>1, <1>2, <1>3, <2>1, <2>2, <2>3 DEF StoresItsOwn, PairingTypes
  <2> QED BY <2>4, <2>5, <2>6, <2>7 DEF PairingInv
<1> QED BY <1>4, <1>5 DEF Loaded

LEMMA LoadFailsKeeps == ASSUME PairingInv, NEW i, LoadFails(i) PROVE PairingInv'
<1> DEFINE x == [flows[i] EXCEPT !.stage = "error"]
<1>1. PairingTypes /\ YoungestInReach /\ Stops /\ StoresItsOwn
  BY DEF PairingInv
<1>2. /\ i \in 1..Len(flows) /\ flows[i].stage = "loading" /\ flows[i] \in FlowRecord
      /\ flows' = [flows EXCEPT ![i] = x]
      /\ UNCHANGED <<result, handle, progress, shownBy, answers, marker, sessions, crossed>>
  BY <1>1, FlowRecords DEF LoadFails, IsFlow, shownVars, answerVars
<1>3. /\ x \in FlowRecord /\ x.stage = "error" /\ x.aborted = flows[i].aborted /\ x.last = flows[i].last
      /\ x.stopped = flows[i].stopped /\ x.state = flows[i].state
  BY <1>2 DEF FlowRecord
<1> HIDE DEF x
<1>4. /\ flows' \in Seq(FlowRecord) /\ Len(flows') = Len(flows) /\ Len(flows) \in Nat
      /\ \A j \in 1..Len(flows) : flows'[j] = IF j = i THEN x ELSE flows[j]
  BY <1>1, <1>2, <1>3, FlowChanged
<1>5. PairingTypes'
  BY <1>1, <1>2, <1>3, <1>4 DEF PairingTypes
<1>6. YoungestInReach'
  BY <1>1, <1>2, <1>3, <1>4, ReachKept
<1>7. Stops' /\ StoresItsOwn'
  BY <1>1, <1>2, <1>3, <1>4 DEF Stops, StoresItsOwn, PairingTypes
<1> QED BY <1>5, <1>6, <1>7 DEF PairingInv

LEMMA HandleKeeps == ASSUME PairingInv, NEW i, NEW n, Handle(i, n) PROVE PairingInv'
<1> DEFINE next == NextState(i, n)
           stage == CASE next = "success" -> "succeeded"
                      [] next = "failed" -> "error"
                      [] OTHER -> "pairing"
           x == [flows[i] EXCEPT !.last = n, !.state = next, !.stage = stage]
<1>1. PairingTypes /\ YoungestInReach /\ Stops /\ StoresItsOwn
  BY DEF PairingInv
<1>2. /\ i \in 1..Len(flows) /\ flows[i].stage = "pairing" /\ ~flows[i].aborted
      /\ flows[i] \in FlowRecord /\ n \in 1..Len(answers) /\ n \in Nat /\ answers[n] \in Answer
      /\ marker' = n /\ flows' = [flows EXCEPT ![i] = x]
      /\ \/ shownBy' = i /\ progress' = "pending"
         \/ UNCHANGED <<shownBy, progress>>
      /\ UNCHANGED <<result, handle, answers, sessions, crossed>>
  <2>1. /\ i \in DOMAIN flows /\ flows[i].stage = "pairing" /\ ~flows[i].aborted
        /\ n \in DOMAIN answers /\ marker' = n
        /\ UNCHANGED <<result, handle, answers, sessions, crossed>>
    BY DEF Handle, IsFlow, Handed
  <2>2. \/ shownBy' = i /\ progress' = "pending"
        \/ UNCHANGED <<shownBy, progress>>
    BY DEF Handle, Shows
  <2>3. flows' = [flows EXCEPT ![i].last = n, ![i].state = next, ![i].stage = stage]
    BY DEF Handle
  <2> HIDE DEF next, stage
  <2>4. flows' = [flows EXCEPT ![i] = x]
    BY <1>1, <2>1, <2>3 DEF PairingTypes
  <2>5. i \in 1..Len(flows) /\ n \in 1..Len(answers) /\ n \in Nat
    BY <1>1, <2>1, FlowRecords
  <2> QED BY <1>1, <2>1, <2>2, <2>4, <2>5, FlowRecords
<1>3. next \in {"submitted", "pending", "success", "failed"}
  BY <1>2 DEF NextState, Advance, Answer, FlowRecord
<1>4. stage \in {"succeeded", "error", "pairing"} /\ (stage = "succeeded" => next = "success")
  OBVIOUS
<1> HIDE DEF next, stage
<1>5. /\ x \in FlowRecord /\ x.stage = stage /\ x.aborted = flows[i].aborted /\ x.last = n
      /\ x.stopped = flows[i].stopped /\ x.state = next
  BY <1>2, <1>3, <1>4 DEF FlowRecord
<1> HIDE DEF x
<1>6. /\ flows' \in Seq(FlowRecord) /\ Len(flows') = Len(flows) /\ Len(flows) \in Nat
      /\ \A j \in 1..Len(flows) : flows'[j] = IF j = i THEN x ELSE flows[j]
  BY <1>1, <1>2, <1>5, FlowChanged
<1>7. PairingTypes'
  BY <1>1, <1>2, <1>5, <1>6, FlowRecords DEF PairingTypes
<1>8. YoungestInReach'
  <2>1. ~crossed => \A j \in 1..Len(flows) : j # i => flows[j].stage = "done" \/ flows[j].aborted
    BY <1>1, <1>2 DEF YoungestInReach
  <2>2. ~crossed => i = Len(flows) /\ result = i /\ handle = i /\ shownBy = i
    BY <1>1, <1>2 DEF YoungestInReach, Pairing
  <2> QED BY <1>2, <1>4, <1>5, <1>6, <2>1, <2>2, ZenonT(60) DEF YoungestInReach, Pairing
<1>9. Stops'
  BY <1>1, <1>2, <1>4, <1>5, <1>6 DEF Stops
<1>10. StoresItsOwn'
  BY <1>1, <1>2, <1>5, <1>6 DEF StoresItsOwn, PairingTypes
<1> QED BY <1>7, <1>8, <1>9, <1>10 DEF PairingInv

LEMMA PersistedKeeps == ASSUME PairingInv, NEW i, Persisted(i) PROVE PairingInv'
<1>1. PairingTypes /\ YoungestInReach /\ Stops /\ StoresItsOwn
  BY DEF PairingInv
<1>2. /\ i \in 1..Len(flows) /\ flows[i].stage = "succeeded" /\ flows[i] \in FlowRecord
      /\ UNCHANGED <<result, handle, progress, shownBy, answers, marker, crossed>>
  BY <1>1, FlowRecords DEF Persisted, IsFlow, shownVars, answerVars
<1>3. PICK x \in FlowRecord :
        /\ flows' = [flows EXCEPT ![i] = x]
        /\ x.aborted = flows[i].aborted /\ x.last = flows[i].last
        /\ x.stopped = flows[i].stopped /\ x.state = flows[i].state
        /\ \/ x.stage = "session" /\ sessions' = sessions \cup {i}
           \/ x.stage = "error" /\ sessions' \in {sessions, sessions \cup {i}}
  <2>1. CASE flows' = [flows EXCEPT ![i].stage = "session"] /\ sessions' = sessions \cup {i}
    <3> DEFINE x == [flows[i] EXCEPT !.stage = "session"]
    <3>1. /\ x \in FlowRecord /\ x.aborted = flows[i].aborted /\ x.last = flows[i].last
          /\ x.stopped = flows[i].stopped /\ x.state = flows[i].state /\ x.stage = "session"
      BY <1>2 DEF FlowRecord
    <3>2. flows' = [flows EXCEPT ![i] = x]
      BY <1>1, <1>2, <2>1 DEF PairingTypes
    <3> HIDE DEF x
    <3> QED BY <2>1, <3>1, <3>2
  <2>2. CASE /\ flows' = [flows EXCEPT ![i].stage = "error"]
             /\ sessions' \in {sessions, sessions \cup {i}}
    <3> DEFINE x == [flows[i] EXCEPT !.stage = "error"]
    <3>1. /\ x \in FlowRecord /\ x.aborted = flows[i].aborted /\ x.last = flows[i].last
          /\ x.stopped = flows[i].stopped /\ x.state = flows[i].state /\ x.stage = "error"
      BY <1>2 DEF FlowRecord
    <3>2. flows' = [flows EXCEPT ![i] = x]
      BY <1>1, <1>2, <2>2 DEF PairingTypes
    <3> HIDE DEF x
    <3> QED BY <2>2, <3>1, <3>2
  <2> QED BY <2>1, <2>2 DEF Persisted
<1>4. /\ flows' \in Seq(FlowRecord) /\ Len(flows') = Len(flows) /\ Len(flows) \in Nat
      /\ \A j \in 1..Len(flows) : flows'[j] = IF j = i THEN x ELSE flows[j]
  BY <1>1, <1>2, <1>3, FlowChanged
<1>5. PairingTypes'
  BY <1>1, <1>2, <1>3, <1>4 DEF PairingTypes
<1>6. YoungestInReach'
  BY <1>1, <1>2, <1>3, <1>4, ReachKept
<1>7. Stops'
  BY <1>1, <1>2, <1>3, <1>4 DEF Stops
<1>8. StoresItsOwn'
  <2>1. x.state = "success" /\ ~x.stopped
    BY <1>1, <1>2, <1>3 DEF Stops
  <2>2. sessions \subseteq 1..Len(flows) /\ sessions \subseteq sessions' /\ sessions' \subseteq sessions \cup {i}
    BY <1>1, <1>3 DEF PairingTypes
  <2>3. x.stage \in {"session", "error", "done"}
    BY <1>3
  <2>4. ASSUME NEW j \in sessions'
        PROVE  /\ flows'[j].state = "success" /\ ~flows'[j].stopped
               /\ flows'[j].stage \in {"session", "error", "done"}
    <3>1. CASE j = i
      BY <1>2, <1>4, <2>1, <2>3, <3>1
    <3>2. CASE j # i
      BY <1>1, <1>4, <2>2, <3>2 DEF StoresItsOwn
    <3> QED BY <3>1, <3>2
  <2> QED BY <1>1, <1>2, <2>2, <2>4 DEF StoresItsOwn
<1> QED BY <1>5, <1>6, <1>7, <1>8 DEF PairingInv

LEMMA EndedKeeps == ASSUME PairingInv, NEW i, Ended(i) PROVE PairingInv'
<1> DEFINE x == [flows[i] EXCEPT !.stage = "done"]
<1>1. PairingTypes /\ YoungestInReach /\ Stops /\ StoresItsOwn
  BY DEF PairingInv
<1>2. /\ i \in 1..Len(flows) /\ flows[i] \in FlowRecord
      /\ flows[i].stage \in {"null", "session", "error"}
      /\ flows' = [flows EXCEPT ![i] = x] /\ handle' = 0 /\ shownBy' = i
      /\ result' \in {result, 0}
      /\ progress' \in {"none", "finished", "pairingError"}
      /\ progress' = "finished" => flows[i].stage = "session"
      /\ crossed' \in BOOLEAN /\ (crossed => crossed')
      /\ flows[i].aborted /\ i < Len(flows) => crossed'
      /\ UNCHANGED <<answers, marker, sessions>>
  BY <1>1, FlowRecords DEF Ended, Shows, answerVars
<1>3. /\ x \in FlowRecord /\ x.stage = "done" /\ x.aborted = flows[i].aborted /\ x.last = flows[i].last
      /\ x.stopped = flows[i].stopped /\ x.state = flows[i].state
  BY <1>2 DEF FlowRecord
<1> HIDE DEF x
<1>4. /\ flows' \in Seq(FlowRecord) /\ Len(flows') = Len(flows) /\ Len(flows) \in Nat
      /\ \A j \in 1..Len(flows) : flows'[j] = IF j = i THEN x ELSE flows[j]
  BY <1>1, <1>2, <1>3, FlowChanged
<1>5. PairingTypes'
  BY <1>1, <1>2, <1>3, <1>4 DEF PairingTypes, FlowRecord
<1>6. YoungestInReach'
  <2>1. ASSUME ~crossed', NEW j \in 1..Len(flows), j # i
        PROVE  flows[j].stage = "done" \/ flows[j].aborted
    <3> SUFFICES ASSUME flows[j].stage # "done", ~flows[j].aborted
                 PROVE  FALSE
      OBVIOUS
    <3>1. ~crossed /\ j = Len(flows) /\ result = j
      BY <1>1, <1>2, <2>1 DEF YoungestInReach
    <3>2. CASE flows[i].aborted
      <4>1. i < Len(flows)
        <5>1. i \in 1..Len(flows) /\ Len(flows) \in Nat /\ i # Len(flows)
          BY <1>2, <1>4, <2>1, <3>1
        <5> QED BY <5>1
      <4> QED BY <1>2, <2>1, <3>2, <4>1
    <3>3. CASE ~flows[i].aborted
      BY <1>1, <1>2, <2>1, <3>1, <3>3 DEF YoungestInReach
    <3> QED BY <3>2, <3>3
  <2> QED BY <1>3, <1>4, <2>1 DEF YoungestInReach, Pairing
<1>7. Stops'
  BY <1>1, <1>2, <1>3, <1>4 DEF Stops
<1>8. StoresItsOwn'
  BY <1>1, <1>2, <1>3, <1>4 DEF Stops, StoresItsOwn, PairingTypes
<1> QED BY <1>5, <1>6, <1>7, <1>8 DEF PairingInv

LEMMA AbortKeeps == ASSUME PairingInv, AbortAuthentication PROVE PairingInv'
<1> DEFINE Of(i) == IF i = handle
                      THEN [flows[i] EXCEPT !.aborted = TRUE, !.stopped = flows[i].state # "success",
                                            !.stage = IF @ = "pairing" THEN "null" ELSE @]
                      ELSE flows[i]
<1>1. PairingTypes /\ YoungestInReach /\ Stops /\ StoresItsOwn
  BY DEF PairingInv
<1>2. /\ flows' = [i \in 1..Len(flows) |-> Of(i)] /\ Len(flows) \in Nat
      /\ result' = 0 /\ handle' = 0 /\ progress' = "none" /\ shownBy' = 0
      /\ UNCHANGED <<answers, marker, sessions, crossed>>
  BY <1>1, FlowRecords DEF AbortAuthentication, Shows, answerVars
<1>3. ASSUME NEW i \in 1..Len(flows)
      PROVE  /\ Of(i) \in FlowRecord /\ Of(i).last = flows[i].last /\ Of(i).state = flows[i].state
             /\ i # handle => Of(i) = flows[i]
             /\ i = handle =>
                  /\ Of(i).aborted /\ (Of(i).stopped <=> flows[i].state # "success")
                  /\ Of(i).stage = IF flows[i].stage = "pairing" THEN "null" ELSE flows[i].stage
  <2>1. flows[i] \in FlowRecord
    BY <1>1, FlowRecords
  <2> QED BY <2>1 DEF FlowRecord
<1> HIDE DEF Of
<1>4. /\ flows' \in Seq(FlowRecord) /\ Len(flows') = Len(flows)
      /\ \A i \in 1..Len(flows) : flows'[i] = Of(i)
  BY <1>2, <1>3
<1>5. PairingTypes'
  <2>1. \A i \in 1..Len(flows') : flows'[i].last \in 0..Len(answers')
    BY <1>1, <1>2, <1>3, <1>4 DEF PairingTypes
  <2>2. result' \in 0..Len(flows') /\ handle' \in 0..Len(flows') /\ shownBy' \in 0..Len(flows')
    BY <1>2, <1>4
  <2> QED BY <1>1, <1>2, <1>4, <2>1, <2>2 DEF PairingTypes
<1>6. YoungestInReach'
  BY <1>1, <1>2, <1>3, <1>4 DEF YoungestInReach, Pairing
<1>7. Stops'
  BY <1>1, <1>2, <1>3, <1>4 DEF Stops
<1>8. StoresItsOwn'
  BY <1>1, <1>2, <1>3, <1>4 DEF StoresItsOwn, PairingTypes
<1> QED BY <1>5, <1>6, <1>7, <1>8 DEF PairingInv

LEMMA AnswersKeeps == ASSUME PairingInv, NEW a \in Answer, Answers_(a) PROVE PairingInv'
<1>1. PairingTypes /\ YoungestInReach /\ Stops /\ StoresItsOwn
  BY DEF PairingInv
<1>2. /\ answers' = Append(answers, a)
      /\ UNCHANGED <<result, handle, progress, shownBy, flows, marker, sessions, crossed>>
  BY DEF Answers_, shownVars
<1>3. answers' \in Seq(Answer) /\ Len(answers') = Len(answers) + 1 /\ Len(answers) \in Nat
  BY <1>1, <1>2, AppendProperties, LenProperties DEF PairingTypes
<1>4. PairingTypes'
  BY <1>1, <1>2, <1>3 DEF PairingTypes
<1>5. YoungestInReach' /\ Stops' /\ StoresItsOwn'
  BY <1>1, <1>2 DEF YoungestInReach, Pairing, Stops, StoresItsOwn
<1> QED BY <1>4, <1>5 DEF PairingInv

LEMMA PairingInvImplies == PairingInv => PairingIsInReach
<1> SUFFICES ASSUME PairingInv PROVE PairingIsInReach
  OBVIOUS
<1>1. PairingTypes /\ YoungestInReach /\ Stops /\ StoresItsOwn
  BY DEF PairingInv
<1>2. DOMAIN flows = 1..Len(flows)
  BY <1>1, FlowRecords
<1>3. PairingTypeOK
  BY <1>1, <1>2 DEF PairingTypes, PairingTypeOK
<1>4. PairsInReach
  BY <1>1, <1>2 DEF YoungestInReach, Pairing, PairsInReach, Pairs
<1>5. StoppedStoresNothing
  BY <1>1 DEF StoresItsOwn, StoppedStoresNothing
<1> QED BY <1>3, <1>4, <1>5 DEF PairingIsInReach

\* A wallet that pairs can be seen and stopped while it does, and a pairing
\* that was stopped stores no session, for any number of flows and answers,
\* aborted wherever: while the identity is loaded, between the answers, or
\* while the session is persisted.
THEOREM PairingAlwaysInReach == PairingSpec => []PairingIsInReach
<1>1. PairingInv /\ [PairingNext]_pairingVars => PairingInv'
  <2> SUFFICES ASSUME PairingInv, [PairingNext]_pairingVars PROVE PairingInv'
    OBVIOUS
  <2>1. CASE UNCHANGED pairingVars
    <3>1. UNCHANGED <<result, handle, progress, shownBy, flows, answers, marker, sessions,
                      crossed>>
      BY <2>1 DEF pairingVars, shownVars, answerVars
    <3> QED BY <3>1 DEF PairingInv, PairingTypes, YoungestInReach, Pairing, Stops, StoresItsOwn
  <2>2. CASE PairingNext
    BY <2>2, AuthenticateKeeps, LoadedKeeps, LoadFailsKeeps, HandleKeeps, PersistedKeeps, EndedKeeps,
       AbortKeeps, AnswersKeeps DEF PairingNext
  <2> QED BY <2>1, <2>2
<1> QED BY InitPairingInv, <1>1, PairingInvImplies, PTL DEF PairingSpec

-----------------------------------------------------------------------------
(* The messages of a paired wallet.                                          *)

Stages == {"none", "looked up", "called", "read", "over"}

MessageTypes ==
    /\ delivery \in [Delivery -> [stage : Stages, read : SUBSET Message]]
    /\ log \in SUBSET Message /\ handled \in [Message -> Nat] /\ excused \in [Message -> Nat]

\* The message a delivery is of.
Of(d) == d[1]

\* What tells that a message was handled, or is about to be.
Told(m) == IF m \in log \/ Live(m) # {} THEN 1 ELSE 0

\* Each delivery on its way to the callback may add to what was handled: but for
\* the first one while nothing tells of the message, all of them are excused.
Accounted == \A m \in Message : handled[m] + Cardinality(Fresh(m)) <= excused[m] + Told(m)

MessagesInv == MessageTypes /\ Accounted

LEMMA DeliveryIsOfAMessage == \A d \in Delivery : Of(d) \in Message
BY DeliveryAssumption DEF Of

LEMMA FreshAreFew == \A m : IsFiniteSet(Fresh(m)) /\ Cardinality(Fresh(m)) \in Nat
<1>1. IsFiniteSet(Delivery)
  BY DeliveryAssumption
<1> SUFFICES ASSUME NEW m PROVE IsFiniteSet(Fresh(m)) /\ Cardinality(Fresh(m)) \in Nat
  OBVIOUS
<1>2. Fresh(m) \subseteq Delivery
  BY DEF Fresh
<1>3. IsFiniteSet(Fresh(m))
  BY <1>1, <1>2, FS_Subset
<1> QED BY <1>3, FS_CardinalityType

LEMMA InitMessagesInv == RequestsInit => MessagesInv
<1> SUFFICES ASSUME RequestsInit PROVE MessagesInv
  OBVIOUS
<1>1. /\ delivery = [d \in Delivery |-> [stage |-> "none", read |-> {}]] /\ log = {}
      /\ handled = [m \in Message |-> 0] /\ excused = [m \in Message |-> 0]
  BY DEF RequestsInit
<1>2. MessageTypes
  BY <1>1 DEF MessageTypes, Stages
<1>3. \A m \in Message : Fresh(m) = {}
  BY <1>1 DEF Fresh, OnItsWay
<1>4. ASSUME NEW m \in Message PROVE handled[m] + Cardinality(Fresh(m)) <= excused[m] + Told(m)
  <2>1. Cardinality(Fresh(m)) = 0
    BY <1>3, FS_EmptySet
  <2>2. Told(m) \in {0, 1}
    BY DEF Told
  <2> QED BY <1>1, <2>1, <2>2
<1> QED BY <1>2, <1>4 DEF MessagesInv, Accounted

LEMMA Moved ==
    ASSUME MessageTypes, NEW d \in Delivery, NEW s \in Stages, NEW r \in SUBSET Message, Moves(d, s, r)
    PROVE  /\ delivery'[d].stage = s /\ delivery'[d].read = r
           /\ \A e \in Delivery : e # d => delivery'[e] = delivery[e]
           /\ delivery' \in [Delivery -> [stage : Stages, read : SUBSET Message]]
<1>1. delivery' = [delivery EXCEPT ![d] = [stage |-> s, read |-> r]]
  BY DEF Moves
<1>2. delivery'[d] = [stage |-> s, read |-> r] /\ \A e \in Delivery : e # d => delivery'[e] = delivery[e]
  BY <1>1 DEF MessageTypes
<1>3. [stage |-> s, read |-> r] \in [stage : Stages, read : SUBSET Message]
  OBVIOUS
<1> QED BY <1>1, <1>2, <1>3 DEF MessageTypes

\* A delivery that moves concerns its own message alone.
LEMMA OneDeliveryMoves ==
    ASSUME NEW d \in Delivery, \A e \in Delivery : e # d => delivery'[e] = delivery[e]
    PROVE  /\ \A m \in Message : m # Of(d) => Fresh(m)' = Fresh(m) /\ Live(m)' = Live(m)
           /\ OnItsWay(d)' => Fresh(Of(d))' = Fresh(Of(d)) \cup {d}
           /\ ~OnItsWay(d)' => Fresh(Of(d))' = Fresh(Of(d)) \ {d}
           /\ OnItsWay(d)' \/ delivery'[d].stage = "read" => d \in Live(Of(d))'
           /\ Live(Of(d)) \ {d} \subseteq Live(Of(d))'
<1>1. \A e \in Delivery : e # d => (OnItsWay(e)' <=> OnItsWay(e)) /\ delivery'[e].stage = delivery[e].stage
  <2> SUFFICES ASSUME NEW e \in Delivery, e # d
               PROVE  (OnItsWay(e)' <=> OnItsWay(e)) /\ delivery'[e].stage = delivery[e].stage
    OBVIOUS
  <2>1. delivery'[e] = delivery[e]
    OBVIOUS
  <2>2. OnItsWay(e)' <=> OnItsWay(e)
    BY <2>1 DEF OnItsWay, Known
  <2> QED BY <2>1, <2>2
<1> QED BY <1>1 DEF Fresh, Live, Of

LEMMA ToldIsABit == \A m : Told(m) \in {0, 1} /\ Told(m)' \in {0, 1}
BY DEF Told

LEMMA Excuses ==
    ASSUME MessageTypes, NEW ms, Excused(ms)
    PROVE  /\ excused' \in [Message -> Nat]
           /\ \A m \in Message : excused'[m] = IF m \in ms THEN excused[m] + 1 ELSE excused[m]
BY DEF MessageTypes, Excused

\* A message none of whose deliveries moves: the log may forget it, which is excused.
LEMMA OthersKeep ==
    ASSUME MessagesInv, NEW m \in Message, Fresh(m)' = Fresh(m), Live(m)' = Live(m),
           handled'[m] = handled[m], excused'[m] \in Nat, excused'[m] >= excused[m],
           m \in log => m \in log' \/ excused'[m] = excused[m] + 1
    PROVE  handled'[m] + Cardinality(Fresh(m))' <= excused'[m] + Told(m)'
<1>1. /\ handled[m] + Cardinality(Fresh(m)) <= excused[m] + Told(m)
      /\ handled[m] \in Nat /\ excused[m] \in Nat
  BY DEF MessagesInv, MessageTypes, Accounted
<1>2. Told(m)' >= Told(m) \/ excused'[m] = excused[m] + 1
  BY DEF Told
<1>3. Cardinality(Fresh(m)) \in Nat /\ Cardinality(Fresh(m))' = Cardinality(Fresh(m))
  BY FreshAreFew
<1>4. Told(m) \in {0, 1} /\ Told(m)' \in {0, 1}
  BY ToldIsABit
<1> HIDE DEF Told
<1> QED BY <1>1, <1>2, <1>3, <1>4

LEMMA OneMoreOrLess ==
    ASSUME NEW m, NEW d
    PROVE  /\ d \notin Fresh(m) => Cardinality(Fresh(m) \cup {d}) = Cardinality(Fresh(m)) + 1
           /\ d \in Fresh(m) => Cardinality(Fresh(m) \ {d}) = Cardinality(Fresh(m)) - 1
           /\ d \notin Fresh(m) => Fresh(m) \ {d} = Fresh(m)
<1>1. IsFiniteSet(Fresh(m))
  BY FreshAreFew
<1>2. Cardinality(Fresh(m) \cup {d}) = IF d \in Fresh(m) THEN Cardinality(Fresh(m)) ELSE Cardinality(Fresh(m)) + 1
  BY <1>1, FS_AddElement
<1>3. Cardinality(Fresh(m) \ {d}) = IF d \in Fresh(m) THEN Cardinality(Fresh(m)) - 1 ELSE Cardinality(Fresh(m))
  BY <1>1, FS_RemoveElement
<1>4. d \notin Fresh(m) => Fresh(m) \ {d} = Fresh(m)
  OBVIOUS
<1> QED BY <1>2, <1>3, <1>4

LEMMA ArrivesKeeps == ASSUME MessagesInv, NEW d \in Delivery, Arrives(d) PROVE MessagesInv'
<1>0. MessageTypes /\ Accounted /\ Of(d) \in Message
  BY DeliveryIsOfAMessage DEF MessagesInv
<1>1. /\ delivery[d].stage = "none" /\ Moves(d, "looked up", log) /\ UNCHANGED <<log, handled>>
      /\ Excused(IF Live(Of(d)) # {} THEN {Of(d)} \ log ELSE {})
  BY DEF Arrives, Of
<1>2. /\ delivery'[d].stage = "looked up" /\ delivery'[d].read = log
      /\ \A e \in Delivery : e # d => delivery'[e] = delivery[e]
      /\ delivery' \in [Delivery -> [stage : Stages, read : SUBSET Message]]
  BY <1>0, <1>1, Moved DEF MessageTypes, Stages
<1>3. /\ excused' \in [Message -> Nat] /\ \A m \in Message : m # Of(d) => excused'[m] = excused[m]
      /\ excused'[Of(d)] = IF Live(Of(d)) # {} /\ Of(d) \notin log THEN excused[Of(d)] + 1 ELSE excused[Of(d)]
  <2> DEFINE ms == IF Live(Of(d)) # {} THEN {Of(d)} \ log ELSE {}
  <2>1. Of(d) \in ms <=> Live(Of(d)) # {} /\ Of(d) \notin log
    OBVIOUS
  <2>2. \A m : m # Of(d) => m \notin ms
    OBVIOUS
  <2>3. Excused(ms)
    BY <1>1
  <2> HIDE DEF ms
  <2>4. /\ excused' \in [Message -> Nat]
        /\ \A m \in Message : excused'[m] = IF m \in ms THEN excused[m] + 1 ELSE excused[m]
    BY <1>0, <2>3, Excuses
  <2> QED BY <1>0, <2>1, <2>2, <2>4
<1>4. MessageTypes'
  BY <1>0, <1>1, <1>2, <1>3 DEF MessageTypes
<1>5. ASSUME NEW m \in Message, m # Of(d)
      PROVE  handled'[m] + Cardinality(Fresh(m))' <= excused'[m] + Told(m)'
  <2>1. Fresh(m)' = Fresh(m) /\ Live(m)' = Live(m)
    BY <1>2, <1>5, OneDeliveryMoves
  <2>2. excused'[m] \in Nat /\ excused'[m] >= excused[m]
    BY <1>0, <1>3, <1>5 DEF MessageTypes
  <2> QED BY <1>1, <2>1, <2>2, OthersKeep
<1>6. handled'[Of(d)] + Cardinality(Fresh(Of(d)))' <= excused'[Of(d)] + Told(Of(d))'
  <2>1. d \notin Fresh(Of(d)) /\ (OnItsWay(d)' <=> Of(d) \notin log)
    BY <1>1, <1>2 DEF Fresh, OnItsWay, Known, Of
  <2>2. /\ handled[Of(d)] + Cardinality(Fresh(Of(d))) <= excused[Of(d)] + Told(Of(d))
        /\ handled[Of(d)] \in Nat /\ excused[Of(d)] \in Nat
    BY <1>0 DEF Accounted, MessageTypes
  <2>3. Cardinality(Fresh(Of(d))) \in Nat /\ Told(Of(d)) \in {0, 1} /\ Told(Of(d))' \in {0, 1}
    BY FreshAreFew, ToldIsABit
  <2>4. CASE Of(d) \in log
    <3>1. Fresh(Of(d))' = Fresh(Of(d))
      BY <1>2, <2>1, <2>4, OneDeliveryMoves, OneMoreOrLess
    <3>2. Told(Of(d))' = 1
      BY <1>1, <2>4 DEF Told
    <3>3. excused'[Of(d)] = excused[Of(d)] /\ handled'[Of(d)] = handled[Of(d)]
      BY <1>1, <1>3, <2>4
    <3>4. Cardinality(Fresh(Of(d)))' = Cardinality(Fresh(Of(d)))
      BY <3>1
    <3> QED BY <2>2, <2>3, <3>2, <3>3, <3>4
  <2>5. CASE Of(d) \notin log
    <3>1. Fresh(Of(d))' = Fresh(Of(d)) \cup {d}
      BY <1>2, <2>1, <2>5, OneDeliveryMoves
    <3>2. Cardinality(Fresh(Of(d)))' = Cardinality(Fresh(Of(d))) + 1
      BY <2>1, <3>1, OneMoreOrLess
    <3>3. Told(Of(d))' = 1
      BY <1>2, <2>1, <2>5, OneDeliveryMoves DEF Told
    <3>4. Told(Of(d)) = IF Live(Of(d)) # {} THEN 1 ELSE 0
      BY <2>5 DEF Told
    <3>5. handled'[Of(d)] = handled[Of(d)]
      BY <1>1
    <3>6. CASE Live(Of(d)) = {}
      <4>1. excused'[Of(d)] = excused[Of(d)] /\ Told(Of(d)) = 0
        BY <1>3, <3>4, <3>6
      <4> QED BY <2>2, <2>3, <3>2, <3>3, <3>5, <4>1
    <3>7. CASE Live(Of(d)) # {}
      <4>1. excused'[Of(d)] = excused[Of(d)] + 1 /\ Told(Of(d)) = 1
        BY <1>3, <2>5, <3>4, <3>7
      <4> QED BY <2>2, <2>3, <3>2, <3>3, <3>5, <4>1
    <3> QED BY <3>6, <3>7
  <2> QED BY <2>4, <2>5
<1> QED BY <1>4, <1>5, <1>6 DEF MessagesInv, Accounted

\* A delivery goes on or ends without its message being handled.
LEMMA UnhandledKeeps ==
    ASSUME MessagesInv, NEW d \in Delivery, NEW s \in {"over", "called"}, Moves(d, s, {}),
           s = "called" => OnItsWay(d),
           delivery[d].stage = "read" => Excused({Of(d)} \ log),
           delivery[d].stage # "read" => UNCHANGED excused,
           UNCHANGED <<log, handled>>
    PROVE  MessagesInv'
<1>0. MessageTypes /\ Accounted /\ Of(d) \in Message
  BY DeliveryIsOfAMessage DEF MessagesInv
<1>1. /\ delivery'[d].stage = s
      /\ \A e \in Delivery : e # d => delivery'[e] = delivery[e]
      /\ delivery' \in [Delivery -> [stage : Stages, read : SUBSET Message]]
  <2>1. s \in Stages /\ {} \in SUBSET Message
    BY DEF Stages
  <2> QED BY <1>0, <2>1, Moved
<1>2. /\ excused' \in [Message -> Nat] /\ \A m \in Message : m # Of(d) => excused'[m] = excused[m]
      /\ excused'[Of(d)] = IF delivery[d].stage = "read" /\ Of(d) \notin log THEN excused[Of(d)] + 1 ELSE excused[Of(d)]
  BY <1>0, Excuses DEF MessageTypes
<1>3. MessageTypes'
  BY <1>0, <1>1, <1>2 DEF MessageTypes
<1>4. ASSUME NEW m \in Message, m # Of(d)
      PROVE  handled'[m] + Cardinality(Fresh(m))' <= excused'[m] + Told(m)'
  <2>1. Fresh(m)' = Fresh(m) /\ Live(m)' = Live(m)
    BY <1>1, <1>4, OneDeliveryMoves
  <2>2. excused'[m] \in Nat /\ excused'[m] >= excused[m]
    BY <1>0, <1>2, <1>4 DEF MessageTypes
  <2> QED BY <2>1, <2>2, OthersKeep
<1>5. handled'[Of(d)] + Cardinality(Fresh(Of(d)))' <= excused'[Of(d)] + Told(Of(d))'
  <2>1. /\ handled[Of(d)] + Cardinality(Fresh(Of(d))) <= excused[Of(d)] + Told(Of(d))
        /\ handled[Of(d)] \in Nat /\ excused[Of(d)] \in Nat
    BY <1>0 DEF Accounted, MessageTypes
  <2>2. Cardinality(Fresh(Of(d))) \in Nat /\ Told(Of(d)) \in {0, 1} /\ Told(Of(d))' \in {0, 1}
    BY FreshAreFew, ToldIsABit
  <2>3. CASE s = "called"
    <3>1. OnItsWay(d)' /\ d \in Fresh(Of(d))
      BY <1>1, <2>3 DEF OnItsWay, Fresh, Of
    <3>2. Fresh(Of(d))' = Fresh(Of(d))
      BY <1>1, <3>1, OneDeliveryMoves
    <3>3. Told(Of(d))' = 1 /\ delivery[d].stage # "read"
      BY <1>1, <2>3, <3>1, OneDeliveryMoves DEF Told, OnItsWay
    <3> QED BY <1>2, <2>1, <2>2, <3>2, <3>3
  <2>4. CASE s = "over"
    <3>1. Fresh(Of(d))' = Fresh(Of(d)) \ {d}
      BY <1>1, <2>4, OneDeliveryMoves DEF OnItsWay
    <3>2. Cardinality(Fresh(Of(d)))' = Cardinality(Fresh(Of(d))) - (IF OnItsWay(d) THEN 1 ELSE 0)
      <4>1. OnItsWay(d) <=> d \in Fresh(Of(d))
        BY DEF Fresh, Of
      <4>2. CASE OnItsWay(d)
        BY <3>1, <4>1, <4>2, OneMoreOrLess
      <4>3. CASE ~OnItsWay(d)
        <5>1. Fresh(Of(d))' = Fresh(Of(d))
          BY <3>1, <4>1, <4>3, OneMoreOrLess
        <5>2. Cardinality(Fresh(Of(d)))' = Cardinality(Fresh(Of(d)))
          BY <5>1
        <5> QED BY <2>2, <4>3, <5>2
      <4> QED BY <4>2, <4>3
    <3>3. \/ Told(Of(d))' = Told(Of(d))
          \/ OnItsWay(d)
          \/ delivery[d].stage = "read" /\ Of(d) \notin log
      <4>1. CASE Of(d) \in log
        BY <4>1 DEF Told
      <4>2. CASE Of(d) \notin log /\ ~OnItsWay(d) /\ delivery[d].stage # "read"
        <5>1. d \notin Live(Of(d))
          BY <4>2 DEF Live
        <5>2. d \notin Live(Of(d))'
          BY <1>1, <2>4 DEF Live, OnItsWay
        <5>3. Live(Of(d)) \subseteq Live(Of(d))'
          BY <1>1, <5>1, OneDeliveryMoves
        <5>4. Live(Of(d))' \subseteq Live(Of(d))
          BY <1>1, <5>2 DEF Live, OnItsWay, Known
        <5> QED BY <5>3, <5>4 DEF Told
      <4> QED BY <4>1, <4>2
    <3>4. ~(OnItsWay(d) /\ delivery[d].stage = "read")
      BY DEF OnItsWay
    <3> QED BY <1>2, <2>1, <2>2, <3>2, <3>3, <3>4
  <2> QED BY <2>3, <2>4
<1> QED BY <1>3, <1>4, <1>5 DEF MessagesInv, Accounted

LEMMA LookedUpKeeps == ASSUME MessagesInv, NEW d \in Delivery, LookedUp(d) PROVE MessagesInv'
<1>1. /\ delivery[d].stage = "looked up" /\ Moves(d, IF Known(d) THEN "over" ELSE "called", {})
      /\ UNCHANGED <<log, handled, excused>>
  BY DEF LookedUp
<1>2. CASE Known(d)
  BY <1>1, <1>2, UnhandledKeeps
<1>3. CASE ~Known(d)
  BY <1>1, <1>3, UnhandledKeeps DEF OnItsWay
<1> QED BY <1>2, <1>3

LEMMA LostKeeps == ASSUME MessagesInv, NEW d \in Delivery, Lost(d) PROVE MessagesInv'
<1>0. MessageTypes
  BY DEF MessagesInv
<1>1. /\ Moves(d, "over", {}) /\ UNCHANGED <<log, handled>>
      /\ Excused(IF delivery[d].stage = "read" THEN {Of(d)} \ log ELSE {})
  BY DEF Lost, Of
<1>2. delivery[d].stage # "read" => UNCHANGED excused
  <2>1. ASSUME delivery[d].stage # "read" PROVE excused' = [m \in Message |-> excused[m]]
    BY <1>1, <2>1 DEF Excused
  <2> QED BY <1>0, <2>1 DEF MessageTypes
<1> QED BY <1>1, <1>2, UnhandledKeeps

LEMMA CountedUp ==
    ASSUME NEW S, NEW f \in [S -> Nat], NEW m \in S
    PROVE  /\ [f EXCEPT ![m] = @ + 1] \in [S -> Nat] /\ [f EXCEPT ![m] = @ + 1][m] = f[m] + 1
           /\ \A n \in S : n # m => [f EXCEPT ![m] = @ + 1][n] = f[n]
OBVIOUS

LEMMA CallbackEndsKeeps == ASSUME MessagesInv, NEW d \in Delivery, CallbackEnds(d) PROVE MessagesInv'
<1>0. MessageTypes /\ Accounted /\ Of(d) \in Message
  BY DeliveryIsOfAMessage DEF MessagesInv
<1>1. /\ delivery[d].stage = "called" /\ UNCHANGED <<log, excused>>
  BY DEF CallbackEnds
<1>2. CASE Moves(d, "over", {}) /\ UNCHANGED handled
  BY <1>1, <1>2, UnhandledKeeps
<1>3. CASE Moves(d, "read", log) /\ handled' = [handled EXCEPT ![Of(d)] = @ + 1]
  <2>1. /\ delivery'[d].stage = "read" /\ delivery'[d].read = log
        /\ \A e \in Delivery : e # d => delivery'[e] = delivery[e]
        /\ delivery' \in [Delivery -> [stage : Stages, read : SUBSET Message]]
    BY <1>0, <1>3, Moved DEF MessageTypes, Stages
  <2>2. /\ handled' \in [Message -> Nat] /\ handled'[Of(d)] = handled[Of(d)] + 1
        /\ \A m \in Message : m # Of(d) => handled'[m] = handled[m]
    <3>1. handled \in [Message -> Nat] /\ Of(d) \in Message
      BY <1>0 DEF MessageTypes
    <3> QED BY <1>3, <3>1, CountedUp
  <2>3. MessageTypes'
    BY <1>0, <1>1, <2>1, <2>2 DEF MessageTypes
  <2>4. ASSUME NEW m \in Message, m # Of(d)
        PROVE  handled'[m] + Cardinality(Fresh(m))' <= excused'[m] + Told(m)'
    <3>1. Fresh(m)' = Fresh(m) /\ Live(m)' = Live(m)
      BY <2>1, <2>4, OneDeliveryMoves
    <3>2. excused'[m] \in Nat /\ excused'[m] >= excused[m]
      BY <1>0, <1>1 DEF MessageTypes
    <3> QED BY <1>1, <2>2, <2>4, <3>1, <3>2, OthersKeep
  <2>5. handled'[Of(d)] + Cardinality(Fresh(Of(d)))' <= excused'[Of(d)] + Told(Of(d))'
    <3>1. d \in Fresh(Of(d)) /\ ~OnItsWay(d)'
      BY <1>1, <2>1 DEF Fresh, OnItsWay, Of
    <3>2. Fresh(Of(d))' = Fresh(Of(d)) \ {d}
      BY <2>1, <3>1, OneDeliveryMoves
    <3>3. Cardinality(Fresh(Of(d)))' = Cardinality(Fresh(Of(d))) - 1
      BY <3>1, <3>2, OneMoreOrLess
    <3>4. Told(Of(d))' = 1
      BY <2>1, OneDeliveryMoves DEF Told
    <3>5. /\ handled[Of(d)] + Cardinality(Fresh(Of(d))) <= excused[Of(d)] + Told(Of(d))
          /\ handled[Of(d)] \in Nat /\ excused[Of(d)] \in Nat
      BY <1>0 DEF Accounted, MessageTypes
    <3>6. Cardinality(Fresh(Of(d))) \in Nat /\ Told(Of(d)) \in {0, 1}
      BY FreshAreFew, ToldIsABit
    <3> QED BY <1>1, <2>2, <3>3, <3>4, <3>5, <3>6
  <2> QED BY <2>3, <2>4, <2>5 DEF MessagesInv, Accounted
<1> QED BY <1>2, <1>3 DEF CallbackEnds, Of

LEMMA MutateWritesKeeps == ASSUME MessagesInv, NEW d \in Delivery, MutateWrites(d) PROVE MessagesInv'
<1>0. MessageTypes /\ Accounted /\ Of(d) \in Message
  BY DeliveryIsOfAMessage DEF MessagesInv
<1>1. /\ delivery[d].stage = "read" /\ log' = delivery[d].read \cup {Of(d)} /\ Excused(log \ log')
      /\ Moves(d, "over", {}) /\ UNCHANGED handled
  BY DEF MutateWrites, Of
<1>2. /\ delivery'[d].stage = "over"
      /\ \A e \in Delivery : e # d => delivery'[e] = delivery[e]
      /\ delivery' \in [Delivery -> [stage : Stages, read : SUBSET Message]]
  <2>1. {} \in SUBSET Message /\ "over" \in Stages
    BY DEF Stages
  <2> QED BY <1>0, <1>1, <2>1, Moved
<1>3. log' \in SUBSET Message
  <2>1. delivery[d].read \in SUBSET Message
    BY <1>0 DEF MessageTypes
  <2> QED BY <1>0, <1>1, <2>1
<1>4. /\ excused' \in [Message -> Nat]
      /\ \A m \in Message : excused'[m] = IF m \in log \ log' THEN excused[m] + 1 ELSE excused[m]
  BY <1>0, <1>1, Excuses
<1>5. MessageTypes'
  BY <1>0, <1>1, <1>2, <1>3, <1>4 DEF MessageTypes
<1>6. ASSUME NEW m \in Message, m # Of(d)
      PROVE  handled'[m] + Cardinality(Fresh(m))' <= excused'[m] + Told(m)'
  <2>1. Fresh(m)' = Fresh(m) /\ Live(m)' = Live(m)
    BY <1>2, <1>6, OneDeliveryMoves
  <2>2. excused'[m] \in Nat /\ excused[m] \in Nat
    BY <1>0, <1>4 DEF MessageTypes
  <2>3. excused'[m] >= excused[m] /\ (m \in log => m \in log' \/ excused'[m] = excused[m] + 1)
    BY <1>4, <2>2
  <2> QED BY <1>1, <2>1, <2>2, <2>3, OthersKeep
<1>7. handled'[Of(d)] + Cardinality(Fresh(Of(d)))' <= excused'[Of(d)] + Told(Of(d))'
  <2>1. d \notin Fresh(Of(d)) /\ ~OnItsWay(d)'
    BY <1>1, <1>2 DEF Fresh, OnItsWay
  <2>2. Fresh(Of(d))' = Fresh(Of(d))
    BY <1>2, <2>1, OneDeliveryMoves, OneMoreOrLess
  <2>3. Told(Of(d))' = 1 /\ excused'[Of(d)] = excused[Of(d)]
    BY <1>0, <1>1, <1>4 DEF Told
  <2>4. /\ handled[Of(d)] + Cardinality(Fresh(Of(d))) <= excused[Of(d)] + Told(Of(d))
        /\ handled[Of(d)] \in Nat /\ excused[Of(d)] \in Nat
    BY <1>0 DEF Accounted, MessageTypes
  <2>5. Cardinality(Fresh(Of(d))) \in Nat /\ Told(Of(d)) \in {0, 1}
    BY FreshAreFew, ToldIsABit
  <2> QED BY <1>1, <2>2, <2>3, <2>4, <2>5
<1> QED BY <1>5, <1>6, <1>7 DEF MessagesInv, Accounted

LEMMA RequestsLeaveMessages == RequestsNext => UNCHANGED messageVars
<1>1. ASSUME NEW r \in Request, \/ Ask(r) \/ Replies(r) \/ RepliesLate(r) \/ DeliveryFails(r)
                                \/ TimesOut(r) \/ NoticeIsTaken(r)
      PROVE  UNCHANGED messageVars
  BY <1>1 DEF Ask, Replies, RepliesLate, DeliveryFails, TimesOut, NoticeIsTaken, Ends
<1>2. AbortPendingRequests \/ Close => UNCHANGED messageVars
  BY DEF AbortPendingRequests, Close
<1> QED BY <1>1, <1>2 DEF RequestsNext

LEMMA MessagesStay == RequestsSpec => []MessagesInv
<1>1. MessagesInv /\ [RequestsNext \/ MessagesNext]_requestVars => MessagesInv'
  <2> SUFFICES ASSUME MessagesInv, [RequestsNext \/ MessagesNext]_requestVars PROVE MessagesInv'
    OBVIOUS
  <2>1. CASE UNCHANGED messageVars
    BY <2>1 DEF messageVars, MessagesInv, MessageTypes, Accounted, Told, Live, Fresh, OnItsWay, Known
  <2>2. CASE MessagesNext
    BY <2>2, ArrivesKeeps, LookedUpKeeps, CallbackEndsKeeps, MutateWritesKeeps, LostKeeps DEF MessagesNext
  <2> QED BY <2>1, <2>2, RequestsLeaveMessages DEF requestVars
<1> QED BY InitMessagesInv, <1>1, PTL DEF RequestsSpec

\* A message is handled once, and once more for every time that a delivery
\* overtook the log, that a failure or a restart kept it from being written, or
\* that an entry was written over, for any messages and deliveries of each.
THEOREM MessagesHandledOnce == RequestsSpec => []HandledOnce
<1>1. MessagesInv => HandledOnce
  <2> SUFFICES ASSUME MessagesInv, NEW m \in Message PROVE handled[m] <= 1 + excused[m]
    BY DEF HandledOnce
  <2>1. /\ handled[m] + Cardinality(Fresh(m)) <= excused[m] + Told(m)
        /\ handled[m] \in Nat /\ excused[m] \in Nat
    BY DEF MessagesInv, Accounted, MessageTypes
  <2>2. Cardinality(Fresh(m)) \in Nat /\ Told(m) \in {0, 1}
    BY FreshAreFew, ToldIsABit
  <2> QED BY <2>1, <2>2
<1> QED BY MessagesStay, <1>1, PTL

-----------------------------------------------------------------------------
(* The identity repository's watchers.                                      *)

RunRecord == [seed : {"off", "reading"}, timer : {"off", "armed"}, live : Int, out : Int]
StreamRecord == [run : RunRecord, record : Int, ended : BOOLEAN, revived : BOOLEAN]
WatcherRecord == [stream : Nat, stage : {"new", "holds", "subscribed"}, saw : Int]
AskerRecord == [stage : {"new", "asking", "writing", "done", "failed"}, answer : Int]

IdentityShapes ==
    /\ onChain \in Nat /\ cached \in 0..onChain /\ writes \subseteq 0..onChain
    /\ shared \in Seq(StreamRecord) /\ watched \in 0..Len(shared)
    /\ watcher \in [Watcher -> WatcherRecord]
    /\ \A w \in Watcher : watcher[w].stream \in 0..Len(shared)
    /\ \A w \in Watcher : watcher[w].stage # "new" => watcher[w].stream # 0
    /\ asker \in [Asker -> AskerRecord]
    /\ \A a \in Asker : asker[a].answer \in Nothing..onChain
    /\ \A a \in Asker : asker[a].stage = "writing" => asker[a].answer # Nothing

\* While the record is read or the timer armed the chain has not spoken.
RunIsSound(x) ==
    /\ x.run.live # Nothing => x.run.out = x.run.live
    /\ x.run.seed = "reading" \/ x.run.timer = "armed" => x.run.live = Nothing
    /\ x.run.live \in Nothing..onChain /\ x.run.out \in Nothing..onChain /\ x.record \in Nothing..onChain

\* A stream that has not ended is the one in the map; one without subscribers
\* does not run.
StreamIsSound(s) ==
    /\ RunIsSound(shared[s])
    /\ ~shared[s].ended => watched = s
    /\ Subscribers(s) # {} => shared[s].revived \/ watched = s
    /\ Subscribers(s) # {} /\ shared[s].run.out = Nothing => shared[s].run.timer = "armed"
    /\ Subscribers(s) = {} => shared[s].run = Cold
    /\ \A w \in Subscribers(s) : watcher[w].saw = shared[s].run.out

IdentityInv ==
    /\ IdentityShapes
    /\ \A s \in 1..Len(shared) : StreamIsSound(s)
    /\ watched # 0 => ~shared[watched].ended

LEMMA ColdIsARun == Cold \in RunRecord /\ Cold.live = Nothing /\ Cold.out = Nothing /\ Cold.seed = "off" /\ Cold.timer = "off"
BY DEF Cold, RunRecord, Nothing

LEMMA IdentityInitInv == IdentityInit => IdentityInv
<1> SUFFICES ASSUME IdentityInit PROVE IdentityInv
  OBVIOUS
<1>1. shared \in Seq(StreamRecord) /\ Len(shared) = 0
  BY DEF IdentityInit
<1> QED BY <1>1 DEF IdentityInit, IdentityInv, IdentityShapes, WatcherRecord, AskerRecord, Nothing

LEMMA StreamReplaced ==
    ASSUME NEW S, NEW q \in Seq(S), NEW i \in 1..Len(q), NEW r \in S
    PROVE  /\ [q EXCEPT ![i] = r] \in Seq(S) /\ Len([q EXCEPT ![i] = r]) = Len(q)
           /\ [q EXCEPT ![i] = r][i] = r
           /\ \A j \in 1..Len(q) : j # i => [q EXCEPT ![i] = r][j] = q[j]
OBVIOUS

LEMMA StreamFacts ==
    ASSUME IdentityInv, NEW s \in DOMAIN shared
    PROVE  /\ IdentityShapes /\ s \in 1..Len(shared) /\ Len(shared) \in Nat /\ onChain \in Nat /\ cached \in 0..onChain
           /\ shared[s] \in StreamRecord /\ shared[s].run \in RunRecord /\ StreamIsSound(s)
<1>1. IdentityShapes /\ shared \in Seq(StreamRecord)
  BY DEF IdentityInv, IdentityShapes
<1>2. s \in 1..Len(shared) /\ Len(shared) \in Nat
  BY <1>1, LenProperties
<1>3. shared[s] \in StreamRecord
  BY <1>1, <1>2, ElementOfSeq
<1>4. shared[s].run \in RunRecord
  BY <1>3 DEF StreamRecord
<1> QED BY <1>1, <1>2, <1>3, <1>4 DEF IdentityInv, IdentityShapes

\* What happens to one stream leaves the others as they are.
LEMMA OtherStream ==
    ASSUME IdentityShapes, NEW s, StreamIsSound(s), shared'[s] = shared[s],
           Subscribers(s)' = Subscribers(s), \A w \in Subscribers(s) : watcher'[w].saw = watcher[w].saw,
           watched = s => watched' = s, onChain' \in Nat, onChain' >= onChain
    PROVE  StreamIsSound(s)'
<1>1. RunIsSound(shared[s])'
  BY DEF StreamIsSound, RunIsSound, IdentityShapes, Nothing
<1> QED BY <1>1 DEF StreamIsSound

LEMMA IdentityStutter == IdentityInv /\ UNCHANGED identityVars => IdentityInv'
<1> SUFFICES ASSUME IdentityInv, UNCHANGED identityVars PROVE IdentityInv'
  OBVIOUS
<1>1. UNCHANGED <<onChain, cached, writes, shared, watched, watcher, asker>>
  BY DEF identityVars
<1> QED BY <1>1 DEF IdentityInv, IdentityShapes, StreamIsSound, RunIsSound, Subscribers

-----------------------------------------------------------------------------
(* Steps that leave the streams alone                                       *)

LEMMA ChainAndStorageStep ==
    ASSUME IdentityInv,
           \/ \E a \in Asker : AskIdentity(a) \/ ChainAnswers(a) \/ AskEnds(a)
           \/ \E v \in writes : WriteEnds(v)
           \/ ChainMoves
    PROVE  IdentityInv'
<1>0. IdentityShapes
  BY DEF IdentityInv
<1>1. /\ UNCHANGED <<shared, watched, watcher>>
      /\ onChain' \in Nat /\ onChain' >= onChain /\ cached' \in 0..onChain' /\ writes' \subseteq 0..onChain'
  <2>1. CASE \E a \in Asker : AskIdentity(a)
    BY <1>0, <2>1 DEF AskIdentity, IdentityShapes
  <2>2. CASE \E a \in Asker : ChainAnswers(a)
    BY <1>0, <2>2 DEF ChainAnswers, IdentityShapes
  <2>3. CASE \E a \in Asker : AskEnds(a)
    BY <1>0, <2>3 DEF AskEnds, IdentityShapes, Nothing
  <2>4. CASE \E v \in writes : WriteEnds(v)
    BY <1>0, <2>4 DEF WriteEnds, IdentityShapes
  <2>5. CASE ChainMoves
    BY <1>0, <2>5 DEF ChainMoves, IdentityShapes
  <2> QED BY <2>1, <2>2, <2>3, <2>4, <2>5
<1>2. /\ asker' \in [Asker -> AskerRecord]
      /\ \A a \in Asker : asker'[a].answer \in Nothing..onChain'
      /\ \A a \in Asker : asker'[a].stage = "writing" => asker'[a].answer # Nothing
  <2>1. CASE \E a \in Asker : AskIdentity(a)
    <3>1. PICK a \in Asker : AskIdentity(a)
      BY <2>1
    <3>2. PICK r \in AskerRecord : asker' = [asker EXCEPT ![a] = r] /\ r.answer \in Nothing..onChain /\ r.stage # "writing"
      <4>1. /\ [stage |-> "done", answer |-> cached] \in AskerRecord /\ cached \in Nothing..onChain
            /\ [stage |-> "asking", answer |-> Nothing] \in AskerRecord /\ Nothing \in Nothing..onChain
            /\ [stage |-> "failed", answer |-> Nothing] \in AskerRecord
        BY <1>0 DEF IdentityShapes, AskerRecord, Nothing
      <4> QED BY <3>1, <4>1 DEF AskIdentity
    <3> QED BY <1>0, <1>1, <3>1, <3>2 DEF IdentityShapes, Nothing, AskIdentity
  <2>2. CASE \E a \in Asker : ChainAnswers(a)
    <3>1. PICK a \in Asker : ChainAnswers(a)
      BY <2>2
    <3>2. PICK r \in AskerRecord : asker' = [asker EXCEPT ![a] = r] /\ r.answer \in 0..onChain
      <4>1. /\ [stage |-> "done", answer |-> onChain] \in AskerRecord
            /\ [stage |-> "writing", answer |-> onChain] \in AskerRecord /\ onChain \in 0..onChain
        BY <1>0 DEF IdentityShapes, AskerRecord
      <4>2. asker' = [asker EXCEPT ![a] = [stage |-> IF onChain = 0 THEN "done" ELSE "writing", answer |-> onChain]]
        BY <3>1 DEF ChainAnswers
      <4> QED BY <4>1, <4>2
    <3> QED BY <1>0, <1>1, <3>1, <3>2 DEF IdentityShapes, Nothing, ChainAnswers
  <2>3. CASE \E a \in Asker : AskEnds(a)
    <3>1. PICK a \in Asker : AskEnds(a)
      BY <2>3
    <3>2. PICK r \in AskerRecord : asker' = [asker EXCEPT ![a] = r] /\ r.answer \in Nothing..onChain /\ r.stage # "writing"
      BY <1>0, <3>1 DEF AskEnds, IdentityShapes, AskerRecord, Nothing
    <3> QED BY <1>0, <1>1, <3>1, <3>2 DEF IdentityShapes, Nothing, AskEnds
  <2>4. CASE (\E v \in writes : WriteEnds(v)) \/ ChainMoves
    <3>1. asker' = asker
      BY <2>4 DEF WriteEnds, ChainMoves
    <3> QED BY <1>0, <1>1, <3>1 DEF IdentityShapes, Nothing
  <2> QED BY <2>1, <2>2, <2>3, <2>4
<1>3. ASSUME NEW s \in 1..Len(shared) PROVE StreamIsSound(s)'
  <2>1. Subscribers(s)' = Subscribers(s)
    BY <1>1 DEF Subscribers
  <2> QED BY <1>0, <1>1, <2>1, OtherStream DEF IdentityInv
<1> QED BY <1>0, <1>1, <1>2, <1>3 DEF IdentityInv, IdentityShapes

-----------------------------------------------------------------------------
(* Watchers                                                                 *)

NewStream == [run |-> Cold, record |-> Nothing, ended |-> FALSE, revived |-> FALSE]

LEMMA WatchStep ==
    ASSUME IdentityInv, NEW w \in Watcher, Watch(w)
    PROVE  IdentityInv'
<1>0. IdentityShapes
  BY DEF IdentityInv
<1>1. NewStream \in StreamRecord
  BY ColdIsARun DEF StreamRecord, Nothing, NewStream
<1>2. /\ UNCHANGED <<onChain, cached, writes, asker>>
      /\ watcher[w].stage = "new"
      /\ watcher' = [watcher EXCEPT ![w].stage = "holds", ![w].stream = watched']
  BY DEF Watch
<1>3. \/ watched # 0 /\ UNCHANGED <<shared, watched>>
      \/ watched = 0 /\ shared' = Append(shared, NewStream) /\ watched' = Len(shared) + 1
  BY DEF Watch, NewStream
<1>4. /\ shared' \in Seq(StreamRecord) /\ watched' \in 1..Len(shared')
      /\ \A s \in 1..Len(shared) : shared'[s] = shared[s]
      /\ \/ Len(shared') = Len(shared) /\ watched # 0 /\ watched' = watched
         \/ /\ Len(shared') = Len(shared) + 1 /\ watched' = Len(shared') /\ watched = 0
            /\ shared'[Len(shared')] = NewStream
  <2>1. CASE watched # 0 /\ UNCHANGED <<shared, watched>>
    BY <1>0, <2>1 DEF IdentityShapes
  <2>2. CASE watched = 0 /\ shared' = Append(shared, NewStream) /\ watched' = Len(shared) + 1
    <3>1. shared \in Seq(StreamRecord) /\ Len(shared) \in Nat
      BY <1>0, LenProperties DEF IdentityShapes
    <3> QED BY <1>1, <2>2, <3>1, AppendProperties
  <2> QED BY <1>3, <2>1, <2>2
<1>5. /\ watcher' \in [Watcher -> WatcherRecord]
      /\ watcher'[w].stage = "holds" /\ watcher'[w].stream = watched'
      /\ \A x \in Watcher \ {w} : watcher'[x] = watcher[x]
  <2>1. watched' \in Nat /\ watcher \in [Watcher -> WatcherRecord]
    BY <1>0, <1>4 DEF IdentityShapes
  <2>2. PICK n \in Nat : n = watched'
    BY <2>1
  <2>3. watcher' = [watcher EXCEPT ![w].stage = "holds", ![w].stream = n]
    BY <1>2, <2>2
  <2> QED BY <2>1, <2>2, <2>3 DEF WatcherRecord
<1>6. IdentityShapes'
  <2>1. Len(shared) \in Nat /\ Len(shared') \in Nat /\ Len(shared') >= Len(shared)
    BY <1>0, <1>4 DEF IdentityShapes
  <2>2. \A x \in Watcher : watcher'[x].stream \in 0..Len(shared') /\ (watcher'[x].stage # "new" => watcher'[x].stream # 0)
    BY <1>0, <1>4, <1>5, <2>1 DEF IdentityShapes
  <2> QED BY <1>0, <1>2, <1>4, <1>5, <2>2 DEF IdentityShapes
<1>7. \A s : Subscribers(s)' = Subscribers(s)
  <2> TAKE s
  <2>1. \A x \in Watcher : (watcher'[x].stream = s /\ watcher'[x].stage = "subscribed")
                           <=> (watcher[x].stream = s /\ watcher[x].stage = "subscribed")
    BY <1>2, <1>5
  <2> QED BY <2>1 DEF Subscribers
<1>8. ASSUME NEW s \in 1..Len(shared) PROVE StreamIsSound(s)'
  <2>1. StreamIsSound(s)
    BY DEF IdentityInv
  <2>2. shared'[s] = shared[s] /\ (watched = s => watched' = s)
    BY <1>0, <1>4 DEF IdentityShapes
  <2>3. \A x \in Subscribers(s) : watcher'[x].saw = watcher[x].saw
    BY <1>2, <1>5 DEF Subscribers
  <2>4. onChain' \in Nat /\ onChain' >= onChain /\ Subscribers(s)' = Subscribers(s)
    BY <1>0, <1>2, <1>7 DEF IdentityShapes
  <2> QED BY <1>0, <2>1, <2>2, <2>3, <2>4, OtherStream
<1>9. ASSUME NEW n, n = Len(shared'), Len(shared') = Len(shared) + 1 PROVE StreamIsSound(n)'
  <2>1. shared'[n] = NewStream /\ watched' = n
    BY <1>0, <1>4, <1>9 DEF IdentityShapes
  <2>2. \A x \in Watcher : watcher[x].stream # n
    BY <1>0, <1>9 DEF IdentityShapes
  <2>3. Subscribers(n) = {}
    BY <2>2 DEF Subscribers
  <2>4. Subscribers(n)' = {}
    BY <1>7, <2>3
  <2>5. NewStream.run = Cold /\ NewStream.ended = FALSE /\ NewStream.record = Nothing
    BY DEF NewStream
  <2>6. Nothing \in Nothing..onChain'
    BY <1>0, <1>2 DEF IdentityShapes, Nothing
  <2>7. RunIsSound(shared[n])'
    BY <2>1, <2>5, <2>6, ColdIsARun DEF RunIsSound
  <2> QED BY <2>1, <2>4, <2>5, <2>7 DEF StreamIsSound
<1>10. watched' # 0 => ~shared'[watched'].ended
  <2>1. NewStream.ended = FALSE
    BY DEF NewStream
  <2>2. CASE Len(shared') = Len(shared) /\ watched # 0 /\ watched' = watched
    BY <1>0, <1>4, <2>2 DEF IdentityInv, IdentityShapes
  <2> QED BY <1>4, <2>1, <2>2
<1>11. \A s \in 1..Len(shared') : StreamIsSound(s)'
  <2> TAKE s \in 1..Len(shared')
  <2>1. s \in 1..Len(shared) \/ (s = Len(shared') /\ Len(shared') = Len(shared) + 1)
    BY <1>0, <1>4 DEF IdentityShapes
  <2> QED BY <1>8, <1>9, <2>1
<1> QED BY <1>6, <1>10, <1>11 DEF IdentityInv

\* A run that starts has heard nothing of the chain, and waits for the timer
\* unless it starts with the record.
LEMMA StartedIsSound ==
    ASSUME IdentityShapes, NEW s \in 1..Len(shared), StreamIsSound(s)
    PROVE  /\ Started(s) \in RunRecord /\ Started(s).live = Nothing /\ Started(s).out \in Nothing..onChain
           /\ Started(s).out = Nothing => Started(s).timer = "armed"
<1> DEFINE v == shared[s].record
<1>1. v \in Nothing..onChain /\ onChain \in Nat
  BY DEF StreamIsSound, RunIsSound, IdentityShapes
<1>2. /\ Started(s) \in RunRecord /\ Started(s).live = Nothing
      /\ \/ v = Nothing /\ Started(s).out = Nothing /\ Started(s).timer = "armed"
         \/ v = 0 /\ Started(s).out = Nothing /\ Started(s).timer = "armed"
         \/ v # Nothing /\ Started(s).out = v
  <2>0. v \in Int
    BY <1>1 DEF Nothing
  <2>1. CASE v = Nothing
    <3>0. Nothing # 0
      BY DEF Nothing
    <3>1. Started(s) = [Cold EXCEPT !.seed = "reading", !.timer = "armed"]
      BY <2>1, <3>0 DEF Started
    <3> QED BY <2>1, <3>1, ColdIsARun DEF RunRecord
  <2>2. CASE v = 0 /\ v # Nothing
    <3>1. Started(s) = [Cold EXCEPT !.timer = "armed"]
      BY <2>2 DEF Started
    <3> QED BY <2>2, <3>1, ColdIsARun DEF RunRecord
  <2>3. CASE v # Nothing /\ v # 0
    <3>1. Started(s) = [Cold EXCEPT !.out = v]
      BY <2>3 DEF Started
    <3> HIDE DEF v
    <3> QED BY <2>0, <2>3, <3>1, ColdIsARun DEF RunRecord
  <2> QED BY <2>1, <2>2, <2>3
<1> HIDE DEF v
<1>3. Nothing \in Nothing..onChain
  BY <1>1 DEF Nothing
<1> QED BY <1>1, <1>2, <1>3

LEMMA SubscribeToStep ==
    ASSUME IdentityInv, NEW w \in Watcher, SubscribeTo(w)
    PROVE  IdentityInv'
<1>0. IdentityShapes
  BY DEF IdentityInv
<1> DEFINE s == watcher[w].stream
<1>1. /\ UNCHANGED <<onChain, cached, writes, watched, asker>> /\ watcher[w].stage = "holds"
      /\ shared' = IF Subscribers(s) # {} THEN shared
                   ELSE [shared EXCEPT ![s].run = Started(s), ![s].revived = shared[s].ended]
      /\ watcher' = [watcher EXCEPT ![w].stage = "subscribed", ![w].saw = shared'[s].run.out]
  BY DEF SubscribeTo
<1>2. s \in 1..Len(shared) /\ Len(shared) \in Nat /\ shared[s] \in StreamRecord
  BY <1>0, <1>1 DEF IdentityShapes
<1>3. StreamIsSound(s)
  BY <1>2 DEF IdentityInv
<1>4. PICK x \in StreamRecord :
        /\ shared' = [shared EXCEPT ![s] = x]
        /\ x.ended = shared[s].ended /\ x.record = shared[s].record
        /\ IF Subscribers(s) # {} THEN x = shared[s] ELSE x.run = Started(s) /\ x.revived = shared[s].ended
  <2>1. CASE Subscribers(s) # {}
    <3>1. shared' = [shared EXCEPT ![s] = shared[s]]
      BY <1>0, <1>1, <1>2, <2>1 DEF IdentityShapes
    <3> QED BY <1>2, <2>1, <3>1
  <2>2. CASE Subscribers(s) = {}
    <3> DEFINE r == [shared[s] EXCEPT !.run = Started(s), !.revived = shared[s].ended]
    <3>1. r \in StreamRecord /\ r.run = Started(s) /\ r.revived = shared[s].ended
          /\ r.ended = shared[s].ended /\ r.record = shared[s].record
      <4>1. Started(s) \in RunRecord
        BY <1>0, <1>2, <1>3, StartedIsSound
      <4> QED BY <1>2, <4>1 DEF StreamRecord
    <3>2. shared' = [shared EXCEPT ![s] = r]
      BY <1>0, <1>1, <1>2, <2>2 DEF IdentityShapes
    <3> HIDE DEF r
    <3> QED BY <2>2, <3>1, <3>2
  <2> QED BY <2>1, <2>2
<1>5. shared' \in Seq(StreamRecord) /\ Len(shared') = Len(shared) /\ shared'[s] = x
      /\ \A y \in 1..Len(shared) : y # s => shared'[y] = shared[y]
  BY <1>0, <1>2, <1>4, StreamReplaced DEF IdentityShapes
<1>6. /\ watcher' \in [Watcher -> WatcherRecord]
      /\ watcher'[w].stage = "subscribed" /\ watcher'[w].stream = s /\ watcher'[w].saw = x.run.out
      /\ \A y \in Watcher \ {w} : watcher'[y] = watcher[y]
  <2>1. x.run.out \in Int
    BY DEF StreamRecord, RunRecord
  <2>2. watcher' = [watcher EXCEPT ![w].stage = "subscribed", ![w].saw = x.run.out]
    BY <1>1, <1>5
  <2>3. watcher \in [Watcher -> WatcherRecord] /\ watcher[w].stream = s
    BY <1>0 DEF IdentityShapes
  <2> HIDE DEF s
  <2> QED BY <2>1, <2>2, <2>3 DEF WatcherRecord
<1>7. \A n : n = s => Subscribers(n)' = Subscribers(n) \cup {w}
  <2>1. \A v \in Watcher : (watcher'[v].stream = s /\ watcher'[v].stage = "subscribed")
                           <=> (watcher[v].stream = s /\ watcher[v].stage = "subscribed") \/ v = w
    BY <1>6
  <2>2. ASSUME NEW n, n = s PROVE Subscribers(n)' = Subscribers(n) \cup {w}
    <3> HIDE DEF s
    <3> QED BY <2>1, <2>2 DEF Subscribers
  <2> QED BY <2>2
<1>8. \A y : y # s => Subscribers(y)' = Subscribers(y)
  <2>1. SUFFICES ASSUME NEW y, y # s PROVE Subscribers(y)' = Subscribers(y)
    OBVIOUS
  <2>2. \A v \in Watcher : (watcher'[v].stream = y /\ watcher'[v].stage = "subscribed")
                           <=> (watcher[v].stream = y /\ watcher[v].stage = "subscribed")
    BY <1>1, <1>6, <2>1
  <2> QED BY <2>2 DEF Subscribers
<1> HIDE DEF s
<1>9. IdentityShapes'
  <2>2. \A y \in Watcher : watcher'[y].stream \in 0..Len(shared') /\ (watcher'[y].stage # "new" => watcher'[y].stream # 0)
    BY <1>0, <1>2, <1>5, <1>6 DEF IdentityShapes
  <2> QED BY <1>0, <1>1, <1>5, <1>6, <2>2 DEF IdentityShapes
<1>10. ASSUME NEW y \in 1..Len(shared), y # s PROVE StreamIsSound(y)'
  <2>1. StreamIsSound(y) /\ shared'[y] = shared[y] /\ watched' = watched /\ onChain' = onChain /\ onChain \in Nat
    BY <1>0, <1>1, <1>5, <1>10 DEF IdentityInv, IdentityShapes
  <2>2. \A v \in Subscribers(y) : watcher'[v].saw = watcher[v].saw
    <3>1. w \notin Subscribers(y)
      BY <1>1 DEF Subscribers
    <3> QED BY <1>6, <3>1 DEF Subscribers
  <2>3. Subscribers(y)' = Subscribers(y)
    BY <1>8, <1>10
  <2> QED BY <1>0, <2>1, <2>2, <2>3, OtherStream
<1>11. ASSUME NEW n, n = s PROVE StreamIsSound(n)'
  <2>1. shared'[n] = x /\ Subscribers(n)' = Subscribers(n) \cup {w} /\ watched' = watched /\ onChain' = onChain
    BY <1>1, <1>5, <1>7, <1>11
  <2>2. RunIsSound(shared[n])'
    <3>1. CASE Subscribers(n) # {}
      BY <1>3, <1>4, <1>11, <2>1, <3>1 DEF StreamIsSound, RunIsSound
    <3>2. CASE Subscribers(n) = {}
      <4>1. x.run.live = Nothing /\ x.run.out \in Nothing..onChain
        BY <1>0, <1>2, <1>3, <1>4, <1>11, <3>2, StartedIsSound
      <4>2. x.record \in Nothing..onChain /\ Nothing \in Nothing..onChain
        BY <1>0, <1>3, <1>4 DEF StreamIsSound, RunIsSound, IdentityShapes, Nothing
      <4> QED BY <2>1, <4>1, <4>2 DEF RunIsSound
    <3> QED BY <3>1, <3>2
  <2>3. ~x.ended => watched = n
    BY <1>3, <1>4, <1>11 DEF StreamIsSound
  <2>4. x.revived \/ watched = n
    BY <1>3, <1>4, <1>11, <2>3 DEF StreamIsSound
  <2>5. x.run.out = Nothing => x.run.timer = "armed"
    BY <1>0, <1>2, <1>3, <1>4, <1>11, StartedIsSound DEF StreamIsSound
  <2>6. \A v \in Subscribers(n) \cup {w} : watcher'[v].saw = x.run.out
    <3>1. ASSUME NEW v \in Subscribers(n), v # w PROVE watcher'[v].saw = x.run.out
      <4>1. v \in Watcher /\ Subscribers(n) # {}
        BY DEF Subscribers
      <4> QED BY <1>3, <1>4, <1>6, <1>11, <3>1, <4>1 DEF StreamIsSound
    <3> QED BY <1>6, <3>1
  <2> QED BY <2>1, <2>2, <2>3, <2>4, <2>5, <2>6 DEF StreamIsSound
<1>12. watched' # 0 => ~shared'[watched'].ended
  BY <1>0, <1>1, <1>2, <1>4, <1>5 DEF IdentityInv, IdentityShapes
<1> QED BY <1>5, <1>9, <1>10, <1>11, <1>12 DEF IdentityInv

\* What ends a stream: nobody is left who is subscribed to it.
LEMMA EndsStep ==
    ASSUME IdentityInv, NEW s \in 1..Len(shared), EndsStream(s),
           UNCHANGED <<onChain, cached, writes, asker>>,
           watcher' \in [Watcher -> WatcherRecord],
           \A w \in Watcher : watcher'[w].stream = watcher[w].stream /\ (watcher'[w].stage # "new" <=> watcher[w].stage # "new"),
           \A w \in Subscribers(s) : watcher'[w].stage # "subscribed",
           \A w \in Watcher \ Subscribers(s) : watcher'[w] = watcher[w]
    PROVE  IdentityInv'
<1>0. IdentityShapes /\ s \in 1..Len(shared) /\ shared[s] \in StreamRecord /\ Len(shared) \in Nat
  BY DEF IdentityInv, IdentityShapes
<1>1. PICK x \in StreamRecord :
        /\ shared' = [shared EXCEPT ![s] = x]
        /\ x.run = Cold /\ x.ended = TRUE /\ x.record = shared[s].record
  <2> DEFINE r == [shared[s] EXCEPT !.run = Cold, !.ended = TRUE]
  <2>1. r \in StreamRecord /\ r.run = Cold /\ r.ended = TRUE /\ r.record = shared[s].record
    BY <1>0, ColdIsARun DEF StreamRecord
  <2>2. shared' = [shared EXCEPT ![s] = r]
    BY <1>0 DEF IdentityShapes, EndsStream
  <2> HIDE DEF r
  <2> QED BY <2>1, <2>2
<1>2. /\ shared' \in Seq(StreamRecord) /\ Len(shared') = Len(shared) /\ shared'[s] = x
      /\ \A y \in 1..Len(shared) : y # s => shared'[y] = shared[y]
  BY <1>0, <1>1, StreamReplaced DEF IdentityShapes
<1>3. watched' = IF watched = s THEN 0 ELSE watched
  BY DEF EndsStream, Finalized
<1>4. \A n : n = s => Subscribers(n)' = {}
  <2>1. \A w \in Watcher : ~(watcher'[w].stream = s /\ watcher'[w].stage = "subscribed")
    BY DEF Subscribers
  <2> QED BY <2>1 DEF Subscribers
<1>5. \A y : y # s => Subscribers(y)' = Subscribers(y)
  <2> SUFFICES ASSUME NEW y, y # s PROVE Subscribers(y)' = Subscribers(y)
    OBVIOUS
  <2>1. \A v \in Watcher : (watcher'[v].stream = y /\ watcher'[v].stage = "subscribed")
                           <=> (watcher[v].stream = y /\ watcher[v].stage = "subscribed")
    BY DEF Subscribers
  <2> QED BY <2>1 DEF Subscribers
<1>6. IdentityShapes'
  <2>1. \A w \in Watcher : watcher'[w].stream \in 0..Len(shared') /\ (watcher'[w].stage # "new" => watcher'[w].stream # 0)
    BY <1>0, <1>2 DEF IdentityShapes
  <2>2. watched' \in 0..Len(shared')
    BY <1>0, <1>2, <1>3 DEF IdentityShapes
  <2> QED BY <1>0, <1>2, <2>1, <2>2 DEF IdentityShapes
<1>7. ASSUME NEW y \in 1..Len(shared), y # s PROVE StreamIsSound(y)'
  <2>1. StreamIsSound(y) /\ shared'[y] = shared[y] /\ (watched = y => watched' = y) /\ onChain' = onChain /\ onChain \in Nat
    BY <1>0, <1>2, <1>3, <1>7 DEF IdentityInv, IdentityShapes
  <2>2. \A v \in Subscribers(y) : watcher'[v].saw = watcher[v].saw
    BY <1>7 DEF Subscribers
  <2>3. Subscribers(y)' = Subscribers(y)
    BY <1>5, <1>7
  <2> QED BY <1>0, <2>1, <2>2, <2>3, OtherStream
<1>8. ASSUME NEW n, n = s PROVE StreamIsSound(n)'
  <2>1. shared'[n] = x /\ Subscribers(n)' = {} /\ onChain' = onChain
    BY <1>2, <1>4, <1>8
  <2>2. x.record \in Nothing..onChain /\ Nothing \in Nothing..onChain
    BY <1>0, <1>1 DEF IdentityInv, StreamIsSound, RunIsSound, IdentityShapes, Nothing
  <2>3. RunIsSound(shared[n])'
    BY <1>1, <2>1, <2>2, ColdIsARun DEF RunIsSound
  <2> QED BY <1>1, <2>1, <2>3 DEF StreamIsSound
<1>9. watched' # 0 => ~shared'[watched'].ended
  BY <1>0, <1>2, <1>3 DEF IdentityInv, IdentityShapes
<1> QED BY <1>2, <1>6, <1>7, <1>8, <1>9 DEF IdentityInv

LEMMA UnsubscribeStep ==
    ASSUME IdentityInv, NEW w \in Watcher, Unsubscribe_(w)
    PROVE  IdentityInv'
<1>0. IdentityShapes
  BY DEF IdentityInv
<1> DEFINE s == watcher[w].stream
<1>1. /\ UNCHANGED <<onChain, cached, writes, asker>> /\ watcher[w].stage = "subscribed"
      /\ watcher' = [watcher EXCEPT ![w].stage = "holds", ![w].saw = Nothing]
  BY DEF Unsubscribe_
<1>2. s \in 1..Len(shared) /\ w \in Subscribers(s)
  BY <1>0, <1>1 DEF IdentityShapes, Subscribers
<1>3. /\ watcher' \in [Watcher -> WatcherRecord]
      /\ watcher'[w].stage = "holds" /\ watcher'[w].stream = s
      /\ \A y \in Watcher \ {w} : watcher'[y] = watcher[y]
  <2>1. Nothing \in Int /\ watcher \in [Watcher -> WatcherRecord]
    BY <1>0 DEF IdentityShapes, Nothing
  <2> QED BY <1>1, <2>1 DEF WatcherRecord
<1>4. CASE Subscribers(s) = {w}
  <2>1. EndsStream(s)
    BY <1>4 DEF Unsubscribe_
  <2>2. /\ \A x \in Watcher : watcher'[x].stream = watcher[x].stream /\ (watcher'[x].stage # "new" <=> watcher[x].stage # "new")
        /\ \A x \in Subscribers(s) : watcher'[x].stage # "subscribed"
        /\ \A x \in Watcher \ Subscribers(s) : watcher'[x] = watcher[x]
    BY <1>1, <1>3, <1>4
  <2> HIDE DEF s
  <2> QED BY <1>1, <1>2, <1>3, <2>1, <2>2, EndsStep
<1>5. CASE Subscribers(s) # {w}
  <2>1. UNCHANGED <<shared, watched>>
    BY <1>5 DEF Unsubscribe_
  <2>2. IdentityShapes'
    <3>1. \A x \in Watcher : watcher'[x].stream \in 0..Len(shared') /\ (watcher'[x].stage # "new" => watcher'[x].stream # 0)
      BY <1>0, <1>1, <1>3, <2>1 DEF IdentityShapes
    <3> QED BY <1>0, <1>1, <1>3, <2>1, <3>1 DEF IdentityShapes
  <2>3. ASSUME NEW y \in 1..Len(shared) PROVE StreamIsSound(y)'
    <3>1. StreamIsSound(y)
      BY DEF IdentityInv
    <3>2. Subscribers(y)' = Subscribers(y) \ {w}
      <4>1. \A v \in Watcher : (watcher'[v].stream = y /\ watcher'[v].stage = "subscribed")
                               <=> (watcher[v].stream = y /\ watcher[v].stage = "subscribed") /\ v # w
        BY <1>1, <1>3
      <4> QED BY <4>1 DEF Subscribers
    <3>3. Subscribers(y) # {} <=> Subscribers(y) \ {w} # {}
      BY <1>2, <1>5 DEF Subscribers
    <3>4. \A v \in Subscribers(y) \ {w} : watcher'[v].saw = watcher[v].saw
      BY <1>3 DEF Subscribers
    <3>5. RunIsSound(shared[y])'
      BY <1>1, <2>1, <3>1 DEF StreamIsSound, RunIsSound
    <3> QED BY <2>1, <3>1, <3>2, <3>3, <3>4, <3>5 DEF StreamIsSound
  <2> QED BY <2>1, <2>2, <2>3 DEF IdentityInv
<1> QED BY <1>4, <1>5

LEMMA ChainFailsStep ==
    ASSUME IdentityInv, NEW s \in DOMAIN shared, ChainFails(s)
    PROVE  IdentityInv'
<1>0. IdentityShapes /\ s \in 1..Len(shared)
  BY DEF IdentityInv, IdentityShapes
<1>1. /\ UNCHANGED <<onChain, cached, writes, asker>> /\ EndsStream(s)
      /\ watcher' = [w \in Watcher |->
            IF w \in Subscribers(s) THEN [watcher[w] EXCEPT !.stage = "holds", !.saw = Nothing] ELSE watcher[w]]
  BY DEF ChainFails
<1>2. ASSUME NEW w \in Subscribers(s)
      PROVE  /\ watcher'[w] \in WatcherRecord /\ watcher'[w].stage = "holds" /\ watcher'[w].stream = watcher[w].stream
             /\ watcher[w].stage # "new"
  <2>1. w \in Watcher /\ watcher[w] \in WatcherRecord /\ watcher[w].stage = "subscribed"
    BY <1>0 DEF Subscribers, IdentityShapes
  <2>2. watcher'[w] = [watcher[w] EXCEPT !.stage = "holds", !.saw = Nothing]
    BY <1>1, <2>1
  <2>3. Nothing \in Int
    BY DEF Nothing
  <2> QED BY <2>1, <2>2, <2>3 DEF WatcherRecord
<1>3. /\ watcher' \in [Watcher -> WatcherRecord]
      /\ \A w \in Watcher : watcher'[w].stream = watcher[w].stream /\ (watcher'[w].stage # "new" <=> watcher[w].stage # "new")
      /\ \A w \in Subscribers(s) : watcher'[w].stage # "subscribed"
      /\ \A w \in Watcher \ Subscribers(s) : watcher'[w] = watcher[w]
  <2>1. \A w \in Watcher \ Subscribers(s) : watcher'[w] = watcher[w] /\ watcher'[w] \in WatcherRecord
    BY <1>0, <1>1 DEF IdentityShapes
  <2>2. \A w \in Watcher : watcher'[w] \in WatcherRecord
    BY <1>2, <2>1
  <2>3. watcher' \in [Watcher -> WatcherRecord]
    BY <1>1, <2>2
  <2> QED BY <1>2, <2>1, <2>3
<1> QED BY <1>0, <1>1, <1>3, EndsStep

-----------------------------------------------------------------------------
(* What a stream emits reaches all who are subscribed.                      *)

LEMMA EmitsStep ==
    ASSUME IdentityInv, NEW s \in 1..Len(shared), NEW run \in RunRecord, NEW v, v \in Nothing..onChain, v # Nothing,
           NEW record, record \in Nothing..onChain,
           Emits(s, run, v, record), run.live # Nothing => v = run.live, run.live \in Nothing..onChain,
           run.seed = "reading" => run.live = Nothing, Subscribers(s) # {},
           UNCHANGED <<onChain, cached, watched, asker>>, writes' \subseteq 0..onChain
    PROVE  IdentityInv'
<1>0. IdentityShapes /\ s \in 1..Len(shared) /\ shared[s] \in StreamRecord /\ Len(shared) \in Nat /\ onChain \in Nat
      /\ v \in Int /\ record \in Int
  <2>1. s \in DOMAIN shared
    BY DEF IdentityInv, IdentityShapes
  <2>2. v \in Int /\ record \in Int
    <3>1. onChain \in Nat
      BY <2>1, StreamFacts
    <3> QED BY <3>1 DEF Nothing
  <2> QED BY <2>1, <2>2, StreamFacts
<1>1. PICK x \in StreamRecord :
        /\ shared' = [shared EXCEPT ![s] = x]
        /\ x.run.out = v /\ x.run.timer = "off" /\ x.run.live = run.live /\ x.run.seed = run.seed
        /\ x.ended = shared[s].ended /\ x.record = record /\ x.revived = shared[s].revived
  <2> DEFINE u == [run EXCEPT !.out = v, !.timer = "off"]
             r == [shared[s] EXCEPT !.run = u, !.record = record]
  <2>1. u \in RunRecord /\ u.out = v /\ u.timer = "off" /\ u.live = run.live /\ u.seed = run.seed
    BY <1>0 DEF RunRecord
  <2>2. shared' = [shared EXCEPT ![s] = r]
    BY <1>0 DEF IdentityShapes, Emits
  <2> HIDE DEF u
  <2>3. r \in StreamRecord /\ r.run = u /\ r.ended = shared[s].ended /\ r.record = record /\ r.revived = shared[s].revived
    BY <1>0, <2>1 DEF StreamRecord
  <2> HIDE DEF r
  <2> QED BY <2>1, <2>2, <2>3
<1>2. /\ shared' \in Seq(StreamRecord) /\ Len(shared') = Len(shared) /\ shared'[s] = x
      /\ \A y \in 1..Len(shared) : y # s => shared'[y] = shared[y]
  BY <1>0, <1>1, StreamReplaced DEF IdentityShapes
<1>3. watcher' = [w \in Watcher |-> IF w \in Subscribers(s) THEN [watcher[w] EXCEPT !.saw = v] ELSE watcher[w]]
  BY DEF Emits
<1>4. \A w \in Watcher : /\ watcher'[w] \in WatcherRecord /\ watcher'[w].stream = watcher[w].stream
                         /\ watcher'[w].stage = watcher[w].stage
                         /\ w \in Subscribers(s) => watcher'[w].saw = v
                         /\ w \notin Subscribers(s) => watcher'[w] = watcher[w]
  <2> TAKE w \in Watcher
  <2>1. watcher[w] \in WatcherRecord
    BY <1>0 DEF IdentityShapes
  <2> QED BY <1>0, <1>3, <2>1 DEF WatcherRecord
<1>5. \A y : Subscribers(y)' = Subscribers(y)
  BY <1>4 DEF Subscribers
<1>6. IdentityShapes'
  <2>1. watcher' \in [Watcher -> WatcherRecord]
    BY <1>3, <1>4
  <2> QED BY <1>0, <1>2, <1>4, <2>1 DEF IdentityShapes
<1>7. ASSUME NEW y \in 1..Len(shared), y # s PROVE StreamIsSound(y)'
  <2>1. StreamIsSound(y) /\ shared'[y] = shared[y] /\ watched' = watched /\ onChain' = onChain
    BY <1>2, <1>7 DEF IdentityInv
  <2>2. \A w \in Subscribers(y) : watcher'[w].saw = watcher[w].saw
    BY <1>4, <1>7 DEF Subscribers
  <2>3. Subscribers(y)' = Subscribers(y)
    BY <1>5
  <2> QED BY <1>0, <2>1, <2>2, <2>3, OtherStream
<1>8. ASSUME NEW n, n = s PROVE StreamIsSound(n)'
  <2>1. shared'[n] = x /\ Subscribers(n)' = Subscribers(n) /\ onChain' = onChain /\ watched' = watched
    BY <1>2, <1>5, <1>8
  <2>2. RunIsSound(shared[n])'
    BY <1>1, <2>1 DEF RunIsSound
  <2>3. StreamIsSound(s)
    BY DEF IdentityInv
  <2>4. \A w \in Subscribers(n) : watcher'[w].saw = v
    BY <1>4, <1>8 DEF Subscribers
  <2> QED BY <1>1, <1>8, <2>1, <2>2, <2>3, <2>4 DEF StreamIsSound
<1>9. watched' # 0 => ~shared'[watched'].ended
  BY <1>0, <1>1, <1>2 DEF IdentityInv, IdentityShapes
<1> QED BY <1>2, <1>6, <1>7, <1>8, <1>9 DEF IdentityInv

\* A stream that runs has somebody subscribed.
LEMMA RunningIsHeard ==
    ASSUME IdentityInv, NEW s \in DOMAIN shared, shared[s].run # Cold
    PROVE  Subscribers(s) # {}
BY DEF IdentityInv, IdentityShapes, StreamIsSound

LEMMA SeedComesStep ==
    ASSUME IdentityInv, NEW s \in DOMAIN shared, SeedComes(s)
    PROVE  IdentityInv'
<1>0. IdentityShapes /\ s \in 1..Len(shared) /\ shared[s] \in StreamRecord /\ Len(shared) \in Nat /\ onChain \in Nat
      /\ cached \in 0..onChain /\ shared[s].run \in RunRecord
  BY StreamFacts
<1> DEFINE run == [shared[s].run EXCEPT !.seed = "off"]
<1>1. /\ shared[s].run.seed = "reading" /\ UNCHANGED <<onChain, cached, writes, watched, asker>>
      /\ \/ cached # 0 /\ Emits(s, run, cached, cached)
         \/ shared' = [shared EXCEPT ![s].run = run, ![s].record = 0] /\ UNCHANGED watcher
  BY DEF SeedComes
<1>2. StreamIsSound(s) /\ Subscribers(s) # {}
  BY <1>0, <1>1, RunningIsHeard, ColdIsARun DEF IdentityInv
<1>3. /\ run \in RunRecord /\ run.seed = "off" /\ run.live = Nothing /\ run.timer = shared[s].run.timer
      /\ run.out = shared[s].run.out
  BY <1>0, <1>1, <1>2 DEF RunRecord, StreamIsSound, RunIsSound
<1> HIDE DEF run
<1>4. CASE cached # 0 /\ Emits(s, run, cached, cached)
  <2>1. Emits(s, run, cached, cached) /\ cached \in Nothing..onChain /\ cached # Nothing /\ Nothing \in Nothing..onChain
    BY <1>0, <1>1, <1>4 DEF Nothing
  <2>2. writes' \subseteq 0..onChain
    BY <1>0, <1>1 DEF IdentityShapes
  <2> QED BY <1>0, <1>1, <1>2, <1>3, <2>1, <2>2, EmitsStep
<1>5. CASE shared' = [shared EXCEPT ![s].run = run, ![s].record = 0] /\ UNCHANGED watcher
  <2>1. UNCHANGED <<onChain, cached, writes, watched, watcher, asker>>
    BY <1>1, <1>5
  <2>2. PICK x \in StreamRecord :
          /\ shared' = [shared EXCEPT ![s] = x]
          /\ x.run = run /\ x.ended = shared[s].ended /\ x.record = 0 /\ x.revived = shared[s].revived
    <3> DEFINE r == [shared[s] EXCEPT !.run = run, !.record = 0]
    <3>1. shared' = [shared EXCEPT ![s] = r]
      BY <1>0, <1>1, <1>5 DEF IdentityShapes
    <3>2. r \in StreamRecord /\ r.run = run /\ r.ended = shared[s].ended /\ r.record = 0 /\ r.revived = shared[s].revived
      <4>1. run \in RunRecord /\ shared[s] \in StreamRecord /\ 0 \in Int
        BY <1>0, <1>3
      <4> QED BY <4>1 DEF StreamRecord
    <3> HIDE DEF r
    <3> QED BY <3>1, <3>2
  <2>3. /\ shared' \in Seq(StreamRecord) /\ Len(shared') = Len(shared) /\ shared'[s] = x
        /\ \A y \in 1..Len(shared) : y # s => shared'[y] = shared[y]
    BY <1>0, <2>2, StreamReplaced DEF IdentityShapes
  <2>4. IdentityShapes'
    BY <1>0, <2>1, <2>3 DEF IdentityShapes
  <2>5. \A y : Subscribers(y)' = Subscribers(y)
    BY <2>1 DEF Subscribers
  <2>6. ASSUME NEW y \in 1..Len(shared), y # s PROVE StreamIsSound(y)'
    <3>1. StreamIsSound(y) /\ shared'[y] = shared[y]
      BY <2>3, <2>6 DEF IdentityInv
    <3> QED BY <1>0, <2>1, <2>5, <3>1, OtherStream
  <2>7. StreamIsSound(s)'
    <3>1. RunIsSound(shared[s])'
      BY <1>0, <1>2, <1>3, <2>1, <2>2, <2>3 DEF RunIsSound, StreamIsSound, Nothing
    <3> QED BY <1>2, <1>3, <2>1, <2>2, <2>3, <2>5, <3>1 DEF StreamIsSound
  <2>8. watched' # 0 => ~shared'[watched'].ended
    BY <1>0, <2>1, <2>2, <2>3 DEF IdentityInv, IdentityShapes
  <2> QED BY <2>3, <2>4, <2>6, <2>7, <2>8 DEF IdentityInv
<1> QED BY <1>1, <1>4, <1>5

LEMMA ChainEmitsStep ==
    ASSUME IdentityInv, NEW s \in DOMAIN shared, ChainEmits(s)
    PROVE  IdentityInv'
<1>0. IdentityShapes /\ s \in 1..Len(shared) /\ shared[s] \in StreamRecord /\ onChain \in Nat
      /\ shared[s].run \in RunRecord /\ StreamIsSound(s)
  BY StreamFacts
<1> DEFINE run == [shared[s].run EXCEPT !.live = onChain, !.seed = SeedLeft(@)]
           record == IF shared[s].record = Nothing THEN 0 ELSE shared[s].record
<1>1. /\ Subscribers(s) # {} /\ UNCHANGED <<onChain, cached, watched, asker>>
      /\ Emits(s, run, onChain, record) /\ writes' = writes \cup ({onChain} \ {0})
  BY DEF ChainEmits
<1>2. run \in RunRecord /\ run.live = onChain /\ run.seed = "off"
  <2>1. run = [shared[s].run EXCEPT !.live = onChain, !.seed = "off"]
    BY DEF SeedLeft
  <2>2. onChain \in Int
    BY <1>0
  <2> HIDE DEF run
  <2> QED BY <1>0, <2>1, <2>2 DEF RunRecord
<1>3. record \in Nothing..onChain
  BY <1>0 DEF StreamIsSound, RunIsSound, Nothing
<1> HIDE DEF run, record
<1>4. onChain \in Nothing..onChain /\ onChain # Nothing /\ writes' \subseteq 0..onChain
  BY <1>0, <1>1 DEF IdentityShapes, Nothing
<1> QED BY <1>0, <1>1, <1>2, <1>3, <1>4, EmitsStep

LEMMA TimerEndsStep ==
    ASSUME IdentityInv, NEW s \in DOMAIN shared, TimerEnds(s)
    PROVE  IdentityInv'
<1>0. IdentityShapes /\ s \in 1..Len(shared) /\ shared[s] \in StreamRecord /\ onChain \in Nat
      /\ shared[s].run \in RunRecord /\ StreamIsSound(s)
  BY StreamFacts
<1>1. /\ shared[s].run.timer = "armed" /\ UNCHANGED <<onChain, cached, writes, watched, asker>>
      /\ Emits(s, shared[s].run, 0, shared[s].record)
  BY DEF TimerEnds
<1>2. Subscribers(s) # {}
  BY <1>0, <1>1, RunningIsHeard, ColdIsARun
<1>3. /\ 0 \in Nothing..onChain /\ 0 # Nothing /\ writes' \subseteq 0..onChain /\ Nothing \in Nothing..onChain
      /\ shared[s].record \in Nothing..onChain /\ shared[s].run.live = Nothing
  BY <1>0, <1>1 DEF IdentityShapes, StreamIsSound, RunIsSound, Nothing
<1> QED BY <1>0, <1>1, <1>2, <1>3, EmitsStep

LEMMA SeesTheChain == IdentityInv => WatchersSeeTheChain
<1> SUFFICES ASSUME IdentityInv PROVE WatchersSeeTheChain
  OBVIOUS
<1>1. /\ IdentityShapes /\ DOMAIN shared = 1..Len(shared)
      /\ \A s \in DOMAIN shared : StreamIsSound(s)
      /\ watched # 0 => ~shared[watched].ended
  BY DEF IdentityInv, IdentityShapes
<1>2. IdentityTypeOK
  BY <1>1 DEF IdentityTypeOK, IdentityShapes, StreamIsSound, RunIsSound
<1> QED BY <1>1, <1>2 DEF WatchersSeeTheChain, StreamIsSound, RunIsSound

\* The watchers of an account see the same value, the chain's once it has
\* spoken, and share one subscription of it unless they watch one that ended,
\* for any watchers, versions, failures and delays of the storage.
THEOREM WatchersAlwaysSeeTheChain == IdentitySpec => []WatchersSeeTheChain
<1>1. IdentityInv /\ [IdentityNext]_identityVars => IdentityInv'
  BY IdentityStutter, ChainAndStorageStep, WatchStep, SubscribeToStep, UnsubscribeStep, ChainFailsStep,
     SeedComesStep, ChainEmitsStep, TimerEndsStep
     DEF IdentityNext
<1> QED BY <1>1, IdentityInitInv, SeesTheChain, PTL DEF IdentitySpec

-----------------------------------------------------------------------------
\* A nonempty set of natural numbers has a least element.
LEMMA LeastOf ==
    ASSUME NEW S, S \subseteq Nat, S # {}
    PROVE  \E m \in S : \A x \in S : m <= x
<1> DEFINE R == {ss \in Nat \X Nat : ss[1] < ss[2]}
<1>1. IsWellFoundedOn(R, Nat)
  BY NatLessThanWellFounded DEF OpToRel
<1>2. PICK m \in S : \A x \in S : <<x, m>> \notin R
  <2> HIDE DEF R
  <2> QED BY <1>1, WFMin, Zenon
<1>3. ASSUME NEW x \in S PROVE m <= x
  <2>1. <<x, m>> \in Nat \X Nat /\ <<x, m>> \notin R
    BY <1>2
  <2>2. ~(<<x, m>>[1] < <<x, m>>[2])
    BY <2>1, Zenon
  <2> QED BY <2>1, <2>2
<1> QED BY <1>3

LEMMA MinOfTwo ==
    ASSUME NEW a \in Nat, NEW b \in Nat
    PROVE  Min({a, b}) = IF a <= b THEN a ELSE b
<1> DEFINE m == IF a <= b THEN a ELSE b
<1>1. m \in {a, b} /\ \A y \in {a, b} : m <= y
  OBVIOUS
<1>2. \A x, y \in {a, b} : (\A z \in {a, b} : x <= z) /\ (\A z \in {a, b} : y <= z) => x = y
  OBVIOUS
<1> QED BY <1>1, <1>2 DEF Min

\* Multiples of a positive number grow with the factor.
LEMMA MultiplesGrow ==
    ASSUME NEW c \in Nat \ {0}, NEW j \in Nat, NEW k \in Nat, j <= k
    PROVE  /\ j * c \in Nat /\ k * c \in Nat /\ j * c <= k * c /\ k <= k * c
           /\ (j + 1) * c = j * c + c
<1>1. PICK d \in Nat : k = j + d
  <2>1. k - j \in Nat /\ k = j + (k - j)
    OBVIOUS
  <2> QED BY <2>1
<1>2. k * c = j * c + d * c /\ d * c \in Nat /\ j * c \in Nat /\ k * c \in Nat
  BY <1>1
<1>3. k <= k * c
  <2>1. PICK e \in Nat : c = e + 1
    <3>1. c - 1 \in Nat /\ c = (c - 1) + 1
      OBVIOUS
    <3> QED BY <3>1
  <2>2. k * c = k * e + k /\ k * e \in Nat
    BY <2>1
  <2> QED BY <2>2
<1>4. (j + 1) * c = j * c + c
  OBVIOUS
<1> QED BY <1>2, <1>3, <1>4

\* The chunks of a file of some length start at the first so many multiples.
LEMMA StartsCounted ==
    ASSUME NEW length \in Nat, NEW c \in Nat \ {0}
    PROVE  \E n \in Nat : /\ {k \in 0..length : k * c < length} = 0..(n - 1)
                          /\ Cardinality({k \in 0..length : k * c < length}) = n
                          /\ length <= n * c
                          /\ \A k \in 0..(n - 1) : k * c < length
<1> DEFINE beyond == {k \in Nat : length <= k * c}
<1>1. length \in beyond
  BY MultiplesGrow
<1>2. PICK n \in beyond : \A k \in beyond : n <= k
  BY <1>1, LeastOf
<1>3. n \in Nat /\ n <= length
  BY <1>1, <1>2
<1>4. \A k \in Nat : k < n => k * c < length
  <2> SUFFICES ASSUME NEW k \in Nat, k < n PROVE k * c < length
    OBVIOUS
  <2>1. k * c \in Nat
    BY MultiplesGrow
  <2>2. k \notin beyond
    BY <1>2, <1>3
  <2> QED BY <2>1, <2>2
<1>5. \A k \in Nat : k >= n => ~(k * c < length)
  <2> SUFFICES ASSUME NEW k \in Nat, k >= n PROVE ~(k * c < length)
    OBVIOUS
  <2>1. n * c \in Nat /\ k * c \in Nat /\ n * c <= k * c
    BY <1>3, MultiplesGrow
  <2> QED BY <1>2, <2>1
<1>6. {k \in 0..length : k * c < length} = 0..(n - 1)
  BY <1>3, <1>4, <1>5
<1>7. Cardinality(0..(n - 1)) = n
  BY <1>3, FS_Interval
<1> QED BY <1>2, <1>3, <1>4, <1>6, <1>7

\* A sequence of sequences is joined from the left, whatever is known of the
\* parts that were joined already.
LEMMA JoinedFromLeft ==
    ASSUME NEW s, NEW n \in Nat, Len(s) = n, n # 0, NEW g \in [1..n -> Seq(Nat)],
           \A i \in 1..n : g[i] = IF i = 1 THEN s[i] ELSE g[i - 1] \o s[i]
    PROVE  FlattenSeq(s) = g[n]
<1> DEFINE D(f) == [i \in 1..n |-> IF i = 1 THEN s[i] ELSE f[i - 1] \o s[i]]
<1>1. g = D(g)
  OBVIOUS
<1>2. PICK f : f = CHOOSE h : h = D(h)
  OBVIOUS
<1>3. f = D(f)
  BY <1>1, <1>2
<1>4. FlattenSeq(s) = f[n]
  BY <1>2 DEF FlattenSeq
<1>5. \A i \in 1..n : f[i] = g[i]
  <2> DEFINE differ == {i \in 1..n : f[i] # g[i]}
  <2> SUFFICES ASSUME differ # {} PROVE FALSE
    OBVIOUS
  <2>0. differ \subseteq Nat
    OBVIOUS
  <2>1. PICK i \in differ : \A j \in differ : i <= j
    BY <2>0, LeastOf
  <2>2. i \in 1..n /\ f[i] = (IF i = 1 THEN s[i] ELSE f[i - 1] \o s[i])
    BY <1>3
  <2>3. ASSUME i # 1 PROVE f[i - 1] = g[i - 1]
    <3>1. i - 1 \in 1..n /\ ~(i <= i - 1)
      BY <2>2, <2>3
    <3>2. i - 1 \notin differ
      BY <2>1, <3>1
    <3> QED BY <3>1, <3>2
  <2>4. g[i] = IF i = 1 THEN s[i] ELSE g[i - 1] \o s[i]
    BY <2>2
  <2> QED BY <2>1, <2>2, <2>3, <2>4
<1> QED BY <1>4, <1>5

\* What lies before a cut and what lies between it and the next.
LEMMA Spliced ==
    ASSUME NEW s \in Seq(Nat), NEW a \in Nat, NEW b \in Nat, a <= b, b <= Len(s)
    PROVE  SubSeq(s, 1, a) \o SubSeq(s, a + 1, b) = SubSeq(s, 1, b)
<1> DEFINE x == SubSeq(s, 1, a)
           y == SubSeq(s, a + 1, b)
           z == SubSeq(s, 1, b)
<1>0. Len(s) \in Nat /\ \A i \in 1..Len(s) : s[i] \in Nat
  BY LenProperties
<1>1. x \in Seq(Nat) /\ Len(x) = a /\ \A i \in 1..a : x[i] = s[i]
  BY <1>0, SubSeqProperties
<1>2. y \in Seq(Nat) /\ Len(y) = b - a /\ \A i \in 1..(b - a) : y[i] = s[a + i]
  BY <1>0, SubSeqProperties
<1>3. z \in Seq(Nat) /\ Len(z) = b /\ \A i \in 1..b : z[i] = s[i]
  BY <1>0, SubSeqProperties
<1> HIDE DEF x, y, z
<1>4. x \o y \in Seq(Nat) /\ Len(x \o y) = b /\ \A i \in 1..b : (x \o y)[i] = IF i <= a THEN x[i] ELSE y[i - a]
  <2>1. Len(x) + Len(y) = b
    BY <1>1, <1>2
  <2>2. x \in Seq(Nat) /\ y \in Seq(Nat)
    BY <1>1, <1>2
  <2>3. /\ x \o y \in Seq(Nat) /\ Len(x \o y) = Len(x) + Len(y)
        /\ \A i \in 1..Len(x) + Len(y) : (x \o y)[i] = IF i <= Len(x) THEN x[i] ELSE y[i - Len(x)]
    BY <2>2, ConcatProperties
  <2> QED BY <1>1, <2>1, <2>3
<1>5. \A i \in 1..b : (x \o y)[i] = z[i]
  <2>1. ASSUME NEW i \in 1..b, ~(i <= a) PROVE y[i - a] = s[i]
    <3>1. i - a \in 1..(b - a) /\ a + (i - a) = i
      BY <2>1
    <3> QED BY <1>2, <3>1
  <2>2. ASSUME NEW i \in 1..b, i <= a PROVE x[i] = s[i]
    BY <1>1, <2>2
  <2> QED BY <1>3, <1>4, <2>1, <2>2
<1>6. x \o y = z
  BY <1>3, <1>4, <1>5, SeqEqual
<1> QED BY <1>6 DEF x, y, z

\* A file that is cut from its start to its end is its pieces put together.
LEMMA PiecesMakeTheWhole ==
    ASSUME NEW bytes \in Seq(Nat), NEW n \in Nat, NEW cut \in [0..n -> Nat],
           cut[0] = 0, cut[n] = Len(bytes), \A i \in 1..n : cut[i - 1] <= cut[i] /\ cut[i] <= Len(bytes),
           NEW s, s \in Seq(Seq(Nat)), Len(s) = n,
           \A i \in 1..n : s[i] = SubSeq(bytes, cut[i - 1] + 1, cut[i])
    PROVE  FlattenSeq(s) = bytes
<1>0. Len(bytes) \in Nat /\ SubSeq(bytes, 1, Len(bytes)) = bytes
  <2>1. Len(bytes) \in Nat /\ \A i \in 1..Len(bytes) : bytes[i] \in Nat
    BY LenProperties
  <2> DEFINE all == SubSeq(bytes, 1, Len(bytes))
  <2>2. all \in Seq(Nat) /\ Len(all) = Len(bytes) /\ \A i \in 1..Len(bytes) : all[i] = bytes[i]
    BY <2>1, SubSeqProperties
  <2> HIDE DEF all
  <2>3. all = bytes
    BY <2>2, SeqEqual
  <2> QED BY <2>1, <2>3 DEF all
<1>1. CASE n = 0
  <2>1. bytes = <<>> /\ s = <<>>
    BY <1>1, EmptySeq
  <2> QED BY <2>1, EmptySeq DEF FlattenSeq
<1>2. CASE n # 0
  <2> DEFINE g == [i \in 1..n |-> SubSeq(bytes, 1, cut[i])]
  <2>1. ASSUME NEW i \in 1..n
        PROVE  g[i] = IF i = 1 THEN s[i] ELSE g[i - 1] \o s[i]
    <3>1. CASE i = 1
      <4>1. i - 1 = 0
        BY <3>1
      <4>2. s[i] = SubSeq(bytes, cut[i - 1] + 1, cut[i])
        OBVIOUS
      <4>3. cut[i - 1] + 1 = 1
        BY <4>1
      <4> QED BY <3>1, <4>2, <4>3
    <3>2. CASE i # 1
      <4>1. i - 1 \in 1..n /\ i - 1 \in 0..n /\ i \in 0..n
        BY <3>2
      <4>2. cut[i - 1] \in Nat /\ cut[i] \in Nat /\ cut[i - 1] <= cut[i] /\ cut[i] <= Len(bytes)
        BY <4>1
      <4>3. SubSeq(bytes, 1, cut[i - 1]) \o SubSeq(bytes, cut[i - 1] + 1, cut[i]) = SubSeq(bytes, 1, cut[i])
        BY <4>2, Spliced
      <4> QED BY <3>2, <4>1, <4>3
    <3> QED BY <3>1, <3>2
  <2>2. g \in [1..n -> Seq(Nat)]
    <3>1. ASSUME NEW i \in 1..n PROVE SubSeq(bytes, 1, cut[i]) \in Seq(Nat)
      <4>1. i \in 0..n /\ cut[i] \in Nat /\ cut[i] <= Len(bytes)
        OBVIOUS
      <4>2. \A j \in 1..Len(bytes) : bytes[j] \in Nat
        BY LenProperties
      <4>3. \A j \in 1..cut[i] : bytes[j] \in Nat
        BY <1>0, <4>1, <4>2
      <4> QED BY <4>1, <4>3, SubSeqProperties
    <3> QED BY <3>1
  <2>3. g[n] = bytes
    BY <1>0, <1>2
  <2> HIDE DEF g
  <2>4. \A i \in 1..n : g[i] = IF i = 1 THEN s[i] ELSE g[i - 1] \o s[i]
    BY <2>1
  <2>5. FlattenSeq(s) = g[n]
    BY <1>2, <2>2, <2>4, JoinedFromLeft
  <2> QED BY <2>3, <2>5
<1> QED BY <1>1, <1>2

------------------------------------------------------------------------------
(* The chunks of the file                                                     *)

FileOK == file.bytes \in Seq(Nat) /\ file.chunkSize \in Nat \ {0}

\* Where a chunk ends.
Cut(i) == Min({i * file.chunkSize, Len(file.bytes)})

LEMMA ChunksMakeTheFile ==
    ASSUME FileOK
    PROVE  Chunks \in Seq(Seq(Nat)) /\ FlattenSeq(Chunks) = file.bytes
<1> DEFINE length == Len(file.bytes)
           c == file.chunkSize
           starts == {k \in 0..length : k * c < length}
<1>0. length \in Nat /\ c \in Nat \ {0} /\ \A j \in 1..length : file.bytes[j] \in Nat
  BY LenProperties DEF FileOK
<1>1. PICK n \in Nat : /\ Cardinality(starts) = n /\ length <= n * c
                       /\ \A k \in 0..(n - 1) : k * c < length
  BY <1>0, StartsCounted
<1>2. Chunks = [i \in 1..n |-> SubSeq(file.bytes, (i - 1) * c + 1, Min({((i - 1) + 1) * c, length}))]
  BY <1>1 DEF Chunks, ChunkStarts
<1> DEFINE cut == [i \in 0..n |-> Cut(i)]
<1>3. ASSUME NEW i \in 0..n
      PROVE  /\ cut[i] \in Nat /\ cut[i] <= length /\ i * c \in Nat
             /\ cut[i] = IF i * c <= length THEN i * c ELSE length
  <2>1. i \in Nat /\ i * c \in Nat
    BY <1>0, MultiplesGrow
  <2>2. cut[i] = IF i * c <= length THEN i * c ELSE length
    BY <1>0, <2>1, MinOfTwo DEF Cut
  <2> HIDE DEF cut, c, length
  <2> QED BY <1>0, <2>1, <2>2
<1>4. ASSUME NEW i \in 1..n
      PROVE  /\ (i - 1) + 1 = i /\ i \in 0..n /\ i - 1 \in 0..n /\ cut[i - 1] = (i - 1) * c /\ cut[i - 1] <= cut[i]
  <2>1. (i - 1) + 1 = i /\ i \in 0..n /\ i - 1 \in 0..n /\ i - 1 \in 0..(n - 1) /\ i \in Nat /\ i - 1 \in Nat
    OBVIOUS
  <2>2. (i - 1) * c < length /\ (i - 1) * c <= i * c
    BY <1>0, <1>1, <2>1, MultiplesGrow
  <2>3. cut[i] = (IF i * c <= length THEN i * c ELSE length) /\ cut[i - 1] = (IF (i - 1) * c <= length THEN (i - 1) * c ELSE length)
    BY <1>3, <2>1
  <2>4. i * c \in Nat /\ (i - 1) * c \in Nat
    BY <1>3, <2>1
  <2> HIDE DEF cut, c, length
  <2> QED BY <1>0, <2>1, <2>2, <2>3, <2>4
<1>5. ASSUME NEW i \in 1..n
      PROVE  /\ Chunks[i] = SubSeq(file.bytes, cut[i - 1] + 1, cut[i])
             /\ SubSeq(file.bytes, cut[i - 1] + 1, cut[i]) \in Seq(Nat)
  <2>1. cut[i] = Min({((i - 1) + 1) * c, length})
    BY <1>4 DEF Cut
  <2>2. Chunks[i] = SubSeq(file.bytes, (i - 1) * c + 1, Min({((i - 1) + 1) * c, length}))
    BY <1>2
  <2>3. cut[i - 1] \in Nat /\ cut[i] \in Nat /\ cut[i] <= length /\ cut[i - 1] = (i - 1) * c
    BY <1>3, <1>4
  <2> HIDE DEF cut, c, length
  <2>4. \A j \in (cut[i - 1] + 1)..cut[i] : file.bytes[j] \in Nat
    BY <1>0, <2>3
  <2>5. SubSeq(file.bytes, cut[i - 1] + 1, cut[i]) \in Seq(Nat)
    BY <2>3, <2>4, SubSeqProperties
  <2> QED BY <2>1, <2>2, <2>3, <2>5
<1>6. Len(Chunks) = n /\ Chunks \in Seq(Seq(Nat))
  <2>1. \A i \in 1..n : Chunks[i] \in Seq(Nat)
    BY <1>5
  <2>2. Chunks \in [1..n -> Seq(Nat)]
    BY <1>2, <2>1
  <2> QED BY <2>2
<1>7. cut \in [0..n -> Nat]
  BY <1>3
<1>8. cut[0] = 0
  <2>1. 0 * c = 0 /\ 0 \in 0..n
    BY <1>0
  <2> QED BY <1>0, <1>3, <2>1
<1>9. cut[n] = length
  <2>1. n \in 0..n /\ length <= n * c /\ n * c \in Nat /\ cut[n] = IF n * c <= length THEN n * c ELSE length
    BY <1>1, <1>3
  <2> HIDE DEF cut, c, length
  <2> QED BY <1>0, <2>1
<1>10. \A i \in 1..n : cut[i - 1] <= cut[i] /\ cut[i] <= length
  BY <1>3, <1>4
<1> HIDE DEF cut
<1> QED BY <1>5, <1>6, <1>7, <1>8, <1>9, <1>10, PiecesMakeTheWhole DEF FileOK

\* The list of a file's chunks, and a chunk, as the pool stores them.
Entry == [size : Nat, chunks : Seq(Nat), data : Seq(Nat)]

Metadata == [size |-> Len(file.bytes), chunks |-> upload.hashes, data |-> <<>>]

(* What inductiveness adds to a whole file: the shapes of what is stored, and *)
(* how much of the file has been sent and claimed.                            *)

HandoffShapes ==
    /\ FileOK
    /\ upload \in [stage : {"sending", "done", "failed"}, hashes : Seq(Nat)]
    /\ submitted \in Seq(Entry)
    /\ hopPool \subseteq 1..Len(submitted)
    /\ download \in [Download -> [stage : {"new", "claiming", "done", "mismatch", "failed"},
                                  size : Nat, chunks : Seq(Nat), got : Seq(Seq(Nat))]]

\* The chunks were submitted first and in order, the list of them last.
SentInOrder ==
    /\ Len(upload.hashes) <= Len(Chunks) /\ Len(upload.hashes) <= Len(submitted)
    /\ \A i \in 1..Len(upload.hashes) : upload.hashes[i] = i /\ submitted[i].data = Chunks[i]
    /\ upload.stage = "sending" => Len(submitted) = Len(upload.hashes)
    /\ upload.stage = "done" => /\ Len(upload.hashes) = Len(Chunks) /\ Len(submitted) = Len(Chunks) + 1
                                /\ submitted[Len(submitted)] = Metadata

\* Who has claimed the list.
HasList(d) == download[d].stage \in {"claiming", "done", "mismatch"}

\* Whoever has the list has it alone, and what was claimed is its beginning.
ClaimedInOrder ==
    /\ \A d \in Download :
         HasList(d) => /\ upload.stage = "done" /\ Identifier \notin hopPool
                       /\ download[d].chunks = upload.hashes /\ download[d].size = Len(file.bytes)
                       /\ \A i \in 1..Len(download[d].got) : download[d].got[i] = Chunks[i]
    /\ \A d, e \in Download : HasList(d) /\ HasList(e) => d = e
    /\ \A d \in Download : Len(download[d].got) <= Len(download[d].chunks)
    /\ \A d \in Download : download[d].stage = "done" => Len(download[d].got) = Len(download[d].chunks)

\* Nothing is claimed before the list is.
ListFirst ==
    upload.stage = "sending" \/ (upload.stage = "done" /\ Identifier \in hopPool) => hopPool = 1..Len(submitted)

HandoffIInv ==
    /\ HandoffShapes /\ SentInOrder /\ ClaimedInOrder /\ ListFirst
    /\ \A d \in Download : download[d].stage # "mismatch"

LEMMA HandoffInitIInv == HandoffInit => HandoffIInv
<1> SUFFICES ASSUME HandoffInit PROVE HandoffIInv
  OBVIOUS
<1>1. FileOK
  <2>1. PICK length \in 0..MaxLength, chunkSize \in 1..MaxLength :
               file = [bytes |-> [i \in 1..length |-> i], chunkSize |-> chunkSize]
    BY DEF HandoffInit
  <2>2. length \in Nat /\ chunkSize \in Nat \ {0}
    BY HandoffAssumption
  <2>3. file.bytes = [i \in 1..length |-> i] /\ file.chunkSize = chunkSize
    BY <2>1
  <2>4. file.bytes \in Seq(Nat)
    BY <2>2, <2>3
  <2> QED BY <2>2, <2>3, <2>4 DEF FileOK
<1>2. upload = [stage |-> "sending", hashes |-> <<>>] /\ hopPool = {} /\ submitted = <<>>
  BY DEF HandoffInit
<1>3. \A d \in Download : download[d] = [stage |-> "new", size |-> 0, chunks |-> <<>>, got |-> <<>>]
  BY DEF HandoffInit
<1>4. HandoffShapes
  BY <1>1, <1>2 DEF HandoffInit, HandoffShapes
<1>5. Len(Chunks) \in Nat
  BY <1>1, ChunksMakeTheFile, LenProperties
<1>6. SentInOrder
  <2>1. Len(upload.hashes) = 0 /\ Len(submitted) = 0 /\ upload.stage = "sending"
    BY <1>2
  <2> QED BY <1>5, <2>1 DEF SentInOrder
<1>7. ClaimedInOrder
  BY <1>3 DEF ClaimedInOrder, HasList
<1> QED BY <1>2, <1>3, <1>4, <1>6, <1>7 DEF HandoffIInv, ListFirst

\* The file does not change, nor do its chunks.
LEMMA FileStays ==
    ASSUME HandoffShapes, UNCHANGED file
    PROVE  /\ Chunks' = Chunks /\ Len(Chunks) \in Nat /\ Chunks \in Seq(Seq(Nat))
           /\ \A i \in 1..Len(Chunks) : Chunks[i] \in Seq(Nat)
           /\ FileOK' /\ Len(file.bytes) \in Nat
<1>1. Chunks' = Chunks /\ FileOK'
  BY DEF Chunks, ChunkStarts, FileOK, HandoffShapes
<1>2. Chunks \in Seq(Seq(Nat)) /\ file.bytes \in Seq(Nat)
  BY ChunksMakeTheFile DEF HandoffShapes, FileOK
<1> QED BY <1>1, <1>2, LenProperties

\* Another entry is added to the end of what was submitted.
LEMMA StoresFacts ==
    ASSUME HandoffShapes, NEW content \in Entry, Stores(content)
    PROVE  /\ submitted' \in Seq(Entry) /\ Len(submitted) \in Nat /\ Len(submitted') = Len(submitted) + 1
           /\ \A i \in 1..Len(submitted) : submitted'[i] = submitted[i]
           /\ submitted'[Len(submitted) + 1] = content
           /\ hopPool' = hopPool \cup {Len(submitted) + 1}
           /\ hopPool' \subseteq 1..Len(submitted')
           /\ hopPool = 1..Len(submitted) => hopPool' = 1..Len(submitted')
<1>1. submitted \in Seq(Entry) /\ Len(submitted) \in Nat /\ hopPool \subseteq 1..Len(submitted)
  BY LenProperties DEF HandoffShapes
<1>2. submitted' = Append(submitted, content) /\ hopPool' = hopPool \cup {Len(submitted) + 1}
  BY DEF Stores
<1>3. /\ submitted' \in Seq(Entry) /\ Len(submitted') = Len(submitted) + 1
      /\ \A i \in 1..Len(submitted) : submitted'[i] = submitted[i]
      /\ submitted'[Len(submitted) + 1] = content
  BY <1>1, <1>2, AppendProperties
<1>4. 1..(Len(submitted) + 1) = 1..Len(submitted) \cup {Len(submitted) + 1}
  BY <1>1
<1> QED BY <1>1, <1>2, <1>3, <1>4

\* An upload goes on: whoever downloads has not begun.
LEMMA UploadStep ==
    ASSUME HandoffIInv, SubmitChunk \/ SubmitMetadata \/ SubmitFails
    PROVE  HandoffIInv'
<1>0. /\ HandoffShapes /\ SentInOrder /\ ClaimedInOrder /\ ListFirst
      /\ upload.stage = "sending" /\ UNCHANGED <<file, download>>
      /\ hopPool = 1..Len(submitted) /\ Len(submitted) = Len(upload.hashes)
  BY DEF HandoffIInv, ListFirst, SentInOrder, SubmitChunk, SubmitMetadata, SubmitFails
<1>1. /\ Chunks' = Chunks /\ Len(Chunks) \in Nat /\ \A i \in 1..Len(Chunks) : Chunks[i] \in Seq(Nat)
      /\ FileOK' /\ Len(file.bytes) \in Nat
  BY <1>0, FileStays
<1>2. \A d \in Download : ~HasList(d) /\ HasList(d)' = HasList(d)
  BY <1>0 DEF ClaimedInOrder, HasList
<1>3. ClaimedInOrder'
  BY <1>0, <1>2 DEF ClaimedInOrder, HasList
<1>4. /\ upload.hashes \in Seq(Nat) /\ Len(upload.hashes) \in Nat
      /\ upload = [stage |-> "sending", hashes |-> upload.hashes]
  BY <1>0, LenProperties DEF HandoffShapes
<1>5. CASE SubmitChunk
  <2> DEFINE content == [size |-> 0, chunks |-> <<>>, data |-> Chunks[Len(upload.hashes) + 1]]
             n == Len(upload.hashes)
  <2>1. n < Len(Chunks) /\ n + 1 \in 1..Len(Chunks)
    BY <1>1, <1>4, <1>5 DEF SubmitChunk
  <2>2. content \in Entry /\ content.data = Chunks[n + 1]
    BY <1>1, <2>1, EmptySeq DEF Entry
  <2>3. Stores(content) /\ upload' = [upload EXCEPT !.hashes = Append(@, Len(submitted) + 1)]
    BY <1>5 DEF SubmitChunk
  <2> HIDE DEF content
  <2>4. upload'.stage = "sending" /\ upload'.hashes = Append(upload.hashes, n + 1)
    BY <1>0, <1>4, <2>3
  <2>5. /\ upload'.hashes \in Seq(Nat) /\ Len(upload'.hashes) = n + 1 /\ upload'.hashes[n + 1] = n + 1
        /\ \A i \in 1..n : upload'.hashes[i] = upload.hashes[i]
    BY <1>4, <2>4, AppendProperties
  <2>6. /\ submitted' \in Seq(Entry) /\ Len(submitted') = n + 1
        /\ \A i \in 1..n : submitted'[i] = submitted[i]
        /\ submitted'[n + 1] = content /\ hopPool' = 1..Len(submitted')
    BY <1>0, <2>2, <2>3, StoresFacts
  <2>7. HandoffShapes'
    <3>1. upload' \in [stage : {"sending", "done", "failed"}, hashes : Seq(Nat)]
      BY <1>0, <2>3, <2>4, <2>5 DEF HandoffShapes
    <3> QED BY <1>0, <1>1, <2>6, <3>1 DEF HandoffShapes
  <2>8. SentInOrder'
    <3>1. ASSUME NEW i \in 1..(n + 1) PROVE upload'.hashes[i] = i /\ submitted'[i].data = Chunks[i]
      <4>1. CASE i = n + 1
        BY <2>2, <2>5, <2>6, <4>1
      <4>2. CASE i # n + 1
        <5>1. i \in 1..n
          BY <1>4, <4>2
        <5> QED BY <1>0, <2>5, <2>6, <5>1 DEF SentInOrder
      <4> QED BY <4>1, <4>2
    <3> QED BY <1>1, <1>4, <2>1, <2>4, <2>5, <2>6, <3>1 DEF SentInOrder
  <2>9. ListFirst'
    BY <2>6 DEF ListFirst
  <2> QED BY <1>0, <1>3, <2>7, <2>8, <2>9 DEF HandoffIInv
<1>6. CASE SubmitMetadata
  <2> DEFINE n == Len(upload.hashes)
  <2>1. Metadata \in Entry
    BY <1>1, <1>4, EmptySeq DEF Metadata, Entry
  <2>2. Stores(Metadata) /\ upload' = [upload EXCEPT !.stage = "done"] /\ n = Len(Chunks)
    BY <1>6 DEF SubmitMetadata, Metadata
  <2>3. upload'.stage = "done" /\ upload'.hashes = upload.hashes
    BY <1>4, <2>2
  <2>4. /\ submitted' \in Seq(Entry) /\ Len(submitted') = n + 1
        /\ \A i \in 1..n : submitted'[i] = submitted[i]
        /\ submitted'[n + 1] = Metadata /\ hopPool' = 1..Len(submitted')
    BY <1>0, <2>1, <2>2, StoresFacts
  <2>5. Metadata' = Metadata
    BY <1>0, <2>3 DEF Metadata
  <2>6. HandoffShapes'
    <3>1. upload' \in [stage : {"sending", "done", "failed"}, hashes : Seq(Nat)]
      BY <1>0, <2>2 DEF HandoffShapes
    <3> QED BY <1>0, <1>1, <2>4, <3>1 DEF HandoffShapes
  <2>7. SentInOrder'
    <3>1. \A i \in 1..n : submitted'[i].data = Chunks[i] /\ upload'.hashes[i] = i
      BY <1>0, <2>3, <2>4 DEF SentInOrder
    <3> QED BY <1>1, <1>4, <2>2, <2>3, <2>4, <2>5, <3>1 DEF SentInOrder
  <2>8. ListFirst'
    BY <2>4 DEF ListFirst
  <2> QED BY <1>0, <1>3, <2>6, <2>7, <2>8 DEF HandoffIInv
<1>7. CASE SubmitFails
  <2> DEFINE nothing == [size |-> 0, chunks |-> <<>>, data |-> <<>>]
             n == Len(upload.hashes)
  <2>1. upload'.stage = "failed" /\ upload'.hashes = upload.hashes
    BY <1>4, <1>7 DEF SubmitFails
  <2>2. nothing \in Entry
    BY EmptySeq DEF Entry
  <2>3. UNCHANGED <<hopPool, submitted>> \/ Stores(nothing)
    BY <1>7 DEF SubmitFails
  <2> HIDE DEF nothing
  <2>4. /\ submitted' \in Seq(Entry) /\ Len(submitted') \in {n, n + 1}
        /\ \A i \in 1..n : submitted'[i] = submitted[i]
        /\ hopPool' \subseteq 1..Len(submitted')
    <3>1. CASE Stores(nothing)
      BY <1>0, <2>2, <3>1, StoresFacts
    <3>2. CASE UNCHANGED <<hopPool, submitted>>
      BY <1>0, <3>2 DEF HandoffShapes
    <3> QED BY <2>3, <3>1, <3>2
  <2>5. HandoffShapes'
    <3>1. upload' \in [stage : {"sending", "done", "failed"}, hashes : Seq(Nat)]
      BY <1>0, <1>7 DEF HandoffShapes, SubmitFails
    <3> QED BY <1>0, <1>1, <2>4, <3>1 DEF HandoffShapes
  <2>6. SentInOrder'
    <3>1. \A i \in 1..n : submitted'[i].data = Chunks[i] /\ upload'.hashes[i] = i
      BY <1>0, <2>1, <2>4 DEF SentInOrder
    <3>2. n <= Len(Chunks) /\ n <= Len(submitted')
      BY <1>0, <1>4, <2>4 DEF SentInOrder
    <3> QED BY <1>1, <2>1, <3>1, <3>2 DEF SentInOrder
  <2>7. ListFirst'
    BY <2>1 DEF ListFirst
  <2> QED BY <1>0, <1>3, <2>5, <2>6, <2>7 DEF HandoffIInv
<1> QED BY <1>5, <1>6, <1>7

\* What follows from having the list: a download that claims or is through has
\* the chunks of the file, those it has claimed.
LEMMA ListFacts ==
    ASSUME HandoffIInv, NEW d \in Download, HasList(d)
    PROVE  /\ upload.stage = "done" /\ Identifier \notin hopPool /\ Identifier = Len(Chunks) + 1
           /\ Len(Chunks) \in Nat /\ Len(download[d].chunks) = Len(Chunks)
           /\ \A i \in 1..Len(Chunks) : download[d].chunks[i] = i /\ submitted[i].data = Chunks[i]
           /\ download[d].got \in Seq(Seq(Nat)) /\ Len(download[d].got) \in Nat
           /\ Len(download[d].got) <= Len(Chunks)
           /\ \A i \in 1..Len(download[d].got) : download[d].got[i] = Chunks[i]
           /\ \A e \in Download : HasList(e) => e = d
<1>1. HandoffShapes /\ SentInOrder /\ ClaimedInOrder
  BY DEF HandoffIInv
<1>2. Len(Chunks) \in Nat
  BY <1>1, ChunksMakeTheFile, LenProperties DEF HandoffShapes
<1>3. download[d].got \in Seq(Seq(Nat)) /\ Len(download[d].got) \in Nat
  BY <1>1, LenProperties DEF HandoffShapes
<1> QED BY <1>1, <1>2, <1>3 DEF SentInOrder, ClaimedInOrder, Identifier

\* Of one download all is known that the others have in common.
LEMMA OneDownloadMoves ==
    ASSUME HandoffIInv, NEW d \in Download, NEW x, download' = [download EXCEPT ![d] = x],
           UNCHANGED <<file, upload, submitted>>, hopPool' \subseteq hopPool,
           x \in [stage : {"claiming", "done", "failed"}, size : Nat, chunks : Seq(Nat), got : Seq(Seq(Nat))],
           Len(x.got) <= Len(x.chunks), x.stage = "done" => Len(x.got) = Len(x.chunks),
           x.stage \in {"claiming", "done"} =>
              /\ upload.stage = "done" /\ Identifier \notin hopPool'
              /\ x.chunks = upload.hashes /\ x.size = Len(file.bytes)
              /\ \A i \in 1..Len(x.got) : x.got[i] = Chunks[i]
              /\ \A e \in Download \ {d} : ~HasList(e),
           upload.stage = "done" /\ (hopPool' = hopPool \/ Identifier \notin hopPool')
    PROVE  HandoffIInv'
<1>0. HandoffShapes /\ SentInOrder /\ ClaimedInOrder /\ ListFirst /\ \A e \in Download : download[e].stage # "mismatch"
  BY DEF HandoffIInv
<1>1. Chunks' = Chunks /\ FileOK'
  BY <1>0, FileStays
<1>2. /\ download'[d] = x /\ \A e \in Download \ {d} : download'[e] = download[e]
      /\ download' \in [Download -> [stage : {"new", "claiming", "done", "mismatch", "failed"},
                                     size : Nat, chunks : Seq(Nat), got : Seq(Seq(Nat))]]
  BY <1>0 DEF HandoffShapes
<1>3. HandoffShapes'
  BY <1>0, <1>1, <1>2 DEF HandoffShapes
<1>4. SentInOrder'
  BY <1>0, <1>1 DEF SentInOrder, Metadata
<1>5. ListFirst'
  BY <1>0 DEF ListFirst, Identifier
<1>6. Identifier' = Identifier
  BY DEF Identifier
<1>7. \A e \in Download \ {d} : HasList(e)' = HasList(e)
  BY <1>2 DEF HasList
<1>8. HasList(d)' = (x.stage \in {"claiming", "done"})
  BY <1>2 DEF HasList
<1>9. ASSUME NEW e \in Download, HasList(e)'
      PROVE  /\ upload'.stage = "done" /\ Identifier' \notin hopPool'
             /\ download'[e].chunks = upload'.hashes /\ download'[e].size = Len(file'.bytes)
             /\ \A i \in 1..Len(download'[e].got) : download'[e].got[i] = Chunks'[i]
  <2>1. CASE e = d
    BY <1>1, <1>2, <1>6, <1>8, <1>9, <2>1
  <2>2. CASE e # d
    <3>1. HasList(e)
      BY <1>7, <1>9, <2>2
    <3> QED BY <1>0, <1>1, <1>2, <1>6, <2>2, <3>1 DEF ClaimedInOrder
  <2> QED BY <2>1, <2>2
<1>10. \A e, f \in Download : HasList(e)' /\ HasList(f)' => e = f
  BY <1>0, <1>7, <1>8 DEF ClaimedInOrder
<1>11. \A e \in Download : /\ Len(download'[e].got) <= Len(download'[e].chunks)
                           /\ download'[e].stage = "done" => Len(download'[e].got) = Len(download'[e].chunks)
                           /\ download'[e].stage # "mismatch"
  BY <1>0, <1>2 DEF ClaimedInOrder
<1>12. ClaimedInOrder'
  BY <1>9, <1>10, <1>11 DEF ClaimedInOrder
<1> QED BY <1>3, <1>4, <1>5, <1>11, <1>12 DEF HandoffIInv

LEMMA DownloadStep ==
    ASSUME HandoffIInv, NEW d \in Download, Claim(d) \/ ClaimFails(d) \/ Reassemble(d)
    PROVE  HandoffIInv'
<1>0. HandoffShapes /\ SentInOrder /\ ClaimedInOrder /\ ListFirst /\ download[d].stage # "mismatch"
  BY DEF HandoffIInv
<1> DEFINE old == download[d]
<1>1. /\ old \in [stage : {"new", "claiming", "done", "mismatch", "failed"}, size : Nat, chunks : Seq(Nat), got : Seq(Seq(Nat))]
      /\ Len(old.got) <= Len(old.chunks) /\ Len(old.got) \in Nat /\ Len(old.chunks) \in Nat
      /\ submitted \in Seq(Entry) /\ hopPool \subseteq 1..Len(submitted)
      /\ upload.hashes \in Seq(Nat) /\ Len(file.bytes) \in Nat
  BY <1>0, LenProperties DEF HandoffShapes, ClaimedInOrder, FileOK
<1>2. UNCHANGED <<file, upload, submitted>>
  BY DEF Claim, ClaimFails, Reassemble
<1>3. CASE Reassemble(d)
  <2>1. old.stage = "claiming" /\ Len(old.got) = Len(old.chunks) /\ hopPool' = hopPool
    BY <1>3 DEF Reassemble
  <2>2. HasList(d)
    BY <2>1 DEF HasList
  <2>3. old.got = Chunks
    <3>1. Chunks \in Seq(Seq(Nat)) /\ Len(old.got) = Len(Chunks) /\ old.got \in Seq(Seq(Nat))
      BY <1>0, <2>1, <2>2, ListFacts, ChunksMakeTheFile DEF HandoffShapes
    <3>2. \A i \in 1..Len(old.got) : old.got[i] = Chunks[i]
      BY <2>2, ListFacts
    <3> QED BY <3>1, <3>2, SeqEqual
  <2>4. Len(FlattenSeq(old.got)) = old.size
    <3>1. old.size = Len(file.bytes)
      BY <1>0, <2>2 DEF ClaimedInOrder
    <3> QED BY <1>0, <2>3, <3>1, ChunksMakeTheFile DEF HandoffShapes
  <2> DEFINE x == [old EXCEPT !.stage = "done"]
  <2>5. download' = [download EXCEPT ![d] = x]
    BY <1>3, <2>4 DEF Reassemble
  <2>6. /\ x \in [stage : {"claiming", "done", "failed"}, size : Nat, chunks : Seq(Nat), got : Seq(Seq(Nat))]
        /\ x.stage = "done" /\ x.got = old.got /\ x.chunks = old.chunks /\ x.size = old.size
    BY <1>1
  <2> HIDE DEF x, old
  <2>7. /\ upload.stage = "done" /\ Identifier \notin hopPool /\ old.chunks = upload.hashes /\ old.size = Len(file.bytes)
        /\ \A i \in 1..Len(old.got) : old.got[i] = Chunks[i]
        /\ \A e \in Download \ {d} : ~HasList(e)
    BY <1>0, <2>2 DEF ClaimedInOrder, old
  <2> QED BY <1>1, <1>2, <2>1, <2>5, <2>6, <2>7, OneDownloadMoves
<1>4. CASE ClaimFails(d)
  <2> DEFINE x == [old EXCEPT !.stage = "failed"]
  <2>1. download' = [download EXCEPT ![d] = x] /\ hopPool' \in {hopPool, hopPool \ {Wanted(d)}}
    BY <1>4 DEF ClaimFails, FailedClaim
  <2>2. /\ x \in [stage : {"claiming", "done", "failed"}, size : Nat, chunks : Seq(Nat), got : Seq(Seq(Nat))]
        /\ x.stage = "failed" /\ Len(x.got) <= Len(x.chunks)
    BY <1>1
  <2>3. upload.stage = "done" /\ (hopPool' = hopPool \/ Identifier \notin hopPool')
    <3>1. CASE old.stage = "new"
      BY <1>4, <2>1, <3>1 DEF ClaimFails, Claiming, Wanted
    <3>2. CASE old.stage # "new"
      <4>1. HasList(d)
        BY <1>4, <3>2 DEF ClaimFails, Claiming, HasList
      <4> QED BY <2>1, <4>1, ListFacts
    <3> QED BY <3>1, <3>2
  <2> HIDE DEF x
  <2> QED BY <1>2, <2>1, <2>2, <2>3, OneDownloadMoves
<1>5. CASE Claim(d)
  <2> DEFINE entry == submitted[Wanted(d)]
  <2>1. Wanted(d) \in hopPool /\ hopPool' = hopPool \ {Wanted(d)} /\ Claiming(d)
    BY <1>5 DEF Claim
  <2>2. entry \in Entry
    BY <1>1, <2>1, LenProperties
  <2>3. CASE old.stage = "new"
    <3> DEFINE x == [stage |-> "claiming", size |-> entry.size, chunks |-> entry.chunks, got |-> <<>>]
    <3>1. download' = [download EXCEPT ![d] = x]
      BY <1>5, <2>3 DEF Claim, Claimed
    <3>2. upload.stage = "done" /\ Wanted(d) = Identifier /\ Identifier \in hopPool
      BY <2>1, <2>3 DEF Claiming, Wanted
    <3>3. entry = Metadata
      BY <1>0, <3>2 DEF SentInOrder, Identifier
    <3>4. /\ x \in [stage : {"claiming", "done", "failed"}, size : Nat, chunks : Seq(Nat), got : Seq(Seq(Nat))]
          /\ x.stage = "claiming" /\ Len(x.got) = 0 /\ x.chunks = upload.hashes /\ x.size = Len(file.bytes)
      BY <2>2, <3>3, EmptySeq DEF Entry, Metadata
    <3>5. \A e \in Download : ~HasList(e)
      BY <1>0, <3>2 DEF ClaimedInOrder
    <3>6. Len(x.got) <= Len(x.chunks) /\ \A i \in 1..Len(x.got) : x.got[i] = Chunks[i]
      BY <1>1, <3>4, LenProperties
    <3> HIDE DEF x
    <3> QED BY <1>2, <2>1, <3>1, <3>2, <3>4, <3>5, <3>6, OneDownloadMoves
  <2>4. CASE old.stage # "new"
    <3> DEFINE n == Len(old.got)
               x == [old EXCEPT !.got = Append(@, entry.data)]
    <3>1. old.stage = "claiming" /\ n < Len(old.chunks) /\ Wanted(d) = old.chunks[n + 1] /\ HasList(d)
      BY <2>1, <2>4 DEF Claiming, Wanted, HasList
    <3>2. download' = [download EXCEPT ![d] = x]
      BY <1>5, <2>4 DEF Claim, Claimed
    <3>3. n + 1 \in 1..Len(Chunks) /\ Wanted(d) = n + 1 /\ entry.data = Chunks[n + 1]
      <4>1. /\ Len(Chunks) \in Nat /\ Len(old.chunks) = Len(Chunks) /\ n \in Nat
            /\ \A i \in 1..Len(Chunks) : old.chunks[i] = i /\ submitted[i].data = Chunks[i]
        BY <3>1, ListFacts
      <4>2. n + 1 \in 1..Len(Chunks)
        BY <3>1, <4>1
      <4> QED BY <3>1, <4>1, <4>2
    <3>4. entry.data \in Seq(Nat) /\ old.got \in Seq(Seq(Nat))
      BY <1>1, <2>2 DEF Entry
    <3>a. n \in Nat /\ Len(old.chunks) \in Nat
      BY <1>1
    <3>b. 1..(n + 1) = 1..n \cup {n + 1}
      BY <3>a
    <3> HIDE DEF old, entry, n
    <3>5. /\ x \in [stage : {"claiming", "done", "failed"}, size : Nat, chunks : Seq(Nat), got : Seq(Seq(Nat))]
          /\ x.stage = "claiming" /\ x.chunks = old.chunks /\ x.size = old.size /\ x.got = Append(old.got, entry.data)
      BY <1>1, <3>1, <3>4, AppendProperties DEF old
    <3>6. /\ Len(x.got) = n + 1 /\ x.got[n + 1] = Chunks[n + 1]
          /\ \A i \in 1..n : x.got[i] = old.got[i]
      BY <3>3, <3>4, <3>5, AppendProperties DEF n
    <3>7. \A i \in 1..n : old.got[i] = Chunks[i]
      BY <3>1, ListFacts DEF old, n
    <3>8. \A i \in 1..Len(x.got) : x.got[i] = Chunks[i]
      BY <3>6, <3>7, <3>b
    <3>9. /\ upload.stage = "done" /\ Identifier \notin hopPool' /\ old.chunks = upload.hashes /\ old.size = Len(file.bytes)
          /\ \A e \in Download \ {d} : ~HasList(e)
      BY <1>0, <2>1, <3>1 DEF ClaimedInOrder, old
    <3>10. Len(x.got) <= Len(x.chunks)
      BY <3>a, <3>1, <3>5, <3>6
    <3> HIDE DEF x
    <3> QED BY <1>2, <2>1, <3>2, <3>5, <3>8, <3>9, <3>10, OneDownloadMoves
  <2> QED BY <2>3, <2>4
<1> QED BY <1>3, <1>4, <1>5

\* A finished download is the whole file, at any length and size of chunk, for
\* any number of downloads, refusals and answers that are lost.
THEOREM FileAlwaysWhole == HandoffSpec => []FileIsWhole
<1>1. HandoffIInv /\ [HandoffNext]_handoffVars => HandoffIInv'
  <2> SUFFICES ASSUME HandoffIInv, [HandoffNext]_handoffVars PROVE HandoffIInv'
    OBVIOUS
  <2>1. CASE UNCHANGED handoffVars
    <3>1. UNCHANGED <<file, upload, hopPool, submitted, download>>
      BY <2>1 DEF handoffVars
    <3>2. Chunks' = Chunks /\ FileOK'
      BY <3>1, FileStays DEF HandoffIInv
    <3>3. HandoffShapes' /\ SentInOrder' /\ ListFirst'
      BY <3>1, <3>2 DEF HandoffIInv, HandoffShapes, SentInOrder, ListFirst, Identifier, Metadata
    <3>4. ClaimedInOrder'
      BY <3>1, <3>2 DEF HandoffIInv, ClaimedInOrder, HasList, Identifier
    <3> QED BY <3>1, <3>3, <3>4 DEF HandoffIInv
  <2> QED BY <2>1, UploadStep, DownloadStep DEF HandoffNext
<1>2. HandoffIInv => FileIsWhole
  <2> SUFFICES ASSUME HandoffIInv PROVE FileIsWhole
    OBVIOUS
  <2>1. HandoffShapes /\ ClaimedInOrder /\ ListFirst /\ \A d \in Download : download[d].stage # "mismatch"
    BY DEF HandoffIInv
  <2>2. DOMAIN submitted = 1..Len(submitted) /\ hopPool \subseteq 1..Len(submitted)
    BY <2>1, LenProperties DEF HandoffShapes
  <2>3. ASSUME NEW d \in Download, download[d].stage = "done" PROVE FlattenSeq(download[d].got) = file.bytes
    <3>1. HasList(d) /\ Len(download[d].got) = Len(download[d].chunks)
      BY <2>1, <2>3 DEF HasList, ClaimedInOrder
    <3>2. Chunks \in Seq(Seq(Nat)) /\ FlattenSeq(Chunks) = file.bytes
      BY <2>1, ChunksMakeTheFile DEF HandoffShapes
    <3>3. /\ download[d].got \in Seq(Seq(Nat)) /\ Len(download[d].got) = Len(Chunks)
          /\ \A i \in 1..Len(download[d].got) : download[d].got[i] = Chunks[i]
      BY <3>1, ListFacts
    <3>4. download[d].got = Chunks
      BY <3>2, <3>3, SeqEqual
    <3> QED BY <3>2, <3>4
  <2>4. ASSUME NEW d \in Download, NEW e \in Download \ {d} PROVE {download[d].stage, download[e].stage} # {"done"}
    BY <2>1 DEF ClaimedInOrder, HasList
  <2>5. HandoffTypeOK
    BY <2>1, <2>2 DEF HandoffTypeOK, ClaimedInOrder
  <2> QED BY <2>1, <2>2, <2>3, <2>4, <2>5 DEF FileIsWhole, ListFirst
<1> QED BY HandoffInitIInv, <1>1, <1>2, PTL DEF HandoffSpec

-----------------------------------------------------------------------------
(* What a list of listeners is once one has joined or left it.                *)
LEMMA OneLess ==
    ASSUME NEW S, NEW s \in Seq(S), NEW i \in 1..Len(s)
    PROVE  /\ RemoveAt(s, i) \in Seq(S) /\ Len(RemoveAt(s, i)) = Len(s) - 1
           /\ \A j \in 1..(Len(s) - 1) : RemoveAt(s, i)[j] = IF j < i THEN s[j] ELSE s[j + 1]
<1> DEFINE a == SubSeq(s, 1, i - 1)
           b == SubSeq(s, i + 1, Len(s))
<1>0. Len(s) \in Nat /\ i \in Nat /\ 1 <= i /\ i <= Len(s)
  BY LenProperties
<1>1. a \in Seq(S) /\ Len(a) = i - 1 /\ \A j \in 1..(i - 1) : a[j] = s[j]
  <2>1. 1 \in 1..(Len(s) + 1) /\ i - 1 \in (1 - 1)..Len(s)
    BY <1>0
  <2> QED BY <1>0, <2>1, SubSeqProperties
<1>2. b \in Seq(S) /\ Len(b) = Len(s) - i /\ \A j \in 1..(Len(s) - i) : b[j] = s[i + j]
  <2>1. i + 1 \in 1..(Len(s) + 1) /\ Len(s) \in (i + 1 - 1)..Len(s)
    BY <1>0
  <2>2. /\ b \in Seq(S)
        /\ Len(b) = IF i + 1 <= Len(s) THEN Len(s) - (i + 1) + 1 ELSE 0
        /\ \A j \in 1..(Len(s) - (i + 1) + 1) : b[j] = s[i + 1 + j - 1]
    BY <2>1, SubSeqProperties
  <2> QED BY <1>0, <2>2
<1> HIDE DEF a, b
<1>3. /\ a \o b \in Seq(S) /\ Len(a \o b) = Len(a) + Len(b)
      /\ \A j \in 1..(Len(a) + Len(b)) : (a \o b)[j] = IF j <= Len(a) THEN a[j] ELSE b[j - Len(a)]
  BY <1>1, <1>2, ConcatProperties
<1>4. Len(a) + Len(b) = Len(s) - 1
  BY <1>0, <1>1, <1>2
<1>5. ASSUME NEW j \in 1..(Len(s) - 1)
      PROVE  (a \o b)[j] = IF j < i THEN s[j] ELSE s[j + 1]
  <2>1. CASE j < i
    BY <1>0, <1>1, <1>3, <1>4, <2>1
  <2>2. CASE ~(j < i)
    <3>1. j - (i - 1) \in 1..(Len(s) - i) /\ i + (j - (i - 1)) = j + 1
      BY <1>0, <2>2
    <3>2. b[j - (i - 1)] = s[j + 1]
      BY <1>2, <3>1
    <3> QED BY <1>0, <1>1, <1>3, <1>4, <2>2, <3>2
  <2> QED BY <2>1, <2>2
<1>6. RemoveAt(s, i) = a \o b
  BY DEF RemoveAt, a, b
<1> QED BY <1>3, <1>4, <1>5, <1>6

\* r is s without what is at i.
OneOut(s, r, i) ==
    Len(r) = Len(s) - 1 /\ \A j \in 1..(Len(s) - 1) : r[j] = IF j < i THEN s[j] ELSE s[j + 1]

\* The first of a list that holds nobody twice leaves it.
LEMMA LeftAt ==
    ASSUME NEW S, NEW s \in Seq(S), IsInjective(s), NEW l, l \in ToSet(s)
    PROVE  \E i \in 1..Len(s) :
             s[i] = l /\ RemoveFirst(s, l) \in Seq(S) /\ OneOut(s, RemoveFirst(s, l), i)
<1>1. PICK i \in 1..Len(s) : s[i] = l
  BY LenProperties DEF ToSet
<1>2. {j \in 1..Len(s) : s[j] = l} = {i}
  BY <1>1, LenProperties DEF IsInjective
<1>3. Min({i}) = i
  BY LenProperties DEF Min
<1>4. SelectInSeq(s, LAMBDA v : v = l) = i
  BY <1>2, <1>3 DEF SelectInSeq
<1>5. RemoveFirst(s, l) = RemoveAt(s, i)
  BY <1>1, <1>4 DEF RemoveFirst
<1>6. RemoveAt(s, i) \in Seq(S) /\ OneOut(s, RemoveAt(s, i), i)
  BY OneLess DEF OneOut
<1> QED BY <1>1, <1>5, <1>6

\* The places of a list that a page went past without a call.
Skipped(list, next, called) == {k \in 1..(next - 1) : k > Len(list) \/ list[k] \notin called}

LEMMA SkippedIsFinite ==
    ASSUME NEW list, NEW next \in Nat, NEW called
    PROVE  IsFiniteSet(Skipped(list, next, called)) /\ Cardinality(Skipped(list, next, called)) \in Nat
<1>1. IsFiniteSet(1..(next - 1))
  BY FS_Interval
<1>2. Skipped(list, next, called) \in SUBSET (1..(next - 1))
  BY DEF Skipped
<1>3. IsFiniteSet(Skipped(list, next, called))
  BY <1>1, <1>2, FS_Subset
<1> QED BY <1>3, FS_CardinalityType

LEMMA FewerSkipped ==
    ASSUME NEW list, NEW next \in Nat, NEW called, NEW list2, NEW next2 \in Nat, NEW called2,
           Skipped(list2, next2, called2) \subseteq Skipped(list, next, called)
    PROVE  Cardinality(Skipped(list2, next2, called2)) <= Cardinality(Skipped(list, next, called))
BY SkippedIsFinite, FS_Subset

\* One that leaves makes the page go past one place more at most.
LEMMA LeavingSkips ==
    ASSUME NEW S, NEW s \in Seq(S), NEW i \in 1..Len(s), NEW r \in Seq(S), OneOut(s, r, i),
           NEW next \in Nat, NEW called
    PROVE  Cardinality(Skipped(r, next, called)) <= Cardinality(Skipped(s, next, called)) + 1
<1> DEFINE after == Skipped(r, next, called)
           before == Skipped(s, next, called)
           rest == after \ {next - 1}
           at == [k \in rest |-> IF k < i THEN k ELSE k + 1]
<1> USE DEF OneOut
<1>0. Len(s) \in Nat /\ i \in Nat /\ Len(r) \in Nat
  BY LenProperties
<1>1. IsFiniteSet(after) /\ IsFiniteSet(before) /\ Cardinality(after) \in Nat /\ Cardinality(before) \in Nat
  BY SkippedIsFinite
<1>2. IsFiniteSet(rest) /\ Cardinality(after) <= Cardinality(rest) + 1
  <2>1. /\ IsFiniteSet(after \ {next - 1})
        /\ Cardinality(after \ {next - 1}) = IF next - 1 \in after THEN Cardinality(after) - 1 ELSE Cardinality(after)
    BY <1>1, FS_RemoveElement
  <2> HIDE DEF after
  <2> QED BY <1>1, <2>1
<1>3. ASSUME NEW k \in rest PROVE at[k] \in before
  <2>1. k \in 1..(next - 1) /\ k # next - 1 /\ (k > Len(r) \/ r[k] \notin called)
    BY DEF Skipped
  <2>2. CASE k < i
    BY <1>0, <2>1, <2>2 DEF Skipped
  <2>3. CASE ~(k < i)
    <3>1. k + 1 \in 1..(next - 1)
      BY <2>1
    <3>2. k + 1 > Len(s) \/ s[k + 1] \notin called
      BY <1>0, <2>1, <2>3
    <3> QED BY <2>3, <3>1, <3>2 DEF Skipped
  <2> QED BY <2>2, <2>3
<1>4. at \in Injection(rest, before)
  <2>1. at \in [rest -> before]
    BY <1>3
  <2>2. ASSUME NEW j \in rest, NEW k \in rest, at[j] = at[k] PROVE j = k
    <3>1. j \in Nat /\ k \in Nat
      BY DEF Skipped
    <3> QED BY <1>0, <2>2, <3>1
  <2>3. DOMAIN at = rest
    OBVIOUS
  <2> HIDE DEF at, rest, before
  <2> QED BY <2>1, <2>2, <2>3 DEF Injection, IsInjective
<1>5. Cardinality(rest) <= Cardinality(before)
  <2> HIDE DEF at, rest, before
  <2> QED BY <1>1, <1>4, FS_Injection
<1>6. Cardinality(rest) \in Nat
  <2> HIDE DEF rest
  <2> QED BY <1>2, FS_CardinalityType
<1> HIDE DEF after, before, rest
<1>7. Cardinality(after) <= Cardinality(before) + 1
  BY <1>1, <1>2, <1>5, <1>6
<1> QED BY <1>7 DEF after, before

\* Who is in a list once one has left it, and that nobody is twice.
LEMMA LeftFacts ==
    ASSUME NEW S, NEW s \in Seq(S), IsInjective(s), NEW i \in 1..Len(s), NEW r \in Seq(S), OneOut(s, r, i)
    PROVE  IsInjective(r) /\ ToSet(r) = ToSet(s) \ {s[i]}
<1> USE DEF OneOut
<1>0. Len(s) \in Nat /\ i \in Nat /\ Len(r) \in Nat /\ DOMAIN s = 1..Len(s) /\ DOMAIN r = 1..Len(r)
  BY LenProperties
<1> DEFINE at(n) == IF n < i THEN n ELSE n + 1
<1>1. \A n \in 1..Len(r) : at(n) \in 1..Len(s) /\ at(n) # i /\ r[n] = s[at(n)]
  BY <1>0
<1>2. \A n \in 1..Len(s) : n # i => \E m \in 1..Len(r) : at(m) = n
  <2> SUFFICES ASSUME NEW n \in 1..Len(s), n # i PROVE \E m \in 1..Len(r) : at(m) = n
    OBVIOUS
  <2>1. CASE n < i
    <3>1. n \in 1..Len(r) /\ at(n) = n
      BY <1>0, <2>1
    <3> QED BY <3>1
  <2>2. CASE ~(n < i)
    <3>1. n - 1 \in 1..Len(r) /\ at(n - 1) = n
      BY <1>0, <2>2
    <3> QED BY <3>1
  <2> QED BY <2>1, <2>2
<1>3. \A m, n \in 1..Len(r) : at(m) = at(n) => m = n
  BY <1>0
<1> HIDE DEF at
<1>4. IsInjective(r)
  <2> SUFFICES ASSUME NEW m \in 1..Len(r), NEW n \in 1..Len(r), r[m] = r[n] PROVE m = n
    BY <1>0 DEF IsInjective
  <2>1. at(m) = at(n)
    BY <1>0, <1>1 DEF IsInjective
  <2> QED BY <1>3, <2>1
<1>5. ToSet(s) = {s[n] : n \in 1..Len(s)} /\ ToSet(r) = {r[n] : n \in 1..Len(r)}
  BY <1>0 DEF ToSet
<1>6. \A x \in ToSet(r) : x \in ToSet(s) /\ x # s[i]
  <2> SUFFICES ASSUME NEW n \in 1..Len(r) PROVE r[n] \in ToSet(s) /\ r[n] # s[i]
    BY <1>5
  <2>1. at(n) \in 1..Len(s) /\ at(n) # i /\ r[n] = s[at(n)]
    BY <1>1
  <2>2. s[at(n)] # s[i]
    BY <1>0, <2>1 DEF IsInjective
  <2> QED BY <1>5, <2>1, <2>2
<1>7. \A x \in ToSet(s) : x # s[i] => x \in ToSet(r)
  <2> SUFFICES ASSUME NEW n \in 1..Len(s), s[n] # s[i] PROVE s[n] \in ToSet(r)
    BY <1>5
  <2>1. PICK m \in 1..Len(r) : at(m) = n
    BY <1>2
  <2> QED BY <1>1, <1>5, <2>1
<1> QED BY <1>4, <1>6, <1>7

\* Who joins comes last.
LEMMA ComesLast ==
    ASSUME NEW S, NEW s \in Seq(S), IsInjective(s), NEW l \in S, l \notin ToSet(s)
    PROVE  /\ Append(s, l) \in Seq(S) /\ Len(Append(s, l)) = Len(s) + 1 /\ Len(s) \in Nat
           /\ IsInjective(Append(s, l)) /\ ToSet(Append(s, l)) = ToSet(s) \cup {l}
<1>1. /\ Append(s, l) \in Seq(S) /\ Len(Append(s, l)) = Len(s) + 1 /\ Len(s) \in Nat
      /\ Append(s, l)[Len(s) + 1] = l /\ \A i \in 1..Len(s) : Append(s, l)[i] = s[i]
  BY AppendProperties, LenProperties
<1>2. DOMAIN s = 1..Len(s) /\ DOMAIN Append(s, l) = 1..Len(s) \cup {Len(s) + 1}
  BY <1>1, LenProperties
<1> DEFINE t == Append(s, l)
<1>3. /\ t \in Seq(S) /\ Len(t) = Len(s) + 1 /\ t[Len(s) + 1] = l /\ \A i \in 1..Len(s) : t[i] = s[i]
      /\ DOMAIN t = 1..Len(s) \cup {Len(s) + 1}
  BY <1>1, <1>2
<1> HIDE DEF t
<1>4. \A i \in 1..Len(s) : s[i] # l
  BY <1>2 DEF ToSet
<1>5. IsInjective(t)
  BY <1>1, <1>2, <1>3, <1>4 DEF IsInjective
<1>6. ToSet(t) = ToSet(s) \cup {l}
  <2>1. ToSet(s) = {s[n] : n \in 1..Len(s)} /\ ToSet(t) = {t[n] : n \in 1..Len(s)} \cup {t[Len(s) + 1]}
    BY <1>2, <1>3 DEF ToSet
  <2> QED BY <1>3, <2>1
<1> QED BY <1>1, <1>3, <1>5, <1>6 DEF t

\* A page goes past no more of the places of a list that grows.
LEMMA JoinedFacts ==
    ASSUME NEW S, NEW s \in Seq(S), IsInjective(s), NEW l \in S, l \notin ToSet(s), NEW next \in Nat, NEW called
    PROVE  /\ Append(s, l) \in Seq(S) /\ Len(Append(s, l)) = Len(s) + 1 /\ Len(s) \in Nat
           /\ IsInjective(Append(s, l)) /\ ToSet(Append(s, l)) = ToSet(s) \cup {l}
           /\ Skipped(Append(s, l), next, called) \subseteq Skipped(s, next, called)
<1>1. /\ Append(s, l) \in Seq(S) /\ Len(Append(s, l)) = Len(s) + 1 /\ Len(s) \in Nat
      /\ \A i \in 1..Len(s) : Append(s, l)[i] = s[i]
  BY AppendProperties, LenProperties
<1> DEFINE t == Append(s, l)
<1>2. Len(t) = Len(s) + 1 /\ Len(s) \in Nat /\ \A i \in 1..Len(s) : t[i] = s[i]
  BY <1>1
<1> HIDE DEF t
<1>3. Skipped(t, next, called) \subseteq Skipped(s, next, called)
  <2> SUFFICES ASSUME NEW k \in 1..(next - 1), k > Len(t) \/ t[k] \notin called
               PROVE  k > Len(s) \/ s[k] \notin called
    BY DEF Skipped
  <2> QED BY <1>2
<1> QED BY <1>3, ComesLast DEF t

(* What inductiveness adds to the sharing of a feed.                          *)

Received == SUBSET (Nat \X Nat)
FeedStream == [sent : Nat, batch : Received, scheduled : BOOLEAN, state : {"open", "failed", "closed"}]
HeardRecord == [since : Nat, got : Received, missed : Received, stage : {"new", "listening", "gone"}]
HandoutRecord == [page : Received, list : Nat, next : Nat \ {0}, called : SUBSET Listener, left : Nat]

FeedShapes ==
    /\ lists \in Seq(Seq(Listener)) /\ current \in 0..Len(lists)
    /\ streams \in Seq(FeedStream) /\ active \in 0..Len(streams)
    /\ handout \in HandoutRecord /\ heard \in [Listener -> HeardRecord]
    /\ HandingOut => handout.list \in 1..Len(lists)

\* A list that was emptied is not used again, so nobody is in it.
OneList ==
    /\ \A i \in 1..Len(lists) : i # current => lists[i] = <<>>
    /\ current # 0 => lists[current] # <<>> /\ IsInjective(lists[current])
    /\ Listening = {l \in Listener : heard[l].stage = "listening"}

\* Who is on the way to a page: in its list, and not called yet.
Awaits(l) == HandingOut /\ l \in ToSet(lists[handout.list]) /\ l \notin handout.called

OneStream ==
    /\ active = 0 <=> current = 0
    /\ \A s \in 1..Len(streams) : streams[s].state = "closed" <=> s # active

PageIsOnItsWay ==
    active # 0 => \A l \in Listening :
      Due(l) \subseteq heard[l].got \cup heard[l].missed \cup (IF Awaits(l) THEN handout.page ELSE {})

LeaversAreCounted ==
    HandingOut => Cardinality(Skipped(lists[handout.list], handout.next, handout.called)) <= handout.left

FeedIInv == FeedShapes /\ OneList /\ OneStream /\ PageIsOnItsWay /\ LeaversAreCounted

LEMMA FeedInitIInv == FeedInit => FeedIInv
<1> SUFFICES ASSUME FeedInit PROVE FeedIInv
  OBVIOUS
<1>1. /\ lists = <<>> /\ current = 0 /\ streams = <<>> /\ active = 0 /\ handout = NoHandout
      /\ heard = [l \in Listener |-> [since |-> 0, got |-> {}, missed |-> {}, stage |-> "new"]]
  BY DEF FeedInit
<1>2. NoHandout \in HandoutRecord
  BY DEF NoHandout, HandoutRecord, Received
<1>3. FeedShapes
  BY <1>1, <1>2 DEF FeedShapes, HeardRecord, Received, HandingOut
<1>4. OneList
  BY <1>1 DEF OneList, Listening
<1>5. OneStream /\ PageIsOnItsWay /\ LeaversAreCounted
  BY <1>1 DEF OneStream, PageIsOnItsWay, LeaversAreCounted, HandingOut
<1> QED BY <1>3, <1>4, <1>5 DEF FeedIInv

LEMMA StatementTaken ==
    ASSUME NEW r \in FeedStream, NEW sent \in Nat, NEW batch \in Received
    PROVE  LET after == [r EXCEPT !.sent = sent, !.batch = batch, !.scheduled = TRUE] IN
           after \in FeedStream /\ after.sent = sent /\ after.batch = batch /\ after.state = r.state
BY DEF FeedStream

\* The node or its timer: no list changes, and nothing is handed out meanwhile.
LEMMA StreamStep ==
    ASSUME FeedIInv, NEW s \in DOMAIN streams, StatementComes(s) \/ StreamFails(s)
    PROVE  FeedIInv'
<1>1. UNCHANGED <<lists, current, active, handout, heard>> /\ ~HandingOut /\ streams[s].state = "open"
  BY DEF StatementComes, StreamFails
<1>2. streams \in Seq(FeedStream) /\ s \in 1..Len(streams) /\ streams[s] \in FeedStream /\ s = active
  BY <1>1 DEF FeedIInv, FeedShapes, OneStream
<1> DEFINE after == [streams[s] EXCEPT !.sent = @ + 1, !.batch = @ \cup {<<s, streams[s].sent + 1>>},
                                       !.scheduled = TRUE]
<1>3. PICK r \in FeedStream :
        /\ streams' = [streams EXCEPT ![s] = r] /\ r.state # "closed"
        /\ \A n \in Nat : n \in 1..r.sent /\ <<s, n>> \notin r.batch => n \in 1..streams[s].sent /\ <<s, n>> \notin streams[s].batch
  <2>1. CASE StatementComes(s)
    <3>0. streams[s].sent \in Nat /\ streams[s].batch \in Received /\ s \in Nat
      BY <1>2 DEF FeedStream
    <3>1. streams[s].batch \cup {<<s, streams[s].sent + 1>>} \in Received
      BY <3>0 DEF Received
    <3>3. /\ after \in FeedStream /\ after.state = "open" /\ after.sent = streams[s].sent + 1
          /\ after.batch = streams[s].batch \cup {<<s, streams[s].sent + 1>>}
      <4> DEFINE next == streams[s].sent + 1
                 more == streams[s].batch \cup {<<s, streams[s].sent + 1>>}
                 taken(sent, batch) == [streams[s] EXCEPT !.sent = sent, !.batch = batch, !.scheduled = TRUE]
      <4>1. \A sent \in Nat, batch \in Received :
              taken(sent, batch) \in FeedStream /\ taken(sent, batch).sent = sent
              /\ taken(sent, batch).batch = batch /\ taken(sent, batch).state = streams[s].state
        BY <1>2, StatementTaken
      <4>2. next \in Nat /\ more \in Received
        BY <3>0, <3>1
      <4>3. after = taken(next, more)
        OBVIOUS
      <4> HIDE DEF taken, next, more, after
      <4>4. after \in FeedStream /\ after.sent = next /\ after.batch = more /\ after.state = streams[s].state
        BY <4>1, <4>2, <4>3
      <4> QED BY <1>1, <4>4 DEF next, more
    <3>4. streams' = [streams EXCEPT ![s] = after]
      BY <2>1 DEF StatementComes
    <3> HIDE DEF after
    <3>5. ASSUME NEW n \in Nat, n \in 1..after.sent, <<s, n>> \notin after.batch
          PROVE  n \in 1..streams[s].sent /\ <<s, n>> \notin streams[s].batch
      <4>1. n # streams[s].sent + 1
        BY <3>3, <3>5
      <4> QED BY <3>0, <3>3, <3>5, <4>1
    <3> QED BY <3>3, <3>4, <3>5
  <2>2. CASE StreamFails(s)
    <3> DEFINE failed == [streams[s] EXCEPT !.state = "failed"]
    <3>1. failed \in FeedStream /\ failed.state = "failed" /\ failed.sent = streams[s].sent
          /\ failed.batch = streams[s].batch
      BY <1>2 DEF FeedStream
    <3>2. streams' = [streams EXCEPT ![s] = failed]
      BY <2>2 DEF StreamFails
    <3> HIDE DEF failed
    <3> QED BY <3>1, <3>2
  <2> QED BY <2>1, <2>2
<1>4. streams' \in Seq(FeedStream) /\ Len(streams') = Len(streams)
      /\ \A t \in 1..Len(streams) : streams'[t] = IF t = s THEN r ELSE streams[t]
  BY <1>2, <1>3
<1>5. FeedShapes' /\ OneList' /\ LeaversAreCounted'
  BY <1>1, <1>4 DEF FeedIInv, FeedShapes, OneList, LeaversAreCounted, HandingOut, Listening, Skipped
<1>6. OneStream'
  BY <1>1, <1>2, <1>3, <1>4 DEF FeedIInv, OneStream
<1>7. PageIsOnItsWay'
  <2> SUFFICES ASSUME active # 0, NEW l \in Listening PROVE Due(l)' \subseteq heard[l].got \cup heard[l].missed
    BY <1>1 DEF PageIsOnItsWay, Listening
  <2>1. Due(l) \subseteq heard[l].got \cup heard[l].missed
    BY <1>1 DEF FeedIInv, PageIsOnItsWay, Awaits
  <2>2. heard[l].since \in Nat /\ r.sent \in Nat /\ streams[s].sent \in Nat
    BY <1>2 DEF FeedIInv, FeedShapes, HeardRecord, FeedStream, Listening, OneList
  <2>3. Due(l)' = {<<s, n>> : n \in (heard[l].since + 1)..r.sent} \ r.batch
    BY <1>1, <1>2, <1>4 DEF Due
  <2>4. Due(l) = {<<s, n>> : n \in (heard[l].since + 1)..streams[s].sent} \ streams[s].batch
    BY <1>2 DEF Due
  <2>5. Due(l)' \subseteq Due(l)
    <3> SUFFICES ASSUME NEW n \in (heard[l].since + 1)..r.sent, <<s, n>> \notin r.batch
                 PROVE  n \in (heard[l].since + 1)..streams[s].sent /\ <<s, n>> \notin streams[s].batch
      BY <2>3, <2>4
    <3>1. n \in Nat /\ n \in 1..r.sent
      BY <2>2
    <3> QED BY <1>3, <2>2, <3>1
  <2> QED BY <2>1, <2>5
<1> QED BY <1>5, <1>6, <1>7 DEF FeedIInv

\* The list l is in, if it is in one, is the one there is.
LEMMA OneListFacts ==
    ASSUME FeedIInv
    PROVE  /\ \A l \in Listener : l \in Listening <=> heard[l].stage = "listening"
           /\ current # 0 => /\ current \in 1..Len(lists) /\ lists[current] \in Seq(Listener)
                            /\ lists[current] # <<>> /\ IsInjective(lists[current]) /\ Listening = ToSet(lists[current])
           /\ current = 0 => Listening = {}
           /\ \A i \in 1..Len(lists) : lists[i] \in Seq(Listener) /\ Len(lists) \in Nat
           /\ HandingOut => handout.list \in 1..Len(lists)
BY LenProperties DEF FeedIInv, FeedShapes, OneList, Listening

LEMMA ListenStep ==
    ASSUME FeedIInv, NEW l \in Listener, Listen(l)
    PROVE  FeedIInv'
<1> DEFINE old == IF current = 0 THEN <<>> ELSE lists[current]
           new == Append(old, l)
           at == IF current = 0 THEN Len(lists) + 1 ELSE current
<1>0. /\ lists \in Seq(Seq(Listener)) /\ streams \in Seq(FeedStream) /\ handout \in HandoutRecord
      /\ heard \in [Listener -> HeardRecord] /\ Len(lists) \in Nat /\ Len(streams) \in Nat
      /\ current \in 0..Len(lists) /\ active \in 0..Len(streams)
      /\ (active = 0 <=> current = 0)
  BY LenProperties DEF FeedIInv, FeedShapes, OneStream
<1>1. old \in Seq(Listener) /\ IsInjective(old) /\ ToSet(old) = Listening /\ l \notin Listening
  <2>1. heard[l].stage = "new"
    BY DEF Listen
  <2>2. l \notin Listening
    BY <2>1, OneListFacts
  <2>3. CASE current = 0
    BY <2>2, <2>3, OneListFacts DEF ToSet, IsInjective
  <2>4. CASE current # 0
    BY <2>2, <2>4, OneListFacts
  <2> QED BY <2>3, <2>4
<1>2. /\ new \in Seq(Listener) /\ Len(new) = Len(old) + 1 /\ Len(old) \in Nat
      /\ IsInjective(new) /\ ToSet(new) = Listening \cup {l}
      /\ \A next \in Nat : \A called : Skipped(new, next, called) \subseteq Skipped(old, next, called)
  <2> HIDE DEF old
  <2>1. \A next \in Nat : \A called :
          /\ Append(old, l) \in Seq(Listener) /\ Len(Append(old, l)) = Len(old) + 1 /\ Len(old) \in Nat
          /\ IsInjective(Append(old, l)) /\ ToSet(Append(old, l)) = ToSet(old) \cup {l}
          /\ Skipped(Append(old, l), next, called) \subseteq Skipped(old, next, called)
    BY <1>1, JoinedFacts, Zenon
  <2>2. 0 \in Nat
    OBVIOUS
  <2> HIDE DEF new
  <2>3. \A next \in Nat : \A called :
          /\ new \in Seq(Listener) /\ Len(new) = Len(old) + 1 /\ Len(old) \in Nat
          /\ IsInjective(new) /\ ToSet(new) = ToSet(old) \cup {l}
          /\ Skipped(new, next, called) \subseteq Skipped(old, next, called)
    BY <2>1 DEF new
  <2> QED BY <1>1, <2>2, <2>3, Zenon
<1>3. Opens(new) <=> current = 0
  <2>1. CASE current = 0
    BY <1>2, <2>1 DEF Opens
  <2>2. CASE current # 0
    <3>1. lists[current] # <<>> /\ lists[current] \in Seq(Listener)
      BY <2>2, OneListFacts
    <3>2. Len(old) # 0
      BY <2>2, <3>1, EmptySeq
    <3> QED BY <1>2, <2>2, <3>2 DEF Opens
  <2> QED BY <2>1, <2>2
<1>4. /\ new = IF current = 0 THEN <<l>> ELSE Append(lists[current], l)
      /\ lists' = IF current = 0 THEN Append(lists, new) ELSE [lists EXCEPT ![current] = new]
      /\ current' = at /\ handout' = handout
      /\ IF Opens(new)
           THEN /\ streams' = Append(streams, [sent |-> 0, batch |-> {}, scheduled |-> FALSE, state |-> "open"])
                /\ active' = Len(streams) + 1
           ELSE UNCHANGED <<streams, active>>
      /\ heard' = [heard EXCEPT ![l].stage = "listening", ![l].since = IF Opens(new) THEN 0 ELSE streams[active].sent]
  <2>1. new = IF current = 0 THEN <<l>> ELSE Append(lists[current], l)
    <3>1. CASE current = 0
      BY <3>1
    <3>2. CASE current # 0
      BY <3>2
    <3> QED BY <3>1, <3>2
  <2> HIDE DEF new, old
  <2> QED BY <2>1 DEF Listen
<1> HIDE DEF new
<1>5. /\ lists' \in Seq(Seq(Listener)) /\ at \in 1..Len(lists') /\ lists'[at] = new
      /\ Len(lists') \in Nat /\ Len(lists') >= Len(lists)
      /\ \A i \in 1..Len(lists') : i # at => i \in 1..Len(lists) /\ lists'[i] = lists[i]
  <2>1. CASE current = 0
    <3>1. /\ Append(lists, new) \in Seq(Seq(Listener)) /\ Len(Append(lists, new)) = Len(lists) + 1
          /\ Append(lists, new)[Len(lists) + 1] = new /\ \A i \in 1..Len(lists) : Append(lists, new)[i] = lists[i]
      BY <1>0, <1>2, AppendProperties
    <3>2. lists' = Append(lists, new)
      BY <1>4, <2>1
    <3> QED BY <1>0, <2>1, <3>1, <3>2
  <2>2. CASE current # 0
    <3>1. lists' = [lists EXCEPT ![current] = new]
      BY <1>4, <2>2
    <3> QED BY <1>0, <1>2, <2>2, <3>1
  <2> QED BY <2>1, <2>2
<1>6. /\ streams' \in Seq(FeedStream) /\ Len(streams') \in Nat /\ active' \in 1..Len(streams')
      /\ \A s \in 1..Len(streams') : streams'[s].state = "closed" <=> s # active'
  <2>1. CASE current = 0
    <3> DEFINE opened == [sent |-> 0, batch |-> {}, scheduled |-> FALSE, state |-> "open"]
    <3>0. opened \in FeedStream /\ opened.state = "open"
      BY DEF FeedStream, Received
    <3>1. streams' = Append(streams, opened) /\ active' = Len(streams) + 1
      BY <1>3, <1>4, <2>1
    <3> HIDE DEF opened
    <3>2. /\ streams' \in Seq(FeedStream) /\ Len(streams') = Len(streams) + 1
          /\ streams'[Len(streams) + 1] = opened /\ \A i \in 1..Len(streams) : streams'[i] = streams[i]
      BY <1>0, <3>0, <3>1, AppendProperties
    <3>3. \A s \in 1..Len(streams) : streams[s].state = "closed"
      BY <1>0, <2>1 DEF FeedIInv, OneStream
    <3> QED BY <1>0, <3>0, <3>1, <3>2, <3>3
  <2>2. CASE current # 0
    BY <1>0, <1>3, <1>4, <2>2 DEF FeedIInv, OneStream
  <2> QED BY <2>1, <2>2
<1>7. heard' \in [Listener -> HeardRecord] /\ heard'[l].stage = "listening"
      /\ heard'[l].since = (IF current = 0 THEN 0 ELSE streams[active].sent)
      /\ \A k \in Listener : k # l => heard'[k] = heard[k]
  <2> DEFINE since == IF current = 0 THEN 0 ELSE streams[active].sent
             one == [heard[l] EXCEPT !.stage = "listening", !.since = since]
  <2>1. since \in Nat
    <3>1. CASE current # 0
      <4>1. streams[active] \in FeedStream
        BY <1>0, <3>1
      <4> QED BY <3>1, <4>1 DEF FeedStream
    <3> QED BY <3>1
  <2>2. one \in HeardRecord /\ one.stage = "listening" /\ one.since = since
    BY <1>0, <2>1 DEF HeardRecord
  <2>3. heard' = [heard EXCEPT ![l] = one]
    BY <1>3, <1>4
  <2> HIDE DEF one, since
  <2>4. heard'[l] = one /\ heard' \in [Listener -> HeardRecord] /\ \A k \in Listener : k # l => heard'[k] = heard[k]
    BY <1>0, <2>2, <2>3
  <2> QED BY <2>2, <2>4 DEF since
<1>8. current' = at /\ current' # 0 /\ Listening' = Listening \cup {l}
  <2>1. at # 0 /\ current' = at /\ lists'[current'] = new
    BY <1>4, <1>5
  <2> HIDE DEF at, old
  <2> QED BY <1>2, <2>1 DEF Listening
<1>9. HandingOut' = HandingOut
  BY <1>4 DEF HandingOut
<1>10. FeedShapes'
  <2>1. HandingOut' => handout'.list \in 1..Len(lists')
    BY <1>0, <1>4, <1>5, <1>9, OneListFacts
  <2>2. current' \in 0..Len(lists') /\ active' \in 0..Len(streams') /\ handout' \in HandoutRecord
    <3>1. current' \in 1..Len(lists') /\ active' \in 1..Len(streams')
      BY <1>5, <1>6, <1>8
    <3> QED BY <1>0, <1>4, <1>5, <1>6, <3>1
  <2> QED BY <1>5, <1>6, <1>7, <2>1, <2>2 DEF FeedShapes
<1>11. OneList'
  <2>1. \A i \in 1..Len(lists') : i # at => lists'[i] = <<>>
    <3> SUFFICES ASSUME NEW i \in 1..Len(lists'), i # at PROVE lists'[i] = <<>>
      OBVIOUS
    <3>1. i \in 1..Len(lists) /\ lists'[i] = lists[i]
      BY <1>5
    <3>2. i # current
      BY <1>0, <3>1
    <3> QED BY <3>1, <3>2 DEF FeedIInv, OneList
  <2>2. new # <<>>
    BY <1>2, EmptySeq
  <2>3. Listening' = {k \in Listener : heard'[k].stage = "listening"}
    BY <1>7, <1>8 DEF FeedIInv, OneList
  <2> QED BY <1>2, <1>5, <1>8, <2>1, <2>2, <2>3 DEF OneList
<1>12. OneStream'
  BY <1>6, <1>8 DEF OneStream
<1>13. ASSUME NEW k \in Listening'
       PROVE  Due(k)' \subseteq heard'[k].got \cup heard'[k].missed \cup (IF Awaits(k)' THEN handout'.page ELSE {})
  <2>1. CASE current = 0
    <3>1. k = l
      BY <1>8, <2>1, OneListFacts
    <3>2. streams'[active'].sent = 0 /\ heard'[k].since = 0
      <4>1. streams' = Append(streams, [sent |-> 0, batch |-> {}, scheduled |-> FALSE, state |-> "open"])
            /\ active' = Len(streams) + 1
        BY <1>3, <1>4, <2>1
      <4> QED BY <1>0, <1>7, <2>1, <3>1, <4>1
    <3> QED BY <3>2 DEF Due
  <2>2. CASE current # 0 /\ k = l
    <3>1. streams' = streams /\ active' = active /\ heard'[k].since = streams[active].sent /\ streams[active].sent \in Nat
      <4>1. streams[active] \in FeedStream
        BY <1>0, <2>2
      <4> QED BY <1>3, <1>4, <1>7, <2>2, <4>1 DEF FeedStream
    <3> QED BY <3>1 DEF Due
  <2>3. CASE current # 0 /\ k # l
    <3>1. streams' = streams /\ active' = active /\ heard'[k] = heard[k] /\ k \in Listening /\ active # 0
      BY <1>0, <1>3, <1>4, <1>7, <1>8, <2>3 DEF FeedIInv, OneList
    <3>2. Due(k)' = Due(k)
      BY <3>1 DEF Due
    <3>3. Awaits(k) => Awaits(k)'
      <4> SUFFICES ASSUME Awaits(k) PROVE Awaits(k)'
        OBVIOUS
      <4>1. HandingOut /\ k \in ToSet(lists[handout.list]) /\ k \notin handout.called /\ handout.list \in 1..Len(lists)
        BY OneListFacts DEF Awaits
      <4>2. lists[handout.list] # <<>>
        BY <4>1 DEF ToSet
      <4>3. handout.list = current
        BY <4>1, <4>2 DEF FeedIInv, OneList
      <4>4. k \in ToSet(lists'[handout'.list])
        BY <1>2, <1>4, <1>5, <2>3, <3>1, <4>3
      <4> QED BY <1>4, <1>9, <4>1, <4>4 DEF Awaits
    <3>4. Due(k) \subseteq heard[k].got \cup heard[k].missed \cup (IF Awaits(k) THEN handout.page ELSE {})
      BY <3>1 DEF FeedIInv, PageIsOnItsWay
    <3> QED BY <1>4, <3>1, <3>2, <3>3, <3>4
  <2> QED BY <2>1, <2>2, <2>3
<1>14. PageIsOnItsWay'
  BY <1>13 DEF PageIsOnItsWay
<1>15. LeaversAreCounted'
  <2> SUFFICES ASSUME HandingOut
               PROVE  Cardinality(Skipped(lists'[handout.list], handout.next, handout.called)) <= handout.left
    BY <1>4, <1>9 DEF LeaversAreCounted
  <2>1. handout.list \in 1..Len(lists) /\ handout.next \in Nat /\ handout.left \in Nat
    BY <1>0, OneListFacts DEF HandoutRecord
  <2>2. Skipped(lists'[handout.list], handout.next, handout.called)
          \subseteq Skipped(lists[handout.list], handout.next, handout.called)
    <3>1. CASE handout.list = at
      <4>1. current # 0 /\ old = lists[handout.list] /\ lists'[handout.list] = new
        BY <1>0, <1>5, <2>1, <3>1
      <4> QED BY <1>2, <2>1, <4>1
    <3>2. CASE handout.list # at
      <4>1. lists'[handout.list] = lists[handout.list]
        <5>1. handout.list \in 1..Len(lists')
          BY <1>0, <1>5, <2>1
        <5> QED BY <1>5, <3>2, <5>1
      <4> QED BY <4>1
    <3> QED BY <3>1, <3>2
  <2>3. Cardinality(Skipped(lists[handout.list], handout.next, handout.called)) <= handout.left
    BY DEF FeedIInv, LeaversAreCounted
  <2>4. Cardinality(Skipped(lists'[handout.list], handout.next, handout.called)) \in Nat
        /\ Cardinality(Skipped(lists[handout.list], handout.next, handout.called)) \in Nat
    BY <2>1, SkippedIsFinite
  <2>5. Cardinality(Skipped(lists'[handout.list], handout.next, handout.called))
          <= Cardinality(Skipped(lists[handout.list], handout.next, handout.called))
    BY <2>1, <2>2, FewerSkipped
  <2> QED BY <2>1, <2>3, <2>4, <2>5
<1> QED BY <1>10, <1>11, <1>12, <1>14, <1>15 DEF FeedIInv

\* What a call with a page leaves to be done, or that the page is through.
LEMMA HandsFacts ==
    ASSUME lists \in Seq(Seq(Listener)), heard \in [Listener -> HeardRecord],
           NEW h \in HandoutRecord, h.list \in 1..Len(lists),
           Cardinality(Skipped(lists[h.list], h.next, h.called)) <= h.left, Hands(h)
    PROVE  /\ handout' \in HandoutRecord /\ heard' \in [Listener -> HeardRecord]
           /\ \A k \in Listener : heard'[k].stage = heard[k].stage /\ heard'[k].since = heard[k].since
           /\ HandingOut' => /\ handout'.list = h.list /\ handout'.page = h.page
                             /\ Cardinality(Skipped(lists[h.list], handout'.next, handout'.called)) <= handout'.left
           /\ \A k \in Listener :
                heard[k].got \cup heard[k].missed
                  \cup (IF k \in ToSet(lists[h.list]) /\ k \notin h.called THEN h.page ELSE {})
                \subseteq heard'[k].got \cup heard'[k].missed
                  \cup (IF HandingOut' /\ k \in ToSet(lists[h.list]) /\ k \notin handout'.called THEN h.page ELSE {})
<1> DEFINE list == lists[h.list]
<1>0. list \in Seq(Listener) /\ Len(list) \in Nat /\ h.next \in Nat /\ h.next # 0 /\ h.list \in Nat /\ h.list # 0
      /\ h.left \in Nat /\ h.page \in Received /\ h.called \in SUBSET Listener
  BY LenProperties DEF HandoutRecord
<1>1. NoHandout \in HandoutRecord
  BY DEF NoHandout, HandoutRecord, Received
<1>2. \A k : Contains(list, k) <=> k \in ToSet(list)
  BY <1>0, LenProperties DEF Contains, ToSet
<1>3. CASE h.next > Len(list)
  <2> DEFINE through(k) == IF Contains(list, k) /\ k \notin h.called
                             THEN [heard[k] EXCEPT !.missed = @ \cup h.page] ELSE heard[k]
  <2>1. handout' = NoHandout /\ heard' = [k \in Listener |-> through(k)]
    BY <1>3 DEF Hands
  <2>2. ASSUME NEW k \in Listener
        PROVE  /\ through(k) \in HeardRecord /\ through(k).stage = heard[k].stage /\ through(k).since = heard[k].since
               /\ through(k).got = heard[k].got
               /\ through(k).missed = IF k \in ToSet(list) /\ k \notin h.called THEN heard[k].missed \cup h.page
                                      ELSE heard[k].missed
    <3>1. heard[k] \in HeardRecord /\ heard[k].missed \cup h.page \in Received
      BY <1>0 DEF HeardRecord, Received
    <3>2. CASE k \in ToSet(list) /\ k \notin h.called
      <4>1. through(k) = [heard[k] EXCEPT !.missed = @ \cup h.page]
        BY <1>2, <3>2
      <4>2. /\ through(k) \in HeardRecord /\ through(k).stage = heard[k].stage /\ through(k).since = heard[k].since
            /\ through(k).got = heard[k].got /\ through(k).missed = heard[k].missed \cup h.page
        BY <3>1, <4>1 DEF HeardRecord
      <4> HIDE DEF through, list
      <4> QED BY <3>2, <4>2
    <3>3. CASE ~(k \in ToSet(list) /\ k \notin h.called)
      <4>1. through(k) = heard[k]
        BY <1>2, <3>3
      <4> HIDE DEF through, list
      <4> QED BY <3>1, <3>3, <4>1
    <3> QED BY <3>2, <3>3
  <2> HIDE DEF through
  <2>3. ~HandingOut'
    BY <2>1 DEF HandingOut
  <2>4. \A k \in Listener : heard'[k] = through(k)
    BY <2>1
  <2>5. heard' \in [Listener -> HeardRecord]
    BY <2>1, <2>2
  <2> HIDE DEF list
  <2>6. ASSUME NEW k \in Listener
        PROVE  heard[k].got \cup heard[k].missed \cup (IF k \in ToSet(list) /\ k \notin h.called THEN h.page ELSE {})
               \subseteq heard'[k].got \cup heard'[k].missed
    BY <2>2, <2>4
  <2> QED BY <1>1, <2>1, <2>2, <2>3, <2>4, <2>5, <2>6 DEF list
<1>4. CASE ~(h.next > Len(list))
  <2> DEFINE l == list[h.next]
             given == [heard[l] EXCEPT !.got = @ \cup h.page]
             next == [h EXCEPT !.next = @ + 1, !.called = @ \cup {l}]
  <2>1. l \in Listener /\ h.next \in 1..Len(list) /\ l \in ToSet(list)
    BY <1>0, <1>4, LenProperties DEF ToSet
  <2>2. handout' = next /\ heard' = [heard EXCEPT ![l] = given]
    BY <1>4 DEF Hands
  <2>3. /\ next \in HandoutRecord /\ next.list = h.list /\ next.page = h.page /\ next.left = h.left
        /\ next.next = h.next + 1 /\ next.called = h.called \cup {l}
    <3>1. h.called \cup {l} \in SUBSET Listener /\ h.next + 1 \in Nat \ {0}
      BY <1>0, <2>1
    <3> HIDE DEF l
    <3> QED BY <3>1 DEF HandoutRecord
  <2>4. /\ given \in HeardRecord /\ given.stage = heard[l].stage /\ given.since = heard[l].since
        /\ given.missed = heard[l].missed /\ given.got = heard[l].got \cup h.page
    <3>1. heard[l] \in HeardRecord /\ heard[l].got \cup h.page \in Received
      BY <1>0, <2>1 DEF HeardRecord, Received
    <3> HIDE DEF l
    <3> QED BY <3>1 DEF HeardRecord
  <2> HIDE DEF given, next, l
  <2>5. heard' \in [Listener -> HeardRecord] /\ heard'[l] = given /\ \A k \in Listener : k # l => heard'[k] = heard[k]
    BY <2>1, <2>2, <2>4
  <2>6. HandingOut'
    <3>1. next.list # NoHandout.list
      BY <1>0, <2>3 DEF NoHandout
    <3> QED BY <2>2, <3>1 DEF HandingOut
  <2>7. Cardinality(Skipped(list, next.next, next.called)) <= next.left
    <3> DEFINE before == Skipped(list, h.next, h.called)
               after == Skipped(list, h.next + 1, h.called \cup {l})
    <3>1. after \subseteq before
      <4> SUFFICES ASSUME NEW k \in after PROVE k \in before
        OBVIOUS
      <4>0. k \in 1..h.next /\ (k > Len(list) \/ list[k] \notin h.called \cup {l})
        <5>1. h.next + 1 - 1 = h.next
          BY <1>0
        <5>2. after = Skipped(list, h.next + 1, h.called \cup {l})
          OBVIOUS
        <5> HIDE DEF list, after
        <5> QED BY <1>0, <5>1, <5>2 DEF Skipped
      <4>1. k # h.next
        BY <1>0, <1>4, <4>0 DEF l
      <4>2. k \in 1..(h.next - 1) /\ (k > Len(list) \/ list[k] \notin h.called)
        BY <1>0, <4>0, <4>1
      <4> QED BY <4>2 DEF Skipped
    <3>2. Cardinality(after) <= Cardinality(before) /\ Cardinality(after) \in Nat /\ Cardinality(before) \in Nat
      <4>1. h.next + 1 \in Nat
        BY <1>0
      <4> QED BY <1>0, <3>1, <4>1, FewerSkipped, SkippedIsFinite
    <3>3. Cardinality(before) <= h.left
      OBVIOUS
    <3> HIDE DEF before, after
    <3>4. Cardinality(after) <= h.left
      BY <1>0, <3>2, <3>3
    <3> QED BY <2>3, <3>4 DEF after
  <2> HIDE DEF list
  <2>8. ASSUME NEW k \in Listener
        PROVE  heard[k].got \cup heard[k].missed \cup (IF k \in ToSet(list) /\ k \notin h.called THEN h.page ELSE {})
               \subseteq heard'[k].got \cup heard'[k].missed
                         \cup (IF k \in ToSet(list) /\ k \notin next.called THEN h.page ELSE {})
    <3>1. CASE k = l
      BY <2>4, <2>5, <3>1
    <3>2. CASE k # l
      <4>1. heard'[k] = heard[k] /\ (k \notin h.called => k \notin next.called)
        BY <2>3, <2>5, <3>2
      <4> QED BY <4>1
    <3> QED BY <3>1, <3>2
  <2>9. \A k \in Listener : heard'[k].stage = heard[k].stage /\ heard'[k].since = heard[k].since
    BY <2>4, <2>5
  <2> QED BY <2>2, <2>3, <2>5, <2>6, <2>7, <2>8, <2>9 DEF list
<1> QED BY <1>3, <1>4

\* A call with a page, the first of which a timer makes.
LEMMA HandsStep ==
    ASSUME FeedIInv, NEW h \in HandoutRecord, h.list \in 1..Len(lists), Hands(h),
           UNCHANGED <<lists, current, active>>,
           Cardinality(Skipped(lists[h.list], h.next, h.called)) <= h.left,
           streams' \in Seq(FeedStream), Len(streams') = Len(streams),
           \A s \in 1..Len(streams) : streams'[s].state = streams[s].state,
           active # 0 => \A k \in Listening :
             {<<active, n>> : n \in (heard[k].since + 1)..streams'[active].sent} \ streams'[active].batch
               \subseteq heard[k].got \cup heard[k].missed
                           \cup (IF k \in ToSet(lists[h.list]) /\ k \notin h.called THEN h.page ELSE {})
    PROVE  FeedIInv'
<1>0. lists \in Seq(Seq(Listener)) /\ heard \in [Listener -> HeardRecord]
  BY DEF FeedIInv, FeedShapes
<1>1. /\ handout' \in HandoutRecord /\ heard' \in [Listener -> HeardRecord]
      /\ \A k \in Listener : heard'[k].stage = heard[k].stage /\ heard'[k].since = heard[k].since
      /\ HandingOut' => /\ handout'.list = h.list /\ handout'.page = h.page
                        /\ Cardinality(Skipped(lists[h.list], handout'.next, handout'.called)) <= handout'.left
      /\ \A k \in Listener :
           heard[k].got \cup heard[k].missed
             \cup (IF k \in ToSet(lists[h.list]) /\ k \notin h.called THEN h.page ELSE {})
           \subseteq heard'[k].got \cup heard'[k].missed
             \cup (IF HandingOut' /\ k \in ToSet(lists[h.list]) /\ k \notin handout'.called THEN h.page ELSE {})
  BY <1>0, HandsFacts
<1>2. FeedShapes'
  BY <1>1 DEF FeedIInv, FeedShapes
<1>3. Listening' = Listening /\ \A k \in Listening : k \in Listener
  BY DEF FeedIInv, OneList, Listening
<1>4. OneList'
  BY <1>1, <1>3 DEF FeedIInv, OneList
<1>5. OneStream'
  BY DEF FeedIInv, OneStream
<1>6. LeaversAreCounted'
  BY <1>1 DEF LeaversAreCounted
<1>7. PageIsOnItsWay'
  <2> SUFFICES ASSUME active # 0, NEW k \in Listening
               PROVE  Due(k)' \subseteq heard'[k].got \cup heard'[k].missed \cup (IF Awaits(k)' THEN handout'.page ELSE {})
    BY <1>3 DEF PageIsOnItsWay
  <2>1. Due(k)' = {<<active, n>> : n \in (heard[k].since + 1)..streams'[active].sent} \ streams'[active].batch
    BY <1>1, <1>3 DEF Due
  <2>2. Due(k)' \subseteq heard[k].got \cup heard[k].missed
                   \cup (IF k \in ToSet(lists[h.list]) /\ k \notin h.called THEN h.page ELSE {})
    BY <2>1
  <2>3. (HandingOut' /\ k \in ToSet(lists[h.list]) /\ k \notin handout'.called) => (Awaits(k)' /\ handout'.page = h.page)
    BY <1>1 DEF Awaits
  <2>4. Due(k)' \subseteq heard'[k].got \cup heard'[k].missed
          \cup (IF HandingOut' /\ k \in ToSet(lists[h.list]) /\ k \notin handout'.called THEN h.page ELSE {})
    BY <1>1, <1>3, <2>2
  <2> QED BY <2>3, <2>4
<1> QED BY <1>2, <1>4, <1>5, <1>6, <1>7 DEF FeedIInv

LEMMA NextListenerStep == ASSUME FeedIInv, NextListener PROVE FeedIInv'
<1>1. HandingOut /\ Hands(handout) /\ UNCHANGED <<lists, current, streams, active>>
  BY DEF NextListener
<1>2. handout \in HandoutRecord /\ handout.list \in 1..Len(lists) /\ streams \in Seq(FeedStream)
      /\ Cardinality(Skipped(lists[handout.list], handout.next, handout.called)) <= handout.left
  BY <1>1 DEF FeedIInv, FeedShapes, LeaversAreCounted
<1>3. ASSUME active # 0, NEW k \in Listening
      PROVE  {<<active, n>> : n \in (heard[k].since + 1)..streams[active].sent} \ streams[active].batch
               \subseteq heard[k].got \cup heard[k].missed
                 \cup (IF k \in ToSet(lists[handout.list]) /\ k \notin handout.called THEN handout.page ELSE {})
  <2>1. Due(k) \subseteq heard[k].got \cup heard[k].missed \cup (IF Awaits(k) THEN handout.page ELSE {})
    BY <1>3 DEF FeedIInv, PageIsOnItsWay
  <2> QED BY <1>1, <2>1 DEF Due, Awaits
<1> QED BY <1>1, <1>2, <1>3, HandsStep

LEMMA FlushStep ==
    ASSUME FeedIInv, NEW s \in DOMAIN streams, Flush(s)
    PROVE  FeedIInv'
<1> DEFINE flushed == [streams[s] EXCEPT !.scheduled = FALSE, !.batch = {}]
<1>1. /\ ~HandingOut /\ UNCHANGED <<lists, current, active>> /\ s \in 1..Len(streams)
      /\ streams \in Seq(FeedStream) /\ streams[s] \in FeedStream
  BY DEF Flush, FeedIInv, FeedShapes
<1>2. flushed \in FeedStream /\ flushed.sent = streams[s].sent /\ flushed.batch = {} /\ flushed.state = streams[s].state
  <2>1. {} \in Received /\ FALSE \in BOOLEAN
    BY DEF Received
  <2> QED BY <1>1, <2>1 DEF FeedStream
<1>3. streams' = [streams EXCEPT ![s] = flushed]
  BY DEF Flush
<1> HIDE DEF flushed
<1>4. /\ streams' \in Seq(FeedStream) /\ Len(streams') = Len(streams)
      /\ \A t \in 1..Len(streams) : streams'[t] = IF t = s THEN flushed ELSE streams[t]
      /\ \A t \in 1..Len(streams) : streams'[t].state = streams[t].state
  BY <1>1, <1>2, <1>3
<1>5. CASE current = 0
  <2>1. UNCHANGED <<handout, heard>> /\ active = 0
    BY <1>5 DEF Flush, FeedIInv, OneStream
  <2>2. FeedShapes' /\ OneList' /\ LeaversAreCounted'
    BY <1>1, <1>4, <2>1 DEF FeedIInv, FeedShapes, OneList, Listening, LeaversAreCounted, HandingOut, Skipped
  <2>3. OneStream' /\ PageIsOnItsWay'
    BY <1>1, <1>4, <2>1 DEF FeedIInv, OneStream, PageIsOnItsWay
  <2> QED BY <2>2, <2>3 DEF FeedIInv
<1>6. CASE current # 0
  <2> DEFINE h == [NoHandout EXCEPT !.page = streams[s].batch, !.list = current]
  <2>1. Hands(h)
    BY <1>6 DEF Flush
  <2>2. /\ h \in HandoutRecord /\ h.list = current /\ h.page = streams[s].batch /\ h.next = 1
        /\ h.called = {} /\ h.left = 0
    <3>1. NoHandout \in HandoutRecord /\ NoHandout.next = 1 /\ NoHandout.called = {} /\ NoHandout.left = 0
      BY DEF NoHandout, HandoutRecord, Received
    <3>2. streams[s].batch \in Received /\ current \in Nat
      BY <1>1 DEF FeedStream, FeedIInv, FeedShapes
    <3> QED BY <3>1, <3>2 DEF HandoutRecord
  <2>3. h.list \in 1..Len(lists) /\ Listening = ToSet(lists[h.list])
    BY <1>6, <2>2, OneListFacts
  <2> HIDE DEF h
  <2>4. Cardinality(Skipped(lists[h.list], h.next, h.called)) <= h.left
    <3>1. Skipped(lists[h.list], h.next, h.called) = {}
      BY <2>2 DEF Skipped
    <3> QED BY <2>2, <3>1, FS_EmptySet
  <2>5. ASSUME active # 0, NEW k \in Listening
        PROVE  {<<active, n>> : n \in (heard[k].since + 1)..streams'[active].sent} \ streams'[active].batch
                 \subseteq heard[k].got \cup heard[k].missed
                   \cup (IF k \in ToSet(lists[h.list]) /\ k \notin h.called THEN h.page ELSE {})
    <3>0. active \in 1..Len(streams)
      BY <2>5 DEF FeedIInv, FeedShapes
    <3>1. Due(k) \subseteq heard[k].got \cup heard[k].missed
      BY <1>1, <2>5 DEF FeedIInv, PageIsOnItsWay, Awaits
    <3>2. k \in ToSet(lists[h.list]) /\ k \notin h.called
      BY <2>2, <2>3
    <3>3. streams'[active].sent = streams[active].sent
          /\ streams[active].batch \subseteq streams'[active].batch \cup h.page
      BY <1>2, <1>4, <2>2, <3>0
    <3> QED BY <3>1, <3>2, <3>3 DEF Due
  <2> QED BY <1>1, <1>4, <2>1, <2>2, <2>3, <2>4, <2>5, HandsStep
<1> QED BY <1>5, <1>6

LEMMA LeaveStep ==
    ASSUME FeedIInv, NEW l \in Listener, Leave(l)
    PROVE  FeedIInv'
<1> DEFINE list == lists[current]
           rest == IF current = 0 THEN <<>> ELSE RemoveFirst(list, l)
           mine == current # 0 /\ Contains(list, l)
           gone == [heard[l] EXCEPT !.stage = "gone"]
<1>0. /\ lists \in Seq(Seq(Listener)) /\ streams \in Seq(FeedStream) /\ handout \in HandoutRecord
      /\ heard \in [Listener -> HeardRecord] /\ Len(lists) \in Nat /\ Len(streams) \in Nat
      /\ current \in 0..Len(lists) /\ active \in 0..Len(streams)
      /\ (active = 0 <=> current = 0)
  BY LenProperties DEF FeedIInv, FeedShapes, OneStream
<1>1. /\ lists' = IF mine THEN [lists EXCEPT ![current] = rest] ELSE lists
      /\ current' = IF rest = <<>> THEN 0 ELSE current
      /\ IF rest = <<>> /\ active # 0
           THEN streams' = [streams EXCEPT ![active].state = "closed"] /\ active' = 0
           ELSE UNCHANGED <<streams, active>>
      /\ handout' = IF mine /\ handout.list = current THEN [handout EXCEPT !.left = @ + 1] ELSE handout
      /\ heard' = [heard EXCEPT ![l].stage = "gone"]
  BY DEF Leave
<1>2. /\ heard' \in [Listener -> HeardRecord] /\ heard'[l].stage = "gone"
      /\ \A k \in Listener : k # l => heard'[k] = heard[k]
  <2>1. gone \in HeardRecord /\ gone.stage = "gone"
    BY <1>0 DEF HeardRecord
  <2>2. heard' = [heard EXCEPT ![l] = gone]
    BY <1>1
  <2> HIDE DEF gone
  <2> QED BY <1>0, <2>1, <2>2
<1>3. mine <=> l \in Listening
  <2>1. CASE current = 0
    BY <2>1, OneListFacts
  <2>2. CASE current # 0
    <3>1. list \in Seq(Listener) /\ Listening = ToSet(list)
      BY <2>2, OneListFacts
    <3> HIDE DEF list
    <3>2. Contains(list, l) <=> l \in ToSet(list)
      BY <3>1, LenProperties DEF Contains, ToSet
    <3> QED BY <2>2, <3>1, <3>2
  <2> QED BY <2>1, <2>2
<1>4. CASE ~mine
  <2>1. l \notin Listening
    BY <1>3, <1>4
  <2>2. lists' = lists /\ handout' = handout
    BY <1>1, <1>4
  <2>3. current' = current /\ UNCHANGED <<streams, active>>
    <3>1. CASE current = 0
      BY <1>0, <1>1, <3>1
    <3>2. CASE current # 0
      <4>1. ~Contains(list, l) /\ list # <<>>
        BY <1>4, <3>2, OneListFacts
      <4>2. rest = list
        BY <3>2, <4>1 DEF RemoveFirst, Contains
      <4> QED BY <1>1, <4>1, <4>2
    <3> QED BY <3>1, <3>2
  <2> HIDE DEF mine, rest, list
  <2>4. FeedShapes' /\ OneStream' /\ LeaversAreCounted'
    BY <1>2, <2>2, <2>3 DEF FeedIInv, FeedShapes, OneStream, LeaversAreCounted, HandingOut, Skipped
  <2>5. Listening' = Listening /\ \A k \in Listening : heard'[k] = heard[k] /\ k \in Listener
    <3>1. Listening' = Listening
      BY <2>2, <2>3 DEF Listening
    <3> QED BY <1>2, <2>1, <3>1, OneListFacts DEF FeedIInv, OneList
  <2>6. OneList'
    <3>1. Listening' = {k \in Listener : heard'[k].stage = "listening"}
      BY <1>2, <2>1, <2>5 DEF FeedIInv, OneList
    <3> QED BY <2>2, <2>3, <3>1 DEF FeedIInv, OneList
  <2>7. PageIsOnItsWay'
    BY <2>2, <2>3, <2>5 DEF FeedIInv, PageIsOnItsWay, Due, Awaits, HandingOut
  <2> QED BY <2>4, <2>6, <2>7 DEF FeedIInv
<1>5. CASE mine
  <2>0. /\ current # 0 /\ current \in 1..Len(lists) /\ list \in Seq(Listener) /\ IsInjective(list)
        /\ Listening = ToSet(list) /\ l \in ToSet(list) /\ active \in 1..Len(streams) /\ rest = RemoveFirst(list, l)
    BY <1>0, <1>3, <1>5, OneListFacts
  <2> HIDE DEF list
  <2>1. PICK i \in 1..Len(list) :
          list[i] = l /\ rest \in Seq(Listener) /\ OneOut(list, rest, i)
    BY <2>0, LeftAt
  <2> HIDE DEF rest
  <2>2. IsInjective(rest) /\ ToSet(rest) = Listening \ {l}
    <3>1. IsInjective(rest) /\ ToSet(rest) = ToSet(list) \ {list[i]}
      BY <2>0, <2>1, LeftFacts
    <3> QED BY <2>0, <2>1, <3>1
  <2>3. /\ lists' = [lists EXCEPT ![current] = rest]
        /\ handout' = IF handout.list = current THEN [handout EXCEPT !.left = @ + 1] ELSE handout
    BY <1>1, <1>5
  <2> HIDE DEF mine
  <2>4. /\ lists' \in Seq(Seq(Listener)) /\ Len(lists') = Len(lists) /\ lists'[current] = rest
        /\ \A j \in 1..Len(lists) : j # current => lists'[j] = lists[j]
    BY <1>0, <2>0, <2>1, <2>3
  <2>5. /\ handout' \in HandoutRecord /\ handout'.list = handout.list /\ handout'.page = handout.page
        /\ handout'.next = handout.next /\ handout'.called = handout.called
        /\ handout'.left = (IF handout.list = current THEN handout.left + 1 ELSE handout.left)
    <3>1. CASE handout.list = current
      <4>1. handout' = [handout EXCEPT !.left = @ + 1]
        BY <2>3, <3>1
      <4>2. handout.left + 1 \in Nat
        BY <1>0 DEF HandoutRecord
      <4>3. /\ handout' \in HandoutRecord /\ handout'.list = handout.list /\ handout'.page = handout.page
            /\ handout'.next = handout.next /\ handout'.called = handout.called /\ handout'.left = handout.left + 1
        BY <1>0, <4>1, <4>2 DEF HandoutRecord
      <4> QED BY <3>1, <4>3
    <3>2. CASE handout.list # current
      BY <1>0, <2>3, <3>2
    <3> QED BY <3>1, <3>2
  <2>6. HandingOut' <=> HandingOut
    <3>1. HandingOut => handout.list # 0
      BY <1>0, OneListFacts
    <3>2. NoHandout.list = 0
      BY DEF NoHandout
    <3>3. HandingOut => HandingOut'
      BY <2>5, <3>1, <3>2 DEF HandingOut
    <3>4. ~HandingOut => ~HandingOut'
      <4>1. ~HandingOut => handout.list # current
        BY <2>0, <3>2 DEF HandingOut
      <4> QED BY <2>3, <4>1 DEF HandingOut
    <3> QED BY <3>3, <3>4
  <2>7. /\ Listening' = Listening \ {l}
        /\ current' = 0 \/ (current' = current /\ rest # <<>>)
        /\ current' = 0 => rest = <<>>
    <3>1. CASE rest = <<>>
      <4>1. current' = 0
        BY <1>1, <3>1
      <4>2. ToSet(rest) = {}
        BY <3>1 DEF ToSet
      <4>3. Listening' = {}
        BY <4>1 DEF Listening
      <4> QED BY <2>2, <3>1, <4>1, <4>2, <4>3
    <3>2. CASE rest # <<>>
      <4>1. current' = current
        BY <1>1, <3>2
      <4> QED BY <2>0, <2>2, <2>4, <3>2, <4>1 DEF Listening
    <3> QED BY <3>1, <3>2
  <2>8. /\ streams' \in Seq(FeedStream) /\ Len(streams') = Len(streams)
        /\ current' # 0 => UNCHANGED <<streams, active>>
        /\ current' = 0 => /\ active' = 0
                          /\ \A s \in 1..Len(streams) : streams'[s].state = "closed"
    <3>1. CASE rest = <<>>
      <4> DEFINE shut == [streams[active] EXCEPT !.state = "closed"]
      <4>1. shut \in FeedStream /\ shut.state = "closed"
        <5>1. streams[active] \in FeedStream
          BY <1>0, <2>0
        <5> QED BY <5>1 DEF FeedStream
      <4>2. streams' = [streams EXCEPT ![active] = shut] /\ active' = 0
        BY <1>1, <2>0, <3>1
      <4>3. current' = 0
        BY <1>1, <3>1
      <4> HIDE DEF shut
      <4>4. /\ streams' \in Seq(FeedStream) /\ Len(streams') = Len(streams)
            /\ \A s \in 1..Len(streams) : streams'[s] = IF s = active THEN shut ELSE streams[s]
        BY <1>0, <2>0, <4>1, <4>2
      <4> QED BY <4>1, <4>2, <4>3, <4>4 DEF FeedIInv, OneStream
    <3>2. CASE rest # <<>>
      BY <1>0, <1>1, <2>0, <3>2
    <3> QED BY <3>1, <3>2
  <2>9. FeedShapes'
    <3>1. HandingOut' => handout'.list \in 1..Len(lists')
      BY <2>4, <2>5, <2>6, OneListFacts
    <3>2. current' \in 0..Len(lists') /\ active' \in 0..Len(streams')
      BY <1>0, <2>4, <2>7, <2>8
    <3> QED BY <1>2, <2>4, <2>5, <2>8, <3>1, <3>2 DEF FeedShapes
  <2>10. OneList'
    <3>1. \A j \in 1..Len(lists') : j # current' => lists'[j] = <<>>
      BY <2>4, <2>7 DEF FeedIInv, OneList
    <3>2. current' # 0 => lists'[current'] # <<>> /\ IsInjective(lists'[current'])
      BY <2>2, <2>4, <2>7
    <3>3. Listening' = {k \in Listener : heard'[k].stage = "listening"}
      BY <1>2, <2>7 DEF FeedIInv, OneList
    <3> QED BY <3>1, <3>2, <3>3 DEF OneList
  <2>11. OneStream'
    <3>1. CASE current' = 0
      BY <2>8, <3>1 DEF OneStream
    <3>2. CASE current' # 0
      BY <2>7, <2>8, <3>2 DEF FeedIInv, OneStream
    <3> QED BY <3>1, <3>2
  <2>12. PageIsOnItsWay'
    <3> SUFFICES ASSUME active' # 0, NEW k \in Listening'
                 PROVE  Due(k)' \subseteq heard'[k].got \cup heard'[k].missed \cup (IF Awaits(k)' THEN handout'.page ELSE {})
      BY DEF PageIsOnItsWay
    <3>1. current' # 0 /\ streams' = streams /\ active' = active /\ current' = current
      BY <2>7, <2>8
    <3>2. k # l /\ k \in Listening /\ k \in Listener /\ heard'[k] = heard[k]
      BY <1>2, <2>7 DEF FeedIInv, OneList
    <3>3. Due(k)' = Due(k)
      BY <3>1, <3>2 DEF Due
    <3>4. Awaits(k) => Awaits(k)'
      <4> SUFFICES ASSUME Awaits(k) PROVE Awaits(k)'
        OBVIOUS
      <4>1. HandingOut /\ k \in ToSet(lists[handout.list]) /\ k \notin handout.called /\ handout.list \in 1..Len(lists)
        BY OneListFacts DEF Awaits
      <4>2. k \in ToSet(lists'[handout.list])
        BY <2>2, <2>4, <3>2, <4>1
      <4> QED BY <2>5, <2>6, <4>1, <4>2 DEF Awaits
    <3>5. Due(k) \subseteq heard[k].got \cup heard[k].missed \cup (IF Awaits(k) THEN handout.page ELSE {})
      BY <3>1, <3>2 DEF FeedIInv, PageIsOnItsWay
    <3> QED BY <2>5, <3>2, <3>3, <3>4, <3>5
  <2>13. LeaversAreCounted'
    <3> SUFFICES ASSUME HandingOut
                 PROVE  Cardinality(Skipped(lists'[handout.list], handout.next, handout.called)) <= handout'.left
      BY <2>5, <2>6 DEF LeaversAreCounted
    <3>1. handout.list \in 1..Len(lists) /\ handout.next \in Nat /\ handout.left \in Nat
      BY <1>0, OneListFacts DEF HandoutRecord
    <3>2. Cardinality(Skipped(lists[handout.list], handout.next, handout.called)) <= handout.left
      BY DEF FeedIInv, LeaversAreCounted
    <3>3. CASE handout.list # current
      BY <2>4, <2>5, <3>1, <3>2, <3>3
    <3>4. CASE handout.list = current
      <4>1. Cardinality(Skipped(rest, handout.next, handout.called))
              <= Cardinality(Skipped(list, handout.next, handout.called)) + 1
        BY <2>0, <2>1, <3>1, LeavingSkips
      <4>2. Cardinality(Skipped(rest, handout.next, handout.called)) \in Nat
            /\ Cardinality(Skipped(list, handout.next, handout.called)) \in Nat
        BY <3>1, SkippedIsFinite
      <4>3. lists'[handout.list] = rest /\ lists[handout.list] = list
        BY <2>4, <3>4 DEF list
      <4> QED BY <2>5, <3>1, <3>2, <3>4, <4>1, <4>2, <4>3
    <3> QED BY <3>3, <3>4
  <2> QED BY <2>9, <2>10, <2>11, <2>12, <2>13 DEF FeedIInv
<1> QED BY <1>4, <1>5

\* Listeners to one filter share one subscription of the node, and each that
\* leaves while a page is handed out costs one of the others the page at most,
\* for any listeners and pages.
THEOREM ListenersAlwaysShareOneFeed == FeedSpec => []ListenersShareOneFeed
<1>1. FeedIInv /\ [FeedNext]_feedVars => FeedIInv'
  <2> SUFFICES ASSUME FeedIInv, [FeedNext]_feedVars PROVE FeedIInv'
    OBVIOUS
  <2>1. CASE UNCHANGED feedVars
    BY <2>1 DEF feedVars, FeedIInv, FeedShapes, OneList, OneStream, PageIsOnItsWay, LeaversAreCounted,
                HandingOut, Listening, Due, Awaits, Skipped
  <2>2. CASE FeedNext
    BY <2>2, ListenStep, LeaveStep, StreamStep, FlushStep, NextListenerStep DEF FeedNext
  <2> QED BY <2>1, <2>2
<1>2. FeedIInv => ListenersShareOneFeed
  <2> SUFFICES ASSUME FeedIInv PROVE ListenersShareOneFeed
    OBVIOUS
  <2>1. FeedTypeOK
    <3>1. handout.list \in 0..Len(lists)
      <4>1. CASE HandingOut
        BY <4>1, OneListFacts
      <4>2. CASE ~HandingOut
        BY <4>2, LenProperties DEF HandingOut, NoHandout, FeedIInv, FeedShapes
      <4> QED BY <4>1, <4>2
    <3> QED BY <3>1 DEF FeedTypeOK, FeedIInv, FeedShapes
  <2>2. {s \in DOMAIN streams : streams[s].state # "closed"} = IF current = 0 THEN {} ELSE {active}
    <3>1. DOMAIN streams = 1..Len(streams) /\ Len(streams) \in Nat /\ active \in 0..Len(streams)
      BY LenProperties DEF FeedIInv, FeedShapes
    <3> QED BY <3>1 DEF FeedIInv, OneStream
  <2>3. ~HandingOut /\ active # 0 => \A l \in Listening : Due(l) \subseteq heard[l].got \cup heard[l].missed
    BY DEF FeedIInv, PageIsOnItsWay, Awaits
  <2>4. ASSUME HandingOut
        PROVE  LET list == lists[handout.list] IN
               Cardinality({k \in DOMAIN list : k < handout.next /\ list[k] \notin handout.called}) <= handout.left
    <3> DEFINE list == lists[handout.list]
               passed == {k \in DOMAIN list : k < handout.next /\ list[k] \notin handout.called}
               skipped == Skipped(list, handout.next, handout.called)
    <3>1. handout.list \in 1..Len(lists) /\ list \in Seq(Listener)
      BY <2>4, OneListFacts
    <3>2. DOMAIN list = 1..Len(list) /\ Len(list) \in Nat
      BY <3>1, LenProperties
    <3>3. handout.next \in Nat /\ handout.left \in Nat
      BY DEF FeedIInv, FeedShapes, HandoutRecord
    <3>4. passed \subseteq skipped
      BY <3>2, <3>3 DEF Skipped
    <3>5. IsFiniteSet(skipped) /\ Cardinality(skipped) \in Nat
      BY <3>3, SkippedIsFinite
    <3>6. Cardinality(skipped) <= handout.left
      BY <2>4 DEF FeedIInv, LeaversAreCounted
    <3> HIDE DEF passed, skipped
    <3>7. IsFiniteSet(passed) /\ Cardinality(passed) <= Cardinality(skipped)
      BY <3>4, <3>5, FS_Subset
    <3>8. Cardinality(passed) \in Nat
      BY <3>7, FS_CardinalityType
    <3>9. Cardinality(passed) <= handout.left
      BY <3>3, <3>5, <3>6, <3>7, <3>8
    <3> QED BY <3>9 DEF passed
  <2>5. Listening = {l \in Listener : heard[l].stage = "listening"} /\ (current # 0 => IsInjective(lists[current]))
    BY DEF FeedIInv, OneList
  <2> QED BY <2>1, <2>2, <2>3, <2>4, <2>5 DEF ListenersShareOneFeed
<1> QED BY FeedInitIInv, <1>1, <1>2, PTL DEF FeedSpec

\* A nonempty set of numbers up to n has a greatest element.
LEMMA MaxOf ==
    ASSUME NEW n \in Nat, NEW s \in SUBSET (1..n), s # {}
    PROVE  Max(s) \in s /\ \A x \in s : x <= Max(s)
<1> DEFINE bounds == {k \in 0..n : \A x \in s : x <= k}
<1>1. bounds \subseteq Nat /\ n \in bounds
  OBVIOUS
<1>2. PICK m \in bounds : \A k \in bounds : m <= k
  BY <1>1, LeastOf
<1>3. m \in s
  <2> SUFFICES ASSUME m \notin s PROVE FALSE
    OBVIOUS
  <2>1. PICK x \in s : x \in 1..n
    OBVIOUS
  <2>2. m \in 0..n /\ m # 0 /\ \A y \in s : y <= m
    BY <1>2, <2>1
  <2>3. \A y \in s : y <= m - 1
    BY <2>2
  <2>4. m - 1 \in bounds
    BY <2>2, <2>3
  <2> QED BY <1>2, <2>2, <2>4
<1>4. \A x \in s : x <= m /\ m >= x
  BY <1>2
<1>5. \A x \in s : x \in Nat
  OBVIOUS
<1> HIDE DEF bounds
<1>6. Max(s) \in s /\ \A y \in s : Max(s) >= y
  BY <1>3, <1>4 DEF Max
<1> QED BY <1>5, <1>6

\* An abort tells the calls of the signal one after the other.
LEMMA AbortingInTurn ==
    ASSUME line \in Seq(Request)
    PROVE  \E after : /\ after[0] = pool /\ Aborting = after[Len(line)]
                      /\ \A i \in 1..Len(line) : after[i] = Freed(after[i - 1], line[i])
<1> DEFINE n == Len(line)
           Value(h, s) == IF s = {} THEN pool ELSE Freed(h[s \ {Max(s)}], line[Max(s)])
           D(h) == [s \in SUBSET (1..n) |-> Value(h, s)]
           Upto(h, k) == h \in [SUBSET (1..n) -> {h[s] : s \in SUBSET (1..n)}] /\ \A s \in SUBSET (1..k) : h[s] = Value(h, s)
<1>0. n \in Nat /\ DOMAIN line = 1..n
  BY LenProperties
<1>1. \E h : h = D(h)
  <2> DEFINE without == {k \in 0..n : ~\E h : Upto(h, k)}
  <2>1. CASE without # {}
    <3>1. without \subseteq Nat
      OBVIOUS
    <3>2. PICK m \in without : \A k \in without : m <= k
      BY <2>1, <3>1, LeastOf
    <3>3. m \in 0..n
      BY <3>2
    <3>4. m # 0
      <4> SUFFICES ASSUME m = 0 PROVE FALSE
        OBVIOUS
      <4> DEFINE h == [s \in SUBSET (1..n) |-> pool]
      <4>1. Upto(h, 0)
        <5>1. \A s \in SUBSET (1..0) : s = {} /\ s \in SUBSET (1..n)
          OBVIOUS
        <5>2. \A s \in SUBSET (1..0) : h[s] = Value(h, s)
          BY <5>1
        <5>3. h \in [SUBSET (1..n) -> {h[s] : s \in SUBSET (1..n)}]
          OBVIOUS
        <5> QED BY <5>2, <5>3
      <4> QED BY <3>2, <4>1
    <3>5. m - 1 \in 0..n /\ m - 1 \notin without
      <4> HIDE DEF without
      <4> QED BY <1>0, <3>2, <3>3, <3>4
    <3>6. PICK h : Upto(h, m - 1)
      BY <3>5
    <3> DEFINE g == [s \in SUBSET (1..n) |-> IF s \subseteq 1..(m - 1) THEN h[s] ELSE Value(h, s)]
    <3>7. ASSUME NEW s \in SUBSET (1..m) PROVE g[s] = Value(g, s)
      <4>0. s \in SUBSET (1..n)
        BY <3>3
      <4>1. CASE s = {}
        <5>1. g[s] = h[s] /\ h[s] = Value(h, s)
          BY <3>6, <4>0, <4>1
        <5> QED BY <4>1, <5>1
      <4>2. CASE s # {}
        <5>1. Max(s) \in s /\ \A x \in s : x <= Max(s)
          BY <3>3, <4>2, MaxOf
        <5> DEFINE rest == s \ {Max(s)}
        <5>2. rest \in SUBSET (1..(m - 1)) /\ rest \in SUBSET (1..n)
          <6>1. \A x \in rest : x \in 1..(m - 1)
            BY <3>3, <5>1
          <6> QED BY <4>0, <6>1
        <5> HIDE DEF rest
        <5>3. g[rest] = h[rest]
          BY <5>2
        <5>4. g[s] = Value(h, s)
          BY <3>6, <4>0
        <5> QED BY <4>2, <5>3, <5>4 DEF rest
      <4> QED BY <4>1, <4>2
    <3>8. g \in [SUBSET (1..n) -> {g[s] : s \in SUBSET (1..n)}]
      OBVIOUS
    <3> HIDE DEF g
    <3>9. Upto(g, m)
      BY <3>7, <3>8
    <3> QED BY <3>2, <3>9
  <2>2. CASE without = {}
    <3>1. n \in 0..n
      BY <1>0
    <3>2. PICK h : Upto(h, n)
      BY <2>2, <3>1
    <3>3. h = D(h)
      BY <3>2
    <3> QED BY <3>3
  <2> QED BY <2>1, <2>2
<1>2. PICK f : f = CHOOSE h : h = D(h)
  OBVIOUS
<1>3. f = D(f)
  BY <1>1, <1>2
<1>4. Aborting = f[1..n]
  BY <1>0, <1>2 DEF Aborting, FoldLeft, MapThenFoldSet
<1> DEFINE after == [i \in 0..n |-> f[1..i]]
<1>5. after[0] = pool
  <2>1. 1..0 = {} /\ {} \in SUBSET (1..n)
    OBVIOUS
  <2>2. f[{}] = pool
    BY <1>3, <2>1
  <2> QED BY <1>0, <2>1, <2>2
<1>6. ASSUME NEW i \in 1..n PROVE after[i] = Freed(after[i - 1], line[i])
  <2>1. 1..i \in SUBSET (1..n) /\ 1..i # {} /\ i \in 1..i /\ i - 1 \in 0..n /\ i \in 0..n
    BY <1>0
  <2>2. Max(1..i) = i
    <3>1. Max(1..i) \in 1..i /\ \A x \in 1..i : x <= Max(1..i)
      BY <1>0, <2>1, MaxOf
    <3> QED BY <2>1, <3>1
  <2>3. 1..i \ {i} = 1..(i - 1)
    BY <1>0
  <2>4. f[1..i] = Value(f, 1..i)
    BY <1>3, <2>1
  <2>5. Value(f, 1..i) = Freed(f[1..(i - 1)], line[i])
    BY <2>1, <2>2, <2>3
  <2> QED BY <2>1, <2>4, <2>5
<1>7. after[n] = f[1..n]
  BY <1>0
<1> HIDE DEF after
<1> QED BY <1>4, <1>5, <1>6, <1>7

(* What inductiveness adds to the slot: the calls of the pool are each in one  *)
(* place, and those of the signal are its listeners.                          *)

PoolRecord == [queue : Seq(Request), active : SUBSET Request, started : SUBSET Request]

Members(p) == ToSet(p.queue) \cup p.active

PoolOK(p) ==
    /\ p \in PoolRecord /\ IsInjective(p.queue)
    /\ p.active = {} \/ \E r \in Request : p.active = {r}
    /\ p.active \subseteq p.started /\ ToSet(p.queue) \cap p.started = {}
    /\ p.queue # <<>> => p.active # {}

TaskTypes ==
    /\ PoolOK(pool) /\ line \in Seq(Request) /\ signal \in 1..(MaxAborts + 1)
    /\ rq \in [Request -> [outcome : {"none", "reply", "failed", "timeout", "aborted"}, signal : 0..signal]]

ListenersAreMade ==
    /\ ToSet(line) = {r \in Request : rq[r].signal = signal}
    /\ pool.started \subseteq {r \in Request : rq[r].signal # 0} /\ running \subseteq pool.started
    /\ \A r \in Request : rq[r].signal = 0 => rq[r].outcome = "none"

MembersAreUnsettled ==
    /\ Members(pool) = {r \in Request : rq[r].signal # 0 /\ rq[r].outcome = "none"}
    /\ \A r \in Members(pool) : rq[r].signal = signal
    /\ pool.active \subseteq running

TasksInv == TaskTypes /\ ListenersAreMade /\ MembersAreUnsettled

LEMMA ProcessFacts ==
    ASSUME NEW p \in PoolRecord, IsInjective(p.queue),
           p.active = {} \/ \E r \in Request : p.active = {r},
           p.active \subseteq p.started, ToSet(p.queue) \cap p.started = {}
    PROVE  /\ PoolOK(ProcessPool(p)) /\ Members(ProcessPool(p)) = Members(p)
           /\ p.started \subseteq ProcessPool(p).started /\ ProcessPool(p).started \subseteq p.started \cup Members(p)
           /\ ProcessPool(p).active \subseteq p.active \cup (ProcessPool(p).started \ p.started)
<1>1. Cardinality(p.active) >= PoolSize <=> p.active # {}
  <2>1. Cardinality({}) = 0 /\ \A r : Cardinality({r}) = 1
    BY FS_EmptySet, FS_Singleton
  <2> QED BY <2>1 DEF PoolSize
<1>2. p.queue \in Seq(Request) /\ Len(p.queue) \in Nat
  BY LenProperties DEF PoolRecord
<1>3. CASE p.active # {} \/ p.queue = <<>>
  <2>1. ProcessPool(p) = p
    BY <1>1, <1>3 DEF ProcessPool
  <2>2. p.queue # <<>> => p.active # {}
    BY <1>3
  <2> QED BY <2>1, <2>2 DEF PoolOK
<1>4. CASE p.active = {} /\ p.queue # <<>>
  <2> DEFINE q == p.queue
             rest == Tail(q)
             first == Head(q)
  <2>1. /\ rest \in Seq(Request) /\ first \in Request /\ first = q[1] /\ Len(q) >= 1
        /\ Len(rest) = Len(q) - 1 /\ \A i \in 1..Len(rest) : rest[i] = q[i + 1]
    <3>1. Len(q) # 0
      BY <1>2, <1>4, EmptySeq
    <3> QED BY <1>2, <1>4, <3>1, HeadTailProperties
  <2>2. ProcessPool(p) = [queue |-> rest, active |-> {first}, started |-> p.started \cup {first}]
    BY <1>1, <1>4 DEF ProcessPool
  <2> DEFINE a == [queue |-> rest, active |-> {first}, started |-> p.started \cup {first}]
  <2>3. a \in PoolRecord
    <3>1. p.started \cup {first} \in SUBSET Request
      BY <2>1 DEF PoolRecord
    <3> HIDE DEF rest, first
    <3> QED BY <2>1, <3>1 DEF PoolRecord
  <2>4. 1 \in 1..Len(q) /\ OneOut(q, rest, 1)
    BY <1>2, <2>1 DEF OneOut
  <2>5. IsInjective(rest) /\ ToSet(rest) = ToSet(q) \ {q[1]}
    <3> HIDE DEF rest, q
    <3>1. IsInjective(q) /\ q \in Seq(Request)
      BY <1>2 DEF q
    <3> QED BY <2>1, <2>4, <3>1, LeftFacts
  <2>6. first \in ToSet(q)
    BY <1>2, <2>1, LenProperties DEF ToSet
  <2> HIDE DEF rest, first
  <2>7. /\ a.queue = rest /\ a.active = {first} /\ a.started = p.started \cup {first}
    OBVIOUS
  <2> HIDE DEF a
  <2>8. PoolOK(a)
    BY <1>4, <2>1, <2>3, <2>5, <2>6, <2>7 DEF PoolOK
  <2>9. Members(a) = Members(p) /\ first \in Members(p) /\ first \notin p.started
    BY <1>4, <2>1, <2>5, <2>6, <2>7 DEF Members
  <2> QED BY <2>2, <2>7, <2>8, <2>9 DEF a
<1> QED BY <1>3, <1>4

\* A call leaves the pool, wherever it is in it.
LEMMA FreedFacts ==
    ASSUME NEW p, PoolOK(p), NEW r \in Request
    PROVE  /\ PoolOK(Freed(p, r)) /\ Members(Freed(p, r)) = Members(p) \ {r}
           /\ p.started \subseteq Freed(p, r).started /\ Freed(p, r).started \subseteq p.started \cup Members(p)
           /\ Freed(p, r).active \subseteq p.active \cup (Freed(p, r).started \ p.started)
           /\ r \notin Freed(p, r).active
<1> DEFINE q == RemoveFirst(p.queue, r)
           rest == [p EXCEPT !.queue = RemoveFirst(@, r), !.active = @ \ {r}]
<1>1. p \in PoolRecord /\ p.queue \in Seq(Request) /\ IsInjective(p.queue) /\ p.active \in SUBSET Request
  BY DEF PoolOK, PoolRecord
<1>2. q \in Seq(Request) /\ IsInjective(q) /\ ToSet(q) = ToSet(p.queue) \ {r}
  <2>1. CASE r \in ToSet(p.queue)
    <3> DEFINE s == p.queue
    <3> HIDE DEF s
    <3>0. s \in Seq(Request) /\ IsInjective(s) /\ r \in ToSet(s)
      BY <1>1, <2>1 DEF s
    <3>1. PICK i \in 1..Len(s) : s[i] = r /\ RemoveFirst(s, r) \in Seq(Request) /\ OneOut(s, RemoveFirst(s, r), i)
      BY <3>0, LeftAt
    <3>2. IsInjective(RemoveFirst(s, r)) /\ ToSet(RemoveFirst(s, r)) = ToSet(s) \ {s[i]}
      BY <3>0, <3>1, LeftFacts
    <3> QED BY <3>1, <3>2 DEF s
  <2>2. CASE r \notin ToSet(p.queue)
    <3>1. ~\E i \in 1..Len(p.queue) : p.queue[i] = r
      BY <1>1, <2>2, LenProperties DEF ToSet
    <3>2. q = p.queue
      BY <3>1 DEF RemoveFirst
    <3> QED BY <1>1, <2>2, <3>2
  <2> QED BY <2>1, <2>2
<1> HIDE DEF q
<1>3. /\ rest \in PoolRecord /\ rest.queue = q /\ rest.active = p.active \ {r} /\ rest.started = p.started
  <2>1. rest = [p EXCEPT !.queue = q, !.active = p.active \ {r}]
    BY DEF q
  <2>2. p.active \ {r} \in SUBSET Request
    BY <1>1
  <2> HIDE DEF rest
  <2> QED BY <1>1, <1>2, <2>1, <2>2 DEF PoolRecord
<1>4. Freed(p, r) = ProcessPool(rest)
  BY DEF Freed
<1> HIDE DEF rest
<1>5. /\ rest.active = {} \/ \E x \in Request : rest.active = {x}
      /\ rest.active \subseteq rest.started /\ ToSet(rest.queue) \cap rest.started = {}
  BY <1>2, <1>3 DEF PoolOK
<1>6. /\ PoolOK(ProcessPool(rest)) /\ Members(ProcessPool(rest)) = Members(rest)
      /\ rest.started \subseteq ProcessPool(rest).started
      /\ ProcessPool(rest).started \subseteq rest.started \cup Members(rest)
      /\ ProcessPool(rest).active \subseteq rest.active \cup (ProcessPool(rest).started \ rest.started)
  BY <1>2, <1>3, <1>5, ProcessFacts
<1>7. Members(rest) = Members(p) \ {r}
  BY <1>2, <1>3 DEF Members
<1>8. ProcessPool(rest).active \subseteq Members(ProcessPool(rest))
  BY DEF Members
<1> QED BY <1>3, <1>4, <1>6, <1>7, <1>8

LEMMA TasksInitInv == RequestsInit => TasksInv
<1> SUFFICES ASSUME RequestsInit PROVE TasksInv
  OBVIOUS
<1>1. pool.queue = <<>> /\ pool.active = {} /\ pool.started = {} /\ pool \in PoolRecord
  BY DEF RequestsInit, PoolRecord
<1>2. <<>> \in Seq(Request) /\ ToSet(<<>>) = {} /\ IsInjective(<<>>)
  BY DEF ToSet, IsInjective
<1>3. 1 \in 1..(MaxAborts + 1)
  BY RequestAssumption
<1>4. /\ line = <<>> /\ signal = 1 /\ running = {}
      /\ rq = [r \in Request |-> [outcome |-> "none", signal |-> 0]]
  BY DEF RequestsInit
<1>5. TaskTypes
  BY <1>1, <1>2, <1>3, <1>4 DEF TaskTypes, PoolOK
<1> QED BY <1>1, <1>2, <1>4, <1>5 DEF TasksInv, ListenersAreMade, MembersAreUnsettled, Members

Outcome == {"none", "reply", "failed", "timeout", "aborted"}

LEMMA TaskFacts ==
    ASSUME TasksInv
    PROVE  /\ PoolOK(pool) /\ pool \in PoolRecord /\ Members(pool) \subseteq Request
           /\ pool.started \subseteq Request
           /\ line \in Seq(Request) /\ signal \in Nat /\ signal >= 1
           /\ rq \in [Request -> [outcome : Outcome, signal : 0..signal]]
<1>1. PoolOK(pool) /\ pool \in PoolRecord
  BY DEF TasksInv, TaskTypes, PoolOK
<1>2. ToSet(pool.queue) \subseteq Request
  BY <1>1, LenProperties DEF PoolRecord, ToSet
<1> QED BY <1>1, <1>2, RequestAssumption DEF TasksInv, TaskTypes, PoolRecord, Members, Outcome

LEMMA SettledFacts ==
    ASSUME TasksInv, NEW rs, NEW outcome \in Outcome \ {"none"}
    PROVE  /\ Settled(rs, outcome) \in [Request -> [outcome : Outcome, signal : 0..signal]]
           /\ \A r \in Request : /\ Settled(rs, outcome)[r].signal = rq[r].signal
                                 /\ Settled(rs, outcome)[r].outcome = "none" <=> rq[r].outcome = "none" /\ r \notin rs
  BY TaskFacts DEF Settled

\* A call is handed to the pool.
LEMMA AskStep == ASSUME TasksInv, NEW r \in Request, Ask(r) PROVE TasksInv'
<1> DEFINE p == [pool EXCEPT !.queue = Append(@, r)]
           q == Append(pool.queue, r)
<1>1. /\ rq[r].signal = 0 /\ rq' = [rq EXCEPT ![r].signal = signal] /\ line' = Append(line, r)
      /\ pool' = ProcessPool(p) /\ running' = (running \cup (pool'.started \ pool.started)) \ {}
      /\ signal' = signal
  BY DEF Ask, Becomes, messageVars
<1>2. /\ p.queue = q /\ p.active = pool.active /\ p.started = pool.started
      /\ pool.queue \in Seq(Request) /\ IsInjective(pool.queue)
  BY TaskFacts DEF PoolRecord, PoolOK
<1>3. r \notin Members(pool) /\ r \notin pool.started
  BY <1>1 DEF TasksInv, MembersAreUnsettled, ListenersAreMade
<1>4. q \in Seq(Request) /\ IsInjective(q) /\ ToSet(q) = ToSet(pool.queue) \cup {r}
  BY <1>2, <1>3, ComesLast DEF Members
<1>5. p \in PoolRecord
  BY <1>4, TaskFacts DEF PoolRecord
<1> HIDE DEF p, q
<1>6. /\ p.active = {} \/ \E x \in Request : p.active = {x}
      /\ p.active \subseteq p.started /\ ToSet(p.queue) \cap p.started = {}
  BY <1>2, <1>3, <1>4, TaskFacts DEF PoolOK
<1>7. /\ PoolOK(ProcessPool(p)) /\ Members(ProcessPool(p)) = Members(p)
      /\ p.started \subseteq ProcessPool(p).started
      /\ ProcessPool(p).started \subseteq p.started \cup Members(p)
      /\ ProcessPool(p).active \subseteq p.active \cup (ProcessPool(p).started \ p.started)
  BY <1>2, <1>4, <1>5, <1>6, ProcessFacts
<1>8. Members(p) = Members(pool) \cup {r}
  BY <1>2, <1>4 DEF Members
<1>9. /\ PoolOK(pool') /\ Members(pool') = Members(pool) \cup {r}
      /\ pool'.started \subseteq pool.started \cup Members(pool) \cup {r}
      /\ pool'.active \subseteq pool.active \cup (pool'.started \ pool.started)
  BY <1>1, <1>2, <1>7, <1>8
<1>10. /\ rq' \in [Request -> [outcome : Outcome, signal : 0..signal]]
       /\ \A x \in Request : /\ rq'[x].outcome = rq[x].outcome
                             /\ rq'[x].signal = IF x = r THEN signal ELSE rq[x].signal
  BY <1>1, TaskFacts
<1>11. line' \in Seq(Request) /\ ToSet(line') = ToSet(line) \cup {r}
  <2>1. /\ Append(line, r) \in Seq(Request) /\ Len(Append(line, r)) = Len(line) + 1 /\ Len(line) \in Nat
        /\ Append(line, r)[Len(line) + 1] = r /\ \A i \in 1..Len(line) : Append(line, r)[i] = line[i]
    BY TaskFacts, AppendProperties, LenProperties
  <2> DEFINE t == Append(line, r)
  <2>2. DOMAIN line = 1..Len(line) /\ DOMAIN t = 1..Len(line) \cup {Len(line) + 1}
    BY <2>1, TaskFacts, LenProperties
  <2>3. ToSet(t) = {t[n] : n \in 1..Len(line)} \cup {t[Len(line) + 1]} /\ ToSet(line) = {line[n] : n \in 1..Len(line)}
    BY <2>2 DEF ToSet
  <2>4. {t[n] : n \in 1..Len(line)} = {line[n] : n \in 1..Len(line)}
    BY <2>1
  <2> QED BY <1>1, <2>1, <2>3, <2>4
<1>12. rq[r].outcome = "none" /\ r \notin {x \in Request : rq[x].signal # 0}
  BY <1>1 DEF TasksInv, ListenersAreMade
<1>13. ListenersAreMade'
  <2>1. ToSet(line') = {x \in Request : rq'[x].signal = signal'}
    BY <1>1, <1>10, <1>11 DEF TasksInv, ListenersAreMade
  <2>2. pool'.started \subseteq {x \in Request : rq'[x].signal # 0}
    BY <1>9, <1>10, TaskFacts DEF TasksInv, ListenersAreMade, MembersAreUnsettled
  <2>3. running' \subseteq pool'.started
    <3>1. pool.started \subseteq pool'.started
      BY <1>1, <1>2, <1>7
    <3> QED BY <1>1, <3>1 DEF TasksInv, ListenersAreMade
  <2>4. \A x \in Request : rq'[x].signal = 0 => rq'[x].outcome = "none"
    BY <1>10, <1>12, TaskFacts DEF TasksInv, ListenersAreMade
  <2> QED BY <2>1, <2>2, <2>3, <2>4 DEF ListenersAreMade
<1>14. MembersAreUnsettled'
  <2>1. Members(pool') = {x \in Request : rq'[x].signal # 0 /\ rq'[x].outcome = "none"}
    BY <1>9, <1>10, <1>12, TaskFacts DEF TasksInv, MembersAreUnsettled
  <2>2. \A x \in Members(pool') : rq'[x].signal = signal'
    BY <1>1, <1>9, <1>10, TaskFacts DEF TasksInv, MembersAreUnsettled
  <2>3. pool'.active \subseteq running'
    BY <1>1, <1>9 DEF TasksInv, MembersAreUnsettled
  <2>4. Members(pool)' = Members(pool')
    BY DEF Members
  <2> QED BY <2>1, <2>2, <2>3, <2>4 DEF MembersAreUnsettled
<1>15. TaskTypes'
  BY <1>1, <1>9, <1>10, <1>11 DEF TasksInv, TaskTypes, PoolOK, Outcome
<1> QED BY <1>13, <1>14, <1>15 DEF TasksInv

\* A call's function ends, in its turn or after its call.
LEMMA EndedStep ==
    ASSUME TasksInv, NEW r \in running, NEW outcome \in Outcome \ {"none"}, Ends(r, outcome)
    PROVE  TasksInv'
<1>1. /\ rq' = Settled({r}, outcome) /\ pool' = Freed(pool, r)
      /\ running' = (running \cup (pool'.started \ pool.started)) \ {r}
      /\ line' = line /\ signal' = signal
  BY DEF Ends, messageVars
<1>2. r \in Request /\ rq[r].signal # 0
  BY DEF TasksInv, ListenersAreMade
<1>3. /\ PoolOK(pool') /\ Members(pool') = Members(pool) \ {r}
      /\ pool.started \subseteq pool'.started /\ pool'.started \subseteq pool.started \cup Members(pool)
      /\ pool'.active \subseteq pool.active \cup (pool'.started \ pool.started)
      /\ r \notin pool'.active
  BY <1>1, <1>2, FreedFacts, TaskFacts
<1>4. /\ rq' \in [Request -> [outcome : Outcome, signal : 0..signal]]
      /\ \A x \in Request : /\ rq'[x].signal = rq[x].signal
                            /\ rq'[x].outcome = "none" <=> rq[x].outcome = "none" /\ x # r
  BY <1>1, SettledFacts
<1>5. ListenersAreMade'
  <2>1. ToSet(line') = {x \in Request : rq'[x].signal = signal'}
    BY <1>1, <1>4 DEF TasksInv, ListenersAreMade
  <2>2. pool'.started \subseteq {x \in Request : rq'[x].signal # 0}
    BY <1>3, <1>4 DEF TasksInv, ListenersAreMade, MembersAreUnsettled
  <2>3. running' \subseteq pool'.started
    BY <1>1, <1>3 DEF TasksInv, ListenersAreMade
  <2>4. \A x \in Request : rq'[x].signal = 0 => rq'[x].outcome = "none"
    BY <1>2, <1>4 DEF TasksInv, ListenersAreMade
  <2> QED BY <2>1, <2>2, <2>3, <2>4 DEF ListenersAreMade
<1>6. MembersAreUnsettled'
  <2>1. Members(pool') = {x \in Request : rq'[x].signal # 0 /\ rq'[x].outcome = "none"}
    BY <1>3, <1>4 DEF TasksInv, MembersAreUnsettled
  <2>2. \A x \in Members(pool') : rq'[x].signal = signal'
    BY <1>1, <1>3, <1>4, TaskFacts DEF TasksInv, MembersAreUnsettled
  <2>3. pool'.active \subseteq running'
    BY <1>1, <1>3 DEF TasksInv, MembersAreUnsettled
  <2>4. Members(pool)' = Members(pool')
    BY DEF Members
  <2> QED BY <2>1, <2>2, <2>3, <2>4 DEF MembersAreUnsettled
<1>7. TaskTypes'
  BY <1>1, <1>3, <1>4 DEF TasksInv, TaskTypes, PoolOK, Outcome
<1> QED BY <1>5, <1>6, <1>7 DEF TasksInv

\* What is left of a pool after the first i calls of a list have left it.
LeftAfter(p, q, gone) ==
    /\ PoolOK(q) /\ Members(q) = Members(p) \ gone
    /\ p.started \subseteq q.started /\ q.started \subseteq p.started \cup Members(p)

LEMMA AbortedFacts ==
    ASSUME TasksInv
    PROVE  LeftAfter(pool, Aborting, ToSet(line))
<1> DEFINE n == Len(line)
           gone(i) == {line[j] : j \in 1..i}
<1>0. n \in Nat /\ line \in Seq(Request) /\ DOMAIN line = 1..n /\ PoolOK(pool)
  BY TaskFacts, LenProperties
<1>1. PICK after : /\ after[0] = pool /\ Aborting = after[n]
                   /\ \A i \in 1..n : after[i] = Freed(after[i - 1], line[i])
  BY <1>0, AbortingInTurn
<1> DEFINE wrong == {i \in 0..n : ~LeftAfter(pool, after[i], gone(i))}
<1>2. CASE wrong # {}
  <2>1. wrong \subseteq Nat
    OBVIOUS
  <2>2. PICK m \in wrong : \A k \in wrong : m <= k
    BY <1>2, <2>1, LeastOf
  <2>3. m \in 0..n /\ ~LeftAfter(pool, after[m], gone(m))
    BY <2>2
  <2>4. m # 0
    <3>1. gone(0) = {}
      OBVIOUS
    <3>2. LeftAfter(pool, pool, {})
      BY <1>0 DEF LeftAfter
    <3> HIDE DEF gone
    <3> QED BY <1>1, <2>3, <3>1, <3>2
  <2>5. m \in 1..n /\ m - 1 \in 0..n /\ m - 1 \notin wrong
    <3>1. m \in 1..n /\ m - 1 \in 0..n /\ ~(m <= m - 1)
      BY <1>0, <2>3, <2>4
    <3> HIDE DEF wrong
    <3> QED BY <2>2, <3>1
  <2>6. LeftAfter(pool, after[m - 1], gone(m - 1))
    BY <2>5
  <2> DEFINE p == after[m - 1]
  <2>7. after[m] = Freed(p, line[m]) /\ line[m] \in Request
    BY <1>0, <1>1, <2>5
  <2>8. gone(m) = gone(m - 1) \cup {line[m]}
    <3>1. 1..m = 1..(m - 1) \cup {m}
      BY <2>5
    <3> QED BY <3>1
  <2> HIDE DEF p, gone, wrong
  <2>9. PoolOK(p)
    BY <2>6 DEF LeftAfter, p
  <2>10. /\ PoolOK(after[m]) /\ Members(after[m]) = Members(p) \ {line[m]}
         /\ p.started \subseteq after[m].started /\ after[m].started \subseteq p.started \cup Members(p)
    BY <2>7, <2>9, FreedFacts
  <2>11. LeftAfter(pool, p, gone(m - 1))
    BY <2>6 DEF p
  <2>12. LeftAfter(pool, after[m], gone(m))
    BY <2>8, <2>10, <2>11 DEF LeftAfter
  <2> QED BY <2>3, <2>12
<1>3. CASE wrong = {}
  <2>1. n \in 0..n /\ gone(n) = ToSet(line)
    BY <1>0 DEF ToSet
  <2> QED BY <1>1, <1>3, <2>1
<1> QED BY <1>2, <1>3

\* An abort leaves nobody in the pool.
LEMMA AbortStep == ASSUME TasksInv, AbortPendingRequests PROVE TasksInv'
<1>1. /\ signal <= MaxAborts /\ rq' = Settled(ToSet(line), "aborted") /\ signal' = signal + 1 /\ line' = <<>>
      /\ pool' = Aborting /\ running' = (running \cup (pool'.started \ pool.started)) \ {}
  BY DEF AbortPendingRequests, Becomes, messageVars
<1>2. /\ PoolOK(pool') /\ Members(pool') = Members(pool) \ ToSet(line)
      /\ pool.started \subseteq pool'.started /\ pool'.started \subseteq pool.started \cup Members(pool)
  BY <1>1, AbortedFacts DEF LeftAfter
<1>3. Members(pool) \subseteq ToSet(line) /\ Members(pool) \subseteq {x \in Request : rq[x].signal # 0}
  BY TaskFacts DEF TasksInv, MembersAreUnsettled, ListenersAreMade
<1>4. Members(pool') = {} /\ pool'.active = {}
  <2>1. Members(pool') = {}
    BY <1>2, <1>3
  <2> QED BY <2>1 DEF Members
<1>5. /\ rq' \in [Request -> [outcome : Outcome, signal : 0..signal]]
      /\ \A x \in Request : /\ rq'[x].signal = rq[x].signal
                            /\ rq'[x].outcome = "none" <=> rq[x].outcome = "none" /\ x \notin ToSet(line)
  <2>1. "aborted" \in Outcome \ {"none"}
    BY DEF Outcome
  <2> QED BY <1>1, <2>1, SettledFacts
<1>6. signal \in 1..MaxAborts /\ signal' \in 1..(MaxAborts + 1) /\ signal \in Nat /\ 0..signal \subseteq 0..signal'
  BY <1>1, RequestAssumption, TaskFacts DEF TasksInv, TaskTypes
<1>7. <<>> \in Seq(Request) /\ ToSet(<<>>) = {}
  BY DEF ToSet
<1>8. ListenersAreMade'
  <2>1. ToSet(line') = {x \in Request : rq'[x].signal = signal'}
    <3>1. \A x \in Request : rq'[x].signal \in 0..signal
      BY <1>5
    <3>2. \A x \in Request : rq'[x].signal # signal + 1
      BY <1>6, <3>1
    <3> QED BY <1>1, <1>7, <3>2
  <2>2. pool'.started \subseteq {x \in Request : rq'[x].signal # 0}
    BY <1>2, <1>3, <1>5 DEF TasksInv, ListenersAreMade
  <2>3. running' \subseteq pool'.started
    BY <1>1, <1>2 DEF TasksInv, ListenersAreMade
  <2>4. \A x \in ToSet(line) : rq[x].signal # 0
    BY TaskFacts DEF TasksInv, ListenersAreMade
  <2>5. \A x \in Request : rq'[x].signal = 0 => rq'[x].outcome = "none"
    BY <1>5, <2>4 DEF TasksInv, ListenersAreMade
  <2> QED BY <2>1, <2>2, <2>3, <2>5 DEF ListenersAreMade
<1>9. MembersAreUnsettled'
  <2>1. {x \in Request : rq'[x].signal # 0 /\ rq'[x].outcome = "none"} = {}
    BY <1>3, <1>5 DEF TasksInv, MembersAreUnsettled
  <2>2. Members(pool)' = Members(pool')
    BY DEF Members
  <2> QED BY <1>4, <2>1, <2>2 DEF MembersAreUnsettled
<1>10. TaskTypes'
  <2>1. rq' \in [Request -> [outcome : Outcome, signal : 0..signal']]
    <3>1. [outcome : Outcome, signal : 0..signal] \subseteq [outcome : Outcome, signal : 0..signal']
      BY <1>6
    <3> QED BY <1>5, <3>1
  <2> QED BY <1>1, <1>2, <1>6, <1>7, <2>1 DEF TasksInv, TaskTypes, PoolOK, Outcome
<1> QED BY <1>8, <1>9, <1>10 DEF TasksInv

\* What leaves the pool and its calls alone.
LEMMA TasksStay ==
    ASSUME TasksInv, UNCHANGED <<pool, line, signal, rq, running>>
    PROVE  TasksInv'
BY DEF TasksInv, TaskTypes, ListenersAreMade, MembersAreUnsettled, Members, PoolOK

\* A call to a paired wallet waits for the slot or holds it as long as it is
\* unsettled, and an abort takes all there are (createAsyncTaskPool.ts:62-108,
\* userSession.ts:729-735), for any requests, methods and aborts.
THEOREM TheSlotIsAlwaysKept == RequestsSpec => [](RequestsTypeOK /\ SlotIsKept)
<1>1. TasksInv /\ [RequestsNext \/ MessagesNext]_requestVars => TasksInv'
  <2> SUFFICES ASSUME TasksInv, [RequestsNext \/ MessagesNext]_requestVars PROVE TasksInv'
    OBVIOUS
  <2>1. CASE UNCHANGED requestVars
    BY <2>1, TasksStay DEF requestVars, taskVars, messageVars
  <2>2. ASSUME NEW r \in Request, Ask(r) PROVE TasksInv'
    BY <2>2, AskStep
  <2>3. ASSUME NEW r \in Request, Replies(r) \/ DeliveryFails(r) \/ TimesOut(r) \/ NoticeIsTaken(r)
        PROVE  TasksInv'
    <3>1. r \in running /\ \E outcome \in {"reply", "failed", "timeout"} : Ends(r, outcome)
      BY <2>3 DEF Replies, DeliveryFails, TimesOut, NoticeIsTaken
    <3>2. PICK outcome \in {"reply", "failed", "timeout"} : Ends(r, outcome)
      BY <3>1
    <3>3. outcome \in Outcome \ {"none"}
      BY DEF Outcome
    <3> QED BY <3>1, <3>2, <3>3, EndedStep
  <2>4. ASSUME NEW r \in Request, RepliesLate(r) PROVE TasksInv'
    BY <2>4, TasksStay DEF RepliesLate, messageVars
  <2>5. CASE AbortPendingRequests
    BY <2>5, AbortStep
  <2>6. CASE Close
    BY <2>6, TasksStay DEF Close, messageVars
  <2>7. CASE MessagesNext
    <3>1. UNCHANGED taskVars
      BY <2>7 DEF MessagesNext, Arrives, LookedUp, CallbackEnds, MutateWrites, Lost
    <3> QED BY <3>1, TasksStay DEF taskVars
  <2> QED BY <2>1, <2>2, <2>3, <2>4, <2>5, <2>6, <2>7 DEF RequestsNext
<1>2. TasksInv /\ MessagesInv => RequestsTypeOK /\ SlotIsKept
  <2> SUFFICES ASSUME TasksInv, MessagesInv PROVE RequestsTypeOK /\ SlotIsKept
    OBVIOUS
  <2>1. RequestsTypeOK
    BY TaskFacts DEF RequestsTypeOK, TasksInv, TaskTypes, PoolRecord, MessagesInv, MessageTypes
  <2>2. Cardinality(pool.active) <= PoolSize
    <3>1. Cardinality({}) = 0 /\ \A x : Cardinality({x}) = 1
      BY FS_EmptySet, FS_Singleton
    <3>2. pool.active = {} \/ \E x \in Request : pool.active = {x}
      BY TaskFacts DEF PoolOK
    <3>3. Cardinality(pool.active) \in {0, 1}
      BY <3>1, <3>2
    <3> QED BY <3>3 DEF PoolSize
  <2> QED BY <2>1, <2>2, TaskFacts DEF SlotIsKept, TasksInv, MembersAreUnsettled, Members, PoolOK
<1> QED BY TasksInitInv, MessagesStay, <1>1, <1>2, PTL DEF RequestsSpec

(* What inductiveness adds to a replay: a subscribe that waits for its answer *)
(* is on the wire, and what is confirmed on a connection is at the node.      *)

SubRecord == [stage : {"idle", "asked", "active", "gone"}, current : Nat]

ReplayShapes ==
    /\ sub \in [Sub -> SubRecord] /\ wire \in [Sub -> Nat] /\ ids \in Nat
    /\ replay \in [Sub -> {"none", "fresh", "again"}]
    /\ mapped \subseteq (1..ids) \X Sub /\ node \subseteq (1..ids) \X Sub
    /\ link \in {"waiting", "idle", "connecting", "open"} /\ halted \in BOOLEAN

OnTheWire ==
    \A c \in Sub :
      /\ sub[c].stage = "idle" => wire[c] = 0 /\ replay[c] = "none"
      /\ sub[c].stage = "asked" => wire[c] = 1 /\ replay[c] = "fresh"
      /\ sub[c].stage = "active" => replay[c] # "fresh" /\ (replay[c] = "again" => wire[c] > 0)
      /\ sub[c].stage = "gone" => replay[c] = "none"

ServedOrReplayed ==
    link = "open" => \A c \in Active : replay[c] = "none" => <<sub[c].current, c>> \in node

ReplayIInv ==
    /\ ReplayShapes /\ OnTheWire /\ ServedOrReplayed /\ PauseIsKept
    /\ mapped = {<<sub[c].current, c>> : c \in Active}

LEMMA ReplayInitIInv == ReplayInit => ReplayIInv
<1> SUFFICES ASSUME ReplayInit PROVE ReplayIInv
  OBVIOUS
<1>1. \A c \in Sub : sub[c].stage = "idle"
  BY DEF ReplayInit
<1>2. Active = {}
  BY <1>1 DEF Active
<1>3. sub \in [Sub -> SubRecord]
  <2>1. [stage |-> "idle", current |-> 0] \in SubRecord
    BY DEF SubRecord
  <2> QED BY <2>1 DEF ReplayInit
<1>4. ReplayShapes
  BY <1>3 DEF ReplayInit, ReplayShapes
<1>5. OnTheWire /\ PauseIsKept /\ ServedOrReplayed
  BY <1>1 DEF ReplayInit, OnTheWire, PauseIsKept, ServedOrReplayed
<1> QED BY <1>2, <1>4, <1>5 DEF ReplayInit, ReplayIInv

LEMMA SubscribeStep == ASSUME ReplayIInv, NEW c \in Sub, Subscribe(c) PROVE ReplayIInv'
<1>1. /\ sub[c].stage = "idle" /\ UNCHANGED <<mapped, node, ids, link, halted>>
      /\ replay' = [replay EXCEPT ![c] = "fresh"] /\ wire' = [wire EXCEPT ![c] = @ + 1]
  BY DEF Subscribe
<1>2. ReplayShapes /\ OnTheWire
  BY DEF ReplayIInv
<1>3. sub' \in [Sub -> SubRecord] /\ sub'[c].stage = "asked" /\ \A k \in Sub : k # c => sub'[k] = sub[k]
  <2> DEFINE asked == [sub[c] EXCEPT !.stage = "asked"]
  <2>1. asked \in SubRecord /\ asked.stage = "asked"
    BY <1>2 DEF ReplayShapes, SubRecord
  <2>2. sub' = [sub EXCEPT ![c] = asked]
    BY DEF Subscribe
  <2> HIDE DEF asked
  <2> QED BY <1>2, <2>1, <2>2 DEF ReplayShapes
<1>4. Active' = Active /\ \A k \in Active : k \in Sub /\ k # c
  BY <1>1, <1>3 DEF Active
<1>5. ReplayShapes'
  BY <1>1, <1>2, <1>3 DEF ReplayShapes
<1>6. OnTheWire'
  BY <1>1, <1>2, <1>3 DEF ReplayShapes, OnTheWire
<1>7. {<<sub'[k].current, k>> : k \in Active'} = {<<sub[k].current, k>> : k \in Active}
  BY <1>3, <1>4
<1>8. ServedOrReplayed'
  BY <1>1, <1>2, <1>3, <1>4 DEF ReplayIInv, ReplayShapes, ServedOrReplayed
<1> QED BY <1>1, <1>5, <1>6, <1>7, <1>8 DEF ReplayIInv, PauseIsKept

LEMMA NodeConfirmsStep == ASSUME ReplayIInv, NEW c \in Sub, NodeConfirms(c) PROVE ReplayIInv'
<1> DEFINE id == ids + 1
<1>1. /\ link = "open" /\ wire[c] > 0 /\ wire' = [wire EXCEPT ![c] = @ - 1]
      /\ ids' = id /\ node' = node \cup {<<id, c>>} /\ Confirmed(c, id)
      /\ UNCHANGED <<link, halted>>
  BY DEF NodeConfirms
<1>2. ReplayShapes /\ OnTheWire /\ ServedOrReplayed /\ mapped = {<<sub[k].current, k>> : k \in Active}
  BY DEF ReplayIInv
<1>3. id \in Nat /\ ids \in Nat /\ 1..ids \subseteq 1..id /\ id \in 1..id /\ <<id, c>> \in (1..id) \X Sub
  BY <1>2 DEF ReplayShapes
<1>4. wire' \in [Sub -> Nat] /\ wire'[c] = wire[c] - 1 /\ \A k \in Sub : k # c => wire'[k] = wire[k]
  BY <1>1, <1>2 DEF ReplayShapes
<1>5. node' \subseteq (1..id) \X Sub /\ mapped \subseteq (1..id) \X Sub
  <2>1. (1..ids) \X Sub \subseteq (1..id) \X Sub
    BY <1>3
  <2> HIDE DEF id
  <2> QED BY <1>1, <1>2, <1>3, <2>1 DEF ReplayShapes
<1> HIDE DEF id
<1>6. CASE replay[c] = "none"
  <2>1. UNCHANGED <<sub, replay, mapped>>
    BY <1>1, <1>6 DEF Confirmed, tableVars
  <2>2. Active' = Active
    BY <2>1 DEF Active
  <2>3. ReplayShapes'
    BY <1>1, <1>2, <1>3, <1>4, <1>5, <2>1 DEF ReplayShapes
  <2>4. OnTheWire'
    BY <1>2, <1>4, <1>6, <2>1 DEF OnTheWire
  <2>5. ServedOrReplayed'
    BY <1>1, <1>2, <2>1, <2>2 DEF ServedOrReplayed
  <2> QED BY <1>1, <1>2, <2>1, <2>2, <2>3, <2>4, <2>5 DEF ReplayIInv, PauseIsKept
<1>7. CASE replay[c] # "none"
  <2> DEFINE served == [stage |-> "active", current |-> id]
  <2>1. /\ replay' = [replay EXCEPT ![c] = "none"] /\ sub' = [sub EXCEPT ![c] = served]
        /\ mapped' = (mapped \ {<<sub[c].current, c>>}) \cup {<<id, c>>}
    BY <1>1, <1>7 DEF Confirmed
  <2>2. served \in SubRecord /\ served.stage = "active" /\ served.current = id
    BY <1>3 DEF SubRecord
  <2> HIDE DEF served
  <2>3. /\ sub' \in [Sub -> SubRecord] /\ sub'[c].stage = "active" /\ sub'[c].current = id
        /\ \A k \in Sub : k # c => sub'[k] = sub[k]
    BY <1>2, <2>1, <2>2 DEF ReplayShapes
  <2>4. /\ replay' \in [Sub -> {"none", "fresh", "again"}] /\ replay'[c] = "none"
        /\ \A k \in Sub : k # c => replay'[k] = replay[k]
    BY <1>2, <2>1 DEF ReplayShapes
  <2>5. Active' = Active \cup {c}
    BY <2>3 DEF Active
  <2>6. mapped' = {<<sub'[k].current, k>> : k \in Active'}
    <3>1. ASSUME NEW k \in Active' PROVE <<sub'[k].current, k>> \in mapped'
      <4>1. CASE k = c
        BY <2>1, <2>3, <4>1
      <4>2. CASE k # c
        <5>1. k \in Active /\ sub'[k] = sub[k]
          BY <2>3, <2>5, <3>1, <4>2 DEF Active
        <5>2. <<sub[k].current, k>> \in mapped
          BY <1>2, <5>1
        <5>3. <<sub[k].current, k>> # <<sub[c].current, c>>
          BY <4>2
        <5> QED BY <2>1, <5>1, <5>2, <5>3
      <4> QED BY <4>1, <4>2
    <3>2. ASSUME NEW p \in mapped' PROVE \E k \in Active' : p = <<sub'[k].current, k>>
      <4>1. CASE p = <<id, c>>
        BY <2>3, <2>5, <4>1
      <4>2. CASE p # <<id, c>>
        <5>1. p \in mapped /\ p # <<sub[c].current, c>>
          BY <2>1, <3>2, <4>2
        <5>2. PICK k \in Active : p = <<sub[k].current, k>>
          BY <1>2, <5>1
        <5>3. k # c /\ k \in Sub
          BY <5>1, <5>2 DEF Active
        <5> QED BY <2>3, <2>5, <5>2, <5>3
      <4> QED BY <4>1, <4>2
    <3> QED BY <3>1, <3>2
  <2>7. ReplayShapes'
    <3>1. mapped' \subseteq (1..id) \X Sub
      BY <1>3, <1>5, <2>1
    <3> QED BY <1>1, <1>2, <1>3, <1>4, <1>5, <2>3, <2>4, <3>1 DEF ReplayShapes
  <2>8. OnTheWire'
    BY <1>2, <1>4, <2>3, <2>4 DEF OnTheWire
  <2>9. ServedOrReplayed'
    BY <1>1, <1>2, <2>3, <2>4, <2>5 DEF ServedOrReplayed, Active
  <2> QED BY <1>1, <2>6, <2>7, <2>8, <2>9 DEF ReplayIInv, PauseIsKept
<1> QED BY <1>6, <1>7

LEMMA ReplayUnsubscribeStep == ASSUME ReplayIInv, NEW c \in Sub, Unsubscribe(c) PROVE ReplayIInv'
<1>1. /\ c \in Active /\ mapped' = mapped \ {<<sub[c].current, c>>}
      /\ replay' = [replay EXCEPT ![c] = "none"]
      /\ node' = IF link = "open" THEN node \ {<<sub[c].current, c>>} ELSE node
      /\ UNCHANGED <<wire, ids, link, halted>>
  BY DEF Unsubscribe
<1>2. ReplayShapes /\ OnTheWire /\ ServedOrReplayed /\ mapped = {<<sub[k].current, k>> : k \in Active}
  BY DEF ReplayIInv
<1>3. sub' \in [Sub -> SubRecord] /\ sub'[c].stage = "gone" /\ \A k \in Sub : k # c => sub'[k] = sub[k]
  <2> DEFINE gone == [sub[c] EXCEPT !.stage = "gone"]
  <2>1. gone \in SubRecord /\ gone.stage = "gone"
    BY <1>2 DEF ReplayShapes, SubRecord
  <2>2. sub' = [sub EXCEPT ![c] = gone]
    BY DEF Unsubscribe
  <2> HIDE DEF gone
  <2> QED BY <1>2, <2>1, <2>2 DEF ReplayShapes
<1>4. /\ replay' \in [Sub -> {"none", "fresh", "again"}] /\ replay'[c] = "none"
      /\ \A k \in Sub : k # c => replay'[k] = replay[k]
  BY <1>1, <1>2 DEF ReplayShapes
<1>5. Active' = Active \ {c}
  BY <1>3 DEF Active
<1>6. mapped' = {<<sub'[k].current, k>> : k \in Active'}
  <2>1. ASSUME NEW k \in Active' PROVE <<sub'[k].current, k>> \in mapped'
    <3>1. k \in Active /\ k # c /\ sub'[k] = sub[k]
      BY <1>3, <1>5, <2>1 DEF Active
    <3>2. <<sub[k].current, k>> # <<sub[c].current, c>> /\ <<sub[k].current, k>> \in mapped
      BY <1>2, <3>1
    <3> QED BY <1>1, <3>1, <3>2
  <2>2. ASSUME NEW p \in mapped' PROVE \E k \in Active' : p = <<sub'[k].current, k>>
    <3>1. PICK k \in Active : p = <<sub[k].current, k>>
      BY <1>1, <1>2, <2>2
    <3>2. k # c /\ k \in Sub
      BY <1>1, <2>2, <3>1 DEF Active
    <3> QED BY <1>3, <1>5, <3>1, <3>2
  <2> QED BY <2>1, <2>2
<1>7. ReplayShapes'
  BY <1>1, <1>2, <1>3, <1>4 DEF ReplayShapes
<1>8. OnTheWire'
  BY <1>1, <1>2, <1>3, <1>4 DEF OnTheWire
<1>9. ServedOrReplayed'
  <2> SUFFICES ASSUME link = "open", NEW k \in Active', replay'[k] = "none" PROVE <<sub'[k].current, k>> \in node'
    BY <1>1 DEF ServedOrReplayed
  <2>1. k \in Active /\ k # c /\ sub'[k] = sub[k] /\ replay'[k] = replay[k]
    BY <1>3, <1>4, <1>5 DEF Active
  <2>2. <<sub[k].current, k>> \in node /\ <<sub[k].current, k>> # <<sub[c].current, c>>
    BY <1>2, <2>1 DEF ServedOrReplayed
  <2> QED BY <1>1, <2>1, <2>2
<1> QED BY <1>1, <1>6, <1>7, <1>8, <1>9 DEF ReplayIInv, PauseIsKept

LEMMA ConnectedStep == ASSUME ReplayIInv, Connected PROVE ReplayIInv'
<1>1. /\ link = "connecting" /\ link' = "open" /\ UNCHANGED <<sub, mapped, node, ids, halted>>
      /\ replay' = [c \in Sub |-> IF c \in Active THEN "again" ELSE replay[c]]
      /\ wire' = [c \in Sub |-> IF c \in Active THEN wire[c] + 1 ELSE wire[c]]
  BY DEF Connected, Replayed
<1>2. ReplayShapes /\ OnTheWire /\ PauseIsKept
  BY DEF ReplayIInv
<1>3. Active' = Active
  BY <1>1 DEF Active
<1>4. ReplayShapes'
  <2>1. wire' \in [Sub -> Nat]
    BY <1>1, <1>2 DEF ReplayShapes
  <2>2. replay' \in [Sub -> {"none", "fresh", "again"}]
    BY <1>1, <1>2 DEF ReplayShapes
  <2> QED BY <1>1, <1>2, <2>1, <2>2 DEF ReplayShapes
<1>5. OnTheWire'
  BY <1>1, <1>2 DEF ReplayShapes, OnTheWire, Active
<1>6. ServedOrReplayed' /\ PauseIsKept'
  BY <1>1, <1>2, <1>3 DEF ServedOrReplayed, PauseIsKept, Active
<1> QED BY <1>1, <1>3, <1>4, <1>5, <1>6 DEF ReplayIInv

\* The socket and the pause controller leave the tables alone, and no step of
\* theirs but Connected makes a connection.
LEMMA SocketStep ==
    ASSUME ReplayIInv, Dropped \/ Reinvoked \/ Pause_ \/ Resume
    PROVE  ReplayIInv'
<1>1. /\ UNCHANGED <<sub, replay, mapped, wire, ids>> /\ node' \in {node, {}}
      /\ link' \in {"waiting", "idle", "connecting", "open"} /\ halted' \in BOOLEAN
      /\ link' = "open" => link = "open" /\ node' = node
      /\ PauseIsKept'
  <2>1. CASE Dropped
    BY <2>1 DEF Dropped, tableVars, ReplayIInv, ReplayShapes, PauseIsKept
  <2>2. CASE Reinvoked
    BY <2>2 DEF Reinvoked, tableVars, lineVars, ReplayIInv, ReplayShapes, PauseIsKept
  <2>3. CASE Pause_
    BY <2>3 DEF Pause_, tableVars, ReplayIInv, ReplayShapes, PauseIsKept
  <2>4. CASE Resume
    BY <2>4 DEF Resume, tableVars, lineVars, ReplayIInv, ReplayShapes, PauseIsKept
  <2> QED BY <2>1, <2>2, <2>3, <2>4
<1>2. Active' = Active
  BY <1>1 DEF Active
<1>3. ReplayShapes' /\ OnTheWire'
  BY <1>1 DEF ReplayIInv, ReplayShapes, OnTheWire
<1>4. ServedOrReplayed'
  BY <1>1, <1>2 DEF ReplayIInv, ServedOrReplayed
<1> QED BY <1>1, <1>2, <1>3, <1>4 DEF ReplayIInv

\* What ConsumersAreReached says of every state.
ReplayIsExact == ReplayTypeOK /\ IndexIsExact /\ NobodyIsForgotten /\ PauseIsKept

\* However often the connection is lost or paused, the index leads from one id
\* per confirmed subscription to its consumer, and a connection that answered
\* everything has all of them, for any subscriptions and losses.
THEOREM ReplayAlwaysExact == ReplaySpec => []ReplayIsExact
<1>1. ReplayIInv /\ [ReplayNext]_replayVars => ReplayIInv'
  <2> SUFFICES ASSUME ReplayIInv, [ReplayNext]_replayVars PROVE ReplayIInv'
    OBVIOUS
  <2>1. CASE UNCHANGED replayVars
    BY <2>1 DEF replayVars, tableVars, lineVars, ReplayIInv, ReplayShapes, OnTheWire, ServedOrReplayed, PauseIsKept, Active
  <2>2. CASE ReplayNext
    BY <2>2, SubscribeStep, NodeConfirmsStep, ReplayUnsubscribeStep, ConnectedStep, SocketStep DEF ReplayNext
  <2> QED BY <2>1, <2>2
<1>2. ReplayIInv => ReplayIsExact
  <2> SUFFICES ASSUME ReplayIInv PROVE ReplayIsExact
    OBVIOUS
  <2>1. ReplayTypeOK
    BY DEF ReplayIInv, ReplayShapes, SubRecord, ReplayTypeOK
  <2>2. IndexIsExact
    BY DEF ReplayIInv, OnTheWire, IndexIsExact
  <2>3. NobodyIsForgotten
    <3> SUFFICES ASSUME link = "open", \A c \in Sub : wire[c] = 0, NEW c \in Active
                 PROVE  <<sub[c].current, c>> \in node
      BY DEF NobodyIsForgotten
    <3>1. c \in Sub /\ sub[c].stage = "active"
      BY DEF Active
    <3>2. replay[c] = "none"
      BY <3>1 DEF ReplayIInv, ReplayShapes, OnTheWire
    <3> QED BY <3>2 DEF ReplayIInv, ServedOrReplayed
  <2> QED BY <2>1, <2>2, <2>3 DEF ReplayIsExact, ReplayIInv
<1> QED BY ReplayInitIInv, <1>1, <1>2, PTL DEF ReplaySpec
=============================================================================
