-------------------------- MODULE SubmitRetryProofs --------------------------
(***************************************************************************)
(* What is sent through the statement store: that submissions of one       *)
(* account never tie, clear the floor they were told of and report         *)
(* honestly, for any number of writers, channels and budgets, and any      *)
(* store that reports natural numbers; and that the devices of two users   *)
(* reach each other, for any devices, messages, keys and rosters.          *)
(***************************************************************************)
EXTENDS SubmitRetry, DeviceRosters, Integers, FiniteSetTheorems, WellFoundedInduction, TLAPS

(* Min is a CHOOSE, so its value has to be shown to exist.                 *)

\* A nonempty set of natural numbers has a minimum, and Min is it.
LEMMA MinIsLeast ==
    ASSUME NEW S, S \subseteq Nat, S # {}
    PROVE  Min(S) \in S /\ \A x \in S : Min(S) <= x
<1> DEFINE R == {ss \in Nat \X Nat : ss[1] < ss[2]}
<1>1. IsWellFoundedOn(R, Nat)
  BY NatLessThanWellFounded DEF OpToRel
<1>2. PICK m \in S : \A x \in S : <<x, m>> \notin R
  <2> HIDE DEF R
  <2> QED BY <1>1, WFMin, Zenon
<1>3. ASSUME NEW x \in S PROVE m <= x
  <2>1. <<x, m>> \in Nat \X Nat /\ <<x, m>> \notin R
    BY <1>2
  <2>2. ~(<<x, m>>[1] < <<x, m>>[2])
    BY <2>1, Zenon
  <2> QED BY <2>1, <2>2
<1> QED BY <1>3 DEF Min

(* What inductiveness adds: a writer has adopted every floor reported to   *)
(* it, but for the answer it is looking at; an accepted answer is one of   *)
(* the store; and only an error is retried.                                *)

FloorAdopted ==
    \A w \in Writer :
        task[w].min <= current \/ (task[w].pc = "answered" /\ task[w].error = "priority")

AnswerIsHonest == \A w \in Writer : task[w].pc = "answered" /\ task[w].error = "none" => w \in landed

BackOffHasError == \A w \in Writer : task[w].pc = "backoff" => task[w].error # "none"

IInv ==
    /\ TypeOK /\ NoTies /\ ClearsReportedFloor /\ OutcomeIsHonest
    /\ FloorAdopted /\ AnswerIsHonest /\ BackOffHasError

-----------------------------------------------------------------------------

\* What the store asks a statement to exceed is a number.
LEMMA FloorType ==
    ASSUME held \in [Channel -> Nat], NEW c \in Channel
    PROVE  Floor(c) \in Nat
<1> DEFINE S == {held[x] : x \in Occupants}
<1>1. S \subseteq Nat
  BY DEF Occupants
<1>2. CASE Occupants = {}
  BY <1>2 DEF Floor
<1>3. CASE Occupants # {}
  <2>1. S # {}
    BY <1>3
  <2>2. LowestHeld \in Nat
    BY <1>1, <2>1, MinIsLeast DEF LowestHeld
  <2> QED BY <2>2 DEF Floor
<1> QED BY <1>2, <1>3

LEMMA AllocatorType ==
    ASSUME NEW x \in Nat, NEW y \in Nat
    PROVE  /\ NextExpiry(x, y) \in Nat /\ NextExpiry(x, y) > x
           /\ RaisedFloor(x, y) \in Nat /\ RaisedFloor(x, y) >= x /\ RaisedFloor(x, y) >= y
BY DEF NextExpiry, RaisedFloor

LEMMA InitIInv == Init => IInv
BY SubmitAssumption
   DEF Init, Fresh, IInv, TypeOK, Task, NoTies, ClearsReportedFloor, OutcomeIsHonest,
       FloorAdopted, AnswerIsHonest, BackOffHasError

-----------------------------------------------------------------------------
(* One lemma per kind of step. *)

LEMMA StoreStep ==
    ASSUME IInv, NEW w \in Writer, StoreAccepts(w) \/ StoreRejects(w) \/ CallFails(w)
    PROVE  IInv'
<1>1. Floor(ChannelOf(w)) \in Nat
  BY FloorType, SubmitAssumption DEF IInv, TypeOK
<1>2. Accepted(w) => held' \in [Channel -> Nat] /\ landed' = landed \cup {w}
  BY SubmitAssumption DEF Accepted, Evicted, IInv, TypeOK, Task
<1>3. TypeOK'
  BY <1>1, <1>2, SubmitAssumption DEF IInv, TypeOK, Task, StoreAccepts, StoreRejects, CallFails
<1>4. NoTies'
  BY DEF IInv, TypeOK, Task, NoTies, StoreAccepts, StoreRejects, CallFails
<1>5. ClearsReportedFloor' /\ FloorAdopted' /\ BackOffHasError'
  BY DEF IInv, TypeOK, Task, NoTies, ClearsReportedFloor, FloorAdopted, BackOffHasError,
         StoreAccepts, StoreRejects, CallFails
<1>6. OutcomeIsHonest' /\ AnswerIsHonest'
  BY <1>2
     DEF IInv, TypeOK, Task, Accepted, OutcomeIsHonest, AnswerIsHonest,
         StoreAccepts, StoreRejects, CallFails
<1> QED BY <1>3, <1>4, <1>5, <1>6 DEF IInv

LEMMA AttemptStep ==
    ASSUME IInv, NEW w \in Writer, Attempt(w)
    PROVE  IInv'
<1>1. current' \in Nat /\ current' > current
  BY AllocatorType DEF IInv, TypeOK, Attempt
<1>2. TypeOK'
  <2>1. task' \in [Writer -> Task]
    <3>1. ASSUME NEW v \in Writer PROVE task'[v] \in Task
      BY <1>1, ZenonT(60) DEF IInv, TypeOK, Attempt, Task
    <3> QED BY <3>1 DEF IInv, TypeOK, Attempt
  <2> QED BY <1>1, <2>1 DEF IInv, TypeOK, Attempt, Task
<1>3. NoTies'
  BY <1>1 DEF IInv, TypeOK, Task, NoTies, Attempt
<1>4. task[w].min <= current
  BY DEF IInv, FloorAdopted, Attempt
<1>5. ClearsReportedFloor' /\ FloorAdopted'
  BY <1>1, <1>4 DEF IInv, TypeOK, Task, ClearsReportedFloor, FloorAdopted, Attempt
<1>6. OutcomeIsHonest' /\ AnswerIsHonest' /\ BackOffHasError'
  BY DEF IInv, TypeOK, OutcomeIsHonest, AnswerIsHonest, BackOffHasError, Attempt
<1> QED BY <1>2, <1>3, <1>5, <1>6 DEF IInv

LEMMA DecisionStep ==
    ASSUME IInv, NEW w \in Writer, BackOff(w) \/ Settle(w)
    PROVE  IInv'
<1>1. /\ current' \in Nat /\ current' >= current
      /\ task[w].error = "priority" => current' >= task[w].min
  BY AllocatorType DEF IInv, TypeOK, Task, BackOff, Settle, Adopted
<1>2. CASE BackOff(w)
  <2>1. task[w].error \in {"transient", "priority"} /\ task[w] \in Task
    BY <1>2 DEF IInv, TypeOK, BackOff, Task
  <2>2. /\ Charged(task[w]) \in Task
        /\ Charged(task[w]).expiry = task[w].expiry /\ Charged(task[w]).min = task[w].min
        /\ Charged(task[w]).error = task[w].error
    <3>1. CASE task[w].error = "transient"
      <4>1. task[w].left \in Nat /\ task[w].left # 0
        BY <1>2, <3>1, <2>1 DEF BackOff, Spent, Task
      <4> QED BY <3>1, <4>1, <2>1 DEF Charged, Task
    <3>2. CASE task[w].error = "priority"
      <4>1. task[w].priorityLeft # 0
        BY <1>2, <3>2 DEF BackOff, Spent
      <4> QED BY <3>2, <4>1, <2>1 DEF Charged, Task
    <3> QED BY <2>1, <3>1, <3>2
  <2>3. \A v \in Writer :
            /\ v # w => task'[v] = task[v]
            /\ v = w => task'[v] = [Charged(task[w]) EXCEPT !.pc = "backoff"]
    BY <1>2 DEF IInv, TypeOK, BackOff
  <2>4. TypeOK'
    BY <1>1, <1>2, <2>2, <2>3 DEF IInv, TypeOK, BackOff, Task
  <2>5. NoTies'
    BY <1>1, <2>2, <2>3 DEF IInv, TypeOK, NoTies, Task
  <2>6. ClearsReportedFloor' /\ OutcomeIsHonest' /\ AnswerIsHonest'
    BY <1>2, <2>2, <2>3 DEF IInv, ClearsReportedFloor, OutcomeIsHonest, AnswerIsHonest, Task, BackOff
  <2>7. FloorAdopted' /\ BackOffHasError'
    BY <1>1, <1>2, <2>1, <2>2, <2>3 DEF IInv, TypeOK, FloorAdopted, BackOffHasError, Task
  <2> QED BY <2>4, <2>5, <2>6, <2>7 DEF IInv
<1>3. CASE Settle(w)
  <2>1. Settled(w) \in {"ok", "err"}
    BY DEF Settled
  <2>2. TypeOK'
    BY <1>1, <1>3, <2>1 DEF IInv, TypeOK, Task, Settle
  <2>3. NoTies'
    BY <1>1, <1>3 DEF IInv, TypeOK, Task, NoTies, Settle
  <2>4. Settled(w) = "ok" => w \in landed \/ w \notin live
    BY <1>3 DEF IInv, AnswerIsHonest, BackOffHasError, Settled, Settle
  <2>5. ClearsReportedFloor' /\ OutcomeIsHonest' /\ AnswerIsHonest'
    BY <1>3, <2>1, <2>4
       DEF IInv, TypeOK, ClearsReportedFloor, OutcomeIsHonest, AnswerIsHonest, Settle
  <2>6. FloorAdopted' /\ BackOffHasError'
    BY <1>1, <1>3, <2>1 DEF IInv, TypeOK, Task, FloorAdopted, BackOffHasError, Settle
  <2> QED BY <2>2, <2>3, <2>5, <2>6 DEF IInv
<1> QED BY <1>2, <1>3

\* What the world does: the clock ticks, a submission is superseded.
LEMMA WorldStep ==
    ASSUME IInv, Tick \/ (\E w \in Writer : Supersede(w)) \/ UNCHANGED vars
    PROVE  IInv'
<1>1. CASE Tick
  BY <1>1, SubmitAssumption
     DEF IInv, TypeOK, NoTies, ClearsReportedFloor, OutcomeIsHonest, FloorAdopted,
         AnswerIsHonest, BackOffHasError, Tick
<1>2. CASE \E w \in Writer : Supersede(w)
  BY <1>2
     DEF IInv, TypeOK, NoTies, ClearsReportedFloor, OutcomeIsHonest, FloorAdopted,
         AnswerIsHonest, BackOffHasError, Supersede
<1>3. CASE UNCHANGED vars
  BY <1>3
     DEF IInv, TypeOK, NoTies, ClearsReportedFloor, OutcomeIsHonest, FloorAdopted,
         AnswerIsHonest, BackOffHasError, vars
<1> QED BY <1>1, <1>2, <1>3

-----------------------------------------------------------------------------

\* The strengthened invariant holds of every behaviour of submitWithRetry.
THEOREM SubmitInvariant == Spec => []IInv
<1>1. Init => IInv
  BY InitIInv
<1>2. IInv /\ [Next]_vars => IInv'
  <2> SUFFICES ASSUME IInv, [Next]_vars PROVE IInv'
    OBVIOUS
  <2>1. ASSUME NEW w \in Writer, Step(w) PROVE IInv'
    BY <2>1, StoreStep, AttemptStep, DecisionStep DEF Step
  <2> QED BY <2>1, WorldStep DEF Next
<1> QED BY <1>1, <1>2, PTL DEF Spec

\* Whatever the retries draw from the allocator, no two submissions of one
\* account tie: a store that orders statements by expiry has a strict order.
THEOREM NeverTies == Spec => []NoTies
BY SubmitInvariant, PTL DEF IInv

\* A writer told of a minimum never sends a statement at or below it.
THEOREM AlwaysClearsFloor == Spec => []ClearsReportedFloor
BY SubmitInvariant, PTL DEF IInv

\* A caller that is told "ok" has its statement accepted or superseded.
THEOREM AlwaysHonest == Spec => []OutcomeIsHonest
BY SubmitInvariant, PTL DEF IInv

\* Every submission keeps its type, its retry budgets above all.
THEOREM TypeCorrect == Spec => []TypeOK
BY SubmitInvariant, PTL DEF IInv

-----------------------------------------------------------------------------
(* The devices of two users                                                *)
(* What inductiveness adds: every statement is written with the key and the *)
(* roster its sender had; whoever has seen one was a peer of its sender, and *)
(* what he opened he has seen; a response names messages that were read; and *)
(* what a session has on the shelf it carries, or it was read.             *)

TopicOf(d, k) ==
    SessionTopic(Secret(DeviceKey(d, k), IdentityKey(OtherUser(d))),
                 d, Pin(Owner(d)), OtherUser(d), Pin(OtherUser(d)))

SessionFields == {"stage", "live", "ids", "due", "seen", "blind", "early", "unheard"}

IsSession(x) ==
    /\ DOMAIN x = SessionFields /\ x.stage \in {"init", "active"} /\ x.live \subseteq Note
    /\ x.blind \in BOOLEAN /\ x.early \in BOOLEAN /\ x.unheard \in BOOLEAN

IsListener(x) == DOMAIN x = {"specs", "on", "open"} /\ x.on \in BOOLEAN

IsRoster(d, r) == DOMAIN r \subseteq PeersOf(d) /\ \A e \in DOMAIN r : r[e] \in Nat

RostersShape ==
    /\ key \in [Device -> 1..MaxDeviceKeys]
    /\ DOMAIN roster = Device /\ \A d \in Device : IsRoster(d, roster[d])
    /\ DOMAIN session = Device /\ \A d \in Device : IsSession(session[d])
    /\ DOMAIN listener = Device /\ \A d \in Device : IsListener(listener[d])
    /\ dropped \cup readNotes \subseteq Note

WrittenFor(e, s) == e \in DOMAIN s.to /\ s.to[e] = key[e]

WellMade(s) ==
    /\ s.from \in Device /\ s.key \in Nat \ {0}
    /\ DOMAIN s.to \subseteq PeersOf(s.from) /\ \A e \in DOMAIN s.to : s.to[e] \in Nat \ {0}
    /\ s.topic = TopicOf(s.from, s.key)
    /\ s.entries = [e \in DOMAIN s.to |-> Secret(DeviceKey(s.from, s.key), DeviceKey(e, s.to[e]))]

HonestResponse(s) == s.notes \subseteq Note /\ (s.kind = "response" => s.notes \subseteq readNotes)

SpecsFor(e, specs) ==
    /\ IsFiniteSet(specs)
    /\ \A x \in specs : \E f \in PeersOf(e), k \in Nat : x = SpecOf(e, f, k)

ShelfMade == \A s \in shelf : WellMade(s) /\ HonestResponse(s)

SpecsMade == \A e \in Device : SpecsFor(e, listener[e].specs) /\ SpecsFor(e, listener[e].open)

OnTopics ==
    \A e \in Device : ~session[e].unheard =>
      /\ listener[e].specs = Specs(e, roster[e])
      /\ listener[e].on => listener[e].open = Specs(e, roster[e])

SeenOpened ==
    \A e \in Device :
      /\ \A s \in session[e].seen : Owner(s.from) # Owner(e) /\ (<<e, s>> \in opened <=> WrittenFor(e, s))
      /\ \A s : <<e, s>> \in opened => s \in session[e].seen

DueRead == \A e \in Device : \A s \in session[e].due : s.notes \subseteq readNotes

Carried ==
    \A d \in Device : session[d].stage = "active" /\ ~session[d].blind /\ ~session[d].early
      => NotesOf(OnShelf(d, "request")) \subseteq session[d].live \cup readNotes

RostersInv == RostersShape /\ ShelfMade /\ SpecsMade /\ OnTopics /\ SeenOpened /\ DueRead /\ Carried

-----------------------------------------------------------------------------

\* What sealed with one pair of keys opens with another.
LEMMA SamePair ==
    ASSUME NEW a, NEW b, NEW c, NEW d, Secret(a, b) = Secret(c, d)
    PROVE  (a = c /\ b = d) \/ (a = d /\ b = c)
BY DEF Secret

LEMMA SpecsAreMade ==
    ASSUME NEW e \in Device, NEW r, IsRoster(e, r)
    PROVE  SpecsFor(e, Specs(e, r))
<1>1. IsFiniteSet(PeersOf(e))
  BY RosterAssumption, FS_Subset DEF PeersOf
<1>2. IsFiniteSet(Valid(r)) /\ Valid(r) \subseteq PeersOf(e)
  BY <1>1, FS_Subset DEF Valid, IsRoster
<1>3. IsFiniteSet({SpecOf(e, f, r[f]) : f \in Valid(r)})
  <2> DEFINE T == {SpecOf(e, f, r[f]) : f \in Valid(r)}
             g == [f \in Valid(r) |-> SpecOf(e, f, r[f])]
  <2>1. g \in Surjection(Valid(r), T)
    BY DEF Surjection
  <2> HIDE DEF g
  <2>2. IsFiniteSet(T)
    BY <1>2, <2>1, FS_Surjection
  <2> QED BY <2>2
<1>4. ASSUME NEW x \in Specs(e, r) PROVE \E f \in PeersOf(e), k \in Nat : x = SpecOf(e, f, k)
  BY <1>2, <1>4 DEF Specs, IsRoster, Valid
<1> QED BY <1>3, <1>4 DEF SpecsFor, Specs

\* A device that finds a statement on a topic it listens to is a peer of its
\* sender, and opens it exactly if it was written for the key it uses.
LEMMA SealedFor ==
    ASSUME NEW e \in Device, NEW specs, SpecsFor(e, specs), NEW s, WellMade(s), Matches(specs, s)
    PROVE  /\ Owner(s.from) # Owner(e)
           /\ OpensEntry(e, s, SpecFor(specs, s).sender) <=> WrittenFor(e, s)
<1> DEFINE x == SpecFor(specs, s)
<1>1. x \in specs /\ x.topic = s.topic
  <2>1. PICK y \in specs : y.topic = s.topic
    BY DEF Matches
  <2>2. CASE Cardinality(specs) = 1
    <3>1. PICK z : specs = {z}
      BY <2>2, FS_Singleton DEF SpecsFor
    <3> QED BY <2>1, <2>2, <3>1 DEF SpecFor
  <2>3. CASE Cardinality(specs) # 1
    BY <2>1, <2>3 DEF SpecFor
  <2> QED BY <2>2, <2>3
<1> HIDE DEF x
<1>2. PICK f \in PeersOf(e), k \in Nat : x = SpecOf(e, f, k)
  BY <1>1 DEF SpecsFor
<1>3. x.topic = SessionTopic(Secret(IdentityKey(Owner(e)), DeviceKey(f, k)), f, RemotePin(e), Owner(e), Pin(Owner(e)))
      /\ x.sender = DeviceKey(f, k)
  BY <1>2 DEF SpecOf
<1>4. s.topic = TopicOf(s.from, s.key) /\ s.key \in Nat \ {0}
  BY DEF WellMade
<1>5. /\ Secret(IdentityKey(Owner(e)), DeviceKey(f, k)) = Secret(DeviceKey(s.from, s.key), IdentityKey(OtherUser(s.from)))
      /\ f = s.from /\ Owner(e) = OtherUser(s.from)
  <2> DEFINE t == s.topic
  <2>1. /\ t[1] = Secret(IdentityKey(Owner(e)), DeviceKey(f, k)) /\ t[2] = f /\ t[3] = Owner(e)
    BY <1>1, <1>3 DEF SessionTopic
  <2>2. /\ t[1] = Secret(DeviceKey(s.from, s.key), IdentityKey(OtherUser(s.from)))
        /\ t[2] = s.from /\ t[3] = OtherUser(s.from)
    BY <1>4 DEF SessionTopic, TopicOf
  <2> QED BY <2>1, <2>2
<1>6. k = s.key
  <2> DEFINE a == IdentityKey(Owner(e))  b == DeviceKey(f, k)
             c == DeviceKey(s.from, s.key)  d == IdentityKey(OtherUser(s.from))
  <2>1. Secret(a, b) = Secret(c, d)
    BY <1>5
  <2>2. a[2] = 0 /\ c[2] = s.key /\ b[2] = k
    BY DEF IdentityKey, DeviceKey
  <2> HIDE DEF a, b, c, d
  <2>3. a # c
    BY <1>4, <2>2
  <2>4. b = c
    BY <2>1, <2>3, SamePair
  <2> QED BY <2>2, <2>4
<1>7. Owner(s.from) # Owner(e) /\ s.from # e
  BY <1>5 DEF PeersOf
<1>8. DOMAIN s.entries = DOMAIN s.to
      /\ \A y \in DOMAIN s.to : s.entries[y] = Secret(DeviceKey(s.from, s.key), DeviceKey(y, s.to[y]))
  BY DEF WellMade
<1>9. x.sender = DeviceKey(s.from, s.key)
  BY <1>3, <1>5, <1>6
<1>10. ASSUME NEW a, NEW b
       PROVE  Secret(DeviceKey(s.from, s.key), DeviceKey(e, a)) = Secret(DeviceKey(e, b), DeviceKey(s.from, s.key)) <=> a = b
  <2> DEFINE c == DeviceKey(s.from, s.key)  x1 == DeviceKey(e, a)  x2 == DeviceKey(e, b)
  <2>1. c[1] = s.from /\ x1[1] = e /\ x2[1] = e /\ x1[2] = a /\ x2[2] = b /\ (a = b => x1 = x2)
    BY DEF DeviceKey
  <2> HIDE DEF c, x1, x2
  <2>2. Secret(c, x1) = Secret(x2, c) <=> x1 = x2
    BY <1>7, <2>1, SamePair DEF Secret
  <2> QED BY <2>1, <2>2 DEF c, x1, x2
<1> QED BY <1>7, <1>8, <1>9, <1>10 DEF OpensEntry, WrittenFor, x

\* A device's topic tells who it is and which key it uses.
LEMMA OwnTopic ==
    ASSUME NEW d \in Device, NEW f \in Device, NEW k \in Nat \ {0}, NEW l \in Nat \ {0},
           TopicOf(d, k) = TopicOf(f, l)
    PROVE  d = f /\ k = l
<1> DEFINE t == TopicOf(d, k)
<1>1. /\ t[1] = Secret(DeviceKey(d, k), IdentityKey(OtherUser(d))) /\ t[2] = d
      /\ t[1] = Secret(DeviceKey(f, l), IdentityKey(OtherUser(f))) /\ t[2] = f
  BY DEF SessionTopic, TopicOf
<1>2. d = f
  BY <1>1
<1> DEFINE a == DeviceKey(d, k)  b == IdentityKey(OtherUser(d))  c == DeviceKey(d, l)
<1>3. Secret(a, b) = Secret(c, b)
  BY <1>1, <1>2
<1>4. a[2] = k /\ b[2] = 0 /\ c[2] = l
  BY DEF IdentityKey, DeviceKey
<1> HIDE DEF a, b, c
<1>5. a = c
  BY <1>3, SamePair
<1> QED BY <1>2, <1>4, <1>5

LEMMA KeysAreNumbers == ASSUME RostersShape, NEW d \in Device PROVE key[d] \in Nat \ {0}
BY RosterAssumption DEF RostersShape

LEMMA OwnStatement ==
    ASSUME RostersShape, ShelfMade, NEW d \in Device, NEW kind, NEW s \in OnShelf(d, kind)
    PROVE  s \in shelf /\ s.kind = kind /\ s.from = d /\ s.key = key[d] /\ WellMade(s) /\ HonestResponse(s)
<1>1. s \in shelf /\ s.kind = kind /\ s.topic = TopicOf(d, key[d]) /\ WellMade(s) /\ HonestResponse(s)
  BY DEF OnShelf, OutgoingTopic, TopicOf, ShelfMade
<1>2. s.from \in Device /\ s.key \in Nat \ {0} /\ s.topic = TopicOf(s.from, s.key)
  BY <1>1 DEF WellMade
<1> QED BY <1>1, <1>2, OwnTopic, KeysAreNumbers

\* What is put on a shelf replaces one channel of one device.
LEMMA PutFacts ==
    ASSUME RostersShape, NEW d \in Device, NEW kind, NEW notes, CanWrap(roster[d]),
           Put(d, kind, notes), UNCHANGED key
    PROVE  \E n :
             /\ WellMade(n) /\ n.kind = kind /\ n.notes = notes
             /\ shelf' \subseteq shelf \cup {n}
             /\ NotesOf(OnShelf(d, kind)') = notes
             /\ \A f \in Device : \A k : f # d \/ k # kind => OnShelf(f, k)' = OnShelf(f, k)
<1> DEFINE n == [topic |-> OutgoingTopic(d), kind |-> kind, notes |-> notes, entries |-> Wrapped(d, roster[d]),
                 from |-> d, key |-> key[d], to |-> roster[d]]
           rest == {s \in shelf : s.topic # OutgoingTopic(d) \/ s.kind # kind}
<1>1. shelf' = rest \cup {n}
  BY DEF Put
<1>2. /\ n.topic = TopicOf(d, key[d]) /\ n.kind = kind /\ n.notes = notes /\ n.entries = Wrapped(d, roster[d])
      /\ n.from = d /\ n.key = key[d] /\ n.to = roster[d]
  BY DEF OutgoingTopic, TopicOf
<1> HIDE DEF n
<1>3. WellMade(n)
  <2>1. key[d] \in Nat \ {0}
    BY KeysAreNumbers
  <2>2. IsRoster(d, roster[d]) /\ Valid(roster[d]) = DOMAIN roster[d]
    BY DEF RostersShape, CanWrap
  <2>3. \A e \in DOMAIN roster[d] : roster[d][e] \in Nat \ {0}
    BY <2>2 DEF IsRoster, Valid
  <2> QED BY <1>2, <2>1, <2>2, <2>3 DEF WellMade, IsRoster, Wrapped
<1>4. \A f \in Device : OutgoingTopic(f)' = OutgoingTopic(f)
  BY DEF OutgoingTopic
<1>5. \A f \in Device : f # d => OutgoingTopic(f) # OutgoingTopic(d)
  <2> SUFFICES ASSUME NEW f \in Device, OutgoingTopic(f) = OutgoingTopic(d) PROVE f = d
    OBVIOUS
  <2>1. TopicOf(f, key[f]) = TopicOf(d, key[d])
    BY DEF OutgoingTopic, TopicOf
  <2> QED BY <2>1, OwnTopic, KeysAreNumbers
<1>6. n.topic = OutgoingTopic(d)
  BY <1>2 DEF TopicOf, OutgoingTopic
<1>7. OnShelf(d, kind)' = {n}
  BY <1>1, <1>2, <1>4, <1>6 DEF OnShelf
<1>8. ASSUME NEW f \in Device, NEW k, f # d \/ k # kind PROVE OnShelf(f, k)' = OnShelf(f, k)
  BY <1>1, <1>2, <1>4, <1>5, <1>6, <1>8 DEF OnShelf
<1>9. NotesOf(OnShelf(d, kind)') = notes
  BY <1>2, <1>7 DEF NotesOf
<1> QED BY <1>1, <1>2, <1>3, <1>8, <1>9

LEMMA NotesOfShelf == ASSUME ShelfMade, NEW ss \in SUBSET shelf PROVE NotesOf(ss) \subseteq Note
BY DEF ShelfMade, HonestResponse, NotesOf

\* What was honest stays so when more is read, and what was due stays read.
LEMMA MoreIsRead ==
    ASSUME readNotes \subseteq readNotes'
    PROVE  /\ \A s : HonestResponse(s) => HonestResponse(s)'
           /\ shelf' = shelf /\ ShelfMade => ShelfMade'
BY DEF HonestResponse, ShelfMade, WellMade

LEMMA InitReadsStep ==
    ASSUME RostersInv, NEW d \in Device, InitReads(d)
    PROVE  RostersInv' /\ dropped' = dropped
<1> DEFINE specs == listener[d].specs
           found == {s \in shelf : Matches(specs, s)}
           mine == OpenedBy(d, found, specs)
           ownRequest == {s \in OnShelf(d, "request") : OpensOwn(d, s, roster[d])}
           ownResponse == {s \in OnShelf(d, "response") : OpensOwn(d, s, roster[d])}
<1>1. PICK request \in FirstOf(OfKind(mine, "request")), response \in FirstOf(OfKind(mine, "response")) :
        LET given == {s \in request : <<d, s>> \notin opened /\ ~Names(ownResponse, s)}
            kept == {s \in ownRequest : ~Names(response, s)}
        IN /\ Opened(d, mine) /\ readNotes' = readNotes \cup NotesOf(given)
           /\ session' = [session EXCEPT ![d].stage = "active",
                ![d].live = NotesOf(kept), ![d].ids = {s.notes : s \in kept},
                ![d].due = @ \cup given, ![d].seen = @ \cup found,
                ![d].blind = \E s \in OnShelf(d, "request") :
                               \A e \in DOMAIN s.to \cap DOMAIN roster[d] : s.to[e] # roster[d][e]]
  BY DEF InitReads
<1> DEFINE given == {s \in request : <<d, s>> \notin opened /\ ~Names(ownResponse, s)}
           kept == {s \in ownRequest : ~Names(response, s)}
           misses == \E s \in OnShelf(d, "request") :
                       \A e \in DOMAIN s.to \cap DOMAIN roster[d] : s.to[e] # roster[d][e]
<1>2. UNCHANGED <<key, roster, listener, shelf, dropped>>
  BY DEF InitReads
<1> HIDE DEF mine, ownRequest, ownResponse
<1>3. request \subseteq OfKind(mine, "request") /\ response \subseteq OfKind(mine, "response") /\ mine \subseteq found
  BY DEF FirstOf, OpenedBy, mine
<1>4. given \subseteq shelf /\ kept \subseteq ownRequest /\ ownRequest \subseteq shelf /\ found \subseteq shelf
  BY <1>3 DEF OfKind, ownRequest, OnShelf
<1>5. NotesOf(given) \subseteq Note /\ NotesOf(kept) \subseteq Note
  BY <1>4, NotesOfShelf DEF RostersInv
<1>6. IsSession(session[d]) /\ DOMAIN session = Device
  BY DEF RostersInv, RostersShape
<1>7. /\ DOMAIN session' = Device /\ \A f \in Device : f # d => session'[f] = session[f]
      /\ DOMAIN session'[d] = SessionFields /\ session'[d].stage = "active"
      /\ session'[d].live = NotesOf(kept) /\ session'[d].due = session[d].due \cup given
      /\ session'[d].seen = session[d].seen \cup found /\ session'[d].blind = misses
      /\ session'[d].early = session[d].early /\ session'[d].unheard = session[d].unheard
  BY <1>1, <1>6 DEF IsSession, SessionFields
<1>8. readNotes' = readNotes \cup NotesOf(given) /\ opened' = opened \cup {<<d, s>> : s \in mine}
  BY <1>1 DEF Opened
<1> HIDE DEF given, kept, found
<1>9. RostersShape'
  <2>1. IsSession(session'[d])
    BY <1>5, <1>6, <1>7 DEF IsSession
  <2>2. \A f \in Device : IsSession(session'[f])
    BY <1>7, <2>1 DEF RostersInv, RostersShape
  <2>3. (dropped \cup readNotes)' \subseteq Note
    BY <1>2, <1>5, <1>8 DEF RostersInv, RostersShape
  <2> HIDE DEF misses
  <2> QED BY <1>2, <1>7, <2>2, <2>3 DEF RostersInv, RostersShape, IsSession
<1>10. ShelfMade'
  BY <1>2, <1>8, MoreIsRead DEF RostersInv
<1>11. SpecsMade'
  BY <1>2 DEF RostersInv, SpecsMade, SpecsFor, SpecOf
<1>12. OnTopics'
  BY <1>2, <1>7 DEF RostersInv, OnTopics, Specs, Valid, SpecOf
<1>13. \A s \in found : Owner(s.from) # Owner(d) /\ (s \in mine <=> WrittenFor(d, s))
  <2> SUFFICES ASSUME NEW s \in found PROVE Owner(s.from) # Owner(d) /\ (s \in mine <=> WrittenFor(d, s))
    OBVIOUS
  <2>1. SpecsFor(d, specs) /\ WellMade(s) /\ Matches(specs, s)
    BY <1>4 DEF RostersInv, SpecsMade, ShelfMade, found
  <2>2. s \in mine <=> OpensEntry(d, s, SpecFor(specs, s).sender)
    BY DEF mine, OpenedBy
  <2> HIDE DEF specs
  <2> QED BY <2>1, <2>2, SealedFor
<1>14. SeenOpened'
  <2> SUFFICES ASSUME NEW f \in Device
               PROVE  /\ \A s \in session'[f].seen :
                           Owner(s.from) # Owner(f) /\ (<<f, s>> \in opened' <=> WrittenFor(f, s)')
                      /\ \A s : <<f, s>> \in opened' => s \in session'[f].seen
    BY DEF SeenOpened
  <2>1. \A s : WrittenFor(f, s)' <=> WrittenFor(f, s)
    BY <1>2 DEF WrittenFor
  <2>2. /\ \A s \in session[f].seen : Owner(s.from) # Owner(f) /\ (<<f, s>> \in opened <=> WrittenFor(f, s))
        /\ \A s : <<f, s>> \in opened => s \in session[f].seen
    BY DEF RostersInv, SeenOpened
  <2>3. CASE f # d
    BY <1>7, <1>8, <2>1, <2>2, <2>3
  <2>4. CASE f = d
    <3>1. \A s : <<d, s>> \in opened' <=> <<d, s>> \in opened \/ s \in mine
      BY <1>8
    <3> QED BY <1>3, <1>7, <1>13, <2>1, <2>2, <2>4, <3>1
  <2> QED BY <2>3, <2>4
<1>15. DueRead'
  <2>1. \A s \in given : s.notes \subseteq NotesOf(given)
    BY DEF NotesOf
  <2> QED BY <1>7, <1>8, <2>1 DEF RostersInv, DueRead
<1>16. Carried'
  <2> SUFFICES ASSUME NEW f \in Device, session'[f].stage = "active", ~session'[f].blind, ~session'[f].early
               PROVE  NotesOf(OnShelf(f, "request"))' \subseteq session'[f].live \cup readNotes'
    BY DEF Carried
  <2>1. NotesOf(OnShelf(f, "request"))' = NotesOf(OnShelf(f, "request"))
    BY <1>2 DEF NotesOf, OnShelf, OutgoingTopic
  <2>2. CASE f # d
    BY <1>7, <1>8, <2>1, <2>2 DEF RostersInv, Carried
  <2>3. CASE f = d
    <3>1. ~misses
      BY <1>7, <2>3
    <3>2. ASSUME NEW s \in OnShelf(d, "request") PROVE s.notes \subseteq NotesOf(kept) \cup readNotes
      <4>1. /\ s \in shelf /\ s.from = d /\ s.key = key[d] /\ WellMade(s)
        BY OwnStatement DEF RostersInv
      <4>2. PICK e \in DOMAIN s.to \cap DOMAIN roster[d] : s.to[e] = roster[d][e]
        BY <3>1
      <4>3. e \in Valid(roster[d]) /\ e \in DOMAIN s.entries
            /\ s.entries[e] = Secret(DeviceKey(d, key[d]), DeviceKey(e, roster[d][e]))
        BY <4>1, <4>2 DEF WellMade, Valid
      <4>4. s \in ownRequest
        BY <4>3 DEF OpensOwn, ownRequest
      <4>5. CASE Names(response, s)
        <5>1. PICK r \in response : r.notes = s.notes
          BY <4>5 DEF Names
        <5>2. r \in shelf /\ r.kind = "response"
          BY <1>3, <1>4 DEF OfKind
        <5>3. HonestResponse(r)
          BY <5>2 DEF RostersInv, ShelfMade
        <5> QED BY <5>1, <5>2, <5>3 DEF HonestResponse
      <4>6. CASE ~Names(response, s)
        BY <4>4, <4>6 DEF NotesOf, kept
      <4> QED BY <4>5, <4>6
    <3>3. NotesOf(OnShelf(d, "request")) \subseteq NotesOf(kept) \cup readNotes
      BY <3>2 DEF NotesOf
    <3> QED BY <1>7, <1>8, <2>1, <2>3, <3>3
  <2> QED BY <2>2, <2>3
<1> QED BY <1>2, <1>9, <1>10, <1>11, <1>12, <1>14, <1>15, <1>16 DEF RostersInv

LEMMA SubmitStep ==
    ASSUME RostersInv, NEW d \in Device, NEW m \in Note, Submit(d, m)
    PROVE  RostersInv' /\ \A n \in dropped' \ dropped : LostAt(d, n)
<1> DEFINE notes == session[d].live \cup {m}
<1>1. /\ session[d].stage = "active" /\ CanWrap(roster[d]) /\ Put(d, "request", notes)
      /\ session' = [session EXCEPT ![d].live = notes, ![d].ids = @ \cup {notes}]
      /\ dropped' = dropped \cup (NotesOf(OnShelf(d, "request")) \ (notes \cup readNotes))
      /\ UNCHANGED <<key, roster, listener, opened, readNotes>>
  BY DEF Submit
<1>2. IsSession(session[d]) /\ DOMAIN session = Device
  BY DEF RostersInv, RostersShape
<1>3. notes \subseteq Note
  BY <1>2 DEF IsSession
<1> HIDE DEF notes
<1>4. PICK n : /\ WellMade(n) /\ n.kind = "request" /\ n.notes = notes
               /\ shelf' \subseteq shelf \cup {n}
               /\ NotesOf(OnShelf(d, "request")') = notes
               /\ \A f \in Device : \A k : f # d \/ k # "request" => OnShelf(f, k)' = OnShelf(f, k)
  BY <1>1, PutFacts DEF RostersInv
<1>5. /\ DOMAIN session' = Device /\ \A f \in Device : f # d => session'[f] = session[f]
      /\ IsSession(session'[d])
      /\ session'[d].stage = "active" /\ session'[d].live = notes /\ session'[d].due = session[d].due
      /\ session'[d].seen = session[d].seen /\ session'[d].blind = session[d].blind
      /\ session'[d].early = session[d].early /\ session'[d].unheard = session[d].unheard
  BY <1>1, <1>2, <1>3 DEF IsSession, SessionFields
<1>6. \A f \in Device :
        /\ session'[f].due = session[f].due /\ session'[f].seen = session[f].seen
        /\ session'[f].unheard = session[f].unheard
  BY <1>5
<1>7. RostersShape'
  <2>1. OnShelf(d, "request") \subseteq shelf
    BY DEF OnShelf
  <2>2. dropped' \subseteq Note
    BY <1>1, <2>1, NotesOfShelf DEF RostersInv, RostersShape
  <2>3. \A f \in Device : IsSession(session'[f])
    BY <1>5 DEF RostersInv, RostersShape
  <2> QED BY <1>1, <1>5, <2>2, <2>3 DEF RostersInv, RostersShape
<1>8. ShelfMade'
  BY <1>1, <1>3, <1>4 DEF RostersInv, ShelfMade, HonestResponse, WellMade
<1>9. SpecsMade'
  BY <1>1 DEF RostersInv, SpecsMade, SpecsFor, SpecOf
<1>10. OnTopics'
  BY <1>1, <1>6 DEF RostersInv, OnTopics, Specs, Valid, SpecOf
<1>11. SeenOpened'
  BY <1>1, <1>6 DEF RostersInv, SeenOpened, WrittenFor
<1>12. DueRead'
  BY <1>1, <1>6 DEF RostersInv, DueRead
<1>13. Carried'
  <2> SUFFICES ASSUME NEW f \in Device, session'[f].stage = "active", ~session'[f].blind, ~session'[f].early
               PROVE  NotesOf(OnShelf(f, "request"))' \subseteq session'[f].live \cup readNotes'
    BY DEF Carried
  <2>1. NotesOf(OnShelf(f, "request"))' = NotesOf(OnShelf(f, "request")')
    BY DEF NotesOf
  <2>2. CASE f # d
    BY <1>1, <1>4, <1>5, <2>1, <2>2 DEF RostersInv, Carried
  <2>3. CASE f = d
    BY <1>4, <1>5, <2>1, <2>3
  <2> QED BY <2>2, <2>3
<1>14. ASSUME NEW x \in dropped' \ dropped PROVE LostAt(d, x)
  <2>1. x \in NotesOf(OnShelf(d, "request")) /\ x \notin session[d].live /\ x \notin readNotes
    BY <1>1 DEF notes
  <2>2. session[d].blind \/ session[d].early
    BY <1>1, <2>1 DEF RostersInv, Carried
  <2> QED BY <2>1, <2>2 DEF LostAt
<1> QED BY <1>7, <1>8, <1>9, <1>10, <1>11, <1>12, <1>13, <1>14 DEF RostersInv

LEMMA RespondStep ==
    ASSUME RostersInv, NEW e \in Device, NEW s \in session[e].due, Respond(e, s)
    PROVE  RostersInv' /\ dropped' = dropped
<1>1. /\ CanWrap(roster[e]) /\ Put(e, "response", s.notes)
      /\ session' = [session EXCEPT ![e].due = @ \ {s}]
      /\ UNCHANGED <<key, roster, listener, opened, dropped, readNotes>>
  BY DEF Respond, historyVars
<1>2. IsSession(session[e]) /\ DOMAIN session = Device
  BY DEF RostersInv, RostersShape
<1>3. s.notes \subseteq readNotes /\ s.notes \subseteq Note
  BY DEF RostersInv, DueRead, RostersShape
<1>4. PICK n : /\ WellMade(n) /\ n.kind = "response" /\ n.notes = s.notes
               /\ shelf' \subseteq shelf \cup {n}
               /\ \A f \in Device : \A k : f # e \/ k # "response" => OnShelf(f, k)' = OnShelf(f, k)
  BY <1>1, PutFacts DEF RostersInv
<1>5. /\ DOMAIN session' = Device /\ \A f \in Device : f # e => session'[f] = session[f]
      /\ IsSession(session'[e])
      /\ session'[e].stage = session[e].stage /\ session'[e].live = session[e].live
      /\ session'[e].due \subseteq session[e].due
      /\ session'[e].seen = session[e].seen /\ session'[e].blind = session[e].blind
      /\ session'[e].early = session[e].early /\ session'[e].unheard = session[e].unheard
  BY <1>1, <1>2 DEF IsSession, SessionFields
<1>6. \A f \in Device :
        /\ session'[f].due \subseteq session[f].due /\ session'[f].seen = session[f].seen
        /\ session'[f].unheard = session[f].unheard /\ session'[f].stage = session[f].stage
        /\ session'[f].live = session[f].live /\ session'[f].blind = session[f].blind
        /\ session'[f].early = session[f].early /\ IsSession(session'[f])
  BY <1>5 DEF RostersInv, RostersShape
<1>7. RostersShape'
  BY <1>1, <1>5, <1>6 DEF RostersInv, RostersShape
<1>8. ShelfMade'
  BY <1>1, <1>3, <1>4 DEF RostersInv, ShelfMade, HonestResponse, WellMade
<1>9. SpecsMade'
  BY <1>1 DEF RostersInv, SpecsMade, SpecsFor, SpecOf
<1>10. OnTopics'
  BY <1>1, <1>6 DEF RostersInv, OnTopics, Specs, Valid, SpecOf
<1>11. SeenOpened'
  BY <1>1, <1>6 DEF RostersInv, SeenOpened, WrittenFor
<1>12. DueRead'
  BY <1>1, <1>6 DEF RostersInv, DueRead
<1>13. Carried'
  <2> SUFFICES ASSUME NEW f \in Device, session'[f].stage = "active", ~session'[f].blind, ~session'[f].early
               PROVE  NotesOf(OnShelf(f, "request"))' \subseteq session'[f].live \cup readNotes'
    BY DEF Carried
  <2>1. NotesOf(OnShelf(f, "request"))' = NotesOf(OnShelf(f, "request"))
    BY <1>4 DEF NotesOf
  <2> QED BY <1>1, <1>6, <2>1 DEF RostersInv, Carried
<1> QED BY <1>1, <1>7, <1>8, <1>9, <1>10, <1>11, <1>12, <1>13 DEF RostersInv

LEMMA ReceiveStep ==
    ASSUME RostersInv, NEW e \in Device, NEW s \in shelf, Receive(e, s)
    PROVE  RostersInv' /\ dropped' = dropped
<1> DEFINE mine == OpenedBy(e, {s}, listener[e].open)
           requests == OfKind(mine, "request")
           ends == OfKind(mine, "response") # {} /\ s.notes \in session[e].ids
<1>1. /\ Matches(listener[e].open, s) /\ Opened(e, mine) /\ readNotes' = readNotes \cup NotesOf(requests)
      /\ session' = [session EXCEPT ![e].seen = @ \cup {s}, ![e].due = @ \cup requests,
           ![e].live = IF ends THEN {} ELSE @, ![e].ids = IF ends THEN {} ELSE @,
           ![e].early = @ \/ (ends /\ session[e].live # s.notes)]
      /\ UNCHANGED <<key, roster, listener, shelf, dropped>>
  BY DEF Receive
<1>2. IsSession(session[e]) /\ DOMAIN session = Device
  BY DEF RostersInv, RostersShape
<1>3. mine \subseteq {s} /\ requests \subseteq mine /\ (OfKind(mine, "response") # {} => s.kind = "response")
  BY DEF OpenedBy, OfKind
<1>4. WellMade(s) /\ HonestResponse(s) /\ SpecsFor(e, listener[e].open)
  BY DEF RostersInv, ShelfMade, SpecsMade
<1>5. Owner(s.from) # Owner(e) /\ (s \in mine <=> WrittenFor(e, s))
  <2>1. s \in mine <=> OpensEntry(e, s, SpecFor(listener[e].open, s).sender)
    BY DEF OpenedBy
  <2> QED BY <1>1, <1>4, <2>1, SealedFor
<1>6. /\ DOMAIN session' = Device /\ \A f \in Device : f # e => session'[f] = session[f]
      /\ DOMAIN session'[e] = SessionFields /\ session'[e].stage = session[e].stage
      /\ session'[e].live = (IF ends THEN {} ELSE session[e].live)
      /\ session'[e].due = session[e].due \cup requests
      /\ session'[e].seen = session[e].seen \cup {s} /\ session'[e].blind = session[e].blind
      /\ session'[e].early = (session[e].early \/ (ends /\ session[e].live # s.notes))
      /\ session'[e].unheard = session[e].unheard
  BY <1>1, <1>2 DEF IsSession, SessionFields
<1>7. opened' = opened \cup {<<e, x>> : x \in mine}
  BY <1>1 DEF Opened
<1>8. NotesOf(requests) \subseteq Note
  BY <1>3, NotesOfShelf DEF RostersInv
<1>9. ends => s.notes \subseteq readNotes
  BY <1>3, <1>4 DEF HonestResponse
<1> HIDE DEF mine, requests, ends
<1>10. IsSession(session'[e])
  BY <1>2, <1>6 DEF IsSession
<1>11. RostersShape'
  BY <1>1, <1>6, <1>8, <1>10 DEF RostersInv, RostersShape
<1>12. ShelfMade'
  BY <1>1, MoreIsRead DEF RostersInv
<1>13. SpecsMade'
  BY <1>1 DEF RostersInv, SpecsMade, SpecsFor, SpecOf
<1>14. \A f \in Device : session'[f].unheard = session[f].unheard /\ session'[f].stage = session[f].stage
  BY <1>6
<1>15. OnTopics'
  BY <1>1, <1>14 DEF RostersInv, OnTopics, Specs, Valid, SpecOf
<1>16. SeenOpened'
  <2> SUFFICES ASSUME NEW f \in Device
               PROVE  /\ \A x \in session'[f].seen :
                           Owner(x.from) # Owner(f) /\ (<<f, x>> \in opened' <=> WrittenFor(f, x)')
                      /\ \A x : <<f, x>> \in opened' => x \in session'[f].seen
    BY DEF SeenOpened
  <2>1. \A x : WrittenFor(f, x)' <=> WrittenFor(f, x)
    BY <1>1 DEF WrittenFor
  <2>2. /\ \A x \in session[f].seen : Owner(x.from) # Owner(f) /\ (<<f, x>> \in opened <=> WrittenFor(f, x))
        /\ \A x : <<f, x>> \in opened => x \in session[f].seen
    BY DEF RostersInv, SeenOpened
  <2>3. CASE f # e
    BY <1>6, <1>7, <2>1, <2>2, <2>3
  <2>4. CASE f = e
    <3>1. \A x : <<e, x>> \in opened' <=> <<e, x>> \in opened \/ x \in mine
      BY <1>7
    <3> QED BY <1>3, <1>5, <1>6, <2>1, <2>2, <2>4, <3>1
  <2> QED BY <2>3, <2>4
<1>17. DueRead'
  <2>1. \A x \in requests : x.notes \subseteq NotesOf(requests)
    BY DEF NotesOf
  <2> QED BY <1>1, <1>6, <2>1 DEF RostersInv, DueRead
<1>18. Carried'
  <2> SUFFICES ASSUME NEW f \in Device, session'[f].stage = "active", ~session'[f].blind, ~session'[f].early
               PROVE  NotesOf(OnShelf(f, "request"))' \subseteq session'[f].live \cup readNotes'
    BY DEF Carried
  <2>1. NotesOf(OnShelf(f, "request"))' = NotesOf(OnShelf(f, "request"))
    BY <1>1 DEF NotesOf, OnShelf, OutgoingTopic
  <2>2. session[f].stage = "active" /\ ~session[f].blind /\ ~session[f].early
    BY <1>6
  <2>3. NotesOf(OnShelf(f, "request")) \subseteq session[f].live \cup readNotes
    BY <2>2 DEF RostersInv, Carried
  <2>4. session[f].live \subseteq session'[f].live \cup readNotes
    BY <1>6, <1>9
  <2> QED BY <1>1, <2>1, <2>3, <2>4
<1> QED BY <1>1, <1>11, <1>12, <1>13, <1>15, <1>16, <1>17, <1>18 DEF RostersInv

\* A step of the subscription alone: it stays on topics made for the device.
LEMMA ListensStep ==
    ASSUME RostersInv, NEW d \in Device, NEW l,
           listener' = [listener EXCEPT ![d] = l], IsListener(l), l.specs = listener[d].specs,
           l.on => l.open = l.specs, ~l.on => l.open = {},
           UNCHANGED <<key, roster, session, shelf, opened, historyVars>>
    PROVE  RostersInv' /\ dropped' = dropped
<1>1. /\ DOMAIN listener' = Device /\ listener'[d] = l
      /\ \A f \in Device : f # d => listener'[f] = listener[f]
  BY DEF RostersInv, RostersShape
<1>2. UNCHANGED <<key, roster, session, shelf, opened, dropped, readNotes>>
  BY DEF historyVars
<1>3. RostersShape'
  BY <1>1, <1>2 DEF RostersInv, RostersShape
<1>4. ShelfMade'
  BY <1>2, MoreIsRead DEF RostersInv
<1>5. SpecsMade'
  <2>1. SpecsFor(d, l.specs)
    BY DEF RostersInv, SpecsMade
  <2>2. SpecsFor(d, {})
    BY FS_EmptySet DEF SpecsFor
  <2>3. SpecsFor(d, l.open)
    BY <2>1, <2>2 DEF IsListener
  <2>4. \A f \in Device : SpecsFor(f, listener'[f].specs) /\ SpecsFor(f, listener'[f].open)
    BY <1>1, <2>1, <2>3 DEF RostersInv, SpecsMade
  <2> QED BY <2>4 DEF SpecsMade, SpecsFor, SpecOf
<1>6. OnTopics'
  BY <1>1, <1>2 DEF RostersInv, OnTopics, Specs, Valid, SpecOf
<1>7. SeenOpened'
  BY <1>2 DEF RostersInv, SeenOpened, WrittenFor
<1>8. DueRead'
  BY <1>2 DEF RostersInv, DueRead
<1>9. Carried'
  BY <1>2 DEF RostersInv, Carried, NotesOf, OnShelf, OutgoingTopic
<1> QED BY <1>2, <1>3, <1>4, <1>5, <1>6, <1>7, <1>8, <1>9 DEF RostersInv

LEMMA TopicsStep ==
    ASSUME RostersInv, NEW d \in Device, OpensTopics(d) \/ ClosesTopics(d)
    PROVE  RostersInv' /\ dropped' = dropped
<1>1. CASE OpensTopics(d)
  <2> DEFINE l == [specs |-> listener[d].specs, on |-> TRUE, open |-> listener[d].specs]
  <2>1. listener' = [listener EXCEPT ![d] = l] /\ UNCHANGED <<key, roster, session, shelf, opened, historyVars>>
    BY <1>1 DEF OpensTopics
  <2>2. IsListener(l) /\ l.specs = listener[d].specs /\ l.on /\ l.open = l.specs
    BY DEF IsListener
  <2> HIDE DEF l
  <2> QED BY <2>1, <2>2, ListensStep
<1>2. CASE ClosesTopics(d)
  <2> DEFINE l == NotListening(listener[d].specs)
  <2>1. listener' = [listener EXCEPT ![d] = l] /\ UNCHANGED <<key, roster, session, shelf, opened, historyVars>>
    BY <1>2 DEF ClosesTopics
  <2>2. IsListener(l) /\ l.specs = listener[d].specs /\ ~l.on /\ l.open = {}
    BY DEF IsListener, NotListening
  <2> HIDE DEF l
  <2> QED BY <2>1, <2>2, ListensStep
<1> QED BY <1>1, <1>2

LEMMA RosterChangesStep ==
    ASSUME RostersInv, NEW d \in Device, NEW r \in Rosters(d), RosterChanges(d, r)
    PROVE  RostersInv' /\ dropped' = dropped
<1>1. /\ roster' = [roster EXCEPT ![d] = r] /\ listener' = [listener EXCEPT ![d] = Heard(d, r)]
      /\ session' = [session EXCEPT ![d].unheard = ~listener[d].on]
      /\ UNCHANGED <<key, shelf, opened, dropped, readNotes>>
  BY DEF RosterChanges
<1>2. IsRoster(d, r)
  <2>1. PICK E \in SUBSET PeersOf(d) : r \in [E -> 0..MaxDeviceKeys]
    BY DEF Rosters
  <2> QED BY <2>1, RosterAssumption DEF IsRoster
<1>3. IsSession(session[d]) /\ DOMAIN session = Device /\ IsListener(listener[d]) /\ DOMAIN listener = Device
      /\ DOMAIN roster = Device
  BY DEF RostersInv, RostersShape
<1>4. /\ DOMAIN session' = Device /\ \A f \in Device : f # d => session'[f] = session[f]
      /\ IsSession(session'[d]) /\ session'[d].unheard = ~listener[d].on
      /\ session'[d].stage = session[d].stage /\ session'[d].live = session[d].live
      /\ session'[d].due = session[d].due /\ session'[d].seen = session[d].seen
      /\ session'[d].blind = session[d].blind /\ session'[d].early = session[d].early
  BY <1>1, <1>3 DEF IsSession, SessionFields, IsListener
<1>5. /\ DOMAIN roster' = Device /\ roster'[d] = r /\ \A f \in Device : f # d => roster'[f] = roster[f]
      /\ DOMAIN listener' = Device /\ listener'[d] = Heard(d, r)
      /\ \A f \in Device : f # d => listener'[f] = listener[f]
  BY <1>1, <1>3
<1>6. /\ IsListener(Heard(d, r))
      /\ listener[d].on => Heard(d, r).specs = Specs(d, r) /\ Heard(d, r).open = Specs(d, r)
      /\ ~listener[d].on => Heard(d, r) = listener[d]
  BY <1>3 DEF Heard, IsListener
<1>7. \A f \in Device :
        /\ session'[f].due = session[f].due /\ session'[f].seen = session[f].seen
        /\ session'[f].stage = session[f].stage /\ session'[f].live = session[f].live
        /\ session'[f].blind = session[f].blind /\ session'[f].early = session[f].early
  BY <1>4
<1>8. RostersShape'
  <2>1. \A f \in Device : IsRoster(f, roster'[f]) /\ IsSession(session'[f]) /\ IsListener(listener'[f])
    BY <1>2, <1>4, <1>5, <1>6 DEF RostersInv, RostersShape
  <2> QED BY <1>1, <1>4, <1>5, <2>1 DEF RostersInv, RostersShape, IsRoster, PeersOf
<1>9. ShelfMade'
  BY <1>1, MoreIsRead DEF RostersInv
<1>10. SpecsMade'
  <2>1. SpecsFor(d, Specs(d, r))
    BY <1>2, SpecsAreMade
  <2>2. SpecsFor(d, Heard(d, r).specs) /\ SpecsFor(d, Heard(d, r).open)
    BY <1>6, <2>1 DEF RostersInv, SpecsMade
  <2>3. \A f \in Device : SpecsFor(f, listener'[f].specs) /\ SpecsFor(f, listener'[f].open)
    BY <1>5, <2>2 DEF RostersInv, SpecsMade
  <2> QED BY <2>3 DEF SpecsMade, SpecsFor, SpecOf
<1>11. OnTopics'
  <2> SUFFICES ASSUME NEW f \in Device, ~session'[f].unheard
               PROVE  /\ listener'[f].specs = Specs(f, roster'[f])
                      /\ listener'[f].on => listener'[f].open = Specs(f, roster'[f])
    BY DEF OnTopics, Specs, Valid, SpecOf
  <2>1. CASE f # d
    BY <1>4, <1>5, <2>1 DEF RostersInv, OnTopics
  <2>2. CASE f = d
    BY <1>4, <1>5, <1>6, <2>2
  <2> QED BY <2>1, <2>2
<1>12. SeenOpened'
  BY <1>1, <1>7 DEF RostersInv, SeenOpened, WrittenFor
<1>13. DueRead'
  BY <1>1, <1>7 DEF RostersInv, DueRead
<1>14. Carried'
  BY <1>1, <1>7 DEF RostersInv, Carried, NotesOf, OnShelf, OutgoingTopic
<1> QED BY <1>1, <1>8, <1>9, <1>10, <1>11, <1>12, <1>13, <1>14 DEF RostersInv

LEMMA StartAgainStep ==
    ASSUME RostersInv, NEW d \in Device, NEW k \in 1..MaxDeviceKeys, StartAgain(d, k)
    PROVE  RostersInv' /\ dropped' = dropped
<1>1. /\ key' = [key EXCEPT ![d] = k] /\ opened' = {x \in opened : x[1] # d}
      /\ listener' = [listener EXCEPT ![d] = NotListening(Specs(d, roster[d]))]
      /\ session' = [session EXCEPT ![d] = NewSession]
      /\ UNCHANGED <<roster, shelf, dropped, readNotes>>
  BY DEF StartAgain
<1>2. DOMAIN session = Device /\ DOMAIN listener = Device /\ key \in [Device -> 1..MaxDeviceKeys]
      /\ IsRoster(d, roster[d])
  BY DEF RostersInv, RostersShape
<1> DEFINE l == NotListening(Specs(d, roster[d]))
<1>3. IsListener(l) /\ l.specs = Specs(d, roster[d]) /\ ~l.on /\ l.open = {}
  BY DEF NotListening, IsListener
<1>4. /\ IsSession(NewSession) /\ NewSession.stage = "init" /\ ~NewSession.unheard
      /\ NewSession.due = {} /\ NewSession.seen = {}
  BY DEF NewSession, IsSession, SessionFields
<1> HIDE DEF l
<1>5. /\ DOMAIN session' = Device /\ session'[d] = NewSession
      /\ \A f \in Device : f # d => session'[f] = session[f]
      /\ DOMAIN listener' = Device /\ listener'[d] = l
      /\ \A f \in Device : f # d => listener'[f] = listener[f]
      /\ key' \in [Device -> 1..MaxDeviceKeys] /\ \A f \in Device : f # d => key'[f] = key[f]
  BY <1>1, <1>2 DEF l
<1>6. RostersShape'
  BY <1>1, <1>3, <1>4, <1>5 DEF RostersInv, RostersShape
<1>7. ShelfMade'
  BY <1>1, MoreIsRead DEF RostersInv
<1>8. SpecsMade'
  <2>1. SpecsFor(d, l.specs)
    BY <1>2, <1>3, SpecsAreMade
  <2>2. SpecsFor(d, l.open)
    BY <1>3, FS_EmptySet DEF SpecsFor
  <2>3. \A f \in Device : SpecsFor(f, listener'[f].specs) /\ SpecsFor(f, listener'[f].open)
    BY <1>5, <2>1, <2>2 DEF RostersInv, SpecsMade
  <2> QED BY <2>3 DEF SpecsMade, SpecsFor, SpecOf
<1>9. OnTopics'
  <2> SUFFICES ASSUME NEW f \in Device, ~session'[f].unheard
               PROVE  /\ listener'[f].specs = Specs(f, roster[f])
                      /\ listener'[f].on => listener'[f].open = Specs(f, roster[f])
    BY <1>1 DEF OnTopics, Specs, Valid, SpecOf
  <2>1. CASE f # d
    BY <1>5, <2>1 DEF RostersInv, OnTopics
  <2>2. CASE f = d
    BY <1>3, <1>5, <2>2
  <2> QED BY <2>1, <2>2
<1>10. SeenOpened'
  <2> SUFFICES ASSUME NEW f \in Device
               PROVE  /\ \A s \in session'[f].seen :
                           Owner(s.from) # Owner(f) /\ (<<f, s>> \in opened' <=> WrittenFor(f, s)')
                      /\ \A s : <<f, s>> \in opened' => s \in session'[f].seen
    BY DEF SeenOpened
  <2>1. CASE f # d
    <3>1. \A s : (WrittenFor(f, s)' <=> WrittenFor(f, s)) /\ (<<f, s>> \in opened' <=> <<f, s>> \in opened)
      BY <1>1, <1>5, <2>1 DEF WrittenFor
    <3> QED BY <1>5, <2>1, <3>1 DEF RostersInv, SeenOpened
  <2>2. CASE f = d
    <3>1. \A s : <<f, s>> \notin opened'
      BY <1>1, <2>2
    <3> QED BY <1>4, <1>5, <2>2, <3>1
  <2> QED BY <2>1, <2>2
<1>11. DueRead'
  BY <1>1, <1>4, <1>5 DEF RostersInv, DueRead
<1>12. Carried'
  <2> SUFFICES ASSUME NEW f \in Device, session'[f].stage = "active", ~session'[f].blind, ~session'[f].early
               PROVE  NotesOf(OnShelf(f, "request"))' \subseteq session'[f].live \cup readNotes'
    BY DEF Carried
  <2>1. f # d
    BY <1>4, <1>5
  <2>2. NotesOf(OnShelf(f, "request"))' = NotesOf(OnShelf(f, "request"))
    BY <1>1, <1>5, <2>1 DEF NotesOf, OnShelf, OutgoingTopic
  <2> QED BY <1>1, <1>5, <2>1, <2>2 DEF RostersInv, Carried
<1> QED BY <1>1, <1>6, <1>7, <1>8, <1>9, <1>10, <1>11, <1>12 DEF RostersInv

LEMMA RostersInitInv == RostersInit => RostersInv
<1> SUFFICES ASSUME RostersInit PROVE RostersInv
  OBVIOUS
<1>1. /\ key = [d \in Device |-> 1] /\ shelf = {} /\ opened = {} /\ dropped = {} /\ readNotes = {}
      /\ DOMAIN roster = Device /\ \A d \in Device : roster[d] = [e \in PeersOf(d) |-> 1]
      /\ DOMAIN listener = Device /\ \A d \in Device : listener[d] = NotListening(Specs(d, roster[d]))
      /\ DOMAIN session = Device /\ \A d \in Device : session[d] = [NewSession EXCEPT !.stage = "active"]
  BY DEF RostersInit
<1>2. \A d \in Device : IsRoster(d, roster[d])
  BY <1>1 DEF IsRoster
<1>3. \A d \in Device : /\ IsSession(session[d]) /\ session[d].due = {} /\ session[d].seen = {}
                        /\ ~session[d].unheard /\ session[d].live = {}
  BY <1>1 DEF NewSession, IsSession, SessionFields
<1>4. \A d \in Device : /\ IsListener(listener[d]) /\ listener[d].specs = Specs(d, roster[d])
                        /\ ~listener[d].on /\ listener[d].open = {}
  <2> SUFFICES ASSUME NEW d \in Device
               PROVE  IsListener(listener[d]) /\ listener[d].specs = Specs(d, roster[d])
                      /\ ~listener[d].on /\ listener[d].open = {}
    OBVIOUS
  <2> DEFINE specs == Specs(d, roster[d])
  <2>1. listener[d] = NotListening(specs)
    BY <1>1
  <2> HIDE DEF specs
  <2>2. IsListener(listener[d]) /\ listener[d].specs = specs /\ ~listener[d].on /\ listener[d].open = {}
    BY <2>1 DEF NotListening, IsListener
  <2> QED BY <2>2 DEF specs
<1>5. RostersShape
  BY <1>1, <1>2, <1>3, <1>4, RosterAssumption DEF RostersShape
<1>6. SpecsMade
  <2>1. \A d \in Device : SpecsFor(d, {})
    BY FS_EmptySet DEF SpecsFor
  <2> QED BY <1>2, <1>4, <2>1, SpecsAreMade DEF SpecsMade
<1>7. ShelfMade /\ SeenOpened /\ DueRead /\ OnTopics
  BY <1>1, <1>3, <1>4 DEF ShelfMade, SeenOpened, DueRead, OnTopics
<1>8. Carried
  BY <1>1 DEF Carried, NotesOf, OnShelf
<1> QED BY <1>5, <1>6, <1>7, <1>8 DEF RostersInv

LEMMA InvGivesReached == RostersInv => RostersTypeOK /\ DevicesAreReached
<1> SUFFICES ASSUME RostersInv PROVE RostersTypeOK /\ DevicesAreReached
  OBVIOUS
<1>1. RostersTypeOK
  BY DEF RostersInv, RostersShape, RostersTypeOK, IsRoster, IsSession
<1>2. ASSUME NEW s \in shelf, NEW e \in Device \ {s.from}, Owner(e) # Owner(s.from)
      PROVE  /\ listener[e].on /\ ~session[e].unheard /\ s.from \in DOMAIN roster[e] /\ roster[e][s.from] = s.key
                 => Matches(listener[e].open, s)
             /\ s \in session[e].seen => (<<e, s>> \in opened <=> WrittenFor(e, s))
  <2>1. WellMade(s)
    BY DEF RostersInv, ShelfMade
  <2>2. s.from \in Device /\ s.key \in Nat \ {0} /\ s.topic = TopicOf(s.from, s.key)
    BY <2>1 DEF WellMade
  <2>3. OtherUser(s.from) = Owner(e) /\ OtherUser(e) = Owner(s.from)
    <3>1. e \in PeersOf(s.from) /\ s.from \in PeersOf(e)
      BY <1>2, <2>2 DEF PeersOf
    <3>2. \A f \in PeersOf(s.from) : Owner(f) = Owner(e)
      BY <1>2, <2>2, RosterAssumption DEF PeersOf
    <3>3. \A f \in PeersOf(e) : Owner(f) = Owner(s.from)
      BY <1>2, <2>2, RosterAssumption DEF PeersOf
    <3> QED BY <3>1, <3>2, <3>3 DEF OtherUser
  <2>4. SpecOf(e, s.from, s.key).topic = s.topic
    <3>1. Secret(IdentityKey(Owner(e)), DeviceKey(s.from, s.key)) = Secret(DeviceKey(s.from, s.key), IdentityKey(Owner(e)))
      BY DEF Secret
    <3> QED BY <2>2, <2>3, <3>1 DEF SpecOf, TopicOf, SessionTopic, RemotePin
  <2>5. ASSUME listener[e].on, ~session[e].unheard, s.from \in DOMAIN roster[e], roster[e][s.from] = s.key
        PROVE  Matches(listener[e].open, s)
    <3>1. listener[e].open = Specs(e, roster[e])
      BY <2>5 DEF RostersInv, OnTopics
    <3>2. SpecOf(e, s.from, s.key) \in Specs(e, roster[e])
      BY <2>2, <2>5 DEF Specs, Valid
    <3> QED BY <2>4, <3>1, <3>2 DEF Matches
  <2>6. s \in session[e].seen => (<<e, s>> \in opened <=> WrittenFor(e, s))
    BY DEF RostersInv, SeenOpened
  <2> QED BY <2>5, <2>6
<1> QED BY <1>1, <1>2 DEF DevicesAreReached, WrittenFor

LEMMA RostersStep ==
    ASSUME RostersInv, RostersNext
    PROVE  RostersInv' /\ \A n \in dropped' \ dropped : \E d \in Device : LostAt(d, n)
<1>1. PICK d \in Running :
         \/ InitReads(d) \/ OpensTopics(d) \/ ClosesTopics(d)
         \/ \E m \in Note : Submit(d, m)
         \/ \E r \in Rosters(d) : RosterChanges(d, r)
         \/ \E k \in 1..MaxDeviceKeys : StartAgain(d, k)
         \/ \E s \in session[d].due : Respond(d, s)
         \/ \E s \in shelf : Receive(d, s)
  BY DEF RostersNext
<1>2. d \in Device
  BY RosterAssumption
<1>3. CASE \E m \in Note : Submit(d, m)
  BY <1>2, <1>3, SubmitStep
<1>4. CASE InitReads(d)
  BY <1>2, <1>4, InitReadsStep
<1>5. CASE OpensTopics(d) \/ ClosesTopics(d)
  BY <1>2, <1>5, TopicsStep
<1>6. CASE \E r \in Rosters(d) : RosterChanges(d, r)
  BY <1>2, <1>6, RosterChangesStep
<1>7. CASE \E k \in 1..MaxDeviceKeys : StartAgain(d, k)
  BY <1>2, <1>7, StartAgainStep
<1>8. CASE \E s \in session[d].due : Respond(d, s)
  BY <1>2, <1>8, RespondStep
<1>9. CASE \E s \in shelf : Receive(d, s)
  BY <1>2, <1>9, ReceiveStep
<1> QED BY <1>1, <1>3, <1>4, <1>5, <1>6, <1>7, <1>8, <1>9

LEMMA RostersStutter == RostersInv /\ UNCHANGED rosterVars => RostersInv' /\ dropped' = dropped
<1> SUFFICES ASSUME RostersInv, UNCHANGED rosterVars PROVE RostersInv' /\ dropped' = dropped
  OBVIOUS
<1>1. UNCHANGED <<key, roster, listener, session, shelf, opened, dropped, readNotes>>
  BY DEF rosterVars, historyVars
<1>2. ShelfMade'
  BY <1>1, MoreIsRead DEF RostersInv
<1>3. RostersShape' /\ SeenOpened' /\ DueRead'
  BY <1>1 DEF RostersInv, RostersShape, IsRoster, PeersOf, SeenOpened, WrittenFor, DueRead
<1>4. SpecsMade' /\ OnTopics'
  BY <1>1 DEF RostersInv, SpecsMade, SpecsFor, OnTopics, Specs, Valid, SpecOf
<1>5. Carried'
  BY <1>1 DEF RostersInv, Carried, NotesOf, OnShelf, OutgoingTopic
<1> QED BY <1>1, <1>2, <1>3, <1>4, <1>5 DEF RostersInv

\* Whatever the rosters become and whichever device is started again with
\* another key: a listening device is on the topic of every peer its roster
\* knows the key of, and opens exactly what was written for the key it uses;
\* a message nobody has read is lost only by a session that could not open its
\* own request, or whose batch ended on a response to a part of it.
THEOREM RostersAlwaysServed == RostersSpec => RostersAreServed
<1>1. RostersInit => RostersInv
  BY RostersInitInv
<1>2. RostersInv /\ [RostersNext]_rosterVars => RostersInv'
  BY RostersStep, RostersStutter
<1>3. RostersInv => RostersTypeOK /\ DevicesAreReached
  BY InvGivesReached
<1>4. RostersInv /\ [RostersNext]_rosterVars
        => [\A n \in dropped' \ dropped : \E d \in Device : LostAt(d, n)]_rosterVars
  BY RostersStep
<1> QED BY <1>1, <1>2, <1>3, <1>4, PTL DEF RostersSpec, RostersAreServed, NothingIsLostUnseen
=============================================================================
