------------------------ MODULE HostContainerProofs -------------------------
(* The host container: that a slot serves its newest registration, and a      *)
(* gated slot only granted calls; that a failed call gets the error type of   *)
(* its method; that the rate limiter keeps its line in order and its rate;    *)
(* that a connection to a chain is counted by who holds it, and a shared      *)
(* chain of the pool kept while it is: for any methods, calls, budgets,       *)
(* chains, follows and clients.                                               *)
EXTENDS HostCalls, RateLimiter, ChainConnections, ConnectionPool, SequenceTheorems, FiniteSetTheorems, TLAPS

(* What inductiveness adds: a slot's version is that of its last update, so   *)
(* registrations of one method differ in theirs, and the current handler is   *)
(* the one registered with the slot's version.                                *)

SlotType == slot \in [Method -> [current : Registration \cup {None}, version : Nat]]

RegType ==
    /\ reg \in [Registration -> {None} \cup [method : Method, version : Nat, removed : BOOLEAN]]
    /\ \A r \in Registration : reg[r] # None => reg[r].version <= slot[reg[r].method].version

VersionsDiffer ==
    \A r, q \in Registration :
      reg[r] # None /\ reg[q] # None /\ reg[r].method = reg[q].method /\ reg[r].version = reg[q].version => r = q

CurrentIsStamped ==
    \A a \in Method : LET r == slot[a].current IN
      r # None => /\ reg[r] # None /\ reg[r].method = a
                  /\ reg[r].version = slot[a].version /\ ~reg[r].removed

IsNewest(r) ==
    /\ reg[r] # None
    /\ \A q \in Registration :
         reg[q] # None /\ reg[q].method = reg[r].method => reg[q].version <= reg[r].version

NewestIsCurrent ==
    \A r \in Registration : IsNewest(r) /\ ~reg[r].removed => slot[reg[r].method].current = r

SlotsInv == SlotType /\ RegType /\ VersionsDiffer /\ CurrentIsStamped /\ NewestIsCurrent

Fields == {"stage", "method", "tag", "by", "result"}

CallShape == DOMAIN call = Call /\ \A c \in Call : DOMAIN call[c] = Fields

ServedIfGranted == \A c \in Call : call[c].by # None /\ GateOf(call[c].method) # <<>> => c \in granted

NobodyServesYet == \A c \in Call : call[c].stage \in {"idle", "asking"} => call[c].by = None

CallsInv == CallShape /\ ServedIfGranted /\ NobodyServesYet

-----------------------------------------------------------------------------
(* The slots                                                               *)

LEMMA RegisterKeepsSlots ==
    ASSUME SlotsInv, NEW r \in Registration, NEW a \in Method, Register(r, a)
    PROVE  SlotsInv'
<1> DEFINE new == [method |-> a, version |-> slot[a].version + 1, removed |-> FALSE]
<1> USE DEF SlotsInv, SlotType, RegType
<1>1. new \in [method : Method, version : Nat, removed : BOOLEAN] /\ new # None /\ r # None
  <2>1. slot[a].version + 1 \in Nat
    OBVIOUS
  <2>2. new \in [method : Method, version : Nat, removed : BOOLEAN]
    BY <2>1
  <2> HIDE DEF new
  <2> QED BY <2>2, NoneAssumption
<1>2. reg[r] = None /\ reg' = [reg EXCEPT ![r] = new]
  BY DEF Register
<1>3. slot' = [slot EXCEPT ![a] = [current |-> r, version |-> slot[a].version + 1]]
  BY DEF Register
<1>4. reg'[r] = new /\ \A q \in Registration : q # r => reg'[q] = reg[q]
  BY <1>2
<1>5. /\ slot'[a].current = r /\ slot'[a].version = slot[a].version + 1
      /\ \A b \in Method : b # a => slot'[b] = slot[b]
  BY <1>3
<1>6. new.method = a /\ new.version = slot[a].version + 1 /\ new.removed = FALSE
  OBVIOUS
<1> HIDE DEF new
<1>7. SlotType'
  BY <1>3
<1>8. \A q \in Registration : reg[q] # None =>
        /\ reg[q].method \in Method /\ reg[q].version \in Nat
        /\ reg[q].version <= slot[reg[q].method].version
  OBVIOUS
<1>9. \A b \in Method : slot[b].version \in Nat
  OBVIOUS
<1>10. RegType'
  <2>1. reg' \in [Registration -> {None} \cup [method : Method, version : Nat, removed : BOOLEAN]]
    BY <1>1, <1>2
  <2>2. ASSUME NEW q \in Registration, reg'[q] # None PROVE reg'[q].version <= slot'[reg'[q].method].version
    <3>1. CASE q = r
      BY <1>4, <1>5, <1>6, <1>9, <3>1
    <3>2. CASE q # r
      BY <1>4, <1>5, <1>8, <1>9, <2>2, <3>2
    <3> QED BY <3>1, <3>2
  <2> QED BY <2>1, <2>2
<1>11. VersionsDiffer'
  <2>1. \A q \in Registration : q # r /\ reg[q] # None /\ reg[q].method = a => reg[q].version # new.version
    BY <1>6, <1>8, <1>9
  <2> QED BY <1>4, <1>6, <2>1 DEF VersionsDiffer
<1>12. CurrentIsStamped'
  BY <1>1, <1>2, <1>4, <1>5, <1>6 DEF CurrentIsStamped
<1>13. NewestIsCurrent'
  <2> SUFFICES ASSUME NEW q \in Registration, IsNewest(q)', ~reg'[q].removed
               PROVE  slot'[reg'[q].method].current = q
    BY DEF NewestIsCurrent
  <2>1. CASE q = r
    BY <1>4, <1>5, <1>6, <2>1
  <2>2. CASE q # r /\ reg[q].method = a
    BY <1>1, <1>4, <1>6, <1>8, <1>9, <2>2 DEF IsNewest
  <2>3. CASE q # r /\ reg[q].method # a
    <3>1. reg[q] # None /\ reg'[q] = reg[q]
      BY <1>4, <2>3 DEF IsNewest
    <3>2. IsNewest(q)
      BY <1>2, <1>4, <3>1, <2>3 DEF IsNewest
    <3> QED BY <1>5, <1>8, <2>3, <3>1, <3>2 DEF NewestIsCurrent
  <2> QED BY <2>1, <2>2, <2>3
<1> QED BY <1>7, <1>10, <1>11, <1>12, <1>13

LEMMA RemoveKeepsSlots ==
    ASSUME SlotsInv, NEW r \in Registration, RemoveHandler(r)
    PROVE  SlotsInv'
<1> USE DEF SlotsInv, SlotType, RegType
<1>1. /\ reg[r] # None /\ reg[r] \in [method : Method, version : Nat, removed : BOOLEAN]
      /\ reg' = [reg EXCEPT ![r].removed = TRUE]
  BY DEF RemoveHandler
<1> DEFINE a == reg[r].method
<1>2. /\ reg'[r] \in [method : Method, version : Nat, removed : BOOLEAN]
      /\ reg'[r].method = a /\ reg'[r].version = reg[r].version /\ reg'[r].removed
      /\ \A q \in Registration : q # r => reg'[q] = reg[q]
  BY <1>1
<1>3. reg'[r] # None
  BY <1>2, NoneAssumption
<1>4. a \in Method
  BY <1>1
<1>5. slot' = Restored(a, reg[r].version)
  BY DEF RemoveHandler
<1>6. \A q \in Registration : reg[q] # None =>
        /\ reg[q].method \in Method /\ reg[q].version \in Nat
        /\ reg[q].version <= slot[reg[q].method].version
  OBVIOUS
<1>7. \A b \in Method : slot[b].version \in Nat
  OBVIOUS
<1> HIDE DEF a
<1>8. /\ slot'[a].current \in {slot[a].current, None}
      /\ reg[r].version = slot[a].version => slot'[a].current = None /\ slot'[a].version = slot[a].version + 1
      /\ reg[r].version # slot[a].version => slot' = slot
      /\ \A b \in Method : b # a => slot'[b] = slot[b]
      /\ slot' \in [Method -> [current : Registration \cup {None}, version : Nat]]
  BY <1>4, <1>5 DEF Restored
<1>9. \A q \in Registration : (reg'[q] = None <=> reg[q] = None)
        /\ (reg[q] # None => reg'[q].method = reg[q].method /\ reg'[q].version = reg[q].version)
  BY <1>1, <1>2, <1>3 DEF a
<1>10. RegType'
  <2>1. reg' \in [Registration -> {None} \cup [method : Method, version : Nat, removed : BOOLEAN]]
    BY <1>1, <1>2
  <2>2. \A q \in Registration : reg[q] # None => reg[q].version <= slot'[reg[q].method].version
    BY <1>4, <1>6, <1>7, <1>8
  <2> QED BY <1>9, <2>1, <2>2
<1>11. VersionsDiffer'
  BY <1>9 DEF VersionsDiffer
<1>12. CurrentIsStamped'
  <2> SUFFICES ASSUME NEW b \in Method, slot'[b].current # None
               PROVE  LET q == slot'[b].current IN
                      /\ reg'[q] # None /\ reg'[q].method = b
                      /\ reg'[q].version = slot'[b].version /\ ~reg'[q].removed
    BY DEF CurrentIsStamped
  <2> DEFINE q == slot'[b].current
  <2>1. slot'[b] = slot[b] /\ q \in Registration
    BY <1>4, <1>8
  <2>2. reg[q] # None /\ reg[q].method = b /\ reg[q].version = slot[b].version /\ ~reg[q].removed
    BY <2>1 DEF CurrentIsStamped
  <2>3. q # r
    BY <1>4, <1>8, <2>1, <2>2 DEF a
  <2> QED BY <1>2, <2>1, <2>2, <2>3
<1>13. NewestIsCurrent'
  <2> SUFFICES ASSUME NEW q \in Registration, IsNewest(q)', ~reg'[q].removed
               PROVE  slot'[reg'[q].method].current = q
    BY DEF NewestIsCurrent
  <2>1. q # r /\ reg'[q] = reg[q] /\ reg[q] # None /\ ~reg[q].removed
    BY <1>2, <1>9 DEF IsNewest
  <2>2. IsNewest(q)
    BY <1>9, <2>1 DEF IsNewest
  <2>3. slot[reg[q].method].current = q
    BY <2>1, <2>2 DEF NewestIsCurrent
  <2>4. CASE reg[q].method = a /\ reg[r].version = slot[a].version
    <3>1. reg[r].version <= reg[q].version /\ reg[q].version <= reg[r].version
      BY <1>1, <1>6, <2>1, <2>2, <2>4 DEF IsNewest, a
    <3>2. reg[q].version \in Nat /\ reg[r].version \in Nat
      BY <1>1, <1>6, <2>1
    <3> HIDE DEF SlotsInv, SlotType, RegType
    <3>3. reg[q].version = reg[r].version
      BY <3>1, <3>2
    <3> QED BY <1>1, <2>1, <2>4, <3>3 DEF SlotsInv, VersionsDiffer, a
  <2>5. CASE ~(reg[q].method = a /\ reg[r].version = slot[a].version)
    BY <1>6, <1>8, <2>1, <2>3, <2>5
  <2> QED BY <2>4, <2>5
<1> QED BY <1>8, <1>10, <1>11, <1>12, <1>13

\* The pointwise facts give the slot's handler.
LEMMA SlotsInvServes == SlotsInv => NewestServes
<1> SUFFICES ASSUME SlotsInv, NEW a \in Method
             PROVE  LET of == {r \in Registration : reg[r] # None /\ reg[r].method = a}
                        newest == {r \in of : \A q \in of : reg[q].version <= reg[r].version}
                    IN slot[a].current =
                         IF \E r \in newest : ~reg[r].removed THEN CHOOSE r \in newest : TRUE ELSE None
  BY DEF NewestServes
<1> USE DEF SlotsInv, SlotType, RegType
<1> DEFINE of == {r \in Registration : reg[r] # None /\ reg[r].method = a}
           newest == {r \in of : \A q \in of : reg[q].version <= reg[r].version}
<1>1. \A r \in Registration : reg[r] # None => reg[r].version \in Nat
  OBVIOUS
<1>2. \A r \in newest, q \in newest : r = q
  BY <1>1 DEF VersionsDiffer
<1>3. \A r \in newest : IsNewest(r) /\ reg[r].method = a /\ r \in Registration
  BY DEF IsNewest
<1>4. CASE \E r \in newest : ~reg[r].removed
  <2>1. PICK r \in newest : ~reg[r].removed
    BY <1>4
  <2>2. slot[a].current = r
    BY <1>3, <2>1 DEF NewestIsCurrent
  <2>3. (CHOOSE q \in newest : TRUE) = r
    BY <1>2, <2>1
  <2> QED BY <1>4, <2>2, <2>3
<1>5. CASE ~ \E r \in newest : ~reg[r].removed
  <2> SUFFICES ASSUME slot[a].current # None PROVE FALSE
    BY <1>5
  <2> DEFINE r == slot[a].current
  <2>1. /\ r \in Registration /\ reg[r] # None /\ reg[r].method = a
        /\ reg[r].version = slot[a].version /\ ~reg[r].removed
    BY DEF CurrentIsStamped
  <2>2. r \in newest
    BY <2>1
  <2> QED BY <1>5, <2>1, <2>2
<1> QED BY <1>4, <1>5

-----------------------------------------------------------------------------
(* The calls                                                               *)

LEMMA SubscriptionsHaveNoGate ==
    ASSUME NEW a \in SubscriptionSlots
    PROVE  GateOf(a) = <<>>
BY DEF SubscriptionSlots, ServedBy, GateOf

\* What a call keeps of itself when it settles or is served.
LEMMA ServeFacts ==
    ASSUME NEW x, DOMAIN x = Fields
    PROVE  LET y == Serve(x) IN
           /\ DOMAIN y = Fields /\ y.method = x.method
           /\ y.by = x.by \/ slot[x.method].current # None
           /\ y.stage \in {"serving", "settled"}
BY DEF Serve, Settled, Fields

LEMMA EnterFacts ==
    ASSUME NEW x, DOMAIN x = Fields, x.by = None
    PROVE  LET y == Enter(x) IN
           /\ DOMAIN y = Fields /\ y.method = x.method
           /\ GateOf(x.method) # <<>> => y.by = None
           /\ y.stage = "asking" => y.by = None /\ slot[x.method].current # None
           /\ y.stage \in {"serving", "settled", "asking"}
<1>1. CASE GateOf(x.method) = <<>>
  BY <1>1 DEF Enter, Serve, Settled, Fields
<1>2. CASE GateOf(x.method) # <<>> /\ slot[x.method].current = None
  BY <1>2 DEF Enter, Serve, Settled, Fields
<1>3. CASE GateOf(x.method) # <<>> /\ slot[x.method].current # None
  BY <1>3 DEF Enter, Settled, Fields
<1> QED BY <1>1, <1>2, <1>3

\* A step of one call keeps the invariant of all if it keeps that call's.
LEMMA OneCallChanges ==
    ASSUME CallsInv, NEW c \in Call, NEW y, call' = [call EXCEPT ![c] = y],
           granted \subseteq granted',
           DOMAIN y = Fields,
           y.by # None /\ GateOf(y.method) # <<>> => c \in granted',
           y.stage \in {"idle", "asking"} => y.by = None
    PROVE  CallsInv'
<1>1. /\ DOMAIN call' = Call /\ call'[c] = y
      /\ \A d \in Call : d # c => call'[d] = call[d]
  BY DEF CallsInv, CallShape
<1>2. CallShape'
  BY <1>1 DEF CallsInv, CallShape
<1>3. ServedIfGranted'
  BY <1>1 DEF CallsInv, ServedIfGranted
<1>4. NobodyServesYet'
  BY <1>1 DEF CallsInv, NobodyServesYet
<1> QED BY <1>2, <1>3, <1>4 DEF CallsInv

AsksForAHandler ==
    \A c \in Call : call[c].stage = "idle" /\ call'[c].stage = "asking"
                     => slot[call'[c].method].current # None

LEMMA RequestedStep ==
    ASSUME CallsInv, NEW c \in Call, NEW a, NEW tag, Requested(c, a, tag)
    PROVE  CallsInv' /\ AsksForAHandler
<1> DEFINE x == [Idle EXCEPT !.method = a, !.tag = tag]
           y == Enter(x)
<1>1. DOMAIN x = Fields /\ x.by = None
  BY DEF Idle, Fields
<1>2. call' = [call EXCEPT ![c] = y] /\ granted' = granted /\ slot' = slot
  BY DEF Requested
<1> HIDE DEF x
<1>3. /\ DOMAIN y = Fields /\ y.method = x.method
      /\ GateOf(x.method) # <<>> => y.by = None
      /\ y.stage = "asking" => y.by = None /\ slot[x.method].current # None
      /\ y.stage \in {"serving", "settled", "asking"}
  BY <1>1, EnterFacts
<1> HIDE DEF y
<1>4. CallsInv'
  BY <1>2, <1>3, OneCallChanges
<1>5. AsksForAHandler
  <2>1. call'[c] = y /\ \A d \in Call : d # c => call'[d] = call[d]
    BY <1>2 DEF CallsInv, CallShape
  <2> QED BY <1>3, <2>1 DEF AsksForAHandler
<1> QED BY <1>4, <1>5

LEMMA SettledFacts ==
    ASSUME NEW x, DOMAIN x = Fields, NEW answer
    PROVE  LET y == Settled(x, answer) IN
           DOMAIN y = Fields /\ y.method = x.method /\ y.by = x.by /\ y.stage = "settled"
BY DEF Settled, Fields

\* What a handler or a permission does to a call that is under way.
LEMMA HandlerStepKeeps ==
    ASSUME CallsInv, NEW c \in Call, Granted(c) \/ Denied(c) \/ Throws(c) \/ Answers(c) \/ Interrupts(c)
    PROVE  CallsInv' /\ AsksForAHandler
<1> DEFINE x == call[c]
<1>1. DOMAIN x = Fields /\ (x.by # None /\ GateOf(x.method) # <<>> => c \in granted)
  BY DEF CallsInv, CallShape, ServedIfGranted
<1>2. ASSUME NEW y, call' = [call EXCEPT ![c] = y], granted \subseteq granted',
             DOMAIN y = Fields, y.method = x.method, y.stage \in {"serving", "settled"},
             y.by = x.by \/ c \in granted'
      PROVE  CallsInv' /\ AsksForAHandler
  <2>1. CallsInv'
    BY <1>1, <1>2, OneCallChanges
  <2>2. call'[c] = y /\ \A d \in Call : d # c => call'[d] = call[d]
    BY <1>2 DEF CallsInv, CallShape
  <2> QED BY <1>2, <2>1, <2>2 DEF AsksForAHandler
<1> HIDE DEF x
<1>3. CASE Granted(c)
  <2>1. DOMAIN Serve(x) = Fields /\ Serve(x).method = x.method /\ Serve(x).stage \in {"serving", "settled"}
    BY <1>1, ServeFacts
  <2>2. call' = [call EXCEPT ![c] = Serve(x)] /\ granted' = granted \cup {c}
    BY <1>3 DEF Granted, x
  <2> QED BY <1>2, <2>1, <2>2
<1>4. ASSUME NEW answer, call' = [call EXCEPT ![c] = Settled(x, answer)], granted' = granted
      PROVE  CallsInv' /\ AsksForAHandler
  <2>1. LET y == Settled(x, answer) IN
        DOMAIN y = Fields /\ y.method = x.method /\ y.by = x.by /\ y.stage = "settled"
    BY <1>1, SettledFacts
  <2> QED BY <1>2, <1>4, <2>1
<1>5. CASE Denied(c)
  BY <1>4, <1>5 DEF Denied, x
<1>6. CASE Throws(c)
  BY <1>4, <1>6 DEF Throws, x
<1>7. CASE Answers(c)
  BY <1>4, <1>7 DEF Answers, x
<1>8. CASE Interrupts(c)
  <2> DEFINE e == DomainFailure(FoldedInterrupt(x.method, DomainError(x.method, "v1")))
             y == [x EXCEPT !.stage = "settled", !.result = e]
  <2>1. call' = [call EXCEPT ![c] = y] /\ granted' = granted
    BY <1>8 DEF Interrupts, x
  <2>2. DOMAIN y = Fields /\ y.method = x.method /\ y.by = x.by /\ y.stage = "settled"
    BY <1>1 DEF Fields
  <2> QED BY <1>2, <2>1, <2>2
<1> QED BY <1>3, <1>5, <1>6, <1>7, <1>8

LEMMA SubscribeStep ==
    ASSUME CallsInv, NEW c \in Call, NEW a \in Method, Subscribe(c, a)
    PROVE  CallsInv' /\ AsksForAHandler
<1> DEFINE e == DomainFailure(FoldedInterrupt(a, DefaultInterrupt(a)))
           y == IF slot[a].current # None
                  THEN [Idle EXCEPT !.stage = "open", !.method = a, !.by = slot[a].current]
                  ELSE [Idle EXCEPT !.stage = "settled", !.method = a, !.result = e]
<1>1. call' = [call EXCEPT ![c] = y] /\ granted' = granted
  BY DEF Subscribe
<1>2. GateOf(a) = <<>>
  BY SubscriptionsHaveNoGate DEF Subscribe
<1> HIDE DEF e
<1>3. DOMAIN y = Fields /\ y.method = a /\ y.stage \in {"open", "settled"}
  BY DEF Idle, Fields
<1> HIDE DEF y
<1>4. CallsInv'
  BY <1>1, <1>2, <1>3, OneCallChanges
<1>5. call'[c] = y /\ \A d \in Call : d # c => call'[d] = call[d]
  BY <1>1 DEF CallsInv, CallShape
<1> QED BY <1>3, <1>4, <1>5 DEF AsksForAHandler

LEMMA SignHereStep ==
    ASSUME CallsInv, NEW c \in Call, NEW type, NEW s, SignHere(c, type, s)
    PROVE  CallsInv' /\ AsksForAHandler
<1> DEFINE y == [call[c] EXCEPT !.stage = "local", !.result = Value]
<1>1. call' = [call EXCEPT ![c] = y] /\ granted' = granted /\ call[c] = Idle
  BY DEF SignHere
<1>2. DOMAIN y = Fields /\ y.by = None /\ y.stage = "local"
  BY <1>1 DEF Idle, Fields
<1> HIDE DEF y
<1>3. CallsInv'
  BY <1>1, <1>2, OneCallChanges
<1>4. call'[c] = y /\ \A d \in Call : d # c => call'[d] = call[d]
  BY <1>1 DEF CallsInv, CallShape
<1> QED BY <1>2, <1>3, <1>4 DEF AsksForAHandler

-----------------------------------------------------------------------------

LEMMA CallsInitInv == CallsInit => SlotsInv /\ CallsInv
<1> SUFFICES ASSUME CallsInit PROVE SlotsInv /\ CallsInv
  OBVIOUS
<1>1. SlotType /\ RegType /\ VersionsDiffer /\ CurrentIsStamped /\ NewestIsCurrent
  BY DEF CallsInit, SlotType, RegType, VersionsDiffer, CurrentIsStamped, NewestIsCurrent, IsNewest
<1>2. CallShape /\ ServedIfGranted /\ NobodyServesYet
  BY DEF CallsInit, Idle, Fields, CallShape, ServedIfGranted, NobodyServesYet
<1> QED BY <1>1, <1>2 DEF SlotsInv, CallsInv

LEMMA CallsStep ==
    ASSUME SlotsInv, CallsInv, [CallsNext]_callsVars
    PROVE  SlotsInv' /\ CallsInv' /\ (AsksForAHandler \/ UNCHANGED callsVars)
<1>1. ASSUME UNCHANGED <<slot, reg>> PROVE SlotsInv'
  BY <1>1 DEF SlotsInv, SlotType, RegType, VersionsDiffer, CurrentIsStamped, NewestIsCurrent,
              IsNewest
<1>2. ASSUME UNCHANGED <<call, granted>> PROVE CallsInv' /\ AsksForAHandler
  BY <1>2 DEF CallsInv, CallShape, ServedIfGranted, NobodyServesYet, AsksForAHandler
<1>3. ASSUME NEW r \in Registration, RemoveHandler(r) PROVE SlotsInv' /\ CallsInv' /\ AsksForAHandler
  BY <1>2, <1>3, RemoveKeepsSlots DEF RemoveHandler
<1>4. ASSUME NEW r \in Registration, NEW a \in Method, Register(r, a)
      PROVE  SlotsInv' /\ CallsInv' /\ AsksForAHandler
  BY <1>2, <1>4, RegisterKeepsSlots DEF Register
<1>5. ASSUME NEW c \in Call, NEW a \in Method, Request_(c, a)
      PROVE  SlotsInv' /\ CallsInv' /\ AsksForAHandler
  BY <1>1, <1>5, RequestedStep DEF Request_, Requested
<1>6. ASSUME NEW c \in Call, NEW a \in Method, Subscribe(c, a)
      PROVE  SlotsInv' /\ CallsInv' /\ AsksForAHandler
  BY <1>1, <1>6, SubscribeStep DEF Subscribe
<1>7. ASSUME NEW c \in Call, NEW type, NEW s, Sign(c, type, s)
      PROVE  SlotsInv' /\ CallsInv' /\ AsksForAHandler
  BY <1>1, <1>7, RequestedStep DEF Sign, Requested
<1>8. ASSUME NEW c \in Call, NEW type, NEW s, SignHere(c, type, s)
      PROVE  SlotsInv' /\ CallsInv' /\ AsksForAHandler
  BY <1>1, <1>8, SignHereStep DEF SignHere
<1>9. ASSUME NEW c \in Call, Granted(c) \/ Denied(c) \/ Throws(c) \/ Answers(c) \/ Interrupts(c)
      PROVE  SlotsInv' /\ CallsInv' /\ AsksForAHandler
  BY <1>1, <1>9, HandlerStepKeeps DEF Granted, Denied, Throws, Answers, Interrupts
<1>10. CASE UNCHANGED callsVars
  BY <1>1, <1>2, <1>10 DEF callsVars
<1> QED BY <1>3, <1>4, <1>5, <1>6, <1>7, <1>8, <1>9, <1>10 DEF CallsNext, HandlerStep

\* The strengthened invariants hold of every behaviour of the container.
THEOREM CallsInvariant == CallsSpec => [](SlotsInv /\ CallsInv)
<1>1. CallsInit => SlotsInv /\ CallsInv
  BY CallsInitInv
<1>2. (SlotsInv /\ CallsInv) /\ [CallsNext]_callsVars => (SlotsInv /\ CallsInv)'
  BY CallsStep
<1> QED BY <1>1, <1>2, PTL DEF CallsSpec

\* A slot is served by its newest registration, whatever order registrations
\* and their removers come in, and the handler of a gated method runs only for
\* calls that were granted (createContainer.ts:180-223).
THEOREM SlotsAlwaysServe == CallsSpec => SlotsServe
<1>1. SlotsInv => NewestServes
  BY SlotsInvServes
<1>2. CallsInv => \A c \in Call : call[c].by # None /\ GateOf(call[c].method) # <<>> => c \in granted
  BY DEF CallsInv, ServedIfGranted
<1>3. (SlotsInv /\ CallsInv) /\ [CallsNext]_callsVars =>
        [\A c \in Call : call[c].stage = "idle" /\ call'[c].stage = "asking"
                            => slot[call'[c].method].current # None]_callsVars
  BY CallsStep DEF AsksForAHandler
<1> QED BY <1>1, <1>2, <1>3, CallsInvariant, PTL DEF CallsSpec, SlotsServe, GrantedFirst

-----------------------------------------------------------------------------
(* One error type                                                          *)
(* What inductiveness adds: a call under way is one the host API offers, in *)
(* a version the method has; one that asks is of a gated method; an open    *)
(* subscription is of a method that subscribes.                            *)

Offered(a, tag) == a \in RequestSlots \cap ProductRequests /\ tag \in DOMAIN Definition(a).error

FailsInKind(x) == x.stage = "settled" /\ ~x.result.ok => x.result.error = DomainError(x.method, x.tag)

CallInKind(x) ==
    /\ x.stage \in {"asking", "serving"} => Offered(x.method, x.tag)
    /\ x.stage = "asking" => GateOf(x.method) # <<>>
    /\ x.stage = "open" => x.method \in SubscriptionSlots /\ x.tag = "v1"
    /\ FailsInKind(x)

CallsInKind == \A c \in Call : CallInKind(call[c])

HasV1(trait) == \A m \in DOMAIN trait.methods : "v1" \in DOMAIN trait.methods[m].error

\* Every method has a first version.
LEMMA EveryMethodHasV1 == \A t \in DOMAIN HostApiProtocol : HasV1(HostApiProtocol[t])
<1> USE DEF Trait, HasV1, Request, Internal, Subscription, HostSubscription
<1>1. HasV1(SystemTrait)
  BY DEF SystemTrait
<1>2. HasV1(AccountTrait)
  BY DEF AccountTrait
<1>3. HasV1(ChainTrait)
  BY DEF ChainTrait
<1>4. HasV1(ChatTrait)
  BY DEF ChatTrait
<1>5. HasV1(CoinPaymentTrait)
  BY DEF CoinPaymentTrait
<1>6. HasV1(StorageTraits.entropy)
  BY DEF StorageTraits
<1>7. HasV1(StorageTraits.localStorage)
  BY DEF StorageTraits, Versions
<1>8. HasV1(StorageTraits.notifications)
  BY DEF StorageTraits
<1>9. HasV1(StorageTraits.payment)
  BY DEF StorageTraits
<1>10. HasV1(SigningTraits.permissions)
  BY DEF SigningTraits
<1>11. HasV1(SigningTraits.preimage)
  BY DEF SigningTraits
<1>12. HasV1(SigningTraits.resourceAllocation)
  BY DEF SigningTraits
<1>13. HasV1(SigningTraits.signing)
  BY DEF SigningTraits
<1>14. HasV1(StatementTraits.statementStore)
  BY DEF StatementTraits
<1>15. HasV1(StatementTraits.theme)
  BY DEF StatementTraits
<1>16. HasV1(StatementTraits.locale)
  BY DEF StatementTraits
<1>17. HasV1(StatementTraits.renderer)
  BY DEF StatementTraits
<1>18. HasV1(StatementTraits.pocket)
  BY DEF StatementTraits
<1>19. HasV1(StatementTraits.worker)
  BY DEF StatementTraits
<1>20. HasV1(StatementTraits.contacts)
  BY DEF StatementTraits
<1> HIDE DEF HasV1
<1> QED BY <1>1, <1>2, <1>3, <1>4, <1>5, <1>6, <1>7, <1>8, <1>9, <1>10,
          <1>11, <1>12, <1>13, <1>14, <1>15, <1>16, <1>17, <1>18, <1>19, <1>20 DEF HostApiProtocol

LEMMA MethodHasV1 == ASSUME NEW a \in Methods PROVE "v1" \in DOMAIN Definition(a).error
<1>1. PICK t \in DOMAIN HostApiProtocol : a \in MethodsOf(t)
  BY DEF Methods
<1>2. PICK m \in DOMAIN HostApiProtocol[t].methods : a = <<t, m>>
  BY <1>1 DEF MethodsOf
<1> QED BY <1>1, <1>2, EveryMethodHasV1 DEF HasV1, Definition

\* The one method of two versions, and the two gated ones with an error of
\* their own.
LEMMA ErrorsByName ==
    /\ Definition(<<"localStorage", "read">>).error = [v1 |-> "StorageErr", v2 |-> "StorageReadV2Err"]
    /\ Definition(<<"notifications", "sendPushNotification">>).error = [v1 |-> "PushNotificationError"]
    /\ Definition(<<"preimage", "submit">>).error = [v1 |-> "PreimageSubmitErr"]
<1>1. /\ HostApiProtocol["localStorage"] = StorageTraits["localStorage"]
      /\ HostApiProtocol["notifications"] = StorageTraits["notifications"]
      /\ HostApiProtocol["preimage"] = SigningTraits["preimage"]
  BY DEF HostApiProtocol
<1>2. Definition(<<"localStorage", "read">>).error = [v1 |-> "StorageErr", v2 |-> "StorageReadV2Err"]
  BY <1>1 DEF Definition, StorageTraits, Trait, Versions, Request
<1>3. Definition(<<"notifications", "sendPushNotification">>).error = [v1 |-> "PushNotificationError"]
  BY <1>1 DEF Definition, StorageTraits, Trait, Request
<1>4. Definition(<<"preimage", "submit">>).error = [v1 |-> "PreimageSubmitErr"]
  BY <1>1 DEF Definition, SigningTraits, Trait, Request
<1> QED BY <1>2, <1>3, <1>4

\* Below the domain layer a call fails as in it, in each version of a method; one
\* method only has two.
LEMMA OfferedErrors ==
    ASSUME TablesAgree, NEW a, NEW tag, Offered(a, tag)
    PROVE  /\ FallbackError(a, tag) = DomainError(a, tag)
           /\ Downgraded(a, tag, LatestError(a)) = DomainError(a, tag)
<1>1. a \in ProductRequests /\ tag \in DOMAIN Definition(a).error
  BY DEF Offered
<1>2. \A v \in DOMAIN Definition(a).error : FallbackError(a, v) = DomainError(a, v)
  BY <1>1 DEF TablesAgree
<1>3. "v1" \in DOMAIN Definition(a).error
  BY <1>1, MethodHasV1 DEF ProductRequests
<1>4. FallbackError(a, tag) = DomainError(a, tag) /\ FallbackError(a, "v1") = DomainError(a, "v1")
  BY <1>1, <1>2, <1>3
<1>5. CASE a = <<"localStorage", "read">>
  <2>1. tag \in {"v1", "v2"}
    BY <1>1, <1>5, ErrorsByName
  <2> QED BY <1>4, <1>5, <2>1 DEF FallbackError, Downgraded, LatestError
<1>6. CASE a # <<"localStorage", "read">>
  BY <1>4, <1>6 DEF FallbackError, Downgraded, LatestError
<1> QED BY <1>4, <1>5, <1>6

\* A call that is not permitted fails as the method does.
LEMMA DenialInKind ==
    ASSUME TablesAgree, NEW a, NEW tag, Offered(a, tag), GateOf(a) # <<>>
    PROVE  DenialError(a) = DomainError(a, tag)
<1>1. a \in RequestSlots /\ tag \in DOMAIN Definition(a).error /\ FallbackError(a, tag) = DomainError(a, tag)
  BY OfferedErrors DEF Offered
<1>2. a[1] = "notifications" \/ a \in {<<"preimage", "submit">>, <<"statementStore", "submit">>}
  BY DEF GateOf
<1>3. a[1] = "notifications" => a \in ServedBy("notifications", {"sendPushNotification", "cancelPushNotification"})
  BY <1>1 DEF RequestSlots, ServedBy
<1>4. a \in {<<"notifications", "sendPushNotification">>, <<"notifications", "cancelPushNotification">>,
             <<"preimage", "submit">>, <<"statementStore", "submit">>}
  BY <1>2, <1>3 DEF ServedBy
<1>5. CASE a = <<"notifications", "sendPushNotification">>
  BY <1>1, <1>5, ErrorsByName DEF DenialError, DomainError
<1>6. CASE a = <<"preimage", "submit">>
  BY <1>1, <1>6, ErrorsByName DEF DenialError, DomainError
<1>7. CASE a \in {<<"notifications", "cancelPushNotification">>, <<"statementStore", "submit">>}
  <2>1. a \in GenericFallback /\ a # <<"localStorage", "read">>
    BY <1>7 DEF GenericFallback
  <2>2. FallbackError(a, tag) = "GenericError"
    BY <2>1 DEF FallbackError
  <2> QED BY <1>1, <1>7, <2>2 DEF DenialError
<1> QED BY <1>4, <1>5, <1>6, <1>7

\* So does a subscription nobody serves, and one whose handler interrupts it.
LEMMA InterruptInKind ==
    ASSUME TablesAgree, NEW a \in SubscriptionSlots
    PROVE  /\ FoldedInterrupt(a, DefaultInterrupt(a)) = DomainError(a, "v1")
           /\ FoldedInterrupt(a, DomainError(a, "v1")) = DomainError(a, "v1")
<1>1. SubscriptionFallback(a) = DomainError(a, "v1")
  BY DEF TablesAgree
<1>2. DefaultInterrupt(a) \in {"Unsupported", SubscriptionFallback(a)}
  <2>1. CASE a[1] = "coinPayment"
    BY <2>1 DEF DefaultInterrupt, SubscriptionFallback
  <2>2. CASE a[1] # "coinPayment" /\ a = <<"payment", "balanceSubscribe">>
    BY <2>2 DEF DefaultInterrupt, SubscriptionFallback
  <2>3. CASE a[1] # "coinPayment" /\ a = <<"payment", "statusSubscribe">>
    BY <2>3 DEF DefaultInterrupt, SubscriptionFallback
  <2>4. CASE a[1] # "coinPayment" /\ a = <<"payment", "topUpStatusSubscribe">>
    BY <2>4 DEF DefaultInterrupt, SubscriptionFallback
  <2>5. CASE /\ a[1] # "coinPayment" /\ a # <<"payment", "balanceSubscribe">>
             /\ a # <<"payment", "statusSubscribe">> /\ a # <<"payment", "topUpStatusSubscribe">>
    BY <2>5 DEF DefaultInterrupt
  <2> QED BY <2>1, <2>2, <2>3, <2>4, <2>5
<1> QED BY <1>1, <1>2 DEF FoldedInterrupt

\* A call that settles with an error of its method, or below its domain.
LEMMA SettledInKind ==
    ASSUME TablesAgree, NEW x, DOMAIN x = Fields, Offered(x.method, x.tag),
           NEW answer,
           answer.ok \/ answer.error \in {"Unsupported", "HostFailure", DomainError(x.method, x.tag)}
    PROVE  CallInKind(Settled(x, answer))
<1> DEFINE d == DomainError(x.method, x.tag)
           y == Settled(x, answer)
<1>1. FallbackError(x.method, x.tag) = d
  BY OfferedErrors
<1>2. /\ y.stage = "settled" /\ y.method = x.method /\ y.tag = x.tag
      /\ y.result = Folded(x.method, x.tag, answer)
  BY DEF Settled, Fields
<1> HIDE DEF d, y
<1>3. LET f == Folded(x.method, x.tag, answer) IN ~f.ok => f.error = d
  BY <1>1 DEF Folded, DomainFailure, d
<1> QED BY <1>2, <1>3 DEF CallInKind, FailsInKind, d, y

LEMMA ServeInKind ==
    ASSUME TablesAgree, NEW x, DOMAIN x = Fields, Offered(x.method, x.tag)
    PROVE  CallInKind(Serve(x))
<1>1. CASE slot[x.method].current = None
  <2> DEFINE answer == DomainFailure("Unsupported")
  <2>1. answer.error = "Unsupported"
    BY DEF DomainFailure
  <2> HIDE DEF answer
  <2>2. CallInKind(Settled(x, answer))
    BY <2>1, SettledInKind
  <2> QED BY <1>1, <2>2 DEF Serve, answer
<1>2. CASE slot[x.method].current # None
  <2> DEFINE y == [x EXCEPT !.stage = "serving", !.by = slot[x.method].current]
  <2>1. y.stage = "serving" /\ y.method = x.method /\ y.tag = x.tag
    BY DEF Fields
  <2>2. Serve(x) = y
    BY <1>2 DEF Serve
  <2> HIDE DEF y
  <2> QED BY <2>1, <2>2 DEF CallInKind, FailsInKind
<1> QED BY <1>1, <1>2

LEMMA DenialSettles ==
    ASSUME TablesAgree, NEW x, DOMAIN x = Fields, Offered(x.method, x.tag), GateOf(x.method) # <<>>
    PROVE  CallInKind(Settled(x, DomainFailure(DenialError(x.method))))
<1> DEFINE answer == DomainFailure(DenialError(x.method))
<1>1. answer.error = DomainError(x.method, x.tag)
  BY DenialInKind DEF DomainFailure
<1> HIDE DEF answer
<1>2. CallInKind(Settled(x, answer))
  BY <1>1, SettledInKind
<1> QED BY <1>2 DEF answer

LEMMA EnterInKind ==
    ASSUME TablesAgree, NEW x, DOMAIN x = Fields, Offered(x.method, x.tag)
    PROVE  CallInKind(Enter(x))
<1>1. CASE GateOf(x.method) = <<>> \/ slot[x.method].current = None
  BY <1>1, ServeInKind DEF Enter
<1>2. CASE GateOf(x.method) # <<>> /\ slot[x.method].current # None
  <2>1. CASE slot[GateOf(x.method)].current = None
    BY <1>2, <2>1, DenialSettles DEF Enter
  <2>2. CASE slot[GateOf(x.method)].current # None
    <3> DEFINE y == [x EXCEPT !.stage = "asking"]
    <3>1. y.stage = "asking" /\ y.method = x.method /\ y.tag = x.tag
      BY DEF Fields
    <3>2. Enter(x) = y
      BY <1>2, <2>2 DEF Enter
    <3> HIDE DEF y
    <3> QED BY <1>2, <3>1, <3>2 DEF CallInKind, FailsInKind
  <2> QED BY <2>1, <2>2
<1> QED BY <1>1, <1>2

LEMMA OneCallInKind ==
    ASSUME CallsInv, CallsInKind, NEW c \in Call, NEW y, call' = [call EXCEPT ![c] = y], CallInKind(y)
    PROVE  CallsInKind'
<1>1. call'[c] = y /\ \A d \in Call : d # c => call'[d] = call[d]
  BY DEF CallsInv, CallShape
<1>2. ASSUME NEW d \in Call PROVE CallInKind(call'[d])
  BY <1>1 DEF CallsInKind
<1> HIDE DEF CallInKind
<1> QED BY <1>2 DEF CallsInKind

\* What a signer asks is a request the host API offers.
LEMMA SignerOffered ==
    ASSUME TablesAgree, NEW type \in SignerTypes, NEW s \in Signatures
    PROVE  Offered(Signer(type, s), "v1")
<1> DEFINE a == Signer(type, s)
<1>1. a \in {"signing"} \X {"createTransaction", "createTransactionWithLegacyAccount",
           "signRawWithLegacyAccount", "signPayloadWithLegacyAccount", "signRaw", "signPayload",
           "signRawUnwatermarkedDeprecatedWithLegacyAccount"}
  BY DEF Signer, LegacySigner, InjectedSigner, ProductSigner, UnwatermarkedFunctions, Of
<1>2. a \in WrappedMethods
  BY DEF WrappedMethods
<1> HIDE DEF a
<1>3. a \in RequestSlots
  BY <1>1 DEF RequestSlots, ServedBy
<1>4. a \in Methods /\ Definition(a).kind = "request" /\ ~Definition(a).internal
  BY <1>2, <1>3 DEF TablesAgree
<1>5. a \in ProductRequests /\ "v1" \in DOMAIN Definition(a).error
  BY <1>4, MethodHasV1 DEF ProductRequests
<1> QED BY <1>3, <1>5 DEF Offered, a

LEMMA RequestedInKind ==
    ASSUME TablesAgree, CallsInv, CallsInKind, NEW c \in Call, NEW a, NEW tag, Offered(a, tag),
           Requested(c, a, tag)
    PROVE  CallsInKind'
<1> DEFINE x == [Idle EXCEPT !.method = a, !.tag = tag]
<1>1. DOMAIN x = Fields /\ x.method = a /\ x.tag = tag
  BY DEF Idle, Fields
<1>2. call' = [call EXCEPT ![c] = Enter(x)]
  BY DEF Requested
<1> HIDE DEF x
<1>3. CallInKind(Enter(x))
  BY <1>1, EnterInKind
<1> QED BY <1>2, <1>3, OneCallInKind

LEMMA RequestInKind ==
    ASSUME TablesAgree, CallsInv, CallsInKind, NEW c \in Call, NEW a, Request_(c, a)
    PROVE  CallsInKind'
<1>1. PICK tag \in DOMAIN Definition(a).error : Requested(c, a, tag)
  BY DEF Request_
<1>2. a \in RequestSlots /\ ~Definition(a).internal
  BY DEF Request_
<1>3. Offered(a, tag)
  BY <1>2 DEF TablesAgree, ProductRequests, Offered
<1> QED BY <1>1, <1>3, RequestedInKind

LEMMA SubscribeInKind ==
    ASSUME TablesAgree, CallsInv, CallsInKind, NEW c \in Call, NEW a, Subscribe(c, a)
    PROVE  CallsInKind'
<1> DEFINE e == FoldedInterrupt(a, DefaultInterrupt(a))
           running == [Idle EXCEPT !.stage = "open", !.method = a, !.by = slot[a].current]
           refused == [Idle EXCEPT !.stage = "settled", !.method = a, !.result = DomainFailure(e)]
<1>1. a \in SubscriptionSlots
      /\ call' = [call EXCEPT ![c] = IF slot[a].current # None THEN running ELSE refused]
  BY DEF Subscribe
<1>2. e = DomainError(a, "v1")
  BY <1>1, InterruptInKind
<1> HIDE DEF e
<1>3. CallInKind(running)
  BY <1>1 DEF Idle, CallInKind, FailsInKind
<1>4. refused.stage = "settled" /\ refused.method = a /\ refused.tag = "v1" /\ refused.result.error = e
  BY DEF Idle, DomainFailure
<1> HIDE DEF running, refused
<1>5. CallInKind(refused)
  BY <1>2, <1>4 DEF CallInKind, FailsInKind
<1> QED BY <1>1, <1>3, <1>5, OneCallInKind

\* What the application's handlers do.
LEMMA HandlerInKind ==
    ASSUME TablesAgree, CallsInv, CallsInKind, NEW c \in Call,
           Granted(c) \/ Denied(c) \/ Throws(c) \/ Answers(c) \/ Interrupts(c)
    PROVE  CallsInKind'
<1> DEFINE x == call[c]
<1>1. DOMAIN x = Fields
  BY DEF CallsInv, CallShape
<1>2. CallInKind(x)
  BY DEF CallsInKind
<1> HIDE DEF x
<1>3. CASE Granted(c)
  <2>1. call' = [call EXCEPT ![c] = Serve(x)] /\ x.stage = "asking"
    BY <1>3 DEF Granted, x
  <2>2. CallInKind(Serve(x))
    BY <1>1, <1>2, <2>1, ServeInKind DEF CallInKind
  <2> QED BY <2>1, <2>2, OneCallInKind
<1>4. CASE Denied(c)
  <2>1. call' = [call EXCEPT ![c] = Settled(x, DomainFailure(DenialError(x.method)))] /\ x.stage = "asking"
    BY <1>4 DEF Denied, x
  <2>2. CallInKind(Settled(x, DomainFailure(DenialError(x.method))))
    BY <1>1, <1>2, <2>1, DenialSettles DEF CallInKind
  <2> QED BY <2>1, <2>2, OneCallInKind
<1>5. CASE Throws(c)
  <2> DEFINE answer == DomainFailure("HostFailure")
  <2>1. call' = [call EXCEPT ![c] = Settled(x, answer)] /\ x.stage \in {"asking", "serving"}
    BY <1>5 DEF Throws, x
  <2>2. answer.error = "HostFailure"
    BY DEF DomainFailure
  <2> HIDE DEF answer
  <2>3. Offered(x.method, x.tag)
    BY <1>2, <2>1 DEF CallInKind
  <2>4. CallInKind(Settled(x, answer))
    BY <1>1, <2>2, <2>3, SettledInKind
  <2> QED BY <2>1, <2>4, OneCallInKind
<1>6. CASE Answers(c)
  <2>1. Offered(x.method, x.tag)
    BY <1>2, <1>6 DEF Answers, CallInKind, x
  <2>2. Downgraded(x.method, x.tag, LatestError(x.method)) = DomainError(x.method, x.tag)
    BY <2>1, OfferedErrors
  <2>3. PICK answer \in {Value, DomainFailure(Downgraded(x.method, x.tag, LatestError(x.method)))} :
          call' = [call EXCEPT ![c] = Settled(x, answer)]
    BY <1>6 DEF Answers, x
  <2>4. answer.ok \/ answer.error = DomainError(x.method, x.tag)
    BY <2>2, <2>3 DEF Value, DomainFailure
  <2>5. CallInKind(Settled(x, answer))
    BY <1>1, <2>1, <2>4, SettledInKind
  <2> QED BY <2>3, <2>5, OneCallInKind
<1>7. CASE Interrupts(c)
  <2> DEFINE e == FoldedInterrupt(x.method, DomainError(x.method, "v1"))
             y == [x EXCEPT !.stage = "settled", !.result = DomainFailure(e)]
  <2>1. call' = [call EXCEPT ![c] = y] /\ x.stage = "open"
    BY <1>7 DEF Interrupts, x
  <2>2. x.method \in SubscriptionSlots /\ x.tag = "v1"
    BY <1>2, <2>1 DEF CallInKind
  <2>3. e = DomainError(x.method, "v1")
    BY <2>2, InterruptInKind
  <2> HIDE DEF e
  <2>4. y.stage = "settled" /\ y.method = x.method /\ y.tag = x.tag /\ y.result.error = e
    BY <1>1 DEF Fields, DomainFailure
  <2> HIDE DEF y
  <2>5. CallInKind(y)
    BY <2>2, <2>3, <2>4 DEF CallInKind, FailsInKind
  <2> QED BY <2>1, <2>5, OneCallInKind
<1> QED BY <1>3, <1>4, <1>5, <1>6, <1>7

LEMMA SignHereInKind ==
    ASSUME CallsInv, CallsInKind, NEW c \in Call, NEW type, NEW s, SignHere(c, type, s)
    PROVE  CallsInKind'
<1> DEFINE y == [call[c] EXCEPT !.stage = "local", !.result = Value]
<1>1. call' = [call EXCEPT ![c] = y] /\ call[c] = Idle
  BY DEF SignHere
<1>2. y.stage = "local"
  BY <1>1 DEF Idle
<1> HIDE DEF y
<1>3. CallInKind(y)
  BY <1>2 DEF CallInKind, FailsInKind
<1> QED BY <1>1, <1>3, OneCallInKind

LEMMA CallsInKindStep ==
    ASSUME TablesAgree, CallsInv, CallsInKind, [CallsNext]_callsVars
    PROVE  CallsInKind'
<1>1. ASSUME UNCHANGED call PROVE CallsInKind'
  BY <1>1 DEF CallsInKind, CallInKind, FailsInKind
<1>2. ASSUME NEW r \in Registration, RemoveHandler(r) PROVE CallsInKind'
  BY <1>1, <1>2 DEF RemoveHandler
<1>3. ASSUME NEW r \in Registration, NEW a \in Method, Register(r, a) PROVE CallsInKind'
  BY <1>1, <1>3 DEF Register
<1>4. ASSUME NEW c \in Call, NEW a \in Method, Request_(c, a) PROVE CallsInKind'
  BY <1>4, RequestInKind
<1>5. ASSUME NEW c \in Call, NEW a \in Method, Subscribe(c, a) PROVE CallsInKind'
  BY <1>5, SubscribeInKind
<1>6. ASSUME NEW c \in Call, NEW type \in SignerTypes, NEW s \in Signatures, Sign(c, type, s)
      PROVE  CallsInKind'
  <2>1. Offered(Signer(type, s), "v1")
    BY SignerOffered
  <2> QED BY <1>6, <2>1, RequestedInKind DEF Sign
<1>7. ASSUME NEW c \in Call, NEW type, NEW s, SignHere(c, type, s) PROVE CallsInKind'
  BY <1>7, SignHereInKind
<1>8. ASSUME NEW c \in Call, Granted(c) \/ Denied(c) \/ Throws(c) \/ Answers(c) \/ Interrupts(c)
      PROVE  CallsInKind'
  BY <1>8, HandlerInKind
<1>9. CASE UNCHANGED callsVars
  BY <1>1, <1>9 DEF callsVars
<1> QED BY <1>2, <1>3, <1>4, <1>5, <1>6, <1>7, <1>8, <1>9 DEF CallsNext, HandlerStep

\* OneErrorType, in every state: however a call fails, the product gets the error
\* type of its method, in the version of the call (hostApi.ts:145-147).  That the
\* tables agree depends on no constant; TLC evaluates it in full.
THEOREM OneErrorAlways == TablesAgree => (CallsSpec => []OneErrorType)
<1> SUFFICES ASSUME TablesAgree PROVE CallsSpec => []OneErrorType
  OBVIOUS
<1>1. CallsInit => CallsInKind
  BY DEF CallsInit, Idle, CallsInKind, CallInKind, FailsInKind
<1>2. CallsInKind /\ CallsInv /\ [CallsNext]_callsVars => CallsInKind'
  BY CallsInKindStep
<1>3. CallsInKind => OneErrorType
  BY DEF CallsInKind, CallInKind, FailsInKind, OneErrorType
<1>4. CallsSpec => [](SlotsInv /\ CallsInv)
  BY CallsInvariant
<1> QED BY <1>1, <1>2, <1>3, <1>4, PTL DEF CallsSpec

-----------------------------------------------------------------------------
(* What inductiveness adds: the calls of the quarters after the last refill   *)
(* are paid from it, and all others of an interval from the refill before;    *)
(* and a call not made yet is later than every call made.                     *)

Kept ==
    /\ recent \in [1..Interval -> Nat]
    /\ task \in [Task -> {"idle", "queued", "ran", "dropped"}]

PaidFromRefill ==
    /\ tokens <= Budget
    /\ age >= 1 => recent[1] + tokens <= Budget
    /\ age >= 2 => recent[1] + recent[2] + tokens <= Budget
    /\ age >= 3 => recent[1] + recent[2] + recent[3] + tokens <= Budget
    /\ age >= 4 => recent[1] + recent[2] + recent[3] + recent[4] + tokens <= Budget

PaidFromTwo == recent[1] + recent[2] + recent[3] + recent[4] + tokens <= 2 * Budget

LineIsExact == ToSet(queue) = {c \in Task : task[c] = "queued"} /\ IsInjective(queue)

NumberedAsMade == \A d, c \in Task : d < c /\ task[c] # "idle" => task[d] # "idle"

LimiterIInv ==
    /\ LimiterTypeOK /\ Kept /\ PaidFromRefill /\ PaidFromTwo
    /\ LineIsExact /\ (queue # <<>> => timer # NoTimer)
    /\ FirstComeFirstServed /\ NumberedAsMade

-----------------------------------------------------------------------------
(* Spending n tokens, after a refill if one is due.                          *)

LEMMA SpendingIsPaid ==
    ASSUME LimiterIInv, NEW n \in Nat, n <= Refilled, Spends(n)
    PROVE  /\ tokens' \in 0..Budget /\ age' \in 0..Interval /\ recent' \in [1..Interval -> Nat]
           /\ PaidFromRefill' /\ PaidFromTwo'
<1>1. /\ recent' \in [1..4 -> Nat]
      /\ recent'[1] = recent[1] + n
      /\ recent'[2] = recent[2] /\ recent'[3] = recent[3] /\ recent'[4] = recent[4]
  BY DEF Spends, LimiterIInv, Kept, Interval
<1>2. /\ recent[1] \in Nat /\ recent[2] \in Nat /\ recent[3] \in Nat /\ recent[4] \in Nat
      /\ tokens \in 0..Budget /\ age \in 0..4 /\ Budget \in Nat
  BY RateAssumption DEF LimiterIInv, LimiterTypeOK, Kept, Interval
<1>3. PaidFromRefill /\ PaidFromTwo
  BY DEF LimiterIInv
<1>4. CASE age = 4
  <2>1. tokens' = Budget - n /\ age' = 0 /\ n <= Budget
    BY <1>2, <1>4 DEF Spends, Refilled, Interval
  <2>2. recent[1] + recent[2] + recent[3] + recent[4] + tokens <= Budget
    BY <1>2, <1>3, <1>4 DEF PaidFromRefill
  <2>3. PaidFromRefill'
    BY <1>2, <2>1 DEF PaidFromRefill
  <2>4. PaidFromTwo'
    BY <1>1, <1>2, <2>1, <2>2 DEF PaidFromTwo
  <2> QED BY <1>1, <1>2, <2>1, <2>3, <2>4 DEF Interval
<1>5. CASE age \in 0..3
  <2>1. tokens' = tokens - n /\ age' = age /\ n <= tokens
    BY <1>2, <1>5 DEF Spends, Refilled, Interval
  <2>2. PaidFromRefill'
    BY <1>1, <1>2, <1>3, <1>5, <2>1 DEF PaidFromRefill
  <2>3. PaidFromTwo'
    BY <1>1, <1>2, <1>3, <2>1 DEF PaidFromTwo
  <2> QED BY <1>1, <1>2, <2>1, <2>2, <2>3 DEF Interval
<1> QED BY <1>2, <1>4, <1>5

\* A call joins the line at its end.
LEMMA JoiningKeepsTheLine ==
    ASSUME LimiterIInv, NEW c \in Task, task[c] = "idle",
           task' = [task EXCEPT ![c] = "queued"], queue' = Append(queue, c)
    PROVE  LineIsExact'
<1> USE DEF LimiterIInv, LimiterTypeOK, Kept, LineIsExact
<1>1. /\ Len(queue') = Len(queue) + 1 /\ DOMAIN queue' = 1..Len(queue')
      /\ \A i \in 1..Len(queue) : queue'[i] = queue[i]
      /\ queue'[Len(queue) + 1] = c
  OBVIOUS
<1>2. c \notin ToSet(queue)
  OBVIOUS
<1>3. ToSet(queue') = ToSet(queue) \cup {c}
  <2>1. ToSet(queue') = {queue'[i] : i \in 1..(Len(queue) + 1)} /\ ToSet(queue) = {queue[i] : i \in 1..Len(queue)}
    BY <1>1 DEF ToSet
  <2>2. 1..(Len(queue) + 1) = (1..Len(queue)) \cup {Len(queue) + 1}
    OBVIOUS
  <2> QED BY <1>1, <2>1, <2>2
<1>4. IsInjective(queue')
  BY <1>1, <1>2 DEF IsInjective, ToSet
<1> QED BY <1>3, <1>4

\* The first n of the line leave it and run.
LEMMA ServingKeepsTheLine ==
    ASSUME LimiterIInv, NEW n \in 0..Len(queue),
           queue' = SubSeq(queue, n + 1, Len(queue)),
           task' = [c \in Task |-> IF c \in ToSet(SubSeq(queue, 1, n)) THEN "ran" ELSE task[c]]
    PROVE  LineIsExact'
<1> USE DEF LimiterIInv, LimiterTypeOK, Kept, LineIsExact
<1>1. queue \in Seq(Task) /\ Len(queue) \in Nat
  OBVIOUS
<1>2. /\ Len(queue') = Len(queue) - n /\ DOMAIN queue' = 1..(Len(queue) - n)
      /\ \A i \in 1..(Len(queue) - n) : queue'[i] = queue[n + i]
  BY <1>1
<1>3. ToSet(queue') = {queue[i] : i \in (n + 1)..Len(queue)}
  <2>1. ASSUME NEW x \in ToSet(queue') PROVE x \in {queue[i] : i \in (n + 1)..Len(queue)}
    <3>1. PICK i \in 1..(Len(queue) - n) : x = queue'[i]
      BY <1>2 DEF ToSet
    <3>2. n + i \in (n + 1)..Len(queue) /\ x = queue[n + i]
      BY <1>1, <1>2, <3>1
    <3> QED BY <3>2
  <2>2. ASSUME NEW i \in (n + 1)..Len(queue) PROVE queue[i] \in ToSet(queue')
    <3>1. i - n \in 1..(Len(queue) - n) /\ queue'[i - n] = queue[i]
      BY <1>1, <1>2, <2>2
    <3> QED BY <1>2, <3>1 DEF ToSet
  <2> QED BY <2>1, <2>2
<1>4. ToSet(SubSeq(queue, 1, n)) = {queue[i] : i \in 1..n}
  <2>1. /\ DOMAIN SubSeq(queue, 1, n) = 1..n
        /\ \A i \in 1..n : SubSeq(queue, 1, n)[i] = queue[i]
    BY <1>1
  <2> QED BY <2>1 DEF ToSet
<1>5. ToSet(queue') = ToSet(queue) \ ToSet(SubSeq(queue, 1, n))
  <2>1. \A i, j \in 1..Len(queue) : queue[i] = queue[j] => i = j
    BY <1>1 DEF IsInjective
  <2>2. ToSet(queue) = {queue[i] : i \in 1..Len(queue)}
    <3>1. DOMAIN queue = 1..Len(queue)
      BY <1>1
    <3> QED BY <3>1 DEF ToSet
  <2>3. 1..Len(queue) = (1..n) \cup ((n + 1)..Len(queue))
    BY <1>1
  <2>4. \A i \in 1..n, j \in (n + 1)..Len(queue) : queue[i] # queue[j]
    BY <1>1, <2>1
  <2> QED BY ONLY <1>3, <1>4, <2>2, <2>3, <2>4, SMTT(30)
<1>6. ToSet(queue') = {c \in Task : task'[c] = "queued"}
  BY <1>5
<1>7. IsInjective(queue')
  BY <1>1, <1>2 DEF IsInjective
<1> QED BY <1>6, <1>7

-----------------------------------------------------------------------------
(* The order of the calls.                                                   *)

LEMMA ConcatTwice ==
    ASSUME NEW s \in Seq(Task), NEW r \in Seq(Task), NEW q \in Seq(Task)
    PROVE  (s \o r) \o q = s \o (r \o q)
<1>1. \A S : \A x, y, z \in Seq(S) : (x \o y) \o z = x \o (y \o z)
  BY ConcatAssociative
<1> QED BY <1>1

LEMMA AppendToSet ==
    ASSUME NEW s \in Seq(Task), NEW c \in Task
    PROVE  ToSet(Append(s, c)) = ToSet(s) \cup {c}
<1>1. DOMAIN Append(s, c) = (1..Len(s)) \cup {Len(s) + 1} /\ DOMAIN s = 1..Len(s)
  OBVIOUS
<1>2. /\ \A i \in 1..Len(s) : Append(s, c)[i] = s[i]
      /\ Append(s, c)[Len(s) + 1] = c
  OBVIOUS
<1> QED BY <1>1, <1>2 DEF ToSet

LEMMA ToSetConcat ==
    ASSUME NEW s \in Seq(Task), NEW r \in Seq(Task)
    PROVE  ToSet(s \o r) = ToSet(s) \cup ToSet(r)
<1>1. /\ Len(s) \in Nat /\ Len(r) \in Nat
      /\ s \o r \in Seq(Task) /\ Len(s \o r) = Len(s) + Len(r)
      /\ \A i \in 1..(Len(s) + Len(r)) : (s \o r)[i] = IF i <= Len(s) THEN s[i] ELSE r[i - Len(s)]
  BY ConcatProperties
<1>2. DOMAIN (s \o r) = 1..(Len(s) + Len(r)) /\ DOMAIN s = 1..Len(s) /\ DOMAIN r = 1..Len(r)
  BY <1>1
<1>3. ASSUME NEW i \in 1..(Len(s) + Len(r)) PROVE (s \o r)[i] \in ToSet(s) \cup ToSet(r)
  <2>1. CASE i <= Len(s)
    <3>1. i \in 1..Len(s) /\ (s \o r)[i] = s[i]
      BY <1>1, <2>1
    <3> QED BY <1>2, <3>1 DEF ToSet
  <2>2. CASE i > Len(s)
    <3>1. i - Len(s) \in 1..Len(r) /\ (s \o r)[i] = r[i - Len(s)]
      BY <1>1, <2>2
    <3> QED BY <1>2, <3>1 DEF ToSet
  <2> QED BY <1>1, <2>1, <2>2
<1>4. ASSUME NEW i \in 1..Len(s) PROVE s[i] \in ToSet(s \o r)
  <2>1. i \in 1..(Len(s) + Len(r)) /\ (s \o r)[i] = s[i]
    BY <1>1
  <2> QED BY <1>2, <2>1 DEF ToSet
<1>5. ASSUME NEW i \in 1..Len(r) PROVE r[i] \in ToSet(s \o r)
  <2>1. Len(s) + i \in 1..(Len(s) + Len(r)) /\ (s \o r)[Len(s) + i] = r[i]
    BY <1>1
  <2> QED BY <1>2, <2>1 DEF ToSet
<1>6. ToSet(s \o r) \subseteq ToSet(s) \cup ToSet(r)
  BY <1>2, <1>3 DEF ToSet
<1>7. ToSet(s) \cup ToSet(r) \subseteq ToSet(s \o r)
  BY <1>2, <1>4, <1>5 DEF ToSet
<1> QED BY <1>6, <1>7

\* What was executed, and after it what waits.
Order == served \o queue

LEMMA OrderFacts ==
    ASSUME LimiterTypeOK
    PROVE  /\ Order \in Seq(Task) /\ Len(Order) = Len(served) + Len(queue)
           /\ \A i \in 1..Len(served) : Order[i] = served[i]
           /\ ToSet(Order) = ToSet(served) \cup ToSet(queue)
<1>1. served \in Seq(Task) /\ queue \in Seq(Task)
  BY DEF LimiterTypeOK
<1>2. /\ Order \in Seq(Task) /\ Len(Order) = Len(served) + Len(queue)
      /\ \A i \in 1..Len(served) : Order[i] = served[i]
  BY <1>1 DEF Order
<1> QED BY <1>1, <1>2, ToSetConcat DEF Order

\* The call being made is later than all that ran or wait.
LEMMA MadeLast ==
    ASSUME LimiterIInv, NEW c \in Task, task[c] = "idle"
    PROVE  \A x \in ToSet(Order) : x \in Task /\ x < c
<1>1. ToSet(Order) = {x \in Task : task[x] \in {"ran", "queued"}}
  BY OrderFacts DEF LimiterIInv, FirstComeFirstServed, LineIsExact
<1>2. \A x \in Task : task[x] # "idle" => ~(c < x) /\ c # x
  BY DEF LimiterIInv, NumberedAsMade
<1>3. \A x \in Task : x \in Int /\ c \in Int
  BY RateAssumption DEF Task
<1> QED BY <1>1, <1>2, <1>3

LEMMA JoiningIncreases ==
    ASSUME NEW s \in Seq(Task), Increasing(s), NEW c \in Task, \A x \in ToSet(s) : x < c
    PROVE  Increasing(Append(s, c))
<1>1. /\ Len(Append(s, c)) = Len(s) + 1 /\ Append(s, c)[Len(s) + 1] = c
      /\ \A i \in 1..Len(s) : Append(s, c)[i] = s[i]
  OBVIOUS
<1>2. \A i \in 1..Len(s) : s[i] < c
  BY DEF ToSet
<1> SUFFICES ASSUME NEW i \in 1..(Len(s) + 1), NEW j \in 1..(Len(s) + 1), i < j
             PROVE  Append(s, c)[i] < Append(s, c)[j]
  BY <1>1 DEF Increasing
<1>3. i \in 1..Len(s) /\ (j \in 1..Len(s) \/ j = Len(s) + 1)
  OBVIOUS
<1> QED BY <1>1, <1>2, <1>3 DEF Increasing

LEMMA PrefixIncreases ==
    ASSUME LimiterTypeOK, Increasing(Order)
    PROVE  Increasing(served)
<1>1. Len(served) \in Nat /\ Len(queue) \in Nat
  BY DEF LimiterTypeOK
<1>2. 1..Len(served) \subseteq 1..Len(Order)
  BY <1>1, OrderFacts
<1> QED BY <1>2, OrderFacts DEF Increasing

\* A call that is made runs or waits behind all others.
LEMMA ScheduleInOrder ==
    ASSUME LimiterIInv, NEW c \in Task, Schedule(c)
    PROVE  FirstComeFirstServed' /\ NumberedAsMade' /\ served' \in Seq(Task)
<1> USE DEF LimiterIInv, LimiterTypeOK, Kept
<1>1. /\ Order \in Seq(Task) /\ Increasing(Order) /\ task[c] = "idle"
      /\ ToSet(served) = {x \in Task : task[x] = "ran"}
      /\ ToSet(queue) = {x \in Task : task[x] = "queued"}
  BY OrderFacts DEF FirstComeFirstServed, LineIsExact, Order, Schedule
<1>2. Increasing(Append(Order, c))
  BY <1>1, MadeLast, JoiningIncreases
<1>3. NumberedAsMade'
  <2>1. \A d \in Task : d < c => task[d] # "idle"
    BY RateAssumption DEF Schedule, Task
  <2>2. \A x \in Task : x # c => task'[x] = task[x]
    BY DEF Schedule
  <2>3. task'[c] # "idle"
    BY DEF Schedule
  <2> QED BY <2>1, <2>2, <2>3 DEF NumberedAsMade, Task
<1>4. CASE /\ queue = <<>> /\ task' = [task EXCEPT ![c] = "ran"]
           /\ served' = Append(served, c) /\ UNCHANGED queue
  <2>1. served' \o queue' = Append(Order, c)
    BY <1>4 DEF Order
  <2>2. ToSet(served') = ToSet(served) \cup {c}
    BY <1>4, AppendToSet
  <2>3. ToSet(served') = {x \in Task : task'[x] = "ran"}
    BY <1>1, <1>4, <2>2
  <2> QED BY <1>2, <1>3, <1>4, <2>1, <2>3 DEF FirstComeFirstServed, Increasing
<1>5. CASE task' = [task EXCEPT ![c] = "dropped"] /\ UNCHANGED <<queue, served>>
  <2>1. ToSet(served') = {x \in Task : task'[x] = "ran"}
    BY <1>1, <1>5 DEF ToSet
  <2> QED BY <1>1, <1>3, <1>5, <2>1 DEF FirstComeFirstServed, Increasing, Order
<1>6. CASE /\ task' = [task EXCEPT ![c] = "queued"]
           /\ queue' = Append(queue, c) /\ UNCHANGED served
  <2>1. served' \o queue' = Append(Order, c)
    BY <1>6 DEF Order
  <2>2. ToSet(served') = {x \in Task : task'[x] = "ran"}
    BY <1>1, <1>6 DEF ToSet
  <2> QED BY <1>2, <1>3, <1>6, <2>1, <2>2 DEF FirstComeFirstServed, Increasing
<1> QED BY <1>4, <1>5, <1>6 DEF Schedule, RunsNow

\* The timer moves calls from the front of the line to what ran: the order of
\* both together stays.
LEMMA ServingInOrder ==
    ASSUME LimiterIInv, NEW n \in 0..Len(queue),
           queue' = SubSeq(queue, n + 1, Len(queue)), served' = served \o SubSeq(queue, 1, n),
           task' = [c \in Task |-> IF c \in ToSet(SubSeq(queue, 1, n)) THEN "ran" ELSE task[c]]
    PROVE  FirstComeFirstServed' /\ NumberedAsMade' /\ served' \in Seq(Task)
<1> DEFINE head == SubSeq(queue, 1, n)
           rest == SubSeq(queue, n + 1, Len(queue))
<1>1. queue \in Seq(Task) /\ served \in Seq(Task) /\ Len(queue) \in Nat
  BY DEF LimiterIInv, LimiterTypeOK
<1>2. head \in Seq(Task) /\ rest \in Seq(Task) /\ ToSet(head) \subseteq ToSet(queue)
  <2>1. /\ head \in Seq(Task) /\ rest \in Seq(Task)
        /\ Len(head) = n /\ \A i \in 1..n : head[i] = queue[i]
    BY <1>1
  <2> HIDE DEF head
  <2>2. DOMAIN head = 1..n /\ DOMAIN queue = 1..Len(queue) /\ 1..n \subseteq 1..Len(queue)
    BY <1>1, <2>1
  <2> QED BY <2>1, <2>2 DEF ToSet
<1>3. served' \o queue' = served \o queue /\ served' \in Seq(Task)
  <2>1. head \o rest = queue
    <3>1. 1 \in 1..(Len(queue) + 1) /\ n \in (1 - 1)..Len(queue) /\ Len(queue) \in n..Len(queue)
      BY <1>1
    <3>2. SubSeq(queue, 1, n) \o SubSeq(queue, n + 1, Len(queue)) = SubSeq(queue, 1, Len(queue))
      BY <1>1, <3>1, ConcatAdjacentSubSeq
    <3> QED BY <1>1, <3>2, SubSeqFull
  <2> HIDE DEF head, rest
  <2>2. (served \o head) \o rest = served \o (head \o rest)
    BY <1>1, <1>2, ConcatTwice
  <2>3. served \o head \in Seq(Task)
    BY <1>1, <1>2, ConcatProperties
  <2>4. served' = served \o head /\ queue' = rest
    BY DEF head, rest
  <2> QED BY <2>1, <2>2, <2>3, <2>4
<1> HIDE DEF head
<1>4. ToSet(served') = ToSet(served) \cup ToSet(head)
  BY <1>1, <1>2, ToSetConcat DEF head
<1>5. /\ ToSet(queue) = {x \in Task : task[x] = "queued"}
      /\ ToSet(served) = {x \in Task : task[x] = "ran"}
  BY DEF LimiterIInv, LineIsExact, FirstComeFirstServed
<1>6. task' = [c \in Task |-> IF c \in ToSet(head) THEN "ran" ELSE task[c]]
  BY DEF head
<1>7. ToSet(served') = {x \in Task : task'[x] = "ran"}
  BY <1>2, <1>4, <1>5, <1>6
<1>8. NumberedAsMade'
  <2>1. \A x \in Task : (task'[x] = "idle") <=> (task[x] = "idle")
    BY <1>2, <1>5, <1>6
  <2>2. NumberedAsMade
    BY DEF LimiterIInv
  <2> SUFFICES ASSUME NEW d \in Task, NEW c \in Task, d < c, task'[c] # "idle"
               PROVE  task'[d] # "idle"
    BY DEF NumberedAsMade, Task
  <2> QED BY <2>1, <2>2 DEF NumberedAsMade
<1> QED BY <1>3, <1>7, <1>8 DEF LimiterIInv, FirstComeFirstServed, Increasing

-----------------------------------------------------------------------------

LEMMA LimiterInitIInv == LimiterInit => LimiterIInv
<1> SUFFICES ASSUME LimiterInit PROVE LimiterIInv
  OBVIOUS
<1> USE RateAssumption DEF LimiterInit
<1>1. LimiterTypeOK /\ Kept
  BY DEF LimiterTypeOK, Kept, Interval, NoTimer
<1>2. PaidFromRefill /\ PaidFromTwo
  BY DEF PaidFromRefill, PaidFromTwo, Interval
<1>3. LineIsExact
  BY DEF LineIsExact, ToSet, IsInjective
<1>4. FirstComeFirstServed /\ NumberedAsMade
  BY DEF FirstComeFirstServed, Increasing, NumberedAsMade, ToSet
<1> QED BY <1>1, <1>2, <1>3, <1>4 DEF LimiterIInv

LEMMA ScheduleStep ==
    ASSUME LimiterIInv, NEW c \in Task, Schedule(c)
    PROVE  LimiterIInv'
<1> USE RateAssumption
<1>0. Refilled \in Nat /\ Refilled <= Budget
  BY DEF Refilled, LimiterIInv, LimiterTypeOK
<1>9. FirstComeFirstServed' /\ NumberedAsMade' /\ served' \in Seq(Task)
  BY ScheduleInOrder
<1>1. CASE /\ RunsNow /\ task' = [task EXCEPT ![c] = "ran"] /\ Spends(1)
           /\ UNCHANGED <<queue, timer>>
  <2>1. tokens' \in 0..Budget /\ age' \in 0..Interval /\ recent' \in [1..Interval -> Nat]
          /\ PaidFromRefill' /\ PaidFromTwo'
    BY <1>0, <1>1, SpendingIsPaid DEF RunsNow
  <2>2. LimiterTypeOK' /\ Kept'
    BY <1>9, <1>1, <2>1 DEF LimiterIInv, LimiterTypeOK, Kept
  <2>3. LineIsExact'
    BY <1>1 DEF Schedule, LimiterIInv, LineIsExact, Kept
  <2> QED BY <1>9, <1>1, <2>1, <2>2, <2>3 DEF LimiterIInv, NoTimer
<1>2. CASE /\ ~RunsNow /\ Len(queue) >= MaxQueued
           /\ task' = [task EXCEPT ![c] = "dropped"] /\ Spends(0) /\ UNCHANGED <<queue, timer>>
  <2>1. tokens' \in 0..Budget /\ age' \in 0..Interval /\ recent' \in [1..Interval -> Nat]
          /\ PaidFromRefill' /\ PaidFromTwo'
    BY <1>0, <1>2, SpendingIsPaid
  <2>2. LimiterTypeOK' /\ Kept'
    BY <1>9, <1>2, <2>1 DEF LimiterIInv, LimiterTypeOK, Kept
  <2>3. LineIsExact'
    BY <1>2 DEF Schedule, LimiterIInv, LineIsExact, Kept
  <2> QED BY <1>9, <1>2, <2>1, <2>2, <2>3 DEF LimiterIInv, NoTimer
<1>3. CASE /\ ~RunsNow /\ Len(queue) < MaxQueued
           /\ task' = [task EXCEPT ![c] = "queued"] /\ Spends(0)
           /\ queue' = Append(queue, c) /\ timer' = IF timer = NoTimer THEN Half ELSE timer
  <2>1. tokens' \in 0..Budget /\ age' \in 0..Interval /\ recent' \in [1..Interval -> Nat]
          /\ PaidFromRefill' /\ PaidFromTwo'
    BY <1>0, <1>3, SpendingIsPaid
  <2>2. timer' \in 0..NoTimer /\ timer' # NoTimer
    BY <1>3 DEF LimiterIInv, LimiterTypeOK, NoTimer, Half, Interval
  <2>3. LimiterTypeOK' /\ Kept'
    BY <1>9, <1>3, <2>1, <2>2 DEF LimiterIInv, LimiterTypeOK, Kept
  <2>4. LineIsExact'
    BY <1>3, JoiningKeepsTheLine DEF Schedule
  <2>5. NoTimer' = NoTimer
    BY DEF NoTimer, Interval
  <2> QED BY <1>9, <2>1, <2>2, <2>3, <2>4, <2>5 DEF LimiterIInv
<1> QED BY <1>1, <1>2, <1>3 DEF Schedule

LEMMA ProcessQueueStep ==
    ASSUME LimiterIInv, ProcessQueue
    PROVE  LimiterIInv'
<1> DEFINE n == Fits
<1> USE RateAssumption
<1>1. queue \in Seq(Task) /\ Len(queue) \in Nat /\ Refilled \in Nat
  BY DEF Refilled, LimiterIInv, LimiterTypeOK
<1>2. n \in 0..Len(queue) /\ n <= Refilled
  BY <1>1 DEF Fits
<1>3. /\ timer' = IF n < Len(queue) THEN Half ELSE NoTimer
      /\ Spends(n) /\ queue' = SubSeq(queue, n + 1, Len(queue))
      /\ task' = [c \in Task |-> IF c \in ToSet(SubSeq(queue, 1, n)) THEN "ran" ELSE task[c]]
      /\ served' = served \o SubSeq(queue, 1, n)
  BY DEF ProcessQueue, Execute
<1> HIDE DEF n
<1>4. tokens' \in 0..Budget /\ age' \in 0..Interval /\ recent' \in [1..Interval -> Nat]
        /\ PaidFromRefill' /\ PaidFromTwo'
  BY <1>2, <1>3, SpendingIsPaid
<1>5. LineIsExact'
  BY <1>2, <1>3, ServingKeepsTheLine
<1>9. FirstComeFirstServed' /\ NumberedAsMade' /\ served' \in Seq(Task)
  BY <1>2, <1>3, ServingInOrder
<1>6. queue' \in Seq(Task) /\ Len(queue') = Len(queue) - n /\ (queue' # <<>> => n < Len(queue))
  BY <1>1, <1>2, <1>3
<1>7. timer' \in 0..NoTimer /\ (queue' # <<>> => timer' # NoTimer)
  BY <1>3, <1>6 DEF NoTimer, Half, Interval
<1>8. LimiterTypeOK' /\ Kept'
  BY <1>1, <1>2, <1>3, <1>4, <1>6, <1>7, <1>9 DEF LimiterIInv, LimiterTypeOK, Kept
<1> QED BY <1>4, <1>5, <1>7, <1>8, <1>9 DEF LimiterIInv, NoTimer

LEMMA DestroyStep ==
    ASSUME LimiterIInv, DestroyLimiter
    PROVE  LimiterIInv'
<1> USE RateAssumption DEF DestroyLimiter
<1>1. LimiterTypeOK' /\ Kept'
  BY DEF LimiterIInv, LimiterTypeOK, Kept, NoTimer, Interval
<1>2. PaidFromRefill' /\ PaidFromTwo'
  BY DEF LimiterIInv, PaidFromRefill, PaidFromTwo
<1>3. LineIsExact'
  BY DEF LimiterIInv, Kept, LineIsExact, ToSet, IsInjective
<1>4. FirstComeFirstServed'
  <2>1. served \in Seq(Task) /\ served' \o queue' = served
    BY DEF LimiterIInv, LimiterTypeOK
  <2>2. Increasing(served)
    BY PrefixIncreases DEF LimiterIInv, FirstComeFirstServed, Order
  <2>3. ToSet(served') = {c \in Task : task'[c] = "ran"}
    BY DEF LimiterIInv, Kept, FirstComeFirstServed, ToSet
  <2> QED BY <2>1, <2>2, <2>3 DEF FirstComeFirstServed, Increasing
<1>5. NumberedAsMade'
  BY DEF LimiterIInv, Kept, NumberedAsMade
<1> QED BY <1>1, <1>2, <1>3, <1>4, <1>5 DEF LimiterIInv

LEMMA TimeStep ==
    ASSUME LimiterIInv, TimePasses
    PROVE  LimiterIInv'
<1> USE RateAssumption
<1>1. timer' \in 0..NoTimer /\ (queue' # <<>> => timer' # NoTimer)
  BY DEF LimiterIInv, LimiterTypeOK, TimePasses, NoTimer, Interval
<1>2. /\ recent' \in [1..4 -> Nat]
      /\ recent'[1] = 0
      /\ recent'[2] = recent[1] /\ recent'[3] = recent[2] /\ recent'[4] = recent[3]
  BY DEF LimiterIInv, Kept, TimePasses, Interval
<1>3. /\ recent[1] \in Nat /\ recent[2] \in Nat /\ recent[3] \in Nat /\ recent[4] \in Nat
  BY DEF LimiterIInv, Kept, Interval
<1>4. LimiterTypeOK' /\ Kept'
  BY <1>1, <1>2 DEF LimiterIInv, LimiterTypeOK, Kept, TimePasses, Interval
<1>5. PaidFromRefill'
  BY <1>2, <1>3 DEF LimiterIInv, LimiterTypeOK, TimePasses, PaidFromRefill, Interval
<1>6. PaidFromTwo'
  <2>1. PaidFromTwo /\ tokens' = tokens /\ tokens \in Nat /\ Budget \in Nat
    BY RateAssumption DEF LimiterIInv, LimiterTypeOK, TimePasses
  <2> QED BY <1>2, <1>3, <2>1 DEF PaidFromTwo
<1>7. LineIsExact' /\ FirstComeFirstServed' /\ NumberedAsMade'
  BY DEF LimiterIInv, TimePasses, LineIsExact, FirstComeFirstServed, NumberedAsMade
<1> QED BY <1>1, <1>4, <1>5, <1>6, <1>7 DEF LimiterIInv, NoTimer

-----------------------------------------------------------------------------

\* The strengthened invariant holds of every behaviour of the limiter.
THEOREM LimiterInvariant == LimiterSpec => []LimiterIInv
<1>1. LimiterInit => LimiterIInv
  BY LimiterInitIInv
<1>2. LimiterIInv /\ [LimiterNext]_limiterVars => LimiterIInv'
  <2> SUFFICES ASSUME LimiterIInv, [LimiterNext]_limiterVars PROVE LimiterIInv'
    OBVIOUS
  <2>1. CASE UNCHANGED limiterVars
    BY <2>1 DEF limiterVars, LimiterIInv, LimiterTypeOK, Kept, PaidFromRefill, PaidFromTwo,
                LineIsExact, FirstComeFirstServed, NumberedAsMade, NoTimer, Interval
  <2> QED BY <2>1, ScheduleStep, ProcessQueueStep, DestroyStep, TimeStep DEF LimiterNext
<1> QED BY <1>1, <1>2, PTL DEF LimiterSpec

\* The limiter executes its calls in the order they were made, whether they found
\* the line empty or waited in it, an interval sees two budgets at most, and a line
\* that is not empty has its timer armed (rateLimiter.ts:45-125).
THEOREM LimiterIsOrderly == LimiterSpec => []OrderlyLine
<1>1. LimiterIInv => OrderlyLine
  BY RateAssumption DEF LimiterIInv, LimiterTypeOK, Kept, OrderlyLine, LineIsDriven, LineIsExact,
                        PaidFromTwo, Interval
<1> QED BY <1>1, LimiterInvariant, PTL

-----------------------------------------------------------------------------
(* Connections to chains.                                                    *)

Connection == [client : Nat, refs : Nat, follows : Seq(Follow)]
CallStages == {"idle", "asking", "open", "running", "sending", "live", "stopping", "settled"}
UseRecord == [stage : CallStages, chain : Chain \cup {NoChain}, on : {NoChain} \cup Nat \cup Follow]

Holding == {"open", "sending", "live", "stopping"}
Sending == {"sending", "live"}
Taker == Follow \cup Spec_ \cup Broadcast

Distinct(s) == \A i, j \in 1..Len(s) : s[i] = s[j] => i = j

ChainShapes ==
    /\ chains \in [Chain -> {NoChain} \cup Connection]
    /\ clients \in Nat /\ disposed \in BOOLEAN
    /\ use \in [Calls -> UseRecord]
    /\ \A c \in Calls : use[c].stage \notin {"idle", "settled"} => use[c].chain \in Chain

\* An open connection has a holder, and whoever sends was given its client.
Numbered ==
    /\ \A g \in Chain : chains[g] # NoChain =>
         chains[g].client \in 1..clients /\ chains[g].refs >= 1 /\ Distinct(chains[g].follows)
    /\ \A c \in Broadcast : use[c].stage \in Sending => use[c].on \in 1..clients

FollowsAreOpen ==
    \A g \in Chain : chains[g] # NoChain =>
      \A f \in ToSet(chains[g].follows) : use[f].stage = "open" /\ use[f].chain = g

OperationsRun ==
    \A c \in HeadOp : use[c].stage = "running" =>
      /\ chains[use[c].chain] # NoChain
      /\ use[c].on \in ToSet(chains[use[c].chain].follows)

HoldersAreCounted ==
    ~disposed => \A g \in Chain :
      /\ chains[g] = NoChain => Holders(g) = {}
      /\ chains[g] # NoChain => IsFiniteSet(Holders(g)) /\ chains[g].refs = Cardinality(Holders(g))

SendersAreOn == ~disposed => \A c \in Broadcast : use[c].stage \in Sending => IsConnected(c)

\* After dispose the count is no longer that of the holders: those from before
\* let go of what is not theirs.  It never exceeds the broadcasts that opened
\* or joined the connection later, which is what it takes to close it in time.
Senders(g) ==
    {c \in Broadcast : use[c].stage \in Sending /\ use[c].chain = g /\ use[c].on = chains[g].client}

SendersAreEnough ==
    disposed => \A g \in Chain : chains[g] # NoChain =>
      IsFiniteSet(Senders(g)) /\ chains[g].refs <= Cardinality(Senders(g))

ChainIInv ==
    ChainShapes /\ Numbered /\ FollowsAreOpen /\ OperationsRun /\ HoldersAreCounted /\ SendersAreOn
    /\ SendersAreEnough

\* What is left of a sequence without its i-th element.
LEMMA CutOut ==
    ASSUME NEW S, NEW s \in Seq(S), NEW i \in 1..Len(s)
    PROVE  /\ RemoveAt(s, i) \in Seq(S) /\ Len(RemoveAt(s, i)) = Len(s) - 1
           /\ \A j \in 1..(Len(s) - 1) : RemoveAt(s, i)[j] = IF j < i THEN s[j] ELSE s[j + 1]
<1> DEFINE a == SubSeq(s, 1, i - 1)
           b == SubSeq(s, i + 1, Len(s))
<1>0. Len(s) \in Nat /\ i \in Nat /\ 1 <= i /\ i <= Len(s)
  BY LenProperties
<1>1. a \in Seq(S) /\ Len(a) = i - 1 /\ \A j \in 1..(i - 1) : a[j] = s[j]
  <2>1. 1 \in 1..(Len(s) + 1) /\ i - 1 \in (1 - 1)..Len(s)
    BY <1>0
  <2> QED BY <1>0, <2>1, SubSeqProperties
<1>2. b \in Seq(S) /\ Len(b) = Len(s) - i /\ \A j \in 1..(Len(s) - i) : b[j] = s[i + j]
  <2>1. i + 1 \in 1..(Len(s) + 1) /\ Len(s) \in (i + 1 - 1)..Len(s)
    BY <1>0
  <2>2. /\ b \in Seq(S)
        /\ Len(b) = IF i + 1 <= Len(s) THEN Len(s) - (i + 1) + 1 ELSE 0
        /\ \A j \in 1..(Len(s) - (i + 1) + 1) : b[j] = s[i + 1 + j - 1]
    BY <2>1, SubSeqProperties
  <2> QED BY <1>0, <2>2
<1> HIDE DEF a, b
<1>3. /\ a \o b \in Seq(S) /\ Len(a \o b) = Len(a) + Len(b)
      /\ \A j \in 1..(Len(a) + Len(b)) : (a \o b)[j] = IF j <= Len(a) THEN a[j] ELSE b[j - Len(a)]
  BY <1>1, <1>2, ConcatProperties
<1>4. Len(a) + Len(b) = Len(s) - 1
  BY <1>0, <1>1, <1>2
<1>5. ASSUME NEW j \in 1..(Len(s) - 1)
      PROVE  (a \o b)[j] = IF j < i THEN s[j] ELSE s[j + 1]
  <2>1. CASE j < i
    BY <1>0, <1>1, <1>3, <1>4, <2>1
  <2>2. CASE ~(j < i)
    <3>1. j - (i - 1) \in 1..(Len(s) - i) /\ i + (j - (i - 1)) = j + 1
      BY <1>0, <2>2
    <3>2. b[j - (i - 1)] = s[j + 1]
      BY <1>2, <3>1
    <3> QED BY <1>0, <1>1, <1>3, <1>4, <2>2, <3>2
  <2> QED BY <2>1, <2>2
<1>6. RemoveAt(s, i) = a \o b
  BY DEF RemoveAt, a, b
<1> QED BY <1>3, <1>4, <1>5, <1>6

\* What is left of a sequence that holds nothing twice.
LEMMA FirstRemoved ==
    ASSUME NEW S, NEW s \in Seq(S), NEW f, Distinct(s)
    PROVE  /\ RemoveFirst(s, f) \in Seq(S) /\ Distinct(RemoveFirst(s, f))
           /\ ToSet(RemoveFirst(s, f)) = ToSet(s) \ {f}
<1>0. Len(s) \in Nat
  BY LenProperties
<1>1. CASE f \notin ToSet(s)
  <2>1. RemoveFirst(s, f) = s
    BY <1>1 DEF RemoveFirst, ToSet
  <2> QED BY <1>1, <2>1
<1>2. CASE f \in ToSet(s)
  <2>1. PICK i \in 1..Len(s) : s[i] = f /\ RemoveFirst(s, f) = RemoveAt(s, i)
    <3>1. PICK i \in 1..Len(s) : s[i] = f
      BY <1>2 DEF ToSet
    <3>2. {j \in 1..Len(s) : s[j] = f} = {i}
      BY <3>1 DEF Distinct
    <3>3. Min({i}) = i
      BY <1>0 DEF Min
    <3>4. SelectInSeq(s, LAMBDA v : v = f) = i
      BY <3>2, <3>3 DEF SelectInSeq
    <3> QED BY <3>1, <3>4 DEF RemoveFirst
  <2> DEFINE t == RemoveAt(s, i)
  <2>2. /\ t \in Seq(S) /\ Len(t) = Len(s) - 1
        /\ \A j \in 1..(Len(s) - 1) : t[j] = IF j < i THEN s[j] ELSE s[j + 1]
    BY CutOut
  <2> HIDE DEF t
  <2>3. \A j \in 1..Len(t) : t[j] # f /\ t[j] \in ToSet(s)
    BY <1>0, <2>1, <2>2, SMTT(30) DEF Distinct, ToSet
  <2>4. \A x \in ToSet(s) : x # f => x \in ToSet(t)
    <3> SUFFICES ASSUME NEW k \in 1..Len(s), s[k] # f PROVE s[k] \in ToSet(t)
      BY DEF ToSet
    <3>1. k # i
      BY <2>1
    <3>2. CASE k < i
      <4>1. k \in 1..Len(t) /\ t[k] = s[k]
        BY <1>0, <2>2, <3>2
      <4> QED BY <2>2, <4>1 DEF ToSet
    <3>3. CASE k > i
      <4>1. k - 1 \in 1..Len(t) /\ t[k - 1] = s[k]
        BY <1>0, <2>2, <3>3
      <4> QED BY <2>2, <4>1 DEF ToSet
    <3> QED BY <1>0, <3>1, <3>2, <3>3
  <2>5. Distinct(t)
    <3> SUFFICES ASSUME NEW j \in 1..Len(t), NEW k \in 1..Len(t), t[j] = t[k] PROVE j = k
      BY DEF Distinct
    <3> DEFINE at(n) == IF n < i THEN n ELSE n + 1
    <3>1. \A n \in 1..Len(t) : at(n) \in 1..Len(s) /\ t[n] = s[at(n)]
      BY <1>0, <2>2
    <3>2. at(j) = at(k)
      BY <3>1 DEF Distinct
    <3>3. Len(t) \in Nat
      BY <1>0, <2>2
    <3> QED BY <3>2, <3>3
  <2>6. ToSet(t) = ToSet(s) \ {f}
    <3>1. \A x \in ToSet(t) : x # f /\ x \in ToSet(s)
      BY <2>2, <2>3 DEF ToSet
    <3> QED BY <2>4, <3>1, Zenon
  <2> QED BY <2>1, <2>2, <2>5, <2>6 DEF t
<1> QED BY <1>1, <1>2

(* Who is in a sequence once a record is appended.                           *)
LEMMA AppendedTo ==
    ASSUME NEW S, NEW s \in Seq(S), NEW f \in S, Distinct(s), f \notin ToSet(s)
    PROVE  /\ Append(s, f) \in Seq(S) /\ Distinct(Append(s, f))
           /\ ToSet(Append(s, f)) = ToSet(s) \cup {f}
<1>1. /\ Append(s, f) \in Seq(S) /\ Len(Append(s, f)) = Len(s) + 1 /\ Len(s) \in Nat
      /\ Append(s, f)[Len(s) + 1] = f /\ \A i \in 1..Len(s) : Append(s, f)[i] = s[i]
  BY AppendProperties, LenProperties
<1>2. \A i \in 1..Len(s) : s[i] # f
  BY DEF ToSet
<1>3. 1..(Len(s) + 1) = 1..Len(s) \cup {Len(s) + 1}
  BY <1>1
<1>4. Distinct(Append(s, f))
  BY <1>1, <1>2, <1>3 DEF Distinct
<1>5. ToSet(Append(s, f)) = ToSet(s) \cup {f}
  BY <1>1, <1>3 DEF ToSet
<1> QED BY <1>1, <1>4, <1>5

LEMMA ChainInitIInv == ChainInit => ChainIInv
<1> SUFFICES ASSUME ChainInit PROVE ChainIInv
  OBVIOUS
<1>1. /\ chains = [g \in Chain |-> NoChain] /\ clients = 0 /\ disposed = FALSE
      /\ use = [c \in Calls |-> Unmade]
  BY DEF ChainInit
<1>2. Unmade \in UseRecord /\ Unmade.stage = "idle"
  BY DEF Unmade, UseRecord, CallStages
<1>3. \A c \in Calls : use[c].stage = "idle"
  BY <1>1, <1>2
<1>4. ChainShapes
  BY <1>1, <1>2, <1>3 DEF ChainShapes
<1>5. Numbered /\ SendersAreOn
  BY <1>1, <1>3 DEF Numbered, SendersAreOn, Sending, Calls
<1>6. FollowsAreOpen /\ OperationsRun
  BY <1>1, <1>3 DEF FollowsAreOpen, OperationsRun, Calls
<1>7. HoldersAreCounted /\ SendersAreEnough
  BY <1>1, <1>3 DEF HoldersAreCounted, SendersAreEnough, Holders, Calls
<1> QED BY <1>4, <1>5, <1>6, <1>7 DEF ChainIInv

\* A follow that ends settles the operations that run on it and nothing else.
LEMMA OnlyOperationsAreRejected ==
    ASSUME ChainShapes, NEW F
    PROVE  /\ Rejected(use, F) \in [Calls -> UseRecord]
           /\ \A c \in Calls : c \notin HeadOp => Rejected(use, F)[c] = use[c]
           /\ \A c \in Calls : \/ Rejected(use, F)[c] = use[c] /\ (c \in HeadOp => use[c].on \notin F)
                               \/ Rejected(use, F)[c].stage = "settled"
<1>1. \A c \in Calls : use[c] \in UseRecord
  BY DEF ChainShapes
<1>2. \A c \in Calls : /\ [use[c] EXCEPT !.stage = "settled", !.on = NoChain] \in UseRecord
                       /\ [use[c] EXCEPT !.stage = "settled", !.on = NoChain].stage = "settled"
  BY <1>1 DEF UseRecord, CallStages
<1> QED BY <1>1, <1>2 DEF Rejected

LEMMA HoldersAreCalls == Taker \subseteq Calls /\ Taker \cap HeadOp = {} /\ HeadOp \subseteq Calls
BY ChainAssumption DEF Taker, Calls

\* A step of one call that takes and lets go of no connection.
LEMMA QuietStep ==
    ASSUME ChainIInv, NEW c \in Calls, NEW r \in UseRecord, use' = [use EXCEPT ![c] = r],
           UNCHANGED <<chains, clients, disposed>>,
           r.stage \notin {"idle", "settled"} => r.chain \in Chain,
           c \in Follow => use[c].stage # "open",
           c \in Taker => (use[c].stage \in Holding <=> r.stage \in Holding),
           r.stage \in Holding => r.chain = use[c].chain,
           c \in HeadOp /\ r.stage = "running" =>
             chains[r.chain] # NoChain /\ r.on \in ToSet(chains[r.chain].follows),
           c \in Broadcast /\ r.stage \in Sending => use[c].stage \in Sending /\ r.on = use[c].on,
           c \in Broadcast /\ use[c].stage \in Sending /\ disposed => r.stage \in Sending
    PROVE  ChainIInv'
<1>0. ChainShapes /\ Numbered /\ FollowsAreOpen /\ OperationsRun /\ HoldersAreCounted /\ SendersAreOn
      /\ SendersAreEnough
  BY DEF ChainIInv
<1>1. /\ use' \in [Calls -> UseRecord] /\ use'[c] = r
      /\ \A d \in Calls : d # c => use'[d] = use[d]
  BY <1>0 DEF ChainShapes
<1>2. ChainShapes'
  BY <1>0, <1>1 DEF ChainShapes
<1>3. Broadcast \subseteq Calls /\ Broadcast \subseteq Taker /\ HeadOp \subseteq Calls /\ Sending \subseteq Holding
  BY DEF Calls, Taker, Sending, Holding
<1>4. Numbered'
  BY <1>0, <1>1, <1>3 DEF Numbered
<1>5. FollowsAreOpen'
  <2> SUFFICES ASSUME NEW g \in Chain, chains[g] # NoChain, NEW f \in ToSet(chains[g].follows)
               PROVE  use'[f].stage = "open" /\ use'[f].chain = g
    BY DEF FollowsAreOpen
  <2>1. f \in Follow /\ f \in Calls /\ use[f].stage = "open" /\ use[f].chain = g
    BY <1>0 DEF ChainShapes, Connection, FollowsAreOpen, ToSet, Calls
  <2> QED BY <1>1, <2>1
<1>6. OperationsRun'
  BY <1>0, <1>1, <1>3 DEF OperationsRun
<1>7. \A g \in Chain : Holders(g)' = Holders(g)
  BY <1>1, HoldersAreCalls DEF Holders, Holding, Taker
<1>8. HoldersAreCounted'
  BY <1>0, <1>7 DEF HoldersAreCounted
<1>9. SendersAreOn'
  BY <1>0, <1>1, <1>3 DEF SendersAreOn, IsConnected
<1>10. ASSUME disposed
       PROVE  \A g \in Chain : Senders(g)' = Senders(g)
  BY <1>1, <1>3, <1>10 DEF Senders
<1>11. SendersAreEnough'
  BY <1>0, <1>10 DEF SendersAreEnough
<1> QED BY <1>2, <1>4, <1>5, <1>6, <1>8, <1>9, <1>11 DEF ChainIInv

\* A call takes a connection, which may be a new one.
LEMMA EnterStep ==
    ASSUME ChainIInv, NEW c \in Taker, NEW g \in Chain, use[c].stage \notin Holding,
           NEW r \in UseRecord, use' = [use EXCEPT ![c] = r],
           r.stage \in Holding, r.chain = g, c \in Broadcast => r.on = Acquired(g)[g].client,
           NEW e \in Connection, chains' = [chains EXCEPT ![g] = e],
           e.client = Acquired(g)[g].client, e.refs = Acquired(g)[g].refs,
           \/ c \in Follow /\ r.stage = "open" /\ e.follows = Append(Acquired(g)[g].follows, c)
           \/ c \notin Follow /\ e.follows = Acquired(g)[g].follows,
           clients' = Created(g), UNCHANGED disposed,
           disposed => c \in Broadcast /\ r.stage \in Sending
    PROVE  ChainIInv'
<1>0. ChainShapes /\ Numbered /\ FollowsAreOpen /\ OperationsRun /\ HoldersAreCounted /\ SendersAreOn
      /\ SendersAreEnough /\ c \in Calls /\ c \notin HeadOp
  BY HoldersAreCalls DEF ChainIInv
<1> DEFINE a == Acquired(g)[g]
<1>1. /\ use' \in [Calls -> UseRecord] /\ use'[c] = r
      /\ \A d \in Calls : d # c => use'[d] = use[d]
  BY <1>0 DEF ChainShapes
<1>2. e # NoChain
  BY ChainAssumption DEF Connection
<1>3. /\ chains' \in [Chain -> {NoChain} \cup Connection] /\ chains'[g] = e
      /\ \A h \in Chain : h # g => chains'[h] = chains[h]
  BY <1>0 DEF ChainShapes
<1>4. /\ chains[g] = NoChain => a.client = clients + 1 /\ a.refs = 1 /\ a.follows = <<>> /\ clients' = clients + 1
      /\ chains[g] # NoChain => /\ a.client = chains[g].client /\ a.refs = chains[g].refs + 1
                                /\ a.follows = chains[g].follows /\ clients' = clients
  BY <1>0 DEF ChainShapes, Connection, Acquired, Created
<1>5. clients \in Nat /\ clients' \in Nat /\ clients <= clients' /\ clients' \in {clients, clients + 1}
  BY <1>0, <1>4 DEF ChainShapes
<1>6. /\ a.client \in 1..clients' /\ a.refs \in Nat /\ a.refs >= 1
      /\ a.follows \in Seq(Follow) /\ Distinct(a.follows)
  <2>1. CASE chains[g] = NoChain
    <3>1. <<>> \in Seq(Follow) /\ Distinct(<<>>)
      BY DEF Distinct
    <3>2. a.client = clients + 1 /\ a.refs = 1 /\ a.follows = <<>> /\ clients' = clients + 1
      BY <1>4, <2>1
    <3> HIDE DEF a
    <3>3. a.client \in 1..clients' /\ a.refs \in Nat /\ a.refs >= 1
      BY <1>5, <3>2
    <3>4. a.follows \in Seq(Follow) /\ Distinct(a.follows)
      BY <3>1, <3>2
    <3> QED BY <3>3, <3>4
  <2>2. CASE chains[g] # NoChain
    <3>1. chains[g] \in Connection /\ chains[g].client \in 1..clients /\ chains[g].refs >= 1 /\ Distinct(chains[g].follows)
      BY <1>0, <2>2 DEF ChainShapes, Numbered
    <3> QED BY <1>4, <1>5, <2>2, <3>1 DEF Connection
  <2> QED BY <2>1, <2>2
<1>7. \A f \in ToSet(a.follows) : chains[g] # NoChain /\ f \in Follow /\ f \in Calls /\ f # c
                                  /\ use[f].stage = "open" /\ use[f].chain = g
  <2>1. \A f \in ToSet(<<>>) : FALSE
    BY DEF ToSet
  <2>2. \A f \in ToSet(a.follows) : f \in Follow
    BY <1>6 DEF ToSet
  <2>3. \A f \in ToSet(a.follows) : chains[g] # NoChain /\ use[f].stage = "open" /\ use[f].chain = g
    BY <1>0, <1>4, <2>1 DEF FollowsAreOpen
  <2> QED BY <2>2, <2>3 DEF Calls, Holding
<1> HIDE DEF a
<1>8. Distinct(e.follows) /\ ToSet(e.follows) = ToSet(a.follows) \cup (IF c \in Follow THEN {c} ELSE {})
  <2>1. CASE c \in Follow /\ e.follows = Append(a.follows, c)
    <3>1. c \notin ToSet(a.follows)
      BY <1>7
    <3> QED BY <1>6, <2>1, <3>1, AppendedTo
  <2>2. CASE c \notin Follow /\ e.follows = a.follows
    BY <1>6, <2>2
  <2> QED BY <2>1, <2>2 DEF a
<1>9. e.client = a.client /\ e.refs = a.refs /\ (c \in Broadcast => r.on = a.client)
  BY DEF a
<1>10. ChainShapes'
  BY <1>0, <1>1, <1>3, <1>5 DEF ChainShapes
<1>11. Numbered'
  <2>1. ASSUME NEW h \in Chain, chains'[h] # NoChain
        PROVE  chains'[h].client \in 1..clients' /\ chains'[h].refs >= 1 /\ Distinct(chains'[h].follows)
    <3>1. CASE h = g
      BY <1>3, <1>6, <1>8, <1>9, <3>1
    <3>2. CASE h # g
      <4>1. chains[h].client \in 1..clients /\ chains[h].refs >= 1 /\ Distinct(chains[h].follows)
        BY <1>0, <1>3, <2>1, <3>2 DEF Numbered
      <4> QED BY <1>3, <1>5, <3>2, <4>1
    <3> QED BY <3>1, <3>2
  <2>2. ASSUME NEW d \in Broadcast, use'[d].stage \in Sending
        PROVE  use'[d].on \in 1..clients'
    <3>1. CASE d = c
      BY <1>1, <1>6, <1>9, <3>1
    <3>2. CASE d # c
      <4>1. use'[d] = use[d] /\ use[d].on \in 1..clients
        BY <1>0, <1>1, <2>2, <3>2 DEF Numbered, Calls
      <4> QED BY <1>5, <4>1
    <3> QED BY <3>1, <3>2
  <2> QED BY <2>1, <2>2 DEF Numbered
<1>12. FollowsAreOpen'
  <2> SUFFICES ASSUME NEW h \in Chain, chains'[h] # NoChain, NEW f \in ToSet(chains'[h].follows)
               PROVE  use'[f].stage = "open" /\ use'[f].chain = h
    BY DEF FollowsAreOpen
  <2>1. CASE h = g
    BY <1>0, <1>1, <1>3, <1>7, <1>8, <2>1 DEF Calls
  <2>2. CASE h # g
    <3>1. chains[h] # NoChain /\ f \in ToSet(chains[h].follows) /\ chains[h] \in Connection
      BY <1>0, <1>3, <2>2 DEF ChainShapes
    <3>2. f \in Follow /\ f \in Calls /\ use[f].stage = "open" /\ use[f].chain = h
      BY <1>0, <3>1 DEF FollowsAreOpen, Connection, ToSet, Calls
    <3> QED BY <1>1, <3>2 DEF Holding
  <2> QED BY <2>1, <2>2
<1>13. OperationsRun'
  <2> SUFFICES ASSUME NEW d \in HeadOp, use'[d].stage = "running"
               PROVE  /\ chains'[use'[d].chain] # NoChain
                      /\ use'[d].on \in ToSet(chains'[use'[d].chain].follows)
    BY DEF OperationsRun
  <2>1. use'[d] = use[d] /\ use[d].stage = "running" /\ use[d].chain \in Chain
    BY <1>0, <1>1 DEF Calls, ChainShapes
  <2>2. chains[use[d].chain] # NoChain /\ use[d].on \in ToSet(chains[use[d].chain].follows)
    BY <1>0, <2>1 DEF OperationsRun
  <2>3. CASE use[d].chain = g
    BY <1>2, <1>3, <1>4, <1>8, <2>1, <2>2, <2>3 DEF a
  <2>4. CASE use[d].chain # g
    BY <1>3, <2>1, <2>2, <2>4
  <2> QED BY <2>3, <2>4
<1>14. \A h \in Chain : Holders(h)' = IF h = g THEN Holders(g) \cup {c} ELSE Holders(h)
  BY <1>0, <1>1, HoldersAreCalls DEF Holders, Holding, Taker
<1>15. c \notin Holders(g)
  BY DEF Holders, Holding
<1>16. HoldersAreCounted'
  <2> SUFFICES ASSUME ~disposed, NEW h \in Chain
               PROVE  /\ chains'[h] = NoChain => Holders(h)' = {}
                      /\ chains'[h] # NoChain =>
                           IsFiniteSet(Holders(h)') /\ chains'[h].refs = Cardinality(Holders(h)')
    BY DEF HoldersAreCounted
  <2>1. CASE h # g
    BY <1>0, <1>3, <1>14, <2>1 DEF HoldersAreCounted
  <2>2. CASE h = g /\ chains[g] = NoChain
    <3>1. Holders(g) = {} /\ Holders(h)' = {c} /\ e.refs = 1
      BY <1>0, <1>4, <1>9, <1>14, <2>2 DEF HoldersAreCounted
    <3>2. IsFiniteSet({c}) /\ Cardinality({c}) = 1
      BY FS_Singleton
    <3> QED BY <1>2, <1>3, <2>2, <3>1, <3>2
  <2>3. CASE h = g /\ chains[g] # NoChain
    <3>1. IsFiniteSet(Holders(g)) /\ chains[g].refs = Cardinality(Holders(g)) /\ e.refs = chains[g].refs + 1
      BY <1>0, <1>4, <1>9, <2>3 DEF HoldersAreCounted
    <3>2. IsFiniteSet(Holders(g) \cup {c}) /\ Cardinality(Holders(g) \cup {c}) = Cardinality(Holders(g)) + 1
      BY <1>15, <3>1, FS_AddElement
    <3> QED BY <1>2, <1>3, <1>14, <2>3, <3>1, <3>2
  <2> QED BY <2>1, <2>2, <2>3
<1>17. SendersAreOn'
  <2> SUFFICES ASSUME ~disposed, NEW d \in Broadcast, use'[d].stage \in Sending
               PROVE  chains'[use'[d].chain] # NoChain /\ chains'[use'[d].chain].client = use'[d].on
    BY DEF SendersAreOn, IsConnected
  <2>1. CASE d = c
    BY <1>1, <1>2, <1>3, <1>9, <2>1
  <2>2. CASE d # c
    <3>1. use'[d] = use[d] /\ use[d].chain \in Chain
      BY <1>0, <1>1, <2>2 DEF Calls, ChainShapes, Sending
    <3>2. chains[use[d].chain] # NoChain /\ chains[use[d].chain].client = use[d].on
      BY <1>0, <3>1 DEF SendersAreOn, IsConnected
    <3>3. CASE use[d].chain = g
      BY <1>2, <1>3, <1>4, <1>9, <3>1, <3>2, <3>3
    <3>4. CASE use[d].chain # g
      BY <1>3, <3>1, <3>2, <3>4
    <3> QED BY <3>3, <3>4
  <2> QED BY <2>1, <2>2
<1>18. SendersAreEnough'
  <2> SUFFICES ASSUME disposed, NEW h \in Chain, chains'[h] # NoChain
               PROVE  IsFiniteSet(Senders(h)') /\ chains'[h].refs <= Cardinality(Senders(h)')
    BY DEF SendersAreEnough
  <2>0. c \in Broadcast /\ r.stage \in Sending /\ Broadcast \subseteq Calls
    BY DEF Calls
  <2>1. CASE h # g
    <3>1. Senders(h)' = Senders(h)
      BY <1>1, <1>3, <2>0, <2>1 DEF Senders, Sending, Holding
    <3> QED BY <1>0, <1>3, <2>1, <3>1 DEF SendersAreEnough
  <2>2. CASE h = g /\ chains[g] = NoChain
    <3>1. \A d \in Broadcast : d # c => d \notin Senders(h)'
      <4> SUFFICES ASSUME NEW d \in Broadcast, d # c, use[d].stage \in Sending, use[d].on = e.client PROVE FALSE
        BY <1>1, <1>3, <2>0, <2>2 DEF Senders
      <4>1. use[d].on \in 1..clients
        BY <1>0 DEF Numbered
      <4> QED BY <1>4, <1>5, <1>9, <2>2, <4>1
    <3>2. c \in Senders(h)'
      BY <1>1, <1>3, <1>9, <2>0, <2>2 DEF Senders
    <3>3. Senders(h)' = {c}
      BY <3>1, <3>2 DEF Senders
    <3>4. e.refs = 1
      BY <1>4, <1>9, <2>2
    <3>5. IsFiniteSet({c}) /\ Cardinality({c}) = 1
      BY FS_Singleton
    <3> QED BY <1>3, <2>2, <3>3, <3>4, <3>5
  <2>3. CASE h = g /\ chains[g] # NoChain
    <3>1. e.client = chains[g].client /\ e.refs = chains[g].refs + 1
      BY <1>4, <1>9, <2>3
    <3>2. Senders(h)' = Senders(g) \cup {c} /\ c \notin Senders(g)
      BY <1>1, <1>3, <1>9, <2>0, <2>3, <3>1 DEF Senders, Sending, Holding
    <3>3. IsFiniteSet(Senders(g)) /\ chains[g].refs <= Cardinality(Senders(g)) /\ chains[g].refs \in Nat
      BY <1>0, <2>3 DEF SendersAreEnough, ChainShapes, Connection
    <3>4. IsFiniteSet(Senders(g) \cup {c}) /\ Cardinality(Senders(g) \cup {c}) = Cardinality(Senders(g)) + 1
      BY <3>2, <3>3, FS_AddElement
    <3>5. Cardinality(Senders(g)) \in Nat
      BY <3>3, FS_CardinalityType
    <3>6. chains[g].refs + 1 <= Cardinality(Senders(g)) + 1
      BY <3>3, <3>5
    <3> QED BY <1>3, <2>3, <3>1, <3>2, <3>4, <3>6
  <2> QED BY <2>1, <2>2, <2>3
<1> QED BY <1>10, <1>11, <1>12, <1>13, <1>16, <1>17, <1>18 DEF ChainIInv


\* A holder lets go of its connection, which is closed with the last of them:
\* F are the follows that end with it.
LEMMA LeaveStep ==
    ASSUME ChainIInv, NEW c \in Taker, use[c].stage \in Holding, NEW g, g = use[c].chain,
           NEW w \in [Chain -> {NoChain} \cup Connection], \A h \in Chain : h # g => w[h] = chains[h],
           chains[g] = NoChain => w[g] = NoChain,
           chains[g] # NoChain =>
             /\ w[g] # NoChain /\ w[g].client = chains[g].client /\ w[g].refs = chains[g].refs
             /\ Distinct(w[g].follows) /\ ToSet(w[g].follows) = ToSet(chains[g].follows) \ {c},
           chains' = Released(g, w),
           NEW F, TornDown(g, w) \subseteq F, c \in Follow => c \in F,
           NEW r \in UseRecord, r.stage = "settled", use' = [Rejected(use, F) EXCEPT ![c] = r],
           UNCHANGED <<clients, disposed>>
    PROVE  ChainIInv'
<1>0. ChainShapes /\ Numbered /\ FollowsAreOpen /\ OperationsRun /\ HoldersAreCounted /\ SendersAreOn
      /\ SendersAreEnough /\ c \in Calls /\ c \notin HeadOp
  BY HoldersAreCalls DEF ChainIInv
<1>1. g \in Chain
  BY <1>0 DEF ChainShapes, Holding
<1>2. /\ Rejected(use, F) \in [Calls -> UseRecord]
      /\ \A d \in Calls : d \notin HeadOp => Rejected(use, F)[d] = use[d]
      /\ \A d \in Calls : \/ Rejected(use, F)[d] = use[d] /\ (d \in HeadOp => use[d].on \notin F)
                          \/ Rejected(use, F)[d].stage = "settled"
  BY <1>0, OnlyOperationsAreRejected
<1>3. /\ use' \in [Calls -> UseRecord] /\ use'[c].stage = "settled"
      /\ \A d \in Calls : d # c /\ d \notin HeadOp => use'[d] = use[d]
      /\ \A d \in Calls : d # c =>
           \/ use'[d] = use[d] /\ (d \in HeadOp => use[d].on \notin F)
           \/ use'[d].stage = "settled"
  BY <1>0, <1>2
<1>4. ASSUME chains[g] = NoChain PROVE chains' = w /\ w[g] = NoChain
  BY <1>4 DEF Released
<1>5. ASSUME chains[g] # NoChain
      PROVE  /\ w[g] \in Connection /\ chains[g] \in Connection /\ chains[g].refs >= 1
             /\ chains[g].client \in 1..clients
  BY <1>0, <1>1, <1>5 DEF Numbered, ChainShapes
<1>6. ASSUME chains[g] # NoChain, chains[g].refs <= 1
      PROVE  chains' = [w EXCEPT ![g] = NoChain] /\ ToSet(w[g].follows) \subseteq F
  BY <1>5, <1>6 DEF Released, TornDown
<1>7. ASSUME chains[g] # NoChain, ~(chains[g].refs <= 1)
      PROVE  chains' = [w EXCEPT ![g] = [w[g] EXCEPT !.refs = @ - 1]]
  BY <1>5, <1>7 DEF Released
<1>8. ASSUME chains[g] # NoChain, ~(chains[g].refs <= 1)
      PROVE  /\ [w[g] EXCEPT !.refs = @ - 1] \in Connection
             /\ [w[g] EXCEPT !.refs = @ - 1].client = chains[g].client
             /\ [w[g] EXCEPT !.refs = @ - 1].refs = chains[g].refs - 1
             /\ [w[g] EXCEPT !.refs = @ - 1].follows = w[g].follows
  <2>1. w[g] \in Connection /\ w[g].refs = chains[g].refs /\ w[g].client = chains[g].client
    BY <1>5, <1>8
  <2>2. chains[g].refs \in Nat /\ chains[g].refs - 1 \in Nat
    BY <1>5, <1>8 DEF Connection
  <2> QED BY <2>1, <2>2 DEF Connection
<1>9. /\ chains' \in [Chain -> {NoChain} \cup Connection]
      /\ \A h \in Chain : h # g => chains'[h] = chains[h]
      /\ chains'[g] = NoChain \/ /\ chains[g] # NoChain /\ ~(chains[g].refs <= 1)
                                 /\ chains'[g].client = chains[g].client
                                 /\ chains'[g].refs = chains[g].refs - 1
                                 /\ chains'[g].follows = w[g].follows
      /\ chains'[g] = NoChain => chains[g] = NoChain \/ chains[g].refs <= 1
  <2>1. CASE chains[g] = NoChain
    BY <1>1, <1>4, <2>1
  <2>2. CASE chains[g] # NoChain /\ chains[g].refs <= 1
    BY <1>1, <1>6, <2>2
  <2>3. CASE chains[g] # NoChain /\ ~(chains[g].refs <= 1)
    <3> DEFINE e == [w[g] EXCEPT !.refs = @ - 1]
    <3>1. e \in Connection /\ e.client = chains[g].client /\ e.refs = chains[g].refs - 1 /\ e.follows = w[g].follows
      BY <1>8, <2>3
    <3>2. chains' = [w EXCEPT ![g] = e]
      BY <1>7, <2>3
    <3> HIDE DEF e
    <3>3. e # NoChain
      BY <3>1, ChainAssumption DEF Connection
    <3> QED BY <1>1, <2>3, <3>1, <3>2, <3>3
  <2> QED BY <2>1, <2>2, <2>3
<1>10. ChainShapes'
  <2>1. \A d \in Calls : use'[d].stage \notin {"idle", "settled"} => use'[d].chain \in Chain
    BY <1>0, <1>3 DEF ChainShapes
  <2> QED BY <1>0, <1>3, <1>9, <2>1 DEF ChainShapes
<1>11. Numbered'
  <2>1. ASSUME NEW h \in Chain, chains'[h] # NoChain
        PROVE  chains'[h].client \in 1..clients /\ chains'[h].refs >= 1 /\ Distinct(chains'[h].follows)
    <3>1. CASE h # g
      BY <1>0, <1>9, <2>1, <3>1 DEF Numbered
    <3>2. CASE h = g
      <4>1. chains[g] # NoChain /\ ~(chains[g].refs <= 1) /\ chains'[g].client = chains[g].client
            /\ chains'[g].refs = chains[g].refs - 1 /\ chains'[g].follows = w[g].follows
        BY <1>9, <2>1, <3>2
      <4>2. chains[g].refs \in Nat
        BY <1>5, <4>1 DEF Connection
      <4>3. chains[g].refs - 1 >= 1
        BY <4>1, <4>2
      <4>4. chains[g].client \in 1..clients
        BY <1>5, <4>1
      <4> QED BY <3>2, <4>1, <4>3, <4>4
    <3> QED BY <3>1, <3>2
  <2>2. \A d \in Broadcast : use'[d].stage \in Sending => use'[d].on \in 1..clients
    BY <1>0, <1>3, HoldersAreCalls DEF Numbered, Sending, Taker
  <2> QED BY <2>1, <2>2 DEF Numbered
<1>12. FollowsAreOpen'
  <2> SUFFICES ASSUME NEW h \in Chain, chains'[h] # NoChain, NEW f \in ToSet(chains'[h].follows)
               PROVE  use'[f].stage = "open" /\ use'[f].chain = h
    BY DEF FollowsAreOpen
  <2>1. chains[h] # NoChain /\ f \in ToSet(chains[h].follows) /\ (h = g => f # c)
    BY <1>9
  <2>2. chains[h] \in Connection /\ use[f].stage = "open" /\ use[f].chain = h
    BY <1>0, <2>1 DEF ChainShapes, FollowsAreOpen
  <2>3. f \in Follow /\ f \in Calls /\ f \notin HeadOp
    BY <2>1, <2>2, ChainAssumption DEF Connection, ToSet, Calls
  <2> QED BY <1>3, <2>1, <2>2, <2>3
<1>13. OperationsRun'
  <2> SUFFICES ASSUME NEW d \in HeadOp, use'[d].stage = "running"
               PROVE  /\ chains'[use'[d].chain] # NoChain
                      /\ use'[d].on \in ToSet(chains'[use'[d].chain].follows)
    BY DEF OperationsRun
  <2>1. use'[d] = use[d] /\ use[d].on \notin F /\ use[d].chain \in Chain
    BY <1>0, <1>3 DEF Calls, ChainShapes
  <2>2. chains[use[d].chain] # NoChain /\ use[d].on \in ToSet(chains[use[d].chain].follows)
    BY <1>0, <2>1 DEF OperationsRun
  <2>3. CASE use[d].chain # g
    BY <1>9, <2>1, <2>2, <2>3
  <2>4. CASE use[d].chain = g
    <3>1. use[d].on \in Follow
      BY <1>5, <2>2, <2>4 DEF Connection, ToSet
    <3>2. use[d].on \in ToSet(w[g].follows)
      BY <2>1, <2>2, <2>4, <3>1
    <3>3. chains'[g] # NoChain
      BY <1>6, <1>9, <2>1, <2>2, <2>4, <3>2
    <3> QED BY <1>9, <2>1, <2>4, <3>2, <3>3
  <2> QED BY <2>3, <2>4
<1>14. \A h \in Chain : Holders(h)' = IF h = g THEN Holders(g) \ {c} ELSE Holders(h)
  BY <1>0, <1>3, HoldersAreCalls DEF Holders, Holding, Taker
<1>15. c \in Holders(g)
  BY DEF Holders, Holding, Taker
<1>16. ASSUME ~disposed
       PROVE  /\ IsFiniteSet(Holders(g)') /\ chains[g] # NoChain
              /\ Cardinality(Holders(g)') = chains[g].refs - 1
              /\ chains'[g] = NoChain => Holders(g)' = {}
  <2>1. chains[g] # NoChain /\ IsFiniteSet(Holders(g)) /\ chains[g].refs = Cardinality(Holders(g))
    BY <1>0, <1>1, <1>15, <1>16 DEF HoldersAreCounted
  <2>2. IsFiniteSet(Holders(g) \ {c}) /\ Cardinality(Holders(g) \ {c}) = Cardinality(Holders(g)) - 1
    BY <1>15, <2>1, FS_RemoveElement
  <2>3. Holders(g)' = Holders(g) \ {c}
    BY <1>1, <1>14
  <2>4. chains'[g] = NoChain => chains[g].refs = 1
    BY <1>5, <1>9, <2>1 DEF Connection
  <2>5. Cardinality(Holders(g)') = 0 => Holders(g)' = {}
    BY <2>2, <2>3, FS_EmptySet
  <2>6. chains[g].refs = 1 => Cardinality(Holders(g)') = 0
    BY <2>1, <2>2, <2>3
  <2> QED BY <2>1, <2>2, <2>3, <2>4, <2>5, <2>6
<1>17. HoldersAreCounted'
  <2> SUFFICES ASSUME ~disposed, NEW h \in Chain
               PROVE  /\ chains'[h] = NoChain => Holders(h)' = {}
                      /\ chains'[h] # NoChain =>
                           IsFiniteSet(Holders(h)') /\ chains'[h].refs = Cardinality(Holders(h)')
    BY DEF HoldersAreCounted
  <2>1. CASE h # g
    BY <1>0, <1>9, <1>14, <2>1 DEF HoldersAreCounted
  <2>2. CASE h = g
    BY <1>9, <1>16, <2>2
  <2> QED BY <2>1, <2>2
<1>18. SendersAreOn'
  <2> SUFFICES ASSUME ~disposed, NEW d \in Broadcast, use'[d].stage \in Sending
               PROVE  chains'[use'[d].chain] # NoChain /\ chains'[use'[d].chain].client = use'[d].on
    BY DEF SendersAreOn, IsConnected
  <2>1. d \in Calls /\ d \notin HeadOp /\ d # c /\ use'[d] = use[d] /\ use[d].chain \in Chain
    BY <1>0, <1>3, HoldersAreCalls DEF Taker, Sending, ChainShapes
  <2>2. chains[use[d].chain] # NoChain /\ chains[use[d].chain].client = use[d].on
    BY <1>0, <2>1 DEF SendersAreOn, IsConnected
  <2>3. CASE use[d].chain # g
    BY <1>9, <2>1, <2>2, <2>3
  <2>4. CASE use[d].chain = g
    <3>1. d \in Holders(g)'
      BY <1>1, <1>14, <2>1, <2>4 DEF Holders, Sending
    <3>2. chains'[g] # NoChain
      BY <1>16, <3>1
    <3> QED BY <1>9, <2>1, <2>2, <2>4, <3>2
  <2> QED BY <2>3, <2>4
<1>19. SendersAreEnough'
  <2> SUFFICES ASSUME disposed, NEW h \in Chain, chains'[h] # NoChain
               PROVE  IsFiniteSet(Senders(h)') /\ chains'[h].refs <= Cardinality(Senders(h)')
    BY DEF SendersAreEnough
  <2>1. \A d \in Broadcast : d \in Calls /\ d \notin HeadOp
    BY HoldersAreCalls DEF Taker
  <2>2. CASE h # g
    <3>1. Senders(h)' = Senders(h)
      BY <1>3, <1>9, <2>1, <2>2, SMTT(30) DEF Senders, Sending
    <3> QED BY <1>0, <1>9, <2>2, <3>1 DEF SendersAreEnough
  <2>3. CASE h = g
    <3>1. chains[g] # NoChain /\ chains'[g].client = chains[g].client /\ chains'[g].refs = chains[g].refs - 1
      BY <1>9, <2>3
    <3>2. IsFiniteSet(Senders(g)) /\ chains[g].refs <= Cardinality(Senders(g)) /\ chains[g].refs \in Nat
      BY <1>0, <1>1, <1>5, <3>1 DEF SendersAreEnough, Connection
    <3>3. Senders(h)' = Senders(g) \ {c}
      BY <1>3, <2>1, <2>3, <3>1 DEF Senders, Sending
    <3>4. IsFiniteSet(Senders(g) \ {c}) /\ Cardinality(Senders(g)) - 1 <= Cardinality(Senders(g) \ {c})
      <4>1. Cardinality(Senders(g)) \in Nat
        BY <3>2, FS_CardinalityType
      <4>2. /\ IsFiniteSet(Senders(g) \ {c})
            /\ Cardinality(Senders(g) \ {c}) =
                 IF c \in Senders(g) THEN Cardinality(Senders(g)) - 1 ELSE Cardinality(Senders(g))
        BY <3>2, FS_RemoveElement
      <4> QED BY <4>1, <4>2
    <3>5. Cardinality(Senders(g)) \in Nat /\ Cardinality(Senders(g) \ {c}) \in Nat
      BY <3>2, <3>4, FS_CardinalityType
    <3>6. chains[g].refs - 1 <= Cardinality(Senders(g) \ {c})
      BY <3>2, <3>4, <3>5
    <3> QED BY <2>3, <3>1, <3>3, <3>4, <3>6
  <2> QED BY <2>2, <2>3
<1> QED BY <1>10, <1>11, <1>12, <1>13, <1>17, <1>18, <1>19 DEF ChainIInv


\* The records the steps of a call put in its place.
LEMMA UseRecords ==
    ASSUME ChainShapes, NEW c \in Calls, NEW g \in Chain
    PROVE  /\ \A s \in CallStages : Enters(c, g, s) = [use EXCEPT ![c] = [stage |-> s, chain |-> g, on |-> NoChain]]
           /\ \A s \in CallStages : \A o \in {NoChain} \cup Nat \cup Follow :
                /\ [stage |-> s, chain |-> g, on |-> o] \in UseRecord
                /\ [stage |-> s, chain |-> g, on |-> o].stage = s
                /\ [stage |-> s, chain |-> g, on |-> o].chain = g
                /\ [stage |-> s, chain |-> g, on |-> o].on = o
           /\ use[c] = Unmade => use[c].stage = "idle"
BY DEF Enters, UseRecord, Unmade

LEMMA AcquiredIsAConnection ==
    ASSUME ChainShapes, NEW g \in Chain
    PROVE  /\ Acquired(g)[g] \in Connection
           /\ Acquired(g) = [chains EXCEPT ![g] = Acquired(g)[g]]
<1>1. CASE chains[g] = NoChain
  <2>1. [client |-> clients + 1, refs |-> 1, follows |-> <<>>] \in Connection
    BY DEF Connection, ChainShapes
  <2> QED BY <1>1, <2>1 DEF Acquired, ChainShapes
<1>2. CASE chains[g] # NoChain
  <2>1. chains[g] \in Connection
    BY <1>2 DEF ChainShapes
  <2>2. [chains[g] EXCEPT !.refs = @ + 1] \in Connection
    BY <2>1 DEF Connection
  <2> QED BY <1>2, <2>1, <2>2 DEF Acquired, ChainShapes
<1> QED BY <1>1, <1>2

\* A call that is not made, or only asks, ends at once.
LEMMA SettlesAtOnce ==
    ASSUME ChainIInv, NEW c \in Calls, NEW g \in Chain, use[c].stage \in {"idle", "asking"},
           NEW s \in {"asking", "settled"}, use' = Enters(c, g, s), UNCHANGED <<chains, clients,
                                                                                disposed>>
    PROVE  ChainIInv'
<1>1. ChainShapes
  BY DEF ChainIInv
<1> DEFINE r == [stage |-> s, chain |-> g, on |-> NoChain]
<1>2. s \in CallStages /\ s \notin Holding /\ s \notin Sending /\ use[c].stage \notin Holding
      /\ use[c].stage \notin Sending
  BY DEF CallStages, Holding, Sending
<1>3. use' = [use EXCEPT ![c] = r] /\ r \in UseRecord /\ r.stage = s /\ r.chain = g
  BY <1>1, <1>2, UseRecords
<1> HIDE DEF r
<1>4. r.stage # "running" /\ use[c].stage # "open"
  BY <1>3
<1> QED BY <1>2, <1>3, <1>4, QuietStep

LEMMA SendStep ==
    ASSUME ChainIInv, NEW c \in Spec_ \cup Broadcast, NEW g \in Chain, use[c].stage \in {"idle", "asking"},
           disposed => c \in Broadcast, Send(c, g), UNCHANGED disposed
    PROVE  ChainIInv'
<1>0. ChainShapes /\ c \in Calls /\ c \in Taker /\ c \notin Follow
  BY ChainAssumption DEF ChainIInv, Calls, Taker
<1>1. CASE g \notin Supported
  <2>1. use' = Enters(c, g, "settled") /\ UNCHANGED <<chains, clients>>
    BY <1>1 DEF Send
  <2> QED BY <1>0, <2>1, SettlesAtOnce
<1>2. CASE g \in Supported
  <2> DEFINE k == Acquired(g)[g].client
             r == [stage |-> "sending", chain |-> g, on |-> k]
  <2>1. /\ use' = [Enters(c, g, "sending") EXCEPT ![c].on = k]
        /\ chains' = Acquired(g) /\ clients' = Created(g)
    BY <1>2 DEF Send
  <2>2. Acquired(g)[g] \in Connection /\ chains' = [chains EXCEPT ![g] = Acquired(g)[g]]
    BY <1>0, <2>1, AcquiredIsAConnection
  <2>3. k \in Nat
    BY <2>2 DEF Connection
  <2>4. Enters(c, g, "sending") = [use EXCEPT ![c] = [stage |-> "sending", chain |-> g, on |-> NoChain]]
    BY <1>0, UseRecords DEF CallStages
  <2>5. use' = [use EXCEPT ![c] = r]
    <3> DEFINE b == [stage |-> "sending", chain |-> g, on |-> NoChain]
    <3>1. [b EXCEPT !.on = k] = r
      OBVIOUS
    <3> HIDE DEF b, r, k
    <3>2. [[use EXCEPT ![c] = b] EXCEPT ![c].on = k] = [use EXCEPT ![c] = [b EXCEPT !.on = k]]
      BY <1>0 DEF ChainShapes
    <3> QED BY <2>1, <2>4, <3>1, <3>2 DEF b
  <2>6. r \in UseRecord /\ r.stage = "sending" /\ r.chain = g /\ r.on = k
    BY <1>0, <2>3, UseRecords DEF CallStages
  <2> HIDE DEF r
  <2>7. r.stage \in Holding /\ r.stage \in Sending /\ use[c].stage \notin Holding
    BY <2>6 DEF Holding, Sending
  <2> QED BY <1>0, <2>1, <2>2, <2>5, <2>6, <2>7, EnterStep
<1> QED BY <1>1, <1>2

LEMMA StartFollowStep ==
    ASSUME ChainIInv, NEW f \in Follow, NEW g \in Chain, StartFollow(f, g) PROVE ChainIInv'
<1>0. ChainShapes /\ f \in Calls /\ f \in Taker /\ f \notin Broadcast /\ use[f].stage = "idle" /\ ~disposed
      /\ UNCHANGED disposed
  BY ChainAssumption DEF ChainIInv, Calls, Taker, StartFollow, Unmade
<1>1. CASE g \notin Supported
  <2>1. use' = Enters(f, g, "settled") /\ UNCHANGED <<chains, clients>>
    BY <1>1 DEF StartFollow
  <2> QED BY <1>0, <2>1, SettlesAtOnce
<1>2. CASE g \in Supported
  <2> DEFINE a == Acquired(g)[g]
             e == [a EXCEPT !.follows = Append(a.follows, f)]
             r == [stage |-> "open", chain |-> g, on |-> NoChain]
  <2>1. /\ use' = Enters(f, g, "open") /\ clients' = Created(g)
        /\ chains' = [Acquired(g) EXCEPT ![g].follows = Append(@, f)]
    BY <1>2 DEF StartFollow
  <2>2. a \in Connection /\ Acquired(g) = [chains EXCEPT ![g] = a]
    BY <1>0, AcquiredIsAConnection
  <2>3. use' = [use EXCEPT ![f] = r] /\ r \in UseRecord /\ r.stage = "open" /\ r.chain = g
    BY <1>0, <2>1, UseRecords DEF CallStages
  <2>4. chains' = [chains EXCEPT ![g] = e]
    BY <1>0, <2>1, <2>2 DEF ChainShapes
  <2>5. Append(a.follows, f) \in Seq(Follow)
    BY <2>2, AppendProperties DEF Connection
  <2> HIDE DEF a
  <2>6. e \in Connection /\ e.client = a.client /\ e.refs = a.refs /\ e.follows = Append(a.follows, f)
    BY <2>2, <2>5 DEF Connection
  <2> HIDE DEF e, r
  <2>7. r.stage \in Holding /\ use[f].stage \notin Holding
    BY <1>0, <2>3 DEF Holding
  <2>8. /\ e.client = Acquired(g)[g].client /\ e.refs = Acquired(g)[g].refs
        /\ \/ f \in Follow /\ r.stage = "open" /\ e.follows = Append(Acquired(g)[g].follows, f)
           \/ f \notin Follow /\ e.follows = Acquired(g)[g].follows
    BY <2>3, <2>6 DEF a
  <2>9. e \in Connection /\ r \in UseRecord /\ r.chain = g
    BY <2>3, <2>6
  <2> QED BY <1>0, <2>1, <2>3, <2>4, <2>7, <2>8, <2>9, EnterStep
<1> QED BY <1>1, <1>2

LEMMA StartHeadOpStep ==
    ASSUME ChainIInv, NEW c \in HeadOp, NEW g \in Chain, StartHeadOp(c, g) PROVE ChainIInv'
<1>0. ChainShapes /\ c \in Calls /\ c \notin Taker /\ c \notin Follow /\ c \notin Broadcast
      /\ use[c].stage = "idle" /\ UNCHANGED <<chains, clients, disposed>>
  BY HoldersAreCalls DEF ChainIInv, Taker, StartHeadOp, Unmade
<1>1. CASE ~HasActiveFollow(g)
  BY <1>0, <1>1, SettlesAtOnce DEF StartHeadOp
<1>2. CASE HasActiveFollow(g)
  <2> DEFINE o == Head(chains[g].follows)
             r == [stage |-> "running", chain |-> g, on |-> o]
  <2>1. use' = [use EXCEPT ![c] = r]
    BY <1>2 DEF StartHeadOp
  <2>2. chains[g] # NoChain /\ chains[g].follows \in Seq(Follow) /\ chains[g].follows # <<>>
    BY <1>0, <1>2 DEF HasActiveFollow, ChainShapes, Connection
  <2>3. o \in Follow /\ o \in ToSet(chains[g].follows)
    BY <2>2, HeadTailProperties, EmptySeq, LenProperties DEF ToSet
  <2> HIDE DEF o
  <2>4. r \in UseRecord /\ r.stage = "running" /\ r.chain = g /\ r.on = o
    BY <1>0, <2>3, UseRecords DEF CallStages
  <2> HIDE DEF r
  <2>5. r.stage \notin Holding
    BY <2>4 DEF Holding
  <2> QED BY <1>0, <2>1, <2>2, <2>3, <2>4, <2>5, QuietStep
<1> QED BY <1>1, <1>2

LEMMA HeadOpEndsStep == ASSUME ChainIInv, NEW c \in HeadOp, HeadOpEnds(c) PROVE ChainIInv'
<1>0. ChainShapes /\ c \in Calls /\ c \notin Taker /\ c \notin Follow /\ c \notin Broadcast
      /\ UNCHANGED <<chains, clients, disposed>>
  BY HoldersAreCalls DEF ChainIInv, Taker, HeadOpEnds
<1> DEFINE r == [use[c] EXCEPT !.stage = "settled", !.on = NoChain]
<1>1. use[c] \in UseRecord
  BY <1>0 DEF ChainShapes
<1>2. use' = [use EXCEPT ![c] = r]
  BY <1>0, <1>1 DEF HeadOpEnds, ChainShapes
<1>3. r \in UseRecord /\ r.stage = "settled"
  BY <1>1 DEF UseRecord, CallStages
<1> HIDE DEF r
<1>4. r.stage \notin Holding
  BY <1>3 DEF Holding
<1> QED BY <1>0, <1>2, <1>3, <1>4, QuietStep

\* The stage of a broadcast moves on along its connection.
LEMMA MovesOn ==
    ASSUME ChainIInv, NEW c \in Broadcast, NEW s \in {"live", "stopping"},
           \/ s = "live" /\ use[c].stage = "sending"
           \/ s = "stopping" /\ use[c].stage = "live" /\ ~disposed,
           use' = [use EXCEPT ![c].stage = s], UNCHANGED <<chains, clients, disposed>>
    PROVE  ChainIInv'
<1>0. ChainShapes /\ c \in Calls /\ c \notin HeadOp /\ c \notin Follow
  BY ChainAssumption DEF ChainIInv, Calls
<1> DEFINE r == [use[c] EXCEPT !.stage = s]
<1>1. use[c] \in UseRecord /\ use[c].chain \in Chain
  BY <1>0 DEF ChainShapes
<1>2. use' = [use EXCEPT ![c] = r]
  BY <1>0, <1>1 DEF ChainShapes
<1>3. r \in UseRecord /\ r.stage = s /\ r.chain = use[c].chain /\ r.on = use[c].on
  BY <1>1 DEF UseRecord, CallStages
<1> HIDE DEF r
<1>4. s \in Holding /\ use[c].stage \in Holding /\ use[c].stage \in Sending /\ (s \in Sending => s = "live")
      /\ (disposed => s \in Sending)
  BY DEF Holding, Sending
<1> QED BY <1>0, <1>1, <1>2, <1>3, <1>4, QuietStep

LEMMA EndsStep ==
    ASSUME ChainIInv, NEW c \in Spec_ \cup Broadcast, use[c].stage \in {"sending", "stopping"}, Ends(c)
    PROVE  ChainIInv'
<1>0. ChainShapes /\ FollowsAreOpen /\ Numbered /\ c \in Calls /\ c \in Taker /\ c \notin Follow /\ c \notin HeadOp
  BY ChainAssumption DEF ChainIInv, Calls, Taker
<1> DEFINE g == use[c].chain
           F == TornDown(g, chains)
           r == [Rejected(use, F)[c] EXCEPT !.stage = "settled", !.on = NoChain]
<1>1. /\ chains' = Released(g, chains) /\ UNCHANGED <<clients, disposed>>
      /\ use' = [Rejected(use, F) EXCEPT ![c].stage = "settled", ![c].on = NoChain]
  BY DEF Ends
<1>2. use[c].stage \in Holding /\ g \in Chain
  BY <1>0 DEF Holding, ChainShapes
<1>3. chains \in [Chain -> {NoChain} \cup Connection]
  BY <1>0 DEF ChainShapes
<1>4. Rejected(use, F) \in [Calls -> UseRecord]
  BY <1>0, OnlyOperationsAreRejected
<1>5. use' = [Rejected(use, F) EXCEPT ![c] = r]
  BY <1>0, <1>1, <1>4
<1>6. Rejected(use, F)[c] \in UseRecord
  BY <1>0, <1>4
<1>7. r \in UseRecord /\ r.stage = "settled"
  BY <1>6 DEF UseRecord, CallStages
<1>8. ASSUME chains[g] # NoChain
      PROVE  /\ Distinct(chains[g].follows)
             /\ ToSet(chains[g].follows) = ToSet(chains[g].follows) \ {c}
  <2>1. chains[g] \in Connection
    BY <1>2, <1>3, <1>8
  <2>2. \A f \in ToSet(chains[g].follows) : f \in Follow
    BY <2>1 DEF Connection, ToSet
  <2> QED BY <1>0, <1>2, <1>8, <2>2 DEF Numbered
<1> HIDE DEF g, F, r
<1>9. g = use[c].chain /\ TornDown(g, chains) \subseteq F
  BY DEF g, F
<1>10. /\ use[c].stage \in Holding /\ \A h \in Chain : h # g => chains[h] = chains[h]
       /\ chains[g] = NoChain => chains[g] = NoChain
       /\ chains[g] # NoChain =>
            /\ chains[g] # NoChain /\ chains[g].client = chains[g].client /\ chains[g].refs = chains[g].refs
            /\ Distinct(chains[g].follows) /\ ToSet(chains[g].follows) = ToSet(chains[g].follows) \ {c}
  BY <1>2, <1>8
<1>11. chains' = Released(g, chains) /\ UNCHANGED <<clients, disposed>>
  BY <1>1 DEF g
<1> QED BY <1>0, <1>3, <1>5, <1>7, <1>9, <1>10, <1>11, LeaveStep

\* A connection without one of its follows.
LEMMA WithoutIsAConnection ==
    ASSUME ChainShapes, Numbered, NEW g \in Chain, NEW f
    PROVE  /\ FollowsWithout(g, f) \in [Chain -> {NoChain} \cup Connection]
           /\ \A h \in Chain : h # g => FollowsWithout(g, f)[h] = chains[h]
           /\ chains[g] = NoChain => FollowsWithout(g, f)[g] = NoChain
           /\ chains[g] # NoChain =>
                LET w == FollowsWithout(g, f)[g] IN
                /\ w # NoChain /\ w.client = chains[g].client /\ w.refs = chains[g].refs
                /\ Distinct(w.follows) /\ ToSet(w.follows) = ToSet(chains[g].follows) \ {f}
<1>1. CASE chains[g] = NoChain
  BY <1>1 DEF FollowsWithout, ChainShapes
<1>2. CASE chains[g] # NoChain
  <2> DEFINE s == RemoveFirst(chains[g].follows, f)
             e == [chains[g] EXCEPT !.follows = s]
  <2>1. chains[g] \in Connection /\ chains[g].follows \in Seq(Follow) /\ Distinct(chains[g].follows)
    BY <1>2 DEF ChainShapes, Connection, Numbered
  <2>2. s \in Seq(Follow) /\ Distinct(s) /\ ToSet(s) = ToSet(chains[g].follows) \ {f}
    BY <2>1, FirstRemoved
  <2>3. FollowsWithout(g, f) = [chains EXCEPT ![g] = e]
    BY <1>2, <2>1 DEF FollowsWithout, ChainShapes
  <2> HIDE DEF s
  <2>4. e \in Connection /\ e.client = chains[g].client /\ e.refs = chains[g].refs /\ e.follows = s
    BY <2>1, <2>2 DEF Connection
  <2> HIDE DEF e
  <2>5. e # NoChain
    BY <2>4, ChainAssumption DEF Connection
  <2>6. FollowsWithout(g, f)[g] = e
    BY <2>3 DEF ChainShapes
  <2> QED BY <1>2, <2>2, <2>3, <2>4, <2>5, <2>6 DEF ChainShapes
<1> QED BY <1>1, <1>2

LEMMA StopFollowStep == ASSUME ChainIInv, NEW f \in Follow, StopFollow(f) PROVE ChainIInv'
<1>0. ChainShapes /\ Numbered /\ f \in Calls /\ f \in Taker /\ f \notin HeadOp
  BY ChainAssumption DEF ChainIInv, Calls, Taker
<1> DEFINE g == use[f].chain
           w == FollowsWithout(g, f)
           F == {f} \cup TornDown(g, w)
           r == [Rejected(use, F)[f] EXCEPT !.stage = "settled"]
<1>1. /\ use[f].stage = "open" /\ chains' = Released(g, w) /\ UNCHANGED <<clients, disposed>>
      /\ use' = [Rejected(use, F) EXCEPT ![f].stage = "settled"]
  BY DEF StopFollow
<1>2. use[f].stage \in Holding /\ g \in Chain
  BY <1>0, <1>1 DEF Holding, ChainShapes
<1>3. Rejected(use, F) \in [Calls -> UseRecord]
  BY <1>0, OnlyOperationsAreRejected
<1>4. use' = [Rejected(use, F) EXCEPT ![f] = r] /\ Rejected(use, F)[f] \in UseRecord
  BY <1>0, <1>1, <1>3
<1>5. r \in UseRecord /\ r.stage = "settled"
  BY <1>4 DEF UseRecord, CallStages
<1>6. /\ w \in [Chain -> {NoChain} \cup Connection] /\ \A h \in Chain : h # g => w[h] = chains[h]
      /\ chains[g] = NoChain => w[g] = NoChain
      /\ chains[g] # NoChain =>
           /\ w[g] # NoChain /\ w[g].client = chains[g].client /\ w[g].refs = chains[g].refs
           /\ Distinct(w[g].follows) /\ ToSet(w[g].follows) = ToSet(chains[g].follows) \ {f}
  <2> HIDE DEF g
  <2> QED BY <1>0, <1>2, WithoutIsAConnection
<1>7. TornDown(g, w) \subseteq F /\ f \in F /\ g = use[f].chain
  OBVIOUS
<1>8. chains' = Released(g, w) /\ UNCHANGED <<clients, disposed>>
  BY <1>1
<1> HIDE DEF g, w, F, r
<1>9. f \in Taker /\ use' = [Rejected(use, F) EXCEPT ![f] = r]
  BY <1>0, <1>4
<1> QED BY <1>2, <1>5, <1>6, <1>7, <1>8, <1>9, LeaveStep, ZenonT(60)

LEMMA FollowDiesStep ==
    ASSUME ChainIInv, NEW f \in Follow, NEW g \in Chain, FollowDies(f, g) PROVE ChainIInv'
<1>0. ChainShapes /\ Numbered /\ FollowsAreOpen /\ OperationsRun /\ HoldersAreCounted /\ SendersAreOn
      /\ SendersAreEnough
  BY DEF ChainIInv
<1>1. /\ chains[g] # NoChain /\ chains' = FollowsWithout(g, f) /\ use' = Rejected(use, {f})
      /\ UNCHANGED <<clients, disposed>>
  BY DEF FollowDies
<1>2. /\ chains' \in [Chain -> {NoChain} \cup Connection]
      /\ \A h \in Chain : h # g => chains'[h] = chains[h]
      /\ chains'[g] # NoChain /\ chains'[g].client = chains[g].client /\ chains'[g].refs = chains[g].refs
      /\ Distinct(chains'[g].follows) /\ ToSet(chains'[g].follows) = ToSet(chains[g].follows) \ {f}
  BY <1>0, <1>1, WithoutIsAConnection
<1>3. /\ use' \in [Calls -> UseRecord]
      /\ \A d \in Calls : d \notin HeadOp => use'[d] = use[d]
      /\ \A d \in Calls : \/ use'[d] = use[d] /\ (d \in HeadOp => use[d].on # f)
                          \/ use'[d].stage = "settled"
  <2>1. /\ Rejected(use, {f}) \in [Calls -> UseRecord]
        /\ \A c \in Calls : c \notin HeadOp => Rejected(use, {f})[c] = use[c]
        /\ \A c \in Calls : \/ Rejected(use, {f})[c] = use[c] /\ (c \in HeadOp => use[c].on \notin {f})
                            \/ Rejected(use, {f})[c].stage = "settled"
    BY <1>0, OnlyOperationsAreRejected
  <2> QED BY <1>1, <2>1
<1>4. \A h \in Chain : /\ chains'[h] = NoChain <=> chains[h] = NoChain
                       /\ chains'[h].client = chains[h].client /\ chains'[h].refs = chains[h].refs
                       /\ ToSet(chains'[h].follows) \subseteq ToSet(chains[h].follows)
                       /\ Distinct(chains[h].follows) => Distinct(chains'[h].follows)
  BY <1>1, <1>2
<1>5. \A d \in Taker : d \in Calls /\ d \notin HeadOp /\ use'[d] = use[d]
  BY <1>3, HoldersAreCalls
<1>6. ChainShapes'
  <2>1. \A d \in Calls : use'[d].stage \notin {"idle", "settled"} => use'[d].chain \in Chain
    BY <1>0, <1>3 DEF ChainShapes
  <2> QED BY <1>0, <1>1, <1>2, <1>3, <2>1 DEF ChainShapes
<1>7. Numbered'
  BY <1>0, <1>1, <1>4, <1>5 DEF Numbered, Taker
<1>8. FollowsAreOpen'
  <2> SUFFICES ASSUME NEW h \in Chain, chains'[h] # NoChain, NEW x \in ToSet(chains'[h].follows)
               PROVE  use'[x].stage = "open" /\ use'[x].chain = h
    BY DEF FollowsAreOpen
  <2>1. chains[h] # NoChain /\ x \in ToSet(chains[h].follows) /\ chains[h] \in Connection
    BY <1>0, <1>4 DEF ChainShapes
  <2>2. x \in Taker /\ use[x].stage = "open" /\ use[x].chain = h
    BY <1>0, <2>1 DEF FollowsAreOpen, Connection, ToSet, Taker
  <2> QED BY <1>5, <2>2
<1>9. OperationsRun'
  <2> SUFFICES ASSUME NEW d \in HeadOp, use'[d].stage = "running"
               PROVE  /\ chains'[use'[d].chain] # NoChain
                      /\ use'[d].on \in ToSet(chains'[use'[d].chain].follows)
    BY DEF OperationsRun
  <2>1. use'[d] = use[d] /\ use[d].on # f /\ use[d].chain \in Chain
    BY <1>0, <1>3 DEF Calls, ChainShapes
  <2>2. chains[use[d].chain] # NoChain /\ use[d].on \in ToSet(chains[use[d].chain].follows)
    BY <1>0, <2>1 DEF OperationsRun
  <2> QED BY <1>2, <1>4, <2>1, <2>2
<1>10. \A h \in Chain : Holders(h)' = Holders(h) /\ Senders(h)' = Senders(h)
  BY <1>4, <1>5 DEF Holders, Senders, Taker
<1>11. HoldersAreCounted' /\ SendersAreEnough'
  BY <1>0, <1>1, <1>4, <1>10 DEF HoldersAreCounted, SendersAreEnough
<1>12. SendersAreOn'
  <2>1. \A d \in Broadcast : use[d].stage \in Sending => use[d].chain \in Chain
    BY <1>0 DEF ChainShapes, Sending, Calls
  <2> SUFFICES ASSUME ~disposed, NEW d \in Broadcast, use'[d].stage \in Sending
               PROVE  chains'[use'[d].chain] # NoChain /\ chains'[use'[d].chain].client = use'[d].on
    BY <1>1 DEF SendersAreOn, IsConnected
  <2>2. use'[d] = use[d] /\ use[d].chain \in Chain
    BY <1>5, <2>1 DEF Taker
  <2>3. chains[use[d].chain] # NoChain /\ chains[use[d].chain].client = use[d].on
    BY <1>0, <2>2 DEF SendersAreOn, IsConnected
  <2> QED BY <1>4, <2>2, <2>3
<1> QED BY <1>6, <1>7, <1>8, <1>9, <1>11, <1>12 DEF ChainIInv

LEMMA DisposeStep == ASSUME ChainIInv, Dispose PROVE ChainIInv'
<1>0. ChainShapes /\ Numbered /\ OperationsRun
  BY DEF ChainIInv
<1>1. /\ disposed' = TRUE /\ chains' = [g \in Chain |-> NoChain] /\ use' = Rejected(use, Follow)
      /\ UNCHANGED clients
  BY DEF Dispose
<1>2. /\ use' \in [Calls -> UseRecord]
      /\ \A d \in Calls : d \notin HeadOp => use'[d] = use[d]
      /\ \A d \in Calls : \/ use'[d] = use[d] /\ (d \in HeadOp => use[d].on \notin Follow)
                          \/ use'[d].stage = "settled"
  BY <1>0, <1>1, OnlyOperationsAreRejected
<1>3. ChainShapes'
  <2>1. \A d \in Calls : use'[d].stage \notin {"idle", "settled"} => use'[d].chain \in Chain
    BY <1>0, <1>2 DEF ChainShapes
  <2> QED BY <1>0, <1>1, <1>2, <2>1 DEF ChainShapes
<1>4. Numbered'
  BY <1>0, <1>1, <1>2, HoldersAreCalls DEF Numbered, Taker
<1>5. OperationsRun'
  <2> SUFFICES ASSUME NEW d \in HeadOp, use'[d].stage = "running" PROVE FALSE
    BY DEF OperationsRun
  <2>1. use'[d] = use[d] /\ use[d].on \notin Follow /\ use[d].chain \in Chain
    BY <1>0, <1>2 DEF Calls, ChainShapes
  <2>2. chains[use[d].chain] \in Connection /\ use[d].on \in ToSet(chains[use[d].chain].follows)
    BY <1>0, <2>1 DEF OperationsRun, ChainShapes
  <2> QED BY <2>1, <2>2 DEF Connection, ToSet
<1>6. FollowsAreOpen' /\ HoldersAreCounted' /\ SendersAreOn' /\ SendersAreEnough'
  BY <1>1 DEF FollowsAreOpen, HoldersAreCounted, SendersAreOn, SendersAreEnough
<1> QED BY <1>3, <1>4, <1>5, <1>6 DEF ChainIInv

\* What the run checks of the connections follows from the invariant.
LEMMA HeldByInvariant == ChainIInv => ConnectionsAreHeld
<1> SUFFICES ASSUME ChainIInv PROVE ConnectionsAreHeld
  OBVIOUS
<1>0. ChainShapes /\ Numbered /\ FollowsAreOpen /\ OperationsRun /\ HoldersAreCounted /\ SendersAreOn
      /\ SendersAreEnough
  BY DEF ChainIInv
<1>1. ChainTypeOK
  <2>1. \A g \in Chain : chains[g] # NoChain =>
          /\ chains[g].client \in 1..clients /\ chains[g].refs \in Nat \ {0}
          /\ chains[g].follows \in Seq(Follow)
    BY <1>0 DEF ChainShapes, Connection, Numbered
  <2>2. \A c \in Calls : use[c].chain \in Chain \cup {NoChain}
    BY <1>0 DEF ChainShapes, UseRecord
  <2> QED BY <1>0, <2>1, <2>2 DEF ChainTypeOK, ChainShapes
<1>2. CountsItsHolders
  <2> SUFFICES ASSUME ~disposed, NEW g \in Chain
               PROVE  IF Holders(g) = {} THEN chains[g] = NoChain
                      ELSE chains[g] # NoChain /\ chains[g].refs = Cardinality(Holders(g))
    BY DEF CountsItsHolders
  <2>1. CASE chains[g] = NoChain
    BY <1>0, <2>1 DEF HoldersAreCounted
  <2>2. CASE chains[g] # NoChain
    <3>1. chains[g].refs = Cardinality(Holders(g)) /\ chains[g].refs # 0
      BY <1>0, <1>1, <2>2 DEF HoldersAreCounted, ChainTypeOK
    <3>2. Holders(g) # {}
      BY <3>1, FS_EmptySet
    <3> QED BY <2>2, <3>1, <3>2
  <2> QED BY <2>1, <2>2
<1>3. BroadcastsStayConnected
  BY <1>0 DEF BroadcastsStayConnected, SendersAreOn, Sending
<1>4. OperationsHaveAFollow
  <2> SUFFICES ASSUME NEW c \in HeadOp, use[c].stage = "running"
               PROVE  /\ HasActiveFollow(use[c].chain) /\ use[c].on \in ToSet(chains[use[c].chain].follows)
                      /\ use[use[c].on].stage = "open"
    BY DEF OperationsHaveAFollow
  <2>1. use[c].chain \in Chain
    BY <1>0 DEF ChainShapes, Calls
  <2>2. chains[use[c].chain] # NoChain /\ use[c].on \in ToSet(chains[use[c].chain].follows)
    BY <1>0 DEF OperationsRun
  <2>3. chains[use[c].chain].follows # <<>>
    BY <2>2 DEF ToSet
  <2> QED BY <1>0, <2>1, <2>2, <2>3 DEF HasActiveFollow, FollowsAreOpen
<1>5. NothingOutlivesDispose
  <2> SUFFICES ASSUME disposed, NEW g \in Chain, chains[g] # NoChain
               PROVE  \E c \in Broadcast : use[c].stage \in {"sending", "live"} /\ use[c].on = chains[g].client
    BY DEF NothingOutlivesDispose
  <2>1. /\ IsFiniteSet(Senders(g)) /\ chains[g].refs <= Cardinality(Senders(g))
        /\ chains[g].refs \in Nat /\ chains[g].refs >= 1
    BY <1>0, <1>1 DEF SendersAreEnough, ChainTypeOK
  <2>2. Cardinality(Senders(g)) \in Nat
    BY <2>1, FS_CardinalityType
  <2>3. Cardinality(Senders(g)) # 0
    BY <2>1, <2>2
  <2>4. Senders(g) # {}
    BY <2>3, FS_EmptySet
  <2> QED BY <2>4 DEF Senders, Sending
<1> QED BY <1>1, <1>2, <1>3, <1>4, <1>5 DEF ConnectionsAreHeld

LEMMA ChainStep == ASSUME ChainIInv, ChainNext PROVE ChainIInv'
<1>0. ChainShapes
  BY DEF ChainIInv
<1>1. CASE \E f \in Follow : StopFollow(f) \/ \E g \in Chain : StartFollow(f, g) \/ FollowDies(f, g)
  BY <1>1, StopFollowStep, StartFollowStep, FollowDiesStep
<1>2. CASE \E c \in HeadOp : HeadOpEnds(c) \/ \E g \in Chain : StartHeadOp(c, g)
  BY <1>2, StartHeadOpStep, HeadOpEndsStep
<1>3. ASSUME NEW c \in Spec_, NEW g \in Chain, StartSpec(c, g) PROVE ChainIInv'
  <2>1. use[c].stage = "idle" /\ ~disposed /\ Send(c, g) /\ UNCHANGED disposed
    BY <1>3 DEF StartSpec, Unmade
  <2> QED BY <2>1, SendStep
<1>4. CASE \E c \in Spec_ : SpecEnds(c)
  BY <1>4, EndsStep DEF SpecEnds
<1>5. ASSUME NEW c \in Broadcast PROVE c \in Calls /\ (use[c].stage = "asking" => use[c].chain \in Chain)
  BY <1>0 DEF ChainShapes, Calls
<1>6. ASSUME NEW c \in Broadcast, PermissionDenied(c) PROVE ChainIInv'
  BY <1>5, <1>6, SettlesAtOnce DEF PermissionDenied
<1>7. ASSUME NEW c \in Broadcast, PermissionGranted(c) PROVE ChainIInv'
  BY <1>5, <1>7, SendStep DEF PermissionGranted
<1>8. ASSUME NEW c \in Broadcast, NEW g \in Chain, StartBroadcast(c, g) PROVE ChainIInv'
  <2>1. use[c].stage = "idle" /\ use' = Enters(c, g, "asking") /\ UNCHANGED <<chains, clients,
                                                                              disposed>>
    BY <1>8 DEF StartBroadcast, Unmade
  <2> QED BY <1>5, <2>1, SettlesAtOnce
<1>9. ASSUME NEW c \in Broadcast, StopTransaction(c) \/ BroadcastStarts(c) PROVE ChainIInv'
  BY <1>9, MovesOn DEF StopTransaction, BroadcastStarts
<1>10. ASSUME NEW c \in Broadcast, BroadcastFails(c) \/ StopEnds(c) PROVE ChainIInv'
  BY <1>10, EndsStep DEF BroadcastFails, StopEnds
<1>11. CASE Dispose
  BY <1>11, DisposeStep
<1> QED BY <1>1, <1>2, <1>3, <1>4, <1>6, <1>7, <1>8, <1>9, <1>10, <1>11 DEF ChainNext, NodeStep

\* The connections of a container are counted by who holds them, for any
\* chains, follows, operations, requests and broadcasts, before and after the
\* handler is removed.
THEOREM ConnectionsAlwaysHeld == ChainSpec => []ConnectionsAreHeld
<1>1. ChainIInv /\ [ChainNext]_chainVars => ChainIInv'
  <2> SUFFICES ASSUME ChainIInv, [ChainNext]_chainVars PROVE ChainIInv'
    OBVIOUS
  <2>1. CASE UNCHANGED chainVars
    BY <2>1, SMTT(30) DEF chainVars, ChainIInv, ChainShapes, Numbered, FollowsAreOpen, OperationsRun,
                HoldersAreCounted,
                SendersAreOn, SendersAreEnough, Senders, Holders, IsConnected
  <2> QED BY <2>1, ChainStep
<1> QED BY <1>1, ChainInitIInv, HeldByInvariant, PTL DEF ChainSpec

-----------------------------------------------------------------------------
(* A chain of the pool.                                                      *)

PoolUse == [stage : {"free", "done", "resolving", "held", "acquiring", "branched"}, client : Nat, awaits : Nat]
Resolution == [client : Nat, stage : {"running", "ok", "failed"}]

PoolShapes ==
    /\ refs \in Nat /\ made \in 0..MaxClients /\ client \in 0..made /\ destruction \in BOOLEAN
    /\ holder \in [Holder -> PoolUse] /\ \A h \in Holder : holder[h].client \in 0..made
    /\ branches \in Nat /\ root \in {"off", "waiting", "up"}
    /\ generation \in [1..MaxClients -> Nat] /\ paused \in BOOLEAN /\ status \in Status

ApiShapes ==
    /\ resolves \in Seq(Resolution) /\ \A r \in 1..Len(resolves) : resolves[r].client \in 0..made
    /\ resolved \in 0..made /\ pendingRes \in 0..Len(resolves)
    /\ \A h \in Holder : holder[h].awaits \in 0..Len(resolves)

Held == {h \in Holder : Holds(h)}
OnBranch == {h \in Holder : holder[h].stage = "branched"}

HoldersAreGiven ==
    /\ IsFiniteSet(Held) /\ refs = Cardinality(Held)
    /\ \A h \in Holder : Holds(h) => holder[h].client = client /\ client # 0

DestructionIsAhead ==
    /\ client # 0 => refs > 0 \/ destruction
    /\ destruction => refs = 0 /\ client # 0

\* The provider of a client has its own branch and those of the consumers: it
\* is this count that says when the transport goes.
BranchesAreCounted == branches = IF client = 0 THEN 0 ELSE 1 + Cardinality(OnBranch)

OneTransport ==
    /\ client = 0 => root = "off"
    /\ root # "up" => open = {}
    /\ root = "up" => open = {[client |-> client, gen |-> generation[client], paused |-> paused]}

PoolInv ==
    PoolShapes /\ ApiShapes /\ HoldersAreGiven /\ DestructionIsAhead /\ BranchesAreCounted /\ OneTransport
    /\ StatusIsTheNewest

LEMMA PoolInitInv == PoolInit => PoolInv
<1> SUFFICES ASSUME PoolInit PROVE PoolInv
  OBVIOUS
<1>1. /\ refs = 0 /\ client = 0 /\ made = 0 /\ destruction = FALSE
      /\ holder = [h \in Holder |-> Free] /\ resolves = <<>> /\ resolved = 0 /\ pendingRes = 0
      /\ branches = 0 /\ root = "off" /\ generation = [n \in 1..MaxClients |-> 0] /\ open = {} /\ paused = FALSE
      /\ status = "disconnected"
  BY DEF PoolInit
<1>2. Free \in PoolUse /\ Free.stage = "free" /\ Free.client = 0 /\ Free.awaits = 0
  BY DEF Free, PoolUse
<1>3. PoolShapes
  <2>1. MaxClients \in Nat /\ 0 \in 0..MaxClients /\ 0 \in 0..0 /\ "disconnected" \in Status
    BY PoolAssumption DEF Status
  <2>2. /\ holder \in [Holder -> PoolUse] /\ \A h \in Holder : holder[h].client = 0
        /\ generation \in [1..MaxClients -> Nat]
    BY <1>1, <1>2
  <2> QED BY <1>1, <2>1, <2>2 DEF PoolShapes
<1>4. ApiShapes
  <2>1. <<>> \in Seq(Resolution) /\ Len(<<>>) = 0
    OBVIOUS
  <2> QED BY <1>1, <1>2, <2>1 DEF ApiShapes
<1>5. Held = {}
  BY <1>1, <1>2 DEF Held, Holds
<1>6. HoldersAreGiven
  BY <1>1, <1>2, <1>5, FS_EmptySet DEF HoldersAreGiven, Holds
<1>7. DestructionIsAhead /\ BranchesAreCounted /\ OneTransport /\ StatusIsTheNewest
  BY <1>1 DEF DestructionIsAhead, BranchesAreCounted, OneTransport, StatusIsTheNewest
<1> QED BY <1>3, <1>4, <1>6, <1>7 DEF PoolInv

\* What a client that is there means: without one nothing is held or open.
LEMMA ClientIsHeld ==
    ASSUME PoolInv
    PROVE  /\ client = 0 => Held = {} /\ refs = 0
           /\ IsFiniteSet(OnBranch) /\ Cardinality(OnBranch) \in Nat /\ OnBranch \subseteq Held
<1>1. HoldersAreGiven
  BY DEF PoolInv
<1>2. client = 0 => Held = {}
  BY <1>1 DEF HoldersAreGiven, Held
<1>3. Held = {} => refs = 0
  BY <1>1, FS_EmptySet DEF HoldersAreGiven
<1>4. OnBranch \subseteq Held
  BY DEF OnBranch, Held, Holds
<1>5. IsFiniteSet(OnBranch)
  BY <1>1, <1>4, FS_Subset DEF HoldersAreGiven
<1> QED BY <1>2, <1>3, <1>4, <1>5, FS_CardinalityType

\* Steps that leave the holders and the client alone.
LEMMA HoldersStay ==
    ASSUME PoolInv, UNCHANGED <<refs, client, made, destruction>>,
           holder' \in [Holder -> PoolUse],
           \A h \in Holder : /\ holder'[h].client = holder[h].client /\ Holds(h)' = Holds(h)
                             /\ holder'[h].stage = "branched" <=> holder[h].stage = "branched",
           branches' = branches, root' \in {"off", "waiting", "up"}, generation' \in [1..MaxClients -> Nat],
           paused' \in BOOLEAN, status' \in Status, ApiShapes', OneTransport', StatusIsTheNewest'
    PROVE  PoolInv'
<1>0. PoolShapes /\ HoldersAreGiven /\ DestructionIsAhead /\ BranchesAreCounted
  BY DEF PoolInv
<1>1. PoolShapes'
  BY <1>0 DEF PoolShapes
<1>2. Held' = Held /\ OnBranch' = OnBranch
  BY DEF Held, OnBranch
<1>3. HoldersAreGiven'
  BY <1>0, <1>2 DEF HoldersAreGiven
<1>4. DestructionIsAhead' /\ BranchesAreCounted'
  BY <1>0, <1>2 DEF DestructionIsAhead, BranchesAreCounted
<1> QED BY <1>1, <1>3, <1>4 DEF PoolInv

LEMMA AcquireFacts ==
    ASSUME PoolInv, Acquire, status' = status
    PROVE  /\ refs' = refs + 1 /\ destruction' = FALSE
           /\ made' \in 0..MaxClients /\ made <= made' /\ client' \in 1..made'
           /\ client # 0 => client' = client
           /\ branches' = IF client = 0 THEN 1 ELSE branches
           /\ root' \in {"off", "waiting", "up"} /\ paused' \in BOOLEAN
           /\ generation' \in [1..MaxClients -> Nat]
           /\ OneTransport' /\ StatusIsTheNewest'
<1>0. PoolShapes /\ OneTransport /\ StatusIsTheNewest
  BY DEF PoolInv
<1>1. CASE client # 0
  <2>1. refs' = refs + 1 /\ destruction' = FALSE
        /\ UNCHANGED <<client, made, branches, root, generation, open, paused, last, stale>>
    BY <1>1 DEF Acquire, GetOrCreate, transportVars
  <2>2. OneTransport' /\ StatusIsTheNewest'
    BY <1>0, <2>1 DEF OneTransport, StatusIsTheNewest
  <2>3. client \in 1..made /\ made \in 0..MaxClients
    BY <1>0, <1>1 DEF PoolShapes
  <2> QED BY <1>0, <1>1, <2>1, <2>2, <2>3 DEF PoolShapes
<1>2. CASE client = 0
  <2>1. /\ refs' = refs + 1 /\ destruction' = FALSE /\ made < MaxClients
        /\ made' = made + 1 /\ client' = made + 1
        /\ branches' = 1 /\ root' = "waiting" /\ paused' = FALSE /\ UNCHANGED <<generation, open>>
        /\ last' = status
    BY <1>2 DEF Acquire, GetOrCreate
  <2>2. OneTransport'
    <3>1. client' # 0 /\ root' # "up"
      BY <1>0, <2>1 DEF PoolShapes
    <3>2. open' = {}
      BY <1>0, <1>2, <2>1 DEF OneTransport
    <3> QED BY <3>1, <3>2 DEF OneTransport
  <2>3. StatusIsTheNewest'
    BY <2>1 DEF StatusIsTheNewest
  <2>4. made \in Nat /\ made' \in 0..MaxClients /\ made <= made' /\ client' \in 1..made'
    BY <1>0, <2>1, PoolAssumption DEF PoolShapes
  <2> QED BY <1>0, <1>2, <2>1, <2>2, <2>3, <2>4 DEF PoolShapes
<1> QED BY <1>1, <1>2

\* Somebody comes to hold the client.
LEMMA AcquireStep ==
    ASSUME PoolInv, Acquire, NEW h \in Holder, holder[h] = Free,
           NEW s \in {"held", "resolving", "acquiring"}, NEW a, Takes(h, s, a), status' = status,
           resolves' \in Seq(Resolution), a \in 0..Len(resolves'), Len(resolves) <= Len(resolves'),
           \A r \in 1..Len(resolves') : resolves'[r].client \in 0..made',
           resolved' \in 0..made', pendingRes' \in 0..Len(resolves')
    PROVE  PoolInv'
<1>0. PoolShapes /\ ApiShapes /\ HoldersAreGiven /\ BranchesAreCounted
  BY DEF PoolInv
<1>1. /\ refs' = refs + 1 /\ destruction' = FALSE
      /\ made' \in 0..MaxClients /\ made <= made' /\ client' \in 1..made'
      /\ client # 0 => client' = client
      /\ branches' = IF client = 0 THEN 1 ELSE branches
      /\ root' \in {"off", "waiting", "up"} /\ paused' \in BOOLEAN
      /\ generation' \in [1..MaxClients -> Nat] /\ OneTransport' /\ StatusIsTheNewest'
  BY AcquireFacts
<1>2. made \in Nat /\ made' \in Nat /\ client' \in Nat /\ client' # 0 /\ client' \in 0..made' /\ refs' \in Nat
  BY <1>0, <1>1, PoolAssumption DEF PoolShapes
<1>3. Len(resolves') \in Nat /\ Len(resolves) \in Nat /\ a \in Nat
  BY <1>0, LenProperties DEF ApiShapes
<1> DEFINE x == [stage |-> s, client |-> client', awaits |-> a]
<1>4. x \in PoolUse /\ x.stage = s /\ x.client = client' /\ x.awaits = a
  BY <1>2, <1>3 DEF PoolUse
<1>5. holder' = [holder EXCEPT ![h] = x]
  BY DEF Takes
<1> HIDE DEF x
<1>6. /\ holder' \in [Holder -> PoolUse] /\ holder'[h] = x
      /\ \A k \in Holder : k # h => holder'[k] = holder[k]
  BY <1>0, <1>4, <1>5 DEF PoolShapes
<1>7. holder[h].stage = "free"
  BY DEF Free
<1>8. Held' = Held \cup {h} /\ h \notin Held /\ OnBranch' = OnBranch
  BY <1>4, <1>6, <1>7 DEF Held, OnBranch, Holds
<1>9. \A k \in Holder : holder'[k].client \in 0..made' /\ holder'[k].awaits \in 0..Len(resolves')
  <2> SUFFICES ASSUME NEW k \in Holder, k # h
               PROVE  holder'[k].client \in 0..made' /\ holder'[k].awaits \in 0..Len(resolves')
    BY <1>2, <1>4, <1>6
  <2>1. holder[k].client \in 0..made /\ holder[k].awaits \in 0..Len(resolves)
    BY <1>0 DEF PoolShapes, ApiShapes
  <2>2. holder[k].client \in 0..made' /\ holder[k].awaits \in 0..Len(resolves')
    BY <1>1, <1>2, <1>3, <2>1, SMTT(30)
  <2> QED BY <1>6, <2>2
<1>10. PoolShapes'
  <2>1. branches' \in Nat
    BY <1>0, <1>1 DEF PoolShapes
  <2>2. status' \in Status
    BY <1>0 DEF PoolShapes
  <2> QED BY <1>1, <1>2, <1>6, <1>9, <2>1, <2>2 DEF PoolShapes
<1>11. ApiShapes'
  BY <1>9 DEF ApiShapes
<1>12. HoldersAreGiven'
  <2>1. IsFiniteSet(Held) /\ refs = Cardinality(Held)
    BY <1>0 DEF HoldersAreGiven
  <2>2. IsFiniteSet(Held') /\ refs' = Cardinality(Held')
    BY <1>1, <1>8, <2>1, FS_AddElement
  <2>3. ASSUME NEW k \in Holder, Holds(k)' PROVE holder'[k].client = client' /\ client' # 0
    <3>1. CASE k = h
      BY <1>2, <1>4, <1>6, <3>1
    <3>2. CASE k # h
      <4>1. Holds(k) /\ holder'[k] = holder[k]
        BY <1>6, <2>3, <3>2 DEF Holds
      <4>2. holder[k].client = client /\ client # 0
        BY <1>0, <4>1 DEF HoldersAreGiven
      <4> QED BY <1>1, <1>2, <4>1, <4>2
    <3> QED BY <3>1, <3>2
  <2> QED BY <2>2, <2>3 DEF HoldersAreGiven
<1>13. DestructionIsAhead'
  BY <1>0, <1>1 DEF DestructionIsAhead, PoolShapes
<1>14. BranchesAreCounted'
  <2>1. CASE client # 0
    BY <1>0, <1>1, <1>2, <1>8, <2>1 DEF BranchesAreCounted
  <2>2. CASE client = 0
    <3>1. OnBranch = {}
      BY <2>2, ClientIsHeld
    <3>2. Cardinality(OnBranch') = 0
      BY <1>8, <3>1, FS_EmptySet
    <3> QED BY <1>1, <1>2, <2>2, <3>2 DEF BranchesAreCounted
  <2> QED BY <2>1, <2>2
<1> QED BY <1>1, <1>10, <1>11, <1>12, <1>13, <1>14 DEF PoolInv

\* A client is destroyed that nobody holds any longer.
LEMMA DestroyedFacts ==
    ASSUME Destroyed(0)
    PROVE  /\ client' = 0 /\ destruction' = FALSE /\ status' = "disconnected" /\ branches' = 0
           /\ root' = "off" /\ open' = {} /\ UNCHANGED <<made, generation, paused>>
           /\ OneTransport' /\ StatusIsTheNewest'
BY DEF Destroyed, OneTransport, StatusIsTheNewest

\* Somebody lets go of the client.
LEMMA UnlockStep ==
    ASSUME PoolInv, NEW h \in Holder, Holds(h), NEW o,
           o = IF holder[h].stage = "branched" THEN Others - 1 ELSE Others, Unlock(o), Done(h),
           UNCHANGED resolves, resolved' \in 0..made, pendingRes' \in 0..Len(resolves)
    PROVE  PoolInv'
<1>0. PoolShapes /\ ApiShapes /\ HoldersAreGiven /\ DestructionIsAhead /\ BranchesAreCounted /\ OneTransport
      /\ StatusIsTheNewest
  BY DEF PoolInv
<1> DEFINE x == [Free EXCEPT !.stage = "done"]
<1>1. x \in PoolUse /\ x.stage = "done" /\ x.client = 0 /\ x.awaits = 0
  BY DEF Free, PoolUse
<1>2. holder' = [holder EXCEPT ![h] = x]
  BY DEF Done
<1> HIDE DEF x
<1>3. /\ holder' \in [Holder -> PoolUse] /\ holder'[h] = x
      /\ \A k \in Holder : k # h => holder'[k] = holder[k]
  BY <1>0, <1>1, <1>2 DEF PoolShapes
<1>4. Held' = Held \ {h} /\ h \in Held /\ OnBranch' = OnBranch \ {h}
  BY <1>1, <1>3 DEF Held, OnBranch, Holds
<1>5. client # 0 /\ IsFiniteSet(Held) /\ refs = Cardinality(Held)
  BY <1>0 DEF HoldersAreGiven
<1>6. IsFiniteSet(Held') /\ Cardinality(Held') = refs - 1 /\ Cardinality(Held') \in Nat
  BY <1>4, <1>5, FS_RemoveElement, FS_CardinalityType
<1>7. refs' = refs - 1 /\ refs' \in Nat /\ refs \in Nat
  <2>1. refs' = refs - 1
    BY DEF Unlock
  <2> QED BY <1>0, <1>6, <2>1 DEF PoolShapes
<1>8. IsFiniteSet(OnBranch) /\ Cardinality(OnBranch) \in Nat
  BY ClientIsHeld
<1>9. IsFiniteSet(OnBranch') /\ Cardinality(OnBranch') \in Nat /\ o = Cardinality(OnBranch')
  <2>1. /\ IsFiniteSet(OnBranch \ {h})
        /\ Cardinality(OnBranch \ {h}) =
             IF h \in OnBranch THEN Cardinality(OnBranch) - 1 ELSE Cardinality(OnBranch)
    BY <1>8, FS_RemoveElement
  <2>2. Cardinality(OnBranch \ {h}) \in Nat
    BY <2>1, FS_CardinalityType
  <2>3. h \in OnBranch <=> holder[h].stage = "branched"
    BY DEF OnBranch
  <2>4. Others = Cardinality(OnBranch)
    BY <1>0, <1>5, <1>8 DEF Others, BranchesAreCounted
  <2> QED BY <1>4, <2>1, <2>2, <2>3, <2>4
<1>10. \A k \in Holder : holder'[k].client \in 0..made /\ holder'[k].awaits \in 0..Len(resolves)
  <2>1. Len(resolves) \in Nat /\ made \in Nat
    BY <1>0, LenProperties DEF PoolShapes, ApiShapes
  <2>2. 0 \in 0..made /\ 0 \in 0..Len(resolves)
    BY <2>1
  <2> QED BY <1>0, <1>1, <1>3, <2>2 DEF PoolShapes, ApiShapes
<1>11. ASSUME NEW k \in Holder, Holds(k)' PROVE Holds(k) /\ holder'[k] = holder[k] /\ k \in Held'
  BY <1>1, <1>3, <1>11 DEF Holds, Held
<1>12. CASE refs = 1 /\ ~delayed
  <2>1. Held' = {}
    BY <1>6, <1>12, FS_EmptySet
  <2>2. o = 0 /\ OnBranch' = {}
    <3>1. OnBranch' \subseteq Held'
      BY DEF OnBranch, Held, Holds
    <3> QED BY <1>9, <2>1, <3>1, FS_EmptySet
  <2>3. /\ client' = 0 /\ destruction' = FALSE /\ status' = "disconnected" /\ branches' = 0
        /\ root' = "off" /\ open' = {} /\ UNCHANGED <<made, generation, paused>>
        /\ OneTransport' /\ StatusIsTheNewest'
    BY <1>12, <2>2, DestroyedFacts DEF Unlock
  <2>4. PoolShapes'
    <3>1. "disconnected" \in Status /\ 0 \in 0..made /\ 0 \in Nat
      BY <1>0, PoolAssumption DEF PoolShapes, Status
    <3>2. root' \in {"off", "waiting", "up"} /\ paused' \in BOOLEAN /\ generation' \in [1..MaxClients -> Nat]
          /\ made' \in 0..MaxClients /\ \A k \in Holder : holder'[k].client \in 0..made'
      BY <1>0, <1>10, <2>3 DEF PoolShapes
    <3> QED BY <1>3, <1>7, <2>3, <3>1, <3>2 DEF PoolShapes
  <2>5. ApiShapes'
    BY <1>0, <1>10, <2>3 DEF ApiShapes
  <2>6. HoldersAreGiven'
    BY <1>6, <1>7, <1>11, <2>1 DEF HoldersAreGiven
  <2>7. DestructionIsAhead' /\ BranchesAreCounted'
    BY <2>3 DEF DestructionIsAhead, BranchesAreCounted
  <2> QED BY <2>3, <2>4, <2>5, <2>6, <2>7 DEF PoolInv
<1>13. CASE ~(refs = 1 /\ ~delayed)
  <2>1. /\ destruction' \in BOOLEAN /\ (destruction' <=> refs = 1) /\ branches' = o + 1
        /\ UNCHANGED <<client, made, root, generation, open, paused, status, last, stale>>
    BY <1>13 DEF Unlock, statusVars
  <2>2. PoolShapes'
    BY <1>0, <1>3, <1>7, <1>9, <1>10, <2>1 DEF PoolShapes
  <2>3. ApiShapes'
    BY <1>0, <1>10, <2>1 DEF ApiShapes
  <2>4. HoldersAreGiven'
    BY <1>0, <1>6, <1>7, <1>11, <2>1 DEF HoldersAreGiven
  <2>5. DestructionIsAhead'
    BY <1>5, <1>7, <2>1 DEF DestructionIsAhead
  <2>6. BranchesAreCounted'
    BY <1>5, <1>9, <2>1 DEF BranchesAreCounted
  <2>7. OneTransport' /\ StatusIsTheNewest'
    BY <1>0, <2>1 DEF OneTransport, StatusIsTheNewest
  <2> QED BY <2>2, <2>3, <2>4, <2>5, <2>6, <2>7 DEF PoolInv
<1> QED BY <1>12, <1>13


LEMMA LockStep == ASSUME PoolInv, NEW h \in Holder, Lock(h) PROVE PoolInv'
<1>0. PoolShapes /\ ApiShapes /\ holder[h] = Free /\ Acquire /\ status' = status
  BY DEF PoolInv, Lock
<1>1. made' \in 0..MaxClients /\ made <= made' /\ client' \in 1..made'
  BY <1>0, AcquireFacts
<1>2. Len(resolves) \in Nat /\ made \in Nat /\ made' \in Nat /\ 0 \in 0..Len(resolves)
  <2>1. Len(resolves) \in Nat
    BY <1>0, LenProperties DEF ApiShapes
  <2> QED BY <1>0, <1>1, <2>1, PoolAssumption DEF PoolShapes
<1>3. /\ resolved \in 0..made' /\ \A r \in 1..Len(resolves) : resolves[r].client \in 0..made'
  BY <1>0, <1>1, <1>2 DEF ApiShapes
<1>4. resolves \in Seq(Resolution) /\ pendingRes \in 0..Len(resolves) /\ Len(resolves) <= Len(resolves)
  BY <1>0, <1>2 DEF ApiShapes
<1>5. CASE Takes(h, "held", 0) /\ UNCHANGED apiVars
  <2>1. UNCHANGED <<resolves, resolved, pendingRes>>
    BY <1>5 DEF apiVars
  <2> QED BY <1>0, <1>2, <1>3, <1>4, <1>5, <2>1, AcquireStep
<1>6. CASE Takes(h, "resolving", pendingRes) /\ UNCHANGED apiVars
  <2>1. UNCHANGED <<resolves, resolved, pendingRes>>
    BY <1>6 DEF apiVars
  <2> QED BY <1>0, <1>2, <1>3, <1>4, <1>6, <2>1, AcquireStep
<1>7. CASE /\ resolves' = Append(resolves, [client |-> client', stage |-> "running"])
           /\ pendingRes' = Len(resolves) + 1 /\ Takes(h, "resolving", Len(resolves) + 1)
           /\ UNCHANGED resolved
  <2> DEFINE x == [client |-> client', stage |-> "running"]
  <2>1. x \in Resolution /\ x.client = client'
    BY <1>1, <1>2 DEF Resolution
  <2> HIDE DEF x
  <2>2. /\ resolves' \in Seq(Resolution) /\ Len(resolves') = Len(resolves) + 1
        /\ resolves'[Len(resolves) + 1] = x /\ \A r \in 1..Len(resolves) : resolves'[r] = resolves[r]
    <3>1. resolves' = Append(resolves, x)
      BY <1>7 DEF x
    <3> QED BY <1>4, <2>1, <3>1, AppendProperties
  <2>3. client' \in 0..made' /\ Len(resolves) + 1 \in 0..Len(resolves') /\ Len(resolves) <= Len(resolves')
        /\ 1..Len(resolves') = 1..Len(resolves) \cup {Len(resolves) + 1}
    BY <1>1, <1>2, <2>2
  <2>4. \A r \in 1..Len(resolves') : resolves'[r].client \in 0..made'
    BY <1>3, <2>1, <2>2, <2>3
  <2>5. resolved' \in 0..made' /\ pendingRes' \in 0..Len(resolves') /\ Takes(h, "resolving", Len(resolves) + 1)
    BY <1>3, <1>7, <2>3
  <2> QED BY <1>0, <2>2, <2>3, <2>4, <2>5, AcquireStep
<1> QED BY <1>5, <1>6, <1>7 DEF Lock

LEMMA ConnectStep == ASSUME PoolInv, NEW h \in Holder, Connect(h) PROVE PoolInv'
<1>0. PoolShapes /\ ApiShapes /\ holder[h] = Free /\ Acquire /\ status' = status /\ Takes(h, "acquiring", 0)
      /\ UNCHANGED <<resolves, resolved, pendingRes>>
  BY DEF PoolInv, Connect, apiVars
<1>1. made' \in 0..MaxClients /\ made <= made' /\ client' \in 1..made'
  BY <1>0, AcquireFacts
<1>2. Len(resolves) \in Nat /\ made \in Nat /\ made' \in Nat
  <2>1. Len(resolves) \in Nat
    BY <1>0, LenProperties DEF ApiShapes
  <2> QED BY <1>0, <1>1, <2>1, PoolAssumption DEF PoolShapes
<1>3. /\ resolved \in 0..made' /\ \A r \in 1..Len(resolves) : resolves[r].client \in 0..made'
      /\ 0 \in 0..Len(resolves) /\ Len(resolves) <= Len(resolves)
  BY <1>0, <1>1, <1>2 DEF ApiShapes
<1>4. resolves \in Seq(Resolution) /\ pendingRes \in 0..Len(resolves)
  BY <1>0 DEF ApiShapes
<1> QED BY <1>0, <1>3, <1>4, AcquireStep

LEMMA ReleaseStep ==
    ASSUME PoolInv, NEW h \in Holder, LockFails(h) \/ Unlocks(h) \/ ConsumerIsGone(h) \/ Disconnects(h)
    PROVE  PoolInv'
<1>0. ApiShapes /\ PoolShapes
  BY DEF PoolInv
<1>1. 0 \in 0..made /\ 0 \in 0..Len(resolves) /\ resolved \in 0..made /\ pendingRes \in 0..Len(resolves)
  <2>1. made \in Nat /\ Len(resolves) \in Nat
    BY <1>0, PoolAssumption, LenProperties DEF ApiShapes, PoolShapes
  <2> QED BY <1>0, <2>1 DEF ApiShapes
<1>2. Emptied \/ KeepsApis => resolved' \in 0..made /\ pendingRes' \in 0..Len(resolves)
  BY <1>1 DEF Emptied, KeepsApis
<1>3. CASE LockFails(h) \/ Unlocks(h) \/ ConsumerIsGone(h)
  <2>1. /\ holder[h].stage \in {"resolving", "held", "acquiring"} /\ Unlock(Others) /\ Done(h)
        /\ UNCHANGED resolves /\ (Emptied \/ KeepsApis)
    BY <1>3 DEF LockFails, Unlocks, ConsumerIsGone
  <2>2. Holds(h) /\ Others = IF holder[h].stage = "branched" THEN Others - 1 ELSE Others
    BY <2>1 DEF Holds
  <2> QED BY <1>2, <2>1, <2>2, UnlockStep
<1>4. CASE Disconnects(h)
  <2>1. /\ holder[h].stage = "branched" /\ Unlock(Others - 1) /\ Done(h) /\ UNCHANGED resolves /\ KeepsApis
    BY <1>4 DEF Disconnects
  <2>2. Holds(h) /\ Others - 1 = IF holder[h].stage = "branched" THEN Others - 1 ELSE Others
    BY <2>1 DEF Holds
  <2> QED BY <1>2, <2>1, <2>2, UnlockStep
<1> QED BY <1>3, <1>4

LEMMA ResolveEndsStep ==
    ASSUME PoolInv, NEW r, NEW s \in {"ok", "failed"}, ResolveEnds(r, s) PROVE PoolInv'
<1>0. ApiShapes /\ PoolShapes /\ OneTransport /\ StatusIsTheNewest
  BY DEF PoolInv
<1>1. /\ r \in DOMAIN resolves /\ resolves' = [resolves EXCEPT ![r].stage = s] /\ pendingRes' = 0
      /\ resolved' = IF s = "ok" THEN resolves[r].client ELSE resolved
      /\ UNCHANGED <<refs, client, made, destruction, holder, branches, root, generation, open,
                     paused,
                     status, last, stale>>
  BY DEF ResolveEnds, clientVars, transportVars, statusVars
<1>2. r \in 1..Len(resolves) /\ Len(resolves) \in Nat /\ \A q \in 1..Len(resolves) : resolves[q] \in Resolution
  BY <1>0, <1>1, LenProperties, ElementOfSeq DEF ApiShapes
<1> DEFINE x == [resolves[r] EXCEPT !.stage = s]
<1>3. x \in Resolution /\ x.client = resolves[r].client
  BY <1>2 DEF Resolution
<1>4. resolves' = [resolves EXCEPT ![r] = x]
  BY <1>0, <1>1, <1>2 DEF ApiShapes
<1> HIDE DEF x
<1>5. /\ resolves' \in Seq(Resolution) /\ Len(resolves') = Len(resolves)
      /\ \A q \in 1..Len(resolves) : resolves'[q] = IF q = r THEN x ELSE resolves[q]
  BY <1>0, <1>2, <1>3, <1>4, ExceptSeq DEF ApiShapes
<1>6. ApiShapes'
  <2>1. \A q \in 1..Len(resolves') : resolves'[q].client \in 0..made'
    BY <1>0, <1>1, <1>3, <1>5 DEF ApiShapes
  <2>2. resolved' \in 0..made' /\ pendingRes' \in 0..Len(resolves')
    BY <1>0, <1>1, <1>2, <1>5 DEF ApiShapes
  <2> QED BY <1>0, <1>1, <1>5, <2>1, <2>2 DEF ApiShapes
<1>7. OneTransport' /\ StatusIsTheNewest'
  BY <1>0, <1>1 DEF OneTransport, StatusIsTheNewest
<1>8. \A h \in Holder : /\ holder'[h].client = holder[h].client /\ Holds(h)' = Holds(h)
                        /\ holder'[h].stage = "branched" <=> holder[h].stage = "branched"
  BY <1>1 DEF Holds
<1>9. /\ holder' \in [Holder -> PoolUse] /\ root' \in {"off", "waiting", "up"}
      /\ generation' \in [1..MaxClients -> Nat] /\ paused' \in BOOLEAN /\ status' \in Status
  BY <1>0, <1>1 DEF PoolShapes
<1> QED BY <1>1, <1>6, <1>7, <1>8, <1>9, HoldersStay

LEMMA LockedStep == ASSUME PoolInv, NEW h \in Holder, Locked(h) PROVE PoolInv'
<1>0. ApiShapes /\ PoolShapes /\ OneTransport /\ StatusIsTheNewest
  BY DEF PoolInv
<1>1. /\ holder[h].stage = "resolving" /\ holder' = [holder EXCEPT ![h].stage = "held"]
      /\ UNCHANGED <<refs, client, made, destruction, resolves, resolved, pendingRes, branches,
                     root, generation,
                     open, paused, status, last, stale>>
  BY DEF Locked, clientVars, apiVars, transportVars, statusVars
<1> DEFINE x == [holder[h] EXCEPT !.stage = "held"]
<1>2. x \in PoolUse /\ x.stage = "held" /\ x.client = holder[h].client /\ x.awaits = holder[h].awaits
  BY <1>0 DEF PoolShapes, PoolUse
<1>3. holder' = [holder EXCEPT ![h] = x]
  BY <1>0, <1>1 DEF PoolShapes
<1> HIDE DEF x
<1>4. /\ holder' \in [Holder -> PoolUse] /\ holder'[h] = x
      /\ \A k \in Holder : k # h => holder'[k] = holder[k]
  BY <1>0, <1>2, <1>3 DEF PoolShapes
<1>5. \A k \in Holder : /\ holder'[k].client = holder[k].client /\ Holds(k)' = Holds(k)
                        /\ holder'[k].stage = "branched" <=> holder[k].stage = "branched"
                        /\ holder'[k].awaits = holder[k].awaits
  BY <1>1, <1>2, <1>4 DEF Holds
<1>6. ApiShapes'
  BY <1>0, <1>1, <1>5 DEF ApiShapes
<1>7. OneTransport' /\ StatusIsTheNewest'
  BY <1>0, <1>1 DEF OneTransport, StatusIsTheNewest
<1>8. root' \in {"off", "waiting", "up"} /\ generation' \in [1..MaxClients -> Nat] /\ paused' \in BOOLEAN
      /\ status' \in Status
  BY <1>0, <1>1 DEF PoolShapes
<1> QED BY <1>1, <1>4, <1>5, <1>6, <1>7, <1>8, HoldersStay

LEMMA BranchedStep == ASSUME PoolInv, NEW h \in Holder, Branched(h) PROVE PoolInv'
<1>0. PoolShapes /\ ApiShapes /\ HoldersAreGiven /\ DestructionIsAhead /\ BranchesAreCounted /\ OneTransport
      /\ StatusIsTheNewest
  BY DEF PoolInv
<1>1. /\ holder[h].stage = "acquiring" /\ holder' = [holder EXCEPT ![h].stage = "branched"]
      /\ branches' = branches + 1
      /\ UNCHANGED <<refs, client, made, destruction, resolves, resolved, pendingRes, root,
                     generation,
                     open, paused, status, last, stale>>
  BY DEF Branched, clientVars, apiVars, statusVars
<1> DEFINE x == [holder[h] EXCEPT !.stage = "branched"]
<1>2. x \in PoolUse /\ x.stage = "branched" /\ x.client = holder[h].client /\ x.awaits = holder[h].awaits
  BY <1>0 DEF PoolShapes, PoolUse
<1>3. holder' = [holder EXCEPT ![h] = x]
  BY <1>0, <1>1 DEF PoolShapes
<1> HIDE DEF x
<1>4. /\ holder' \in [Holder -> PoolUse] /\ holder'[h] = x
      /\ \A k \in Holder : k # h => holder'[k] = holder[k]
  BY <1>0, <1>2, <1>3 DEF PoolShapes
<1>5. \A k \in Holder : /\ holder'[k].client = holder[k].client /\ Holds(k)' = Holds(k)
                        /\ holder'[k].awaits = holder[k].awaits
  BY <1>1, <1>2, <1>4 DEF Holds
<1>6. Held' = Held /\ OnBranch' = OnBranch \cup {h} /\ h \notin OnBranch
  BY <1>1, <1>2, <1>4, <1>5 DEF Held, OnBranch
<1>7. PoolShapes'
  BY <1>0, <1>1, <1>4, <1>5 DEF PoolShapes
<1>8. ApiShapes'
  BY <1>0, <1>1, <1>5 DEF ApiShapes
<1>9. HoldersAreGiven'
  BY <1>0, <1>1, <1>5, <1>6 DEF HoldersAreGiven
<1>10. BranchesAreCounted'
  <2>1. client # 0
    BY <1>0, <1>1 DEF HoldersAreGiven, Holds
  <2>2. IsFiniteSet(OnBranch) /\ Cardinality(OnBranch) \in Nat
    BY ClientIsHeld
  <2>3. Cardinality(OnBranch') = Cardinality(OnBranch) + 1
    BY <1>6, <2>2, FS_AddElement
  <2>4. branches = 1 + Cardinality(OnBranch)
    BY <1>0, <2>1 DEF BranchesAreCounted
  <2>5. branches' = 1 + Cardinality(OnBranch')
    BY <1>1, <2>2, <2>3, <2>4
  <2> QED BY <1>1, <2>1, <2>5 DEF BranchesAreCounted
<1>11. DestructionIsAhead' /\ OneTransport' /\ StatusIsTheNewest'
  BY <1>0, <1>1 DEF DestructionIsAhead, OneTransport, StatusIsTheNewest
<1> QED BY <1>7, <1>8, <1>9, <1>10, <1>11 DEF PoolInv

LEMMA TimerFiresStep == ASSUME PoolInv, TimerFires PROVE PoolInv'
<1>0. PoolShapes /\ ApiShapes /\ HoldersAreGiven /\ DestructionIsAhead /\ BranchesAreCounted
  BY DEF PoolInv
<1>1. destruction /\ Destroyed(Others) /\ resolved' = 0 /\ pendingRes' = 0 /\ UNCHANGED <<refs,
                                                                                          holder,
                                                                                          resolves>>
  BY DEF TimerFires, Emptied
<1>2. refs = 0 /\ client # 0
  BY <1>0, <1>1 DEF DestructionIsAhead
<1>3. Held = {}
  BY <1>0, <1>2, FS_EmptySet DEF HoldersAreGiven
<1>4. OnBranch = {}
  BY <1>3, ClientIsHeld
<1>5. Others = 0
  BY <1>0, <1>2, <1>4, FS_EmptySet DEF Others, BranchesAreCounted
<1>6. /\ client' = 0 /\ destruction' = FALSE /\ status' = "disconnected" /\ branches' = 0
      /\ root' = "off" /\ open' = {} /\ UNCHANGED <<made, generation, paused>>
      /\ OneTransport' /\ StatusIsTheNewest'
  BY <1>1, <1>5, DestroyedFacts
<1>7. made \in Nat /\ 0 \in 0..made /\ "disconnected" \in Status /\ Len(resolves) \in Nat /\ 0 \in 0..Len(resolves)
  <2>1. Len(resolves) \in Nat
    BY <1>0, LenProperties DEF ApiShapes
  <2> QED BY <1>0, <2>1, PoolAssumption DEF PoolShapes, Status
<1>8. PoolShapes'
  BY <1>0, <1>1, <1>6, <1>7 DEF PoolShapes
<1>9. ApiShapes'
  BY <1>0, <1>1, <1>6, <1>7 DEF ApiShapes
<1>10. HoldersAreGiven'
  <2>1. Held' = Held /\ \A h \in Holder : ~Holds(h)'
    BY <1>1, <1>3 DEF Held, Holds
  <2> QED BY <1>0, <1>1, <2>1 DEF HoldersAreGiven
<1>11. DestructionIsAhead' /\ BranchesAreCounted'
  BY <1>6 DEF DestructionIsAhead, BranchesAreCounted
<1> QED BY <1>6, <1>8, <1>9, <1>10, <1>11 DEF PoolInv

\* Only the transport changes.
LEMMA TransportStep ==
    ASSUME PoolInv, \/ BuildTransport \/ Reconnect \/ \E on \in BOOLEAN : Pause(on)
                    \/ \E n \in 1..MaxClients, g \in Nat, s \in Status : Report(n, g, s)
    PROVE  PoolInv'
<1>0. ApiShapes /\ PoolShapes /\ OneTransport /\ StatusIsTheNewest
  BY DEF PoolInv
<1>1. UNCHANGED <<refs, client, made, destruction, holder, resolves, resolved, pendingRes,
                  branches>>
  BY DEF BuildTransport, Reconnect, Pause, Report, clientVars, apiVars, transportVars
<1>2. /\ holder' \in [Holder -> PoolUse]
      /\ \A h \in Holder : /\ holder'[h].client = holder[h].client /\ Holds(h)' = Holds(h)
                           /\ holder'[h].stage = "branched" <=> holder[h].stage = "branched"
  BY <1>0, <1>1 DEF Holds, PoolShapes
<1>3. ApiShapes'
  BY <1>0, <1>1 DEF ApiShapes
<1>4. CASE BuildTransport
  <2>1. /\ root = "waiting" /\ generation' = [generation EXCEPT ![client] = @ + 1]
        /\ UNCHANGED <<paused, stale>>
        /\ \/ /\ root' = "up" /\ UNCHANGED <<status, last>>
              /\ open' = open \cup {[client |-> client, gen |-> generation[client] + 1, paused |-> paused]}
           \/ status' = "disconnected" /\ last' = "disconnected" /\ UNCHANGED <<root, open>>
    BY <1>4 DEF BuildTransport, Built
  <2>2. open = {} /\ client # 0
    BY <1>0, <2>1 DEF OneTransport
  <2>3. client \in 1..MaxClients
    BY <1>0, <2>2, PoolAssumption DEF PoolShapes
  <2>4. generation' \in [1..MaxClients -> Nat] /\ generation'[client] = generation[client] + 1
    BY <1>0, <2>1, <2>3 DEF PoolShapes
  <2>5. OneTransport'
    BY <1>1, <2>1, <2>2, <2>4 DEF OneTransport
  <2>6. StatusIsTheNewest'
    BY <1>0, <1>1, <2>1 DEF StatusIsTheNewest
  <2>7. root' \in {"off", "waiting", "up"} /\ paused' \in BOOLEAN /\ status' \in Status
    BY <1>0, <2>1 DEF PoolShapes, Status
  <2> QED BY <1>1, <1>2, <1>3, <2>4, <2>5, <2>6, <2>7, HoldersStay
<1>5. CASE Reconnect
  <2>1. /\ client # 0 /\ root' = "waiting" /\ open' = {} /\ UNCHANGED <<generation, paused, status,
                                                                        last, stale>>
    BY <1>5 DEF Reconnect, statusVars
  <2>2. OneTransport' /\ StatusIsTheNewest'
    BY <1>0, <1>1, <2>1 DEF OneTransport, StatusIsTheNewest
  <2>3. root' \in {"off", "waiting", "up"} /\ paused' \in BOOLEAN /\ status' \in Status
        /\ generation' \in [1..MaxClients -> Nat]
    BY <1>0, <2>1 DEF PoolShapes
  <2> QED BY <1>1, <1>2, <1>3, <2>2, <2>3, HoldersStay
<1>6. ASSUME NEW on \in BOOLEAN, Pause(on) PROVE PoolInv'
  <2>1. /\ paused' = on /\ open' = {[t EXCEPT !.paused = on] : t \in open}
        /\ UNCHANGED <<root, generation, status, last, stale>>
    BY <1>6 DEF Pause, statusVars
  <2>2. [[client |-> client, gen |-> generation[client], paused |-> paused] EXCEPT !.paused = on]
          = [client |-> client, gen |-> generation[client], paused |-> on]
    OBVIOUS
  <2>3. OneTransport'
    BY <1>0, <1>1, <2>1, <2>2 DEF OneTransport
  <2>4. StatusIsTheNewest'
    BY <1>0, <1>1, <2>1 DEF StatusIsTheNewest
  <2>5. root' \in {"off", "waiting", "up"} /\ paused' \in BOOLEAN /\ status' \in Status
        /\ generation' \in [1..MaxClients -> Nat]
    BY <1>0, <2>1 DEF PoolShapes
  <2> QED BY <1>1, <1>2, <1>3, <2>3, <2>4, <2>5, HoldersStay
<1>7. ASSUME NEW n \in 1..MaxClients, NEW g \in Nat, NEW s \in Status, Report(n, g, s) PROVE PoolInv'
  <2>1. /\ status' = s /\ UNCHANGED <<root, generation, open, paused>>
        /\ IF client = n THEN last' = s /\ UNCHANGED stale ELSE stale' = TRUE /\ UNCHANGED last
    BY <1>7 DEF Report, transportVars
  <2>2. OneTransport' /\ StatusIsTheNewest'
    BY <1>0, <1>1, <2>1 DEF OneTransport, StatusIsTheNewest
  <2>3. root' \in {"off", "waiting", "up"} /\ paused' \in BOOLEAN /\ status' \in Status
        /\ generation' \in [1..MaxClients -> Nat]
    BY <1>0, <2>1 DEF PoolShapes
  <2> QED BY <1>1, <1>2, <1>3, <2>2, <2>3, HoldersStay
<1> QED BY <1>4, <1>5, <1>6, <1>7

LEMMA KeptByInvariant == PoolInv => SharedChainIsKept
<1> SUFFICES ASSUME PoolInv PROVE SharedChainIsKept
  OBVIOUS
<1>0. PoolShapes /\ ApiShapes /\ HoldersAreGiven /\ DestructionIsAhead /\ BranchesAreCounted /\ OneTransport
      /\ StatusIsTheNewest
  BY DEF PoolInv
<1>1. PoolTypeOK
  <2>1. \A h \in Holder : holder[h].client \in 0..made /\ holder[h].awaits \in 0..Len(resolves)
    BY <1>0 DEF PoolShapes, ApiShapes
  <2> QED BY <1>0, <2>1 DEF PoolTypeOK, PoolShapes, ApiShapes
<1>2. HoldersKeepTheirClient
  <2>1. refs = Cardinality({h \in Holder : Holds(h)}) /\ \A h \in Holder : Holds(h) => holder[h].client = client /\ client # 0
    BY <1>0 DEF HoldersAreGiven, Held
  <2> QED BY <1>0, <1>1, <2>1 DEF HoldersKeepTheirClient, DestructionIsAhead
<1>3. NoTransportIsLost
  <2>1. client = 0 => root = "off" /\ branches = 0
    BY <1>0 DEF OneTransport, BranchesAreCounted
  <2>2. CASE root = "up"
    <3> DEFINE t == [client |-> client, gen |-> generation[client], paused |-> paused]
    <3>1. open = {t} /\ t.client = client /\ t.gen = generation[client] /\ t.paused = paused
      BY <1>0, <2>2 DEF OneTransport
    <3> HIDE DEF t
    <3>2. Cardinality(open) = 1
      BY <3>1, FS_Singleton
    <3> QED BY <2>1, <2>2, <3>1, <3>2 DEF NoTransportIsLost
  <2>3. CASE root # "up"
    <3>1. open = {}
      BY <1>0, <2>3 DEF OneTransport
    <3>2. Cardinality(open) = 0
      BY <3>1, FS_EmptySet
    <3> QED BY <2>1, <3>1, <3>2 DEF NoTransportIsLost
  <2> QED BY <2>2, <2>3
<1> QED BY <1>0, <1>2, <1>3 DEF SharedChainIsKept

\* Nobody who holds a chain of the pool loses it to what another does, for any
\* number of callers, clients, transports and resolutions of the api.
THEOREM SharedChainAlwaysKept == PoolSpec => []SharedChainIsKept
<1>1. PoolInv /\ [PoolNext]_poolVars => PoolInv'
  <2> SUFFICES ASSUME PoolInv, [PoolNext]_poolVars PROVE PoolInv'
    OBVIOUS
  <2>1. CASE UNCHANGED poolVars
    BY <2>1 DEF poolVars, clientVars, apiVars, transportVars, statusVars, PoolInv, PoolShapes,
                ApiShapes,
                HoldersAreGiven, DestructionIsAhead, BranchesAreCounted, OneTransport, StatusIsTheNewest,
                Held, OnBranch, Holds
  <2>2. CASE PoolNext
    <3>1. PoolStep
      BY <2>2 DEF PoolNext
    <3>2. Locker \subseteq Holder /\ Connector \subseteq Holder /\ 1..MaxTransports \subseteq Nat
      BY PoolAssumption DEF Holder
    <3>3. CASE \E h \in Holder : Lock(h) \/ Locked(h) \/ Connect(h) \/ Branched(h)
      BY <3>3, LockStep, LockedStep, ConnectStep, BranchedStep
    <3>4. CASE \E h \in Holder : LockFails(h) \/ Unlocks(h) \/ ConsumerIsGone(h) \/ Disconnects(h)
      BY <3>4, ReleaseStep
    <3>5. CASE \E r \in 1..MaxResolves, s \in {"ok", "failed"} : ResolveEnds(r, s)
      BY <3>5, ResolveEndsStep
    <3>6. CASE TimerFires
      BY <3>6, TimerFiresStep
    <3>7. CASE \/ BuildTransport \/ Reconnect \/ \E on \in BOOLEAN : Pause(on)
               \/ \E n \in 1..MaxClients, g \in Nat, s \in Status : Report(n, g, s)
      BY <3>7, TransportStep
    <3> QED BY <3>1, <3>2, <3>3, <3>4, <3>5, <3>6, <3>7 DEF PoolStep
  <2> QED BY <2>1, <2>2
<1> QED BY <1>1, PoolInitInv, KeptByInvariant, PTL DEF PoolSpec
=============================================================================
