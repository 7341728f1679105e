------------------------- MODULE SessionMachineProofs -------------------------
(***************************************************************************)
(* That the reducer loses and duplicates no promise, for any messages,     *)
(* devices and statement budget, and any order of events.                  *)
(***************************************************************************)
EXTENDS SessionMachine, SequenceTheorems, WellFoundedInduction, TLAPS

(* Min is a CHOOSE, so its value has to be shown to exist.                 *)

\* A nonempty set of natural numbers has a minimum, and Min is it.
LEMMA MinIsLeast ==
    ASSUME NEW S, S \subseteq Nat, S # {}
    PROVE  Min(S) \in S /\ \A x \in S : Min(S) <= x
<1> DEFINE R == {ss \in Nat \X Nat : ss[1] < ss[2]}
<1>1. IsWellFoundedOn(R, Nat)
  BY NatLessThanWellFounded DEF OpToRel
<1>2. PICK m \in S : \A x \in S : <<x, m>> \notin R
  <2> HIDE DEF R
  <2> QED BY <1>1, WFMin, Zenon
<1>3. ASSUME NEW x \in S PROVE m <= x
  <2>1. <<x, m>> \in Nat \X Nat /\ <<x, m>> \notin R
    BY <1>2
  <2>2. ~(<<x, m>>[1] < <<x, m>>[2])
    BY <2>1, Zenon
  <2> QED BY <2>1, <2>2
<1> QED BY <1>3 DEF Min

(* The invariants as predicates of a state of the reducer. *)

OneOwner(s) ==
    /\ s.outgoing.tokens \cap TokensOf(s.queue) = {}
    /\ \A i, j \in 1..Len(s.queue) :
         i # j => s.queue[i].tokens \cap s.queue[j].tokens = {}

Behind(s) == s.queue # <<>> => IsLive(s.outgoing)

(* What inductiveness adds: the next token to be handed out is fresh, and  *)
(* before initialization ends there is no batch (restoring or failing      *)
(* would lose its tokens).                                                 *)

TokensNumbered == \A t \in waiting : t[2] <= submits

NoBatchYet == machine.phase = "initialization" => machine.outgoing = NoBatch

IInv ==
    /\ TypeOK /\ EveryWaiterIsOwned /\ OneOwnerPerToken /\ QueueBehindLiveBatch
    /\ TokensNumbered /\ NoBatchYet

-----------------------------------------------------------------------------
(* Queues and their tokens *)

LEMMA EntryType ==
    ASSUME NEW q \in Seq(Queued), NEW i \in 1..Len(q)
    PROVE  q[i] \in Queued /\ q[i].message \in Message /\ q[i].tokens \subseteq Token
<1>1. q[i] \in Queued
  OBVIOUS
<1> QED BY <1>1 DEF Queued

LEMMA TokensType ==
    ASSUME NEW q \in Seq(Queued)
    PROVE  TokensOf(q) \subseteq Token
<1>1. \A i \in 1..Len(q) : q[i].tokens \subseteq Token
  BY EntryType
<1> QED BY <1>1, Zenon DEF TokensOf

LEMMA MessagesType ==
    ASSUME NEW q \in Seq(Queued)
    PROVE  MessagesOf(q) \in Seq(Message) /\ Len(MessagesOf(q)) = Len(q)
<1>1. \A i \in 1..Len(q) : q[i].message \in Message
  BY EntryType
<1> QED BY <1>1 DEF MessagesOf

\* Cutting a queue in two loses no token.
LEMMA TokensSplit ==
    ASSUME NEW q \in Seq(Queued), NEW n \in 0..Len(q)
    PROVE  /\ SubSeq(q, 1, n) \in Seq(Queued) /\ Len(SubSeq(q, 1, n)) = n
           /\ SubSeq(q, n + 1, Len(q)) \in Seq(Queued)
           /\ TokensOf(q) = TokensOf(SubSeq(q, 1, n)) \cup TokensOf(SubSeq(q, n + 1, Len(q)))
           /\ \A i \in 1..Len(SubSeq(q, n + 1, Len(q))) :
                 i + n \in 1..Len(q) /\ SubSeq(q, n + 1, Len(q))[i] = q[i + n]
<1> DEFINE front == SubSeq(q, 1, n)
           back == SubSeq(q, n + 1, Len(q))
<1>1. /\ front \in Seq(Queued) /\ Len(front) = n
      /\ \A i \in 1..n : front[i] = q[i]
  OBVIOUS
<1>2. /\ back \in Seq(Queued) /\ Len(back) = Len(q) - n
      /\ \A i \in 1..Len(q) - n : i + n \in 1..Len(q) /\ back[i] = q[i + n]
  OBVIOUS
<1> HIDE DEF front, back
<1>3. \A i \in 1..Len(q) : q[i].tokens \subseteq TokensOf(front) \cup TokensOf(back)
  <2> TAKE i \in 1..Len(q)
  <2>1. CASE i <= n
    BY <1>1, <2>1 DEF TokensOf
  <2>2. CASE i > n
    <3>1. i - n \in 1..Len(back) /\ back[i - n] = q[i]
      BY <1>2, <2>2
    <3> QED BY <3>1 DEF TokensOf
  <2> QED BY <2>1, <2>2
<1>4. TokensOf(front) \cup TokensOf(back) \subseteq TokensOf(q)
  BY <1>1, <1>2 DEF TokensOf
<1>5. TokensOf(q) \subseteq TokensOf(front) \cup TokensOf(back)
  BY <1>3 DEF TokensOf
<1> QED BY <1>1, <1>2, <1>4, <1>5 DEF front, back

LEMMA TokensAppend ==
    ASSUME NEW q \in Seq(Queued), NEW e \in Queued
    PROVE  /\ TokensOf(Append(q, e)) = TokensOf(q) \cup e.tokens
           /\ TokensOf(<<e>>) = e.tokens
<1> DEFINE longer == Append(q, e)
<1>1. /\ 1..Len(longer) = (1..Len(q)) \cup {Len(q) + 1}
      /\ longer[Len(q) + 1] = e
      /\ \A i \in 1..Len(q) : longer[i] = q[i]
  OBVIOUS
<1> HIDE DEF longer
<1>2. TokensOf(longer) = TokensOf(q) \cup e.tokens
  <2>1. TokensOf(longer) \subseteq TokensOf(q) \cup e.tokens
    BY <1>1 DEF TokensOf
  <2>2. TokensOf(q) \subseteq TokensOf(longer) /\ e.tokens \subseteq TokensOf(longer)
    BY <1>1 DEF TokensOf
  <2> QED BY <2>1, <2>2
<1>3. 1..Len(<<e>>) = {1} /\ <<e>>[1] = e
  OBVIOUS
<1>4. TokensOf(<<e>>) = e.tokens
  BY <1>3, Zenon DEF TokensOf
<1> QED BY <1>2, <1>4 DEF longer

-----------------------------------------------------------------------------
(* Shipping and draining *)

LEMMA ShipFacts ==
    ASSUME NEW s \in Machine, NEW entries \in Seq(Queued), NEW fresh \in Nat
    PROVE  LET t == Ship(s, entries, fresh)
           IN  /\ t.state \in Machine
               /\ t.state.phase = s.phase /\ t.state.queue = s.queue
               /\ t.state.outgoing.tokens = s.outgoing.tokens \cup TokensOf(entries)
               /\ (IsLive(s.outgoing) \/ entries # <<>>) => IsLive(t.state.outgoing)
               /\ t.effects.tokens = {} /\ Len(t.effects.submits) = Len(entries)
<1> DEFINE t == Ship(s, entries, fresh)
           ids == [i \in 1..Len(entries) |-> fresh + i - 1]
           batch == [ids |-> s.outgoing.ids \o ids,
                     messages |-> Grown(s, entries),
                     tokens |-> s.outgoing.tokens \cup TokensOf(entries)]
<1>1. s.outgoing \in Batch
  BY DEF Machine
<1>2. ids \in Seq(Nat) /\ Len(ids) = Len(entries)
  OBVIOUS
<1>3. s.outgoing.ids \in Seq(Nat) /\ s.outgoing.messages \in Seq(Message)
      /\ s.outgoing.tokens \subseteq Token
  BY <1>1 DEF Batch
<1>4. s.outgoing.ids \o ids \in Seq(Nat)
      /\ Len(s.outgoing.ids \o ids) = Len(s.outgoing.ids) + Len(entries)
  <2> HIDE DEF ids
  <2>1. ASSUME NEW x \in Seq(Nat), NEW y \in Seq(Nat)
        PROVE  x \o y \in Seq(Nat) /\ Len(x \o y) = Len(x) + Len(y)
    BY ConcatProperties
  <2>2. /\ s.outgoing.ids \o ids \in Seq(Nat)
        /\ Len(s.outgoing.ids \o ids) = Len(s.outgoing.ids) + Len(ids)
    BY <1>2, <1>3, <2>1
  <2> QED BY <1>2, <2>2
<1>5. Grown(s, entries) \in Seq(Message)
  BY <1>3, MessagesType DEF Grown
<1>6. batch \in Batch
  BY <1>3, <1>4, <1>5, TokensType DEF Batch
<1>7. t.state = [s EXCEPT !.outgoing = batch]
  BY DEF Ship
<1>8. t.effects.tokens = {} /\ Len(t.effects.submits) = Len(entries)
  BY DEF Ship, NoEffects
<1>9. t.state \in Machine
  <2> HIDE DEF batch, t
  <2> QED BY <1>6, <1>7 DEF Machine
<1>10. /\ t.state.phase = s.phase /\ t.state.queue = s.queue
       /\ t.state.outgoing = batch
  <2> HIDE DEF batch, t
  <2> QED BY <1>7 DEF Machine
<1>11. (IsLive(s.outgoing) \/ entries # <<>>) => IsLive(batch)
  <2>1. s.outgoing.ids # <<>> \/ entries # <<>> => Len(s.outgoing.ids) + Len(entries) > 0
    BY <1>3
  <2>2. batch.ids # <<>> \/ Len(s.outgoing.ids) + Len(entries) = 0
    <3> HIDE DEF ids
    <3> QED BY <1>4, EmptySeq
  <2> QED BY <1>3, <2>1, <2>2 DEF IsLive
<1> QED BY <1>8, <1>9, <1>10, <1>11

\* The drain stops within the queue, and before its head only behind a live batch.
LEMMA StopFacts ==
    ASSUME NEW s \in Machine, NEW r
    PROVE  /\ Min(Stops(s, r)) \in 0..Len(s.queue)
           /\ Min(Stops(s, r)) = 0 /\ s.queue # <<>> => IsLive(s.outgoing)
<1>1. s.queue \in Seq(Queued) /\ Len(s.queue) \in Nat
  BY DEF Machine
<1>2. Stops(s, r) \subseteq Nat /\ Len(s.queue) \in Stops(s, r)
  BY <1>1 DEF Stops
<1>3. Min(Stops(s, r)) \in Stops(s, r)
  BY <1>2, MinIsLeast
<1>4. Min(Stops(s, r)) \in 0..Len(s.queue)
  BY <1>3 DEF Stops
<1>5. ASSUME Min(Stops(s, r)) = 0, s.queue # <<>>
      PROVE  IsLive(s.outgoing)
  <2>1. 0 \in Stops(s, r) /\ Len(s.queue) # 0
    BY <1>1, <1>3, <1>5
  <2>2. ~CanTake(s, r, 0 + 1)
    BY <2>1 DEF Stops
  <2> QED BY <2>2 DEF CanTake
<1> QED BY <1>4, <1>5

\* A drain keeps every token, its owner unique, and leaves nothing waiting
\* behind an absent batch.
LEMMA DrainFacts ==
    ASSUME NEW s \in Machine, NEW r, NEW fresh \in Nat, OneOwner(s)
    PROVE  LET t == Drain(s, r, fresh)
           IN  /\ t.state \in Machine /\ t.state.phase = s.phase
               /\ LiveTokens(t.state) = LiveTokens(s)
               /\ OneOwner(t.state) /\ Behind(t.state)
               /\ t.effects.tokens = {} /\ Len(t.effects.submits) \in Nat
<1> DEFINE n == Min(Stops(s, r))
           front == SubSeq(s.queue, 1, n)
           back == SubSeq(s.queue, n + 1, Len(s.queue))
           left == [s EXCEPT !.queue = back]
           t == Drain(s, r, fresh)
<1>1. n \in 0..Len(s.queue) /\ (n = 0 /\ s.queue # <<>> => IsLive(s.outgoing))
  BY StopFacts
<1>2. s.queue \in Seq(Queued)
  BY DEF Machine
<1> HIDE DEF n
<1>3. /\ front \in Seq(Queued) /\ Len(front) = n /\ back \in Seq(Queued)
      /\ TokensOf(s.queue) = TokensOf(front) \cup TokensOf(back)
      /\ \A i \in 1..Len(back) : i + n \in 1..Len(s.queue) /\ back[i] = s.queue[i + n]
  BY <1>1, <1>2, TokensSplit
<1>4. t = Ship(left, front, fresh)
  BY DEF Drain, Take, n
<1> HIDE DEF front, back, t
<1>5. /\ left \in Machine /\ left.queue = back /\ left.phase = s.phase
      /\ left.outgoing = s.outgoing
  BY <1>3 DEF Machine
<1> HIDE DEF left
<1>6. /\ t.state \in Machine
      /\ t.state.phase = s.phase /\ t.state.queue = back
      /\ t.state.outgoing.tokens = s.outgoing.tokens \cup TokensOf(front)
      /\ (IsLive(s.outgoing) \/ front # <<>>) => IsLive(t.state.outgoing)
      /\ t.effects.tokens = {} /\ Len(t.effects.submits) = Len(front)
  BY <1>3, <1>4, <1>5, ShipFacts
<1>7. LiveTokens(t.state) = LiveTokens(s)
  BY <1>3, <1>6 DEF LiveTokens
<1>8. Behind(t.state)
  <2>1. CASE n = 0
    <3>1. back # <<>> => s.queue # <<>>
      BY <1>2, <1>3
    <3> QED BY <1>1, <1>6, <2>1, <3>1 DEF Behind
  <2>2. CASE n # 0
    <3>1. front # <<>>
      BY <1>1, <1>3, <2>2
    <3> QED BY <1>6, <3>1 DEF Behind
  <2> QED BY <2>1, <2>2
<1>9. OneOwner(t.state)
  <2>1. TokensOf(front) \cap TokensOf(back) = {}
    <3>1. ASSUME NEW i \in 1..Len(front), NEW j \in 1..Len(back)
          PROVE  front[i].tokens \cap back[j].tokens = {}
      <4>1. /\ front[i] = s.queue[i] /\ back[j] = s.queue[j + n]
            /\ i \in 1..Len(s.queue) /\ j + n \in 1..Len(s.queue) /\ i # j + n
        BY <1>1, <1>2, <1>3 DEF front
      <4> QED BY <4>1 DEF OneOwner
    <3> QED BY <3>1 DEF TokensOf
  <2>2. ASSUME NEW i \in 1..Len(back), NEW j \in 1..Len(back), i # j
        PROVE  back[i].tokens \cap back[j].tokens = {}
    <3>1. /\ back[i] = s.queue[i + n] /\ back[j] = s.queue[j + n] /\ i + n # j + n
          /\ i + n \in 1..Len(s.queue) /\ j + n \in 1..Len(s.queue)
      BY <1>1, <1>3, <2>2
    <3> QED BY <3>1 DEF OneOwner
  <2>3. s.outgoing.tokens \cap TokensOf(back) = {}
    BY <1>3 DEF OneOwner
  <2> QED BY <1>6, <2>1, <2>2, <2>3 DEF OneOwner
<1> QED BY <1>3, <1>6, <1>7, <1>8, <1>9 DEF t

-----------------------------------------------------------------------------
(* Submitting: the new token finds exactly one owner. *)

\* What is shown of a state x reached from s by handing out the token t.
Joins(s, x, t) ==
    /\ x \in Machine /\ x.phase = s.phase
    /\ LiveTokens(x) = LiveTokens(s) \cup {t}
    /\ OneOwner(x) /\ (Behind(s) => Behind(x))

LEMMA AttachToBatchFacts ==
    ASSUME NEW s \in Machine, NEW t \in Token, t \notin LiveTokens(s), OneOwner(s)
    PROVE  Joins(s, [s EXCEPT !.outgoing.tokens = @ \cup {t}], t)
<1> DEFINE x == [s EXCEPT !.outgoing.tokens = @ \cup {t}]
<1>1. s.outgoing \in Batch
  BY DEF Machine
<1>2. [s.outgoing EXCEPT !.tokens = @ \cup {t}] \in Batch
  BY <1>1 DEF Batch
<1>3. x \in Machine
  BY <1>2 DEF Machine
<1>4. /\ x.phase = s.phase /\ x.queue = s.queue
      /\ x.outgoing.tokens = s.outgoing.tokens \cup {t} /\ x.outgoing.ids = s.outgoing.ids
  BY <1>1 DEF Machine, Batch
<1> HIDE DEF x
<1>5. t \notin TokensOf(s.queue)
  BY DEF LiveTokens
<1>6. OneOwner(x) /\ LiveTokens(x) = LiveTokens(s) \cup {t}
  BY <1>4, <1>5 DEF OneOwner, LiveTokens
<1> QED BY <1>3, <1>4, <1>6 DEF Joins, Behind, IsLive, x

LEMMA AttachToQueuedFacts ==
    ASSUME NEW s \in Machine, NEW t \in Token, NEW m, t \notin LiveTokens(s),
           OneOwner(s), IsQueued(s, m)
    PROVE  Joins(s, AttachToQueued(s, m, t), t)
<1> DEFINE S == {j \in 1..Len(s.queue) : s.queue[j].message = m}
           i == Min(S)
           e == [s.queue[i] EXCEPT !.tokens = @ \cup {t}]
           q == [s.queue EXCEPT ![i] = e]
           x == AttachToQueued(s, m, t)
<1>1. s.queue \in Seq(Queued)
  BY DEF Machine
<1>2. i \in 1..Len(s.queue)
  <2>1. S \subseteq Nat /\ S # {}
    BY DEF IsQueued
  <2> QED BY <2>1, MinIsLeast
<1>3. x = [s EXCEPT !.queue = q]
  BY DEF AttachToQueued
<1> HIDE DEF i, x
<1>4. e \in Queued /\ e.tokens = s.queue[i].tokens \cup {t}
  BY <1>1, <1>2, EntryType DEF Queued
<1> HIDE DEF e
<1>5. /\ q \in Seq(Queued) /\ Len(q) = Len(s.queue)
      /\ \A j \in 1..Len(q) : q[j] = IF j = i THEN e ELSE s.queue[j]
  BY <1>1, <1>2, <1>4
<1> HIDE DEF q
<1>6. /\ x \in Machine /\ x.phase = s.phase /\ x.queue = q
      /\ x.outgoing = s.outgoing
  BY <1>3, <1>5 DEF Machine
<1>7. TokensOf(q) = TokensOf(s.queue) \cup {t}
  <2>1. TokensOf(q) \subseteq TokensOf(s.queue) \cup {t}
    BY <1>2, <1>4, <1>5 DEF TokensOf
  <2>2. \A j \in 1..Len(q) : s.queue[j].tokens \subseteq q[j].tokens
    BY <1>4, <1>5
  <2>3. TokensOf(s.queue) \subseteq TokensOf(q)
    BY <1>5, <2>2 DEF TokensOf
  <2>4. q[i] = e /\ i \in 1..Len(q) /\ t \in e.tokens
    BY <1>2, <1>4, <1>5
  <2>5. t \in TokensOf(q)
    BY <2>4 DEF TokensOf
  <2> QED BY <2>1, <2>3, <2>5
<1>8. t \notin s.outgoing.tokens /\ \A j \in 1..Len(s.queue) : t \notin s.queue[j].tokens
  BY DEF LiveTokens, TokensOf
<1>9. OneOwner(x)
  <2>1. ASSUME NEW j \in 1..Len(q), NEW k \in 1..Len(q), j # k
        PROVE  q[j].tokens \cap q[k].tokens = {}
    <3>1. s.queue[j].tokens \cap s.queue[k].tokens = {}
      BY <1>5, <2>1 DEF OneOwner
    <3>2. CASE j = i
      BY <1>4, <1>5, <1>8, <2>1, <3>1, <3>2
    <3>3. CASE k = i
      BY <1>4, <1>5, <1>8, <2>1, <3>1, <3>3
    <3>4. CASE j # i /\ k # i
      BY <1>5, <3>1, <3>4
    <3> QED BY <3>2, <3>3, <3>4
  <2>2. s.outgoing.tokens \cap TokensOf(q) = {}
    BY <1>7, <1>8 DEF OneOwner
  <2> QED BY <1>6, <2>1, <2>2 DEF OneOwner
<1>10. Behind(s) => Behind(x)
  BY <1>1, <1>5, <1>6 DEF Behind
<1> QED BY <1>6, <1>7, <1>9, <1>10 DEF Joins, LiveTokens, x

LEMMA EnqueueFacts ==
    ASSUME NEW s \in Machine, NEW m \in Message, NEW t \in Token, t \notin LiveTokens(s),
           OneOwner(s)
    PROVE  LET x == Enqueue(s, m, t)
           IN  /\ x \in Machine /\ x.phase = s.phase /\ x.outgoing = s.outgoing
               /\ LiveTokens(x) = LiveTokens(s) \cup {t}
               /\ OneOwner(x)
<1> DEFINE e == Entry(m, t)
           q == Append(s.queue, e)
           x == Enqueue(s, m, t)
<1>1. s.queue \in Seq(Queued)
  BY DEF Machine
<1>2. e \in Queued /\ e.tokens = {t}
  BY DEF Entry, Queued
<1>3. x = [s EXCEPT !.queue = q]
  BY DEF Enqueue
<1> HIDE DEF e, x
<1>4. /\ q \in Seq(Queued) /\ Len(q) = Len(s.queue) + 1 /\ q[Len(s.queue) + 1] = e
      /\ \A j \in 1..Len(s.queue) : q[j] = s.queue[j]
  BY <1>1, <1>2
<1>5. TokensOf(q) = TokensOf(s.queue) \cup {t}
  BY <1>1, <1>2, TokensAppend
<1> HIDE DEF q
<1>6. /\ x \in Machine /\ x.phase = s.phase /\ x.queue = q
      /\ x.outgoing = s.outgoing
  BY <1>3, <1>4 DEF Machine
<1>7. t \notin s.outgoing.tokens /\ \A j \in 1..Len(s.queue) : t \notin s.queue[j].tokens
  BY DEF LiveTokens, TokensOf
<1>8. OneOwner(x)
  <2>1. ASSUME NEW j \in 1..Len(q), NEW k \in 1..Len(q), j # k
        PROVE  q[j].tokens \cap q[k].tokens = {}
    <3>1. CASE j \in 1..Len(s.queue) /\ k \in 1..Len(s.queue)
      BY <1>4, <2>1, <3>1 DEF OneOwner
    <3>2. CASE j = Len(s.queue) + 1
      <4>1. q[j].tokens = {t} /\ k \in 1..Len(s.queue)
        BY <1>1, <1>2, <1>4, <2>1, <3>2
      <4> QED BY <1>4, <1>7, <4>1
    <3>3. CASE k = Len(s.queue) + 1
      <4>1. q[k].tokens = {t} /\ j \in 1..Len(s.queue)
        BY <1>1, <1>2, <1>4, <2>1, <3>3
      <4> QED BY <1>4, <1>7, <4>1
    <3> QED BY <1>1, <1>4, <3>1, <3>2, <3>3
  <2>2. s.outgoing.tokens \cap TokensOf(q) = {}
    BY <1>5, <1>7 DEF OneOwner
  <2> QED BY <1>6, <2>1, <2>2 DEF OneOwner
<1> QED BY <1>5, <1>6, <1>8 DEF LiveTokens, x

\* A new message shipped on its own joins the batch with its token.
LEMMA ShipOneFacts ==
    ASSUME NEW s \in Machine, NEW m \in Message, NEW t \in Token, NEW fresh \in Nat,
           t \notin LiveTokens(s), OneOwner(s)
    PROVE  LET y == Ship(s, <<Entry(m, t)>>, fresh)
           IN  Joins(s, y.state, t) /\ Behind(y.state) /\ Len(y.effects.submits) \in Nat
<1> DEFINE e == Entry(m, t)
           one == <<e>>
           y == Ship(s, one, fresh)
<1>1. s.queue \in Seq(Queued) /\ e \in Queued /\ e.tokens = {t}
  BY DEF Machine, Entry, Queued
<1> HIDE DEF e
<1>2. one \in Seq(Queued) /\ one # <<>> /\ Len(one) = 1
  BY <1>1
<1>3. TokensOf(one) = {t}
  BY <1>1, TokensAppend
<1> HIDE DEF one
<1>4. /\ y.state \in Machine
      /\ y.state.phase = s.phase /\ y.state.queue = s.queue
      /\ y.state.outgoing.tokens = s.outgoing.tokens \cup {t}
      /\ IsLive(y.state.outgoing) /\ Len(y.effects.submits) = 1
  BY <1>2, <1>3, ShipFacts
<1> HIDE DEF y
<1>5. t \notin TokensOf(s.queue)
  BY DEF LiveTokens
<1>6. OneOwner(y.state) /\ LiveTokens(y.state) = LiveTokens(s) \cup {t}
  BY <1>4, <1>5 DEF OneOwner, LiveTokens
<1> QED BY <1>4, <1>6 DEF Joins, Behind, y, one, e

LEMMA SubmittedFacts ==
    ASSUME NEW s \in Machine, NEW m \in Message, NEW t \in Token, NEW r, NEW fresh \in Nat,
           t \notin LiveTokens(s), OneOwner(s), s.phase = "active" => Behind(s)
    PROVE  LET y == MessageSubmitted(s, m, t, r, fresh)
           IN  /\ y.state \in Machine /\ y.state.phase = s.phase
               /\ LiveTokens(y.state) = LiveTokens(s) \cup {t}
               /\ OneOwner(y.state)
               /\ s.phase = "active" => Behind(y.state)
               /\ Len(y.effects.submits) \in Nat
<1> DEFINE y == MessageSubmitted(s, m, t, r, fresh)
<1>1. \A x : Unchanged(x).state = x /\ Len(Unchanged(x).effects.submits) = 0
  BY DEF Unchanged, NoEffects
<1>2. CASE InFlight(s, m)
  <2> DEFINE x == [s EXCEPT !.outgoing.tokens = @ \cup {t}]
  <2>1. y = Unchanged(x)
    BY <1>2 DEF MessageSubmitted
  <2>2. Joins(s, x, t)
    BY AttachToBatchFacts
  <2> HIDE DEF x, y
  <2> QED BY <1>1, <2>1, <2>2 DEF Joins, y
<1>3. CASE ~InFlight(s, m) /\ IsQueued(s, m)
  BY <1>1, <1>3, AttachToQueuedFacts DEF MessageSubmitted, Joins
<1>4. CASE ~InFlight(s, m) /\ ~IsQueued(s, m) /\ MustWait(s)
  <2>1. y = Unchanged(Enqueue(s, m, t))
    BY <1>4 DEF MessageSubmitted
  <2>2. s.phase = "active" => IsLive(s.outgoing)
    BY <1>4 DEF MustWait, Behind
  <2> HIDE DEF y
  <2> QED BY <1>1, <2>1, <2>2, EnqueueFacts DEF Behind, y
<1>5. CASE ~InFlight(s, m) /\ ~IsQueued(s, m) /\ ~MustWait(s)
  <2>1. y = Admit(s, m, t, r, fresh)
    BY <1>5 DEF MessageSubmitted
  <2> HIDE DEF y
  <2>2. CASE ~IsLive(s.outgoing) \/ Fits(r, Append(s.outgoing.messages, m))
    BY <2>1, <2>2, ShipOneFacts DEF Admit, Joins, y
  <2>3. CASE IsLive(s.outgoing) /\ ~Fits(r, Append(s.outgoing.messages, m))
    <3>1. y = Unchanged(Enqueue(s, m, t))
      BY <2>1, <2>3 DEF Admit
    <3> QED BY <1>1, <2>3, <3>1, EnqueueFacts DEF Behind, y
  <2> QED BY <2>2, <2>3
<1> QED BY <1>2, <1>3, <1>4, <1>5

-----------------------------------------------------------------------------
(* Ending a batch: its tokens are settled, those of the queue live on. *)

LEMMA NoBatchFacts ==
    ASSUME NEW s \in Machine
    PROVE  LET x == [s EXCEPT !.outgoing = NoBatch]
           IN  /\ x \in Machine /\ x.phase = s.phase /\ x.queue = s.queue
               /\ x.outgoing.tokens = {}
<1>1. NoBatch \in Batch /\ NoBatch.tokens = {}
  BY DEF NoBatch, Batch
<1> QED BY <1>1 DEF Machine

LEMMA EndBatchFacts ==
    ASSUME NEW s \in Machine, NEW r, NEW fresh \in Nat, NEW settle, OneOwner(s)
    PROVE  LET y == EndBatch(s, settle, r, fresh)
           IN  /\ y.state \in Machine /\ y.state.phase = s.phase
               /\ LiveTokens(y.state) = LiveTokens(s) \ y.effects.tokens
               /\ OneOwner(y.state) /\ Behind(y.state)
               /\ Len(y.effects.submits) \in Nat
<1> DEFINE x == [s EXCEPT !.outgoing = NoBatch]
           d == Drain(x, r, fresh)
           y == EndBatch(s, settle, r, fresh)
<1>1. /\ x \in Machine /\ x.phase = s.phase /\ x.queue = s.queue
      /\ x.outgoing.tokens = {}
  BY NoBatchFacts
<1>2. /\ y.state = d.state /\ y.effects.tokens = s.outgoing.tokens
      /\ y.effects.submits = d.effects.submits
  BY DEF EndBatch, Drain, Take, Ship, NoEffects
<1> HIDE DEF x
<1>3. OneOwner(x)
  BY <1>1 DEF OneOwner
<1>4. /\ d.state \in Machine /\ d.state.phase = s.phase
      /\ LiveTokens(d.state) = LiveTokens(x)
      /\ OneOwner(d.state) /\ Behind(d.state) /\ Len(d.effects.submits) \in Nat
  BY <1>1, <1>3, DrainFacts
<1>5. LiveTokens(x) = LiveTokens(s) \ s.outgoing.tokens
  BY <1>1 DEF LiveTokens, OneOwner
<1> HIDE DEF y, d
<1> QED BY <1>2, <1>4, <1>5 DEF y

\* Without a batch nothing is in flight, and no event ends one.
LEMMA WithoutBatch ==
    ASSUME NEW s \in Machine, s.outgoing = NoBatch
    PROVE  ~IsLive(s.outgoing) /\ ToSet(s.outgoing.ids) = {} /\ ToSet(s.outgoing.messages) = {}
<1>1. s.outgoing.ids = <<>> /\ s.outgoing.messages = <<>>
  BY DEF NoBatch
<1>2. ToSet(<<>>) = {}
  BY DEF ToSet
<1> QED BY <1>1, <1>2 DEF IsLive

-----------------------------------------------------------------------------
(* One lemma per action. *)

\* The invariant of a step that leaves the outgoing side and its waiters alone.
LEMMA OutgoingUntouched ==
    ASSUME IInv, machine' \in Machine, machine'.outgoing = machine.outgoing,
           machine'.queue = machine.queue, machine'.phase = machine.phase,
           nextId' \in Nat \ {0}, roster' \subseteq Device,
           UNCHANGED <<waiting, submits>>
    PROVE  IInv'
BY DEF IInv, TypeOK, EveryWaiterIsOwned, LiveTokens, OneOwnerPerToken, QueueBehindLiveBatch,
       TokensNumbered, NoBatchYet

LEMMA SubmitStep ==
    ASSUME IInv, NEW m \in Message, Submit(m)
    PROVE  IInv'
<1> DEFINE t == <<m, submits + 1>>
           y == MessageSubmitted(machine, m, t, roster, nextId)
<1>1. /\ machine \in Machine /\ nextId \in Nat \ {0} /\ submits + 1 \in 1..MaxSubmits
      /\ waiting \subseteq Token /\ OneOwner(machine)
      /\ machine.phase = "active" => Behind(machine)
  BY MachineAssumption
     DEF IInv, TypeOK, OneOwnerPerToken, OneOwner, QueueBehindLiveBatch, Behind, Submit
<1>2. t \in Token /\ t[2] = submits + 1
  BY <1>1 DEF Token
<1>3. t \notin waiting
  BY <1>1, <1>2, MachineAssumption DEF IInv, TypeOK, TokensNumbered
<1>4. /\ machine' = y.state /\ nextId' = nextId + Len(y.effects.submits)
      /\ waiting' = waiting \cup {t} /\ submits' = submits + 1 /\ roster' = roster
  BY DEF Submit, Dispatch
<1> HIDE DEF t
<1>5. /\ y.state \in Machine /\ y.state.phase = machine.phase
      /\ LiveTokens(y.state) = LiveTokens(machine) \cup {t}
      /\ OneOwner(y.state)
      /\ machine.phase = "active" => Behind(y.state)
      /\ Len(y.effects.submits) \in Nat
  <2>1. t \notin LiveTokens(machine)
    BY <1>3 DEF IInv, EveryWaiterIsOwned
  <2> HIDE DEF y
  <2> QED BY <1>1, <1>2, <2>1, SubmittedFacts DEF y
<1>6. NoBatchYet'
  <2> SUFFICES ASSUME machine'.phase = "initialization" PROVE machine'.outgoing = NoBatch
    BY DEF NoBatchYet
  <2>1. machine.outgoing = NoBatch /\ machine.phase = "initialization"
    BY <1>4, <1>5 DEF IInv, NoBatchYet
  <2>2. ~InFlight(machine, m)
    BY <1>1, <2>1, WithoutBatch DEF InFlight
  <2>3. CASE IsQueued(machine, m)
    <3>1. y.state = AttachToQueued(machine, m, t)
      BY <2>2, <2>3 DEF MessageSubmitted, Unchanged
    <3>2. AttachToQueued(machine, m, t).outgoing = machine.outgoing
      BY <1>1 DEF AttachToQueued, Machine
    <3> QED BY <1>4, <2>1, <3>1, <3>2
  <2>4. CASE ~IsQueued(machine, m)
    <3>1. y.state = Enqueue(machine, m, t)
      BY <2>1, <2>2, <2>4 DEF MessageSubmitted, MustWait, Unchanged
    <3>2. Enqueue(machine, m, t).outgoing = machine.outgoing
      BY <1>1 DEF Enqueue, Machine
    <3> QED BY <1>4, <2>1, <3>1, <3>2
  <2> QED BY <2>3, <2>4
<1> HIDE DEF y
<1>7. TypeOK'
  BY <1>1, <1>2, <1>4, <1>5, MachineAssumption DEF IInv, TypeOK
<1>8. EveryWaiterIsOwned'
  BY <1>4, <1>5 DEF IInv, EveryWaiterIsOwned
<1>9. OneOwnerPerToken' /\ QueueBehindLiveBatch'
  BY <1>4, <1>5 DEF OneOwnerPerToken, OneOwner, QueueBehindLiveBatch, Behind
<1>10. TokensNumbered'
  BY <1>1, <1>2, <1>4, MachineAssumption DEF IInv, TypeOK, TokensNumbered, Token
<1> QED BY <1>6, <1>7, <1>8, <1>9, <1>10 DEF IInv

\* A response or a failure either names no submission of the batch, or ends it.
LEMMA EndStep ==
    ASSUME IInv, NEW id \in 1..nextId - 1, Response(id) \/ SubmitFails(id)
    PROVE  IInv'
<1>1. /\ machine \in Machine /\ nextId \in Nat \ {0} /\ OneOwner(machine)
      /\ waiting = LiveTokens(machine)
  BY DEF IInv, TypeOK, OneOwnerPerToken, OneOwner, EveryWaiterIsOwned
<1>2. \/ DispatchSettling(Unchanged(machine))
      \/ /\ IsLive(machine.outgoing) \/ ToSet(machine.outgoing.ids) # {}
         /\ \E settle : DispatchSettling(EndBatch(machine, settle, roster, nextId))
  BY DEF Response, SubmitFails, ResponseReceived, RequestSubmitFailed
<1>3. UNCHANGED <<submits, roster>>
  BY DEF Response, SubmitFails
<1>4. CASE DispatchSettling(Unchanged(machine))
  <2>1. machine' = machine /\ nextId' = nextId + 0 /\ waiting' = waiting \ {}
    BY <1>4 DEF DispatchSettling, Dispatch, Unchanged, NoEffects
  <2> QED BY <1>1, <1>3, <2>1, OutgoingUntouched DEF IInv, TypeOK
<1>5. CASE /\ IsLive(machine.outgoing) \/ ToSet(machine.outgoing.ids) # {}
           /\ \E settle : DispatchSettling(EndBatch(machine, settle, roster, nextId))
  <2>1. PICK settle : DispatchSettling(EndBatch(machine, settle, roster, nextId))
    BY <1>5
  <2> DEFINE y == EndBatch(machine, settle, roster, nextId)
  <2>2. /\ machine' = y.state /\ nextId' = nextId + Len(y.effects.submits)
        /\ waiting' = waiting \ y.effects.tokens
    BY <2>1 DEF DispatchSettling, Dispatch
  <2>3. /\ y.state \in Machine /\ y.state.phase = machine.phase
        /\ LiveTokens(y.state) = LiveTokens(machine) \ y.effects.tokens
        /\ OneOwner(y.state) /\ Behind(y.state)
        /\ Len(y.effects.submits) \in Nat
    BY <1>1, EndBatchFacts
  <2>4. machine.phase # "initialization"
    BY <1>1, <1>5, WithoutBatch DEF IInv, NoBatchYet
  <2> HIDE DEF y
  <2>5. TypeOK' /\ EveryWaiterIsOwned'
    BY <1>1, <1>3, <2>2, <2>3 DEF IInv, TypeOK, EveryWaiterIsOwned
  <2>6. OneOwnerPerToken' /\ QueueBehindLiveBatch' /\ NoBatchYet'
    BY <2>2, <2>3, <2>4
       DEF OneOwnerPerToken, OneOwner, QueueBehindLiveBatch, Behind, NoBatchYet
  <2>7. TokensNumbered'
    BY <1>3, <2>2 DEF IInv, TokensNumbered
  <2> QED BY <2>5, <2>6, <2>7 DEF IInv
<1> QED BY <1>2, <1>4, <1>5

\* The incoming side shares the state with the outgoing side and no more.
LEMMA IncomingStep ==
    ASSUME IInv, NEW q \in PeerRequest, NEW responded \in BOOLEAN,
           \/ PeerAsks(q) \/ Answer(q) \/ AnswerFails(q)
           \/ RestoreIncoming(q, responded)
    PROVE  IInv'
<1>1. machine \in Machine /\ nextId \in Nat \ {0}
  BY DEF IInv, TypeOK
<1>2. \/ machine' = machine
      \/ \E how \in {"open", "responded"} : machine' = [machine EXCEPT !.incoming[q] = how]
  BY DEF PeerAsks, Answer, AnswerFails, RestoreIncoming, Incoming, Dispatch, Unchanged,
         RequestReceived, ResponseSubmitted, ResponseSubmitFailed, IncomingRestored
<1>3. nextId' = nextId + 0 /\ UNCHANGED <<waiting, submits, roster>>
  BY DEF PeerAsks, Answer, AnswerFails, RestoreIncoming, Incoming, Dispatch, Unchanged,
         NoEffects, RequestReceived, ResponseSubmitted, ResponseSubmitFailed, IncomingRestored
<1>4. /\ machine' \in Machine /\ machine'.outgoing = machine.outgoing
      /\ machine'.queue = machine.queue /\ machine'.phase = machine.phase
  BY <1>1, <1>2 DEF Machine
<1> QED BY <1>1, <1>3, <1>4, OutgoingUntouched DEF IInv, TypeOK

LEMMA RosterStep ==
    ASSUME IInv, NEW devices \in SUBSET Device, RosterChanges(devices)
    PROVE  IInv'
<1>1. /\ machine \in Machine /\ nextId \in Nat \ {0} /\ OneOwner(machine)
      /\ waiting = LiveTokens(machine)
  BY DEF IInv, TypeOK, OneOwnerPerToken, OneOwner, EveryWaiterIsOwned
<1>2. roster' = devices /\ UNCHANGED <<waiting, submits>>
  BY DEF RosterChanges
<1>3. CASE UNCHANGED <<machine, nextId>> \/ Dispatch(Unchanged(machine))
  <2>1. machine' = machine /\ nextId' = nextId + 0
    BY <1>1, <1>3 DEF Dispatch, Unchanged, NoEffects
  <2> QED BY <1>1, <1>2, <2>1, OutgoingUntouched DEF IInv, TypeOK
<1>4. CASE machine.phase = "active" /\ Dispatch(Drain(machine, devices, nextId))
  <2> DEFINE y == Drain(machine, devices, nextId)
  <2>1. machine' = y.state /\ nextId' = nextId + Len(y.effects.submits)
    BY <1>4 DEF Dispatch
  <2>2. /\ y.state \in Machine /\ y.state.phase = machine.phase
        /\ LiveTokens(y.state) = LiveTokens(machine)
        /\ OneOwner(y.state) /\ Behind(y.state) /\ Len(y.effects.submits) \in Nat
    BY <1>1, DrainFacts
  <2> HIDE DEF y
  <2>3. TypeOK' /\ EveryWaiterIsOwned' /\ TokensNumbered'
    BY <1>1, <1>2, <2>1, <2>2 DEF IInv, TypeOK, EveryWaiterIsOwned, TokensNumbered
  <2>4. OneOwnerPerToken' /\ QueueBehindLiveBatch' /\ NoBatchYet'
    BY <1>4, <2>1, <2>2 DEF OneOwnerPerToken, OneOwner, QueueBehindLiveBatch, Behind, NoBatchYet
  <2> QED BY <2>3, <2>4 DEF IInv
<1> QED BY <1>3, <1>4 DEF RosterChanges, CapacityChanged

\* Clearing and failing drop every token with its waiter.
LEMMA GiveUpStep ==
    ASSUME IInv, Clear \/ InitFails
    PROVE  IInv'
<1>1. machine \in Machine /\ nextId \in Nat \ {0}
  BY DEF IInv, TypeOK
<1>2. NoBatch \in Batch /\ NoBatch.tokens = {} /\ <<>> \in Seq(Queued)
  BY DEF NoBatch, Batch
<1>3. /\ machine'.outgoing = NoBatch /\ machine'.queue = <<>> /\ machine' \in Machine
      /\ nextId' = nextId + 0 /\ waiting' = {} /\ UNCHANGED <<submits, roster>>
  <2>1. CASE Clear
    <3>1. machine' = [machine EXCEPT !.outgoing = NoBatch, !.queue = <<>>]
      BY <2>1 DEF Clear, Dispatch, OutgoingCleared, Unchanged
    <3>2. nextId' = nextId + 0 /\ waiting' = {} /\ UNCHANGED <<submits, roster>>
      BY <2>1 DEF Clear, Dispatch, OutgoingCleared, Unchanged, NoEffects
    <3> QED BY <1>1, <1>2, <3>1, <3>2 DEF Machine
  <2>2. CASE InitFails
    <3>1. machine' = [machine EXCEPT !.phase = "failed", !.queue = <<>>]
      BY <2>2 DEF InitFails, Dispatch, InitFailed, Unchanged
    <3>2. nextId' = nextId + 0 /\ waiting' = {} /\ UNCHANGED <<submits, roster>>
      BY <2>2 DEF InitFails, Dispatch, InitFailed, Unchanged, NoEffects
    <3>3. machine.outgoing = NoBatch
      BY <2>2 DEF InitFails, IInv, NoBatchYet
    <3> QED BY <1>1, <1>2, <3>1, <3>2, <3>3 DEF Machine
  <2> QED BY <2>1, <2>2
<1>4. LiveTokens(machine') = {}
  BY <1>2, <1>3 DEF LiveTokens, TokensOf
<1>5. TypeOK' /\ EveryWaiterIsOwned' /\ TokensNumbered'
  BY <1>1, <1>3, <1>4 DEF IInv, TypeOK, EveryWaiterIsOwned, TokensNumbered
<1>6. OneOwnerPerToken' /\ QueueBehindLiveBatch' /\ NoBatchYet'
  BY <1>2, <1>3 DEF OneOwnerPerToken, QueueBehindLiveBatch, NoBatchYet, TokensOf
<1> QED BY <1>5, <1>6 DEF IInv

\* Activation drains the queue into the restored batch, or into a new one.
LEMMA ActivatedFacts ==
    ASSUME NEW s \in Machine, NEW r, NEW fresh \in Nat, OneOwner(s)
    PROVE  LET y == Activated(s, r, fresh)
           IN  /\ y.state \in Machine /\ y.state.phase = "active"
               /\ LiveTokens(y.state) = LiveTokens(s)
               /\ OneOwner(y.state) /\ Behind(y.state)
               /\ Len(y.effects.submits) \in Nat
<1> DEFINE x == [s EXCEPT !.phase = "active"]
<1>1. /\ x \in Machine /\ x.phase = "active" /\ x.outgoing = s.outgoing
      /\ x.queue = s.queue
  BY DEF Machine
<1>2. Activated(s, r, fresh) = Drain(x, r, fresh)
  BY DEF Activated
<1> HIDE DEF x
<1>3. OneOwner(x) /\ LiveTokens(x) = LiveTokens(s)
  BY <1>1 DEF OneOwner, LiveTokens
<1> QED BY <1>1, <1>2, <1>3, DrainFacts

LEMMA InitializedStep ==
    ASSUME IInv, Initialized
    PROVE  IInv'
<1>1. /\ machine \in Machine /\ nextId \in Nat \ {0} /\ OneOwner(machine)
      /\ waiting = LiveTokens(machine) /\ machine.outgoing = NoBatch
  BY DEF IInv, TypeOK, OneOwnerPerToken, OneOwner, EveryWaiterIsOwned, NoBatchYet, Initialized
<1>2. ASSUME NEW s \in Machine, OneOwner(s), LiveTokens(s) = waiting,
             NEW fresh \in Nat \ {0},
             machine' = Activated(s, roster, fresh).state,
             nextId' = fresh + Len(Activated(s, roster, fresh).effects.submits),
             UNCHANGED <<waiting, submits, roster>>
      PROVE  IInv'
  <2> DEFINE y == Activated(s, roster, fresh)
  <2>1. /\ y.state \in Machine /\ y.state.phase = "active"
        /\ LiveTokens(y.state) = LiveTokens(s)
        /\ OneOwner(y.state) /\ Behind(y.state) /\ Len(y.effects.submits) \in Nat
    BY <1>2, ActivatedFacts
  <2>2. machine' = y.state /\ nextId' = fresh + Len(y.effects.submits)
    BY <1>2
  <2> HIDE DEF y
  <2>3. TypeOK' /\ EveryWaiterIsOwned' /\ TokensNumbered'
    BY <1>2, <2>1, <2>2 DEF IInv, TypeOK, EveryWaiterIsOwned, TokensNumbered
  <2>4. OneOwnerPerToken' /\ QueueBehindLiveBatch' /\ NoBatchYet'
    BY <2>1, <2>2 DEF OneOwnerPerToken, OneOwner, QueueBehindLiveBatch, Behind, NoBatchYet
  <2> QED BY <2>3, <2>4 DEF IInv
<1>3. CASE Dispatch(Activated(machine, roster, nextId))
  BY <1>1, <1>2, <1>3 DEF Initialized, Dispatch
<1>4. ASSUME NEW batch \in Restorable,
             LET restored == OutgoingRestored(machine, nextId, batch).state
                 t == Activated(restored, roster, nextId + 1)
             IN  /\ machine' = t.state
                 /\ nextId' = nextId + 1 + Len(t.effects.submits)
      PROVE  IInv'
  <2> DEFINE found == [ids |-> <<nextId>>, messages |-> batch, tokens |-> {}]
             x == [machine EXCEPT !.outgoing = found]
  <2>1. found \in Batch /\ found.tokens = {}
    BY <1>1, MachineAssumption DEF Batch
  <2>2. OutgoingRestored(machine, nextId, batch).state = x
    BY DEF OutgoingRestored, Unchanged
  <2> HIDE DEF found
  <2>3. x \in Machine /\ x.queue = machine.queue /\ x.outgoing.tokens = {}
    BY <1>1, <2>1 DEF Machine
  <2> HIDE DEF x
  <2>4. OneOwner(x) /\ LiveTokens(x) = waiting
    BY <1>1, <2>3 DEF OneOwner, LiveTokens, NoBatch
  <2>5. nextId + 1 \in Nat \ {0} /\ UNCHANGED <<waiting, submits, roster>>
    BY <1>1 DEF Initialized
  <2> QED BY <1>2, <1>4, <2>2, <2>3, <2>4, <2>5
<1> QED BY <1>3, <1>4 DEF Initialized

LEMMA InitIInv == Init => IInv
<1> SUFFICES ASSUME Init PROVE IInv
  OBVIOUS
<1>1. machine = InitialSessionState /\ machine.outgoing = NoBatch /\ machine.queue = <<>>
  BY DEF Init, InitialSessionState
<1>2. NoBatch \in Batch /\ NoBatch.tokens = {} /\ <<>> \in Seq(Queued) /\ Len(<<>>) = 0
  BY DEF NoBatch, Batch
<1>3. TypeOK
  BY <1>1, <1>2, MachineAssumption DEF Init, TypeOK, Machine, InitialSessionState
<1>4. LiveTokens(machine) = {}
  BY <1>1, <1>2 DEF LiveTokens, TokensOf
<1>5. OneOwnerPerToken
  BY <1>1, <1>2 DEF OneOwnerPerToken
<1> QED BY <1>1, <1>3, <1>4, <1>5
        DEF Init, IInv, EveryWaiterIsOwned, QueueBehindLiveBatch, TokensNumbered, NoBatchYet

-----------------------------------------------------------------------------
(* Theorems *)

\* The strengthened invariant holds in every run of the reducer.
THEOREM MachineInvariant == Spec => []IInv
<1>1. Init => IInv
  BY InitIInv
<1>2. IInv /\ [Next]_vars => IInv'
  <2> SUFFICES ASSUME IInv, [Next]_vars PROVE IInv'
    OBVIOUS
  <2>1. CASE UNCHANGED vars
    BY <2>1, OutgoingUntouched DEF IInv, TypeOK, vars
  <2>2. CASE Next
    BY <2>2, SubmitStep, EndStep, IncomingStep, RosterStep, GiveUpStep, InitializedStep DEF Next
  <2> QED BY <2>1, <2>2
<1> QED BY <1>1, <1>2, PTL DEF Spec

\* transition keeps its state well formed, whatever the order of events: a
\* phase, a batch, a queue and an incoming map of the declared types.
THEOREM TypeCorrect == Spec => []TypeOK
BY MachineInvariant, PTL DEF IInv

\* No caller's promise hangs and none is settled behind the reducer's back:
\* the unsettled tokens are exactly those the batch and the queue hold.
THEOREM WaitersOwned == Spec => []EveryWaiterIsOwned
BY MachineInvariant, PTL DEF IInv

\* A token sits in the batch or in one queue entry, never in two places, so
\* no response settles a caller twice.
THEOREM TokensOwnedOnce == Spec => []OneOwnerPerToken
BY MachineInvariant, PTL DEF IInv

\* drain leaves nothing waiting behind an absent batch in an active
\* session, for any budget, messages and changes of the roster.
THEOREM QueueNeverStranded == Spec => []QueueBehindLiveBatch
BY MachineInvariant, PTL DEF IInv

-----------------------------------------------------------------------------
(* The line of messages: those of the batch, then those of the queue. *)

LineOf(s) == s.outgoing.messages \o MessagesOf(s.queue)
SentOf(s) == Len(s.outgoing.messages)

\* What is shown of a state x in which more of the line of s is on the wire.
MovesUp(s, x) == LineOf(x) = LineOf(s) /\ SentOf(x) \in SentOf(s)..Len(LineOf(s))

LEMMA Joined ==
    \A x, y \in Seq(Message) :
        /\ x \o y \in Seq(Message) /\ Len(x \o y) = Len(x) + Len(y)
        /\ Len(x) \in Nat /\ Len(y) \in Nat
        /\ \A i \in 1..Len(x) + Len(y) :
              (x \o y)[i] = IF i <= Len(x) THEN x[i] ELSE y[i - Len(x)]
<1> TAKE x, y \in Seq(Message)
<1> QED BY ConcatProperties

LEMMA JoinedThrice ==
    \A x, y, z \in Seq(Message) : (x \o y) \o z = x \o (y \o z)
<1> TAKE x, y, z \in Seq(Message)
<1> QED BY ConcatAssociative

LEMMA LineType ==
    ASSUME NEW s \in Machine
    PROVE  /\ s.outgoing.messages \in Seq(Message) /\ s.queue \in Seq(Queued)
           /\ LineOf(s) \in Seq(Message) /\ SentOf(s) \in Nat
           /\ Len(LineOf(s)) = SentOf(s) + Len(s.queue)
<1>1. s.outgoing.messages \in Seq(Message) /\ s.queue \in Seq(Queued)
  BY DEF Machine, Batch
<1>2. MessagesOf(s.queue) \in Seq(Message) /\ Len(MessagesOf(s.queue)) = Len(s.queue)
  BY <1>1, MessagesType
<1> DEFINE x == s.outgoing.messages
           y == MessagesOf(s.queue)
<1>3. x \in Seq(Message) /\ y \in Seq(Message) /\ Len(y) = Len(s.queue)
  BY <1>1, <1>2
<1>4. LineOf(s) = x \o y /\ SentOf(s) = Len(x)
  BY DEF LineOf, SentOf
<1> HIDE DEF x, y
<1>5. x \o y \in Seq(Message) /\ Len(x \o y) = Len(x) + Len(y) /\ Len(x) \in Nat
  BY <1>3, Joined, Zenon
<1> QED BY <1>1, <1>3, <1>4, <1>5

LEMMA MessagesSplit ==
    ASSUME NEW q \in Seq(Queued), NEW n \in 0..Len(q)
    PROVE  MessagesOf(q) = MessagesOf(SubSeq(q, 1, n)) \o MessagesOf(SubSeq(q, n + 1, Len(q)))
<1> DEFINE front == SubSeq(q, 1, n)
           back == SubSeq(q, n + 1, Len(q))
<1>1. /\ front \in Seq(Queued) /\ Len(front) = n
      /\ \A i \in 1..n : front[i] = q[i]
      /\ back \in Seq(Queued) /\ Len(back) = Len(q) - n
      /\ \A i \in 1..Len(q) - n : back[i] = q[i + n]
  OBVIOUS
<1> HIDE DEF front, back
<1>2. /\ MessagesOf(q) \in Seq(Message) /\ Len(MessagesOf(q)) = Len(q)
      /\ MessagesOf(front) \in Seq(Message) /\ Len(MessagesOf(front)) = n
      /\ MessagesOf(back) \in Seq(Message) /\ Len(MessagesOf(back)) = Len(q) - n
  BY <1>1, MessagesType
<1> DEFINE x == MessagesOf(front)
           y == MessagesOf(back)
<1>3. /\ \A i \in 1..Len(q) : MessagesOf(q)[i] = q[i].message
      /\ \A i \in 1..n : x[i] = q[i].message
      /\ \A i \in 1..Len(q) - n : y[i] = q[i + n].message
  BY <1>1 DEF MessagesOf
<1>4. x \in Seq(Message) /\ Len(x) = n /\ y \in Seq(Message) /\ Len(y) = Len(q) - n
  BY <1>2
<1> HIDE DEF x, y
<1> DEFINE both == x \o y
<1>5. /\ both \in Seq(Message)
      /\ Len(both) = Len(x) + Len(y)
      /\ \A i \in 1..Len(x) + Len(y) : both[i] = IF i <= Len(x) THEN x[i] ELSE y[i - Len(x)]
  BY <1>4, Joined, Zenon
<1> HIDE DEF both
<1>7. /\ Len(both) = Len(q)
      /\ \A i \in 1..Len(q) : both[i] = IF i <= n THEN x[i] ELSE y[i - n]
  BY <1>4, <1>5
<1>6. \A i \in 1..Len(q) : both[i] = MessagesOf(q)[i]
  <2> TAKE i \in 1..Len(q)
  <2>1. CASE i <= n
    BY <1>3, <1>7, <2>1
  <2>2. CASE i > n
    <3>1. i - n \in 1..Len(q) - n /\ (i - n) + n = i
      BY <2>2
    <3> QED BY <1>3, <1>7, <2>2, <3>1
  <2> QED BY <2>1, <2>2
<1> QED BY <1>2, <1>5, <1>6, <1>7, SeqEqual DEF both, x, y, front, back

LEMMA ShipLine ==
    ASSUME NEW s \in Machine, NEW entries \in Seq(Queued), NEW fresh \in Nat
    PROVE  LET x == Ship(s, entries, fresh).state
           IN  /\ x \in Machine /\ x.queue = s.queue
               /\ x.outgoing.messages = s.outgoing.messages \o MessagesOf(entries)
               /\ x.outgoing.tokens = s.outgoing.tokens \cup TokensOf(entries)
<1>1. Ship(s, entries, fresh).state.outgoing.messages = Grown(s, entries)
  BY DEF Ship, Machine
<1> QED BY <1>1, ShipFacts DEF Grown

\* A drain takes messages from the front of the queue, in their order.
LEMMA DrainLine ==
    ASSUME NEW s \in Machine, NEW r, NEW fresh \in Nat
    PROVE  MovesUp(s, Drain(s, r, fresh).state)
<1> DEFINE n == Min(Stops(s, r))
           front == SubSeq(s.queue, 1, n)
           back == SubSeq(s.queue, n + 1, Len(s.queue))
           left == [s EXCEPT !.queue = back]
           x == Drain(s, r, fresh).state
<1>1. n \in 0..Len(s.queue) /\ s.queue \in Seq(Queued)
  BY StopFacts DEF Machine
<1> HIDE DEF n
<1>2. /\ front \in Seq(Queued) /\ Len(front) = n /\ back \in Seq(Queued)
      /\ MessagesOf(s.queue) = MessagesOf(front) \o MessagesOf(back)
  BY <1>1, TokensSplit, MessagesSplit
<1>3. x = Ship(left, front, fresh).state
  BY DEF Drain, Take, n
<1> HIDE DEF front, back, x
<1>4. left \in Machine /\ left.queue = back /\ left.outgoing = s.outgoing
  BY <1>2 DEF Machine
<1> HIDE DEF left
<1>5. x.queue = back /\ x.outgoing.messages = s.outgoing.messages \o MessagesOf(front)
  <2>1. /\ x.queue = left.queue
        /\ x.outgoing.messages = left.outgoing.messages \o MessagesOf(front)
    <3>1. /\ Ship(left, front, fresh).state.queue = left.queue
          /\ Ship(left, front, fresh).state.outgoing.messages
                = left.outgoing.messages \o MessagesOf(front)
      <4>1. left \in Machine /\ front \in Seq(Queued) /\ fresh \in Nat
        BY <1>2, <1>4
      <4> QED BY <4>1, ShipLine, ZenonT(60)
    <3> QED BY <1>3, <3>1, Zenon
  <2> QED BY <1>4, <2>1, Zenon
<1>6. /\ s.outgoing.messages \in Seq(Message) /\ MessagesOf(front) \in Seq(Message)
      /\ MessagesOf(back) \in Seq(Message) /\ Len(MessagesOf(front)) = n
  BY <1>2, LineType, MessagesType
<1> DEFINE sentNow == s.outgoing.messages
           leaves == MessagesOf(front)
           stays == MessagesOf(back)
<1>7. /\ LineOf(x) = (sentNow \o leaves) \o stays /\ SentOf(x) = Len(sentNow \o leaves)
      /\ LineOf(s) = sentNow \o (leaves \o stays) /\ SentOf(s) = Len(sentNow)
  BY <1>2, <1>5 DEF LineOf, SentOf
<1>8. /\ sentNow \in Seq(Message) /\ leaves \in Seq(Message) /\ stays \in Seq(Message)
      /\ Len(leaves) = n
  BY <1>6
<1> HIDE DEF sentNow, leaves, stays
<1>9. LineOf(x) = LineOf(s)
  BY <1>7, <1>8, JoinedThrice
<1>10. Len(sentNow \o leaves) = Len(sentNow) + n
  BY <1>8, Joined, Zenon
<1>11. SentOf(s) \in Nat /\ Len(LineOf(s)) = SentOf(s) + Len(s.queue)
  BY LineType
<1> QED BY <1>1, <1>7, <1>9, <1>10, <1>11 DEF MovesUp, x

\* What is left of a line when its first part goes.
LEMMA RestOfJoined ==
    \A x, y \in Seq(Message) : SubSeq(x \o y, Len(x) + 1, Len(x \o y)) = y
<1> TAKE x, y \in Seq(Message)
<1> DEFINE both == x \o y
           rest == SubSeq(both, Len(x) + 1, Len(both))
<1>1. /\ both \in Seq(Message) /\ Len(both) = Len(x) + Len(y)
      /\ Len(x) \in Nat /\ Len(y) \in Nat
  BY Joined, Zenon
<1>2. \A i \in 1..Len(x) + Len(y) : both[i] = IF i <= Len(x) THEN x[i] ELSE y[i - Len(x)]
  BY Joined, Zenon
<1> HIDE DEF both
<1>3. /\ rest \in Seq(Message) /\ Len(rest) = Len(y)
      /\ \A i \in 1..Len(y) : rest[i] = both[i + Len(x)]
  BY <1>1
<1> HIDE DEF rest
<1>4. \A i \in 1..Len(y) : rest[i] = y[i]
  <2> TAKE i \in 1..Len(y)
  <2>1. /\ i + Len(x) \in 1..Len(x) + Len(y) /\ ~(i + Len(x) <= Len(x))
        /\ (i + Len(x)) - Len(x) = i
    BY <1>1
  <2> QED BY <1>2, <1>3, <2>1
<1>5. rest = y
  BY <1>3, <1>4, SeqEqual
<1> QED BY <1>5 DEF rest, both

\* Without a batch the line is the queue, and nothing of it is on the wire.
LEMMA LineWithoutBatch ==
    ASSUME NEW s \in Machine, s.outgoing = NoBatch
    PROVE  LineOf(s) = MessagesOf(s.queue) /\ SentOf(s) = 0
<1>1. s.outgoing.messages = <<>> /\ Len(<<>>) = 0
  BY DEF NoBatch
<1>2. MessagesOf(s.queue) \in Seq(Message)
  BY LineType, MessagesType
<1>3. <<>> \o MessagesOf(s.queue) = MessagesOf(s.queue)
  BY <1>2, ConcatEmptySeq
<1> QED BY <1>1, <1>3 DEF LineOf, SentOf

\* What is shown of a state x in which the batch of s is gone.
Settles(s, x) ==
    /\ LineOf(x) = SubSeq(LineOf(s), SentOf(s) + 1, Len(LineOf(s)))
    /\ SentOf(x) \in 0..Len(LineOf(x))

LEMMA EndBatchLine ==
    ASSUME NEW s \in Machine, NEW r, NEW fresh \in Nat, NEW settle
    PROVE  Settles(s, EndBatch(s, settle, r, fresh).state)
<1> DEFINE x == [s EXCEPT !.outgoing = NoBatch]
           y == Drain(x, r, fresh).state
<1>1. x \in Machine /\ x.queue = s.queue /\ x.outgoing = NoBatch
  BY NoBatchFacts DEF Machine
<1>2. EndBatch(s, settle, r, fresh).state = y
  BY DEF EndBatch, Drain, Take, Ship, NoEffects
<1> HIDE DEF x
<1>3. LineOf(x) = MessagesOf(s.queue) /\ SentOf(x) = 0
  BY <1>1, LineWithoutBatch
<1>4. MovesUp(x, y)
  BY <1>1, DrainLine
<1>5. SubSeq(LineOf(s), SentOf(s) + 1, Len(LineOf(s))) = MessagesOf(s.queue)
  <2>1. s.outgoing.messages \in Seq(Message) /\ MessagesOf(s.queue) \in Seq(Message)
    BY LineType, MessagesType
  <2> QED BY <2>1, RestOfJoined, Zenon DEF LineOf, SentOf
<1> HIDE DEF y
<1>6. Settles(s, y)
  BY <1>3, <1>4, <1>5 DEF Settles, MovesUp
<1> QED BY <1>2, <1>6

\* What is shown of a state x reached from s by submitting the message m: a
\* caller that joins an earlier one, or a message at the back of the line.
Accepts(s, x, m) ==
    \/ LineOf(x) = LineOf(s) /\ SentOf(x) = SentOf(s)
    \/ /\ LineOf(x) = Append(LineOf(s), m)
       /\ \/ SentOf(x) = SentOf(s)
          \/ SentOf(s) = Len(LineOf(s)) /\ SentOf(x) = SentOf(s) + 1

LEMMA MessagesAppend ==
    ASSUME NEW q \in Seq(Queued), NEW e \in Queued
    PROVE  /\ MessagesOf(Append(q, e)) = MessagesOf(q) \o <<e.message>>
           /\ MessagesOf(<<e>>) = <<e.message>>
<1> DEFINE longer == Append(q, e)
<1>1. /\ longer \in Seq(Queued) /\ Len(longer) = Len(q) + 1 /\ longer[Len(q) + 1] = e
      /\ \A i \in 1..Len(q) : longer[i] = q[i]
  OBVIOUS
<1>2. MessagesOf(<<e>>) = <<e.message>>
  BY DEF MessagesOf
<1> HIDE DEF longer
<1>3. e.message \in Message /\ MessagesOf(q) \in Seq(Message) /\ Len(MessagesOf(q)) = Len(q)
  BY MessagesType DEF Queued
<1> DEFINE m == e.message
           x == MessagesOf(q)
           y == Append(x, m)
           z == MessagesOf(longer)
<1>4. /\ z \in Seq(Message) /\ Len(z) = Len(q) + 1
      /\ \A i \in 1..Len(q) + 1 : z[i] = IF i <= Len(q) THEN q[i].message ELSE m
  BY <1>1, MessagesType DEF MessagesOf
<1>5. \A i \in 1..Len(q) : x[i] = q[i].message
  BY DEF MessagesOf
<1> HIDE DEF m, x, z
<1>6. /\ y \in Seq(Message) /\ Len(y) = Len(q) + 1
      /\ \A i \in 1..Len(q) : y[i] = x[i]
      /\ y[Len(q) + 1] = m
  BY <1>3 DEF m, x
<1> HIDE DEF y
<1>7. \A i \in 1..Len(q) + 1 : z[i] = y[i]
  BY <1>4, <1>5, <1>6
<1>8. z = y
  BY <1>4, <1>6, <1>7, SeqEqual
<1>9. y = x \o <<m>>
  BY <1>3, AppendIsConcat DEF y, m, x
<1> QED BY <1>2, <1>8, <1>9 DEF m, x, z, longer

LEMMA EnqueueLine ==
    ASSUME NEW s \in Machine, NEW m \in Message, NEW t \in Token
    PROVE  Accepts(s, Enqueue(s, m, t), m)
<1> DEFINE e == Entry(m, t)
           x == Enqueue(s, m, t)
<1>1. e \in Queued /\ e.message = m
  BY DEF Entry, Queued
<1>2. x.queue = Append(s.queue, e) /\ x.outgoing = s.outgoing
  BY DEF Enqueue, Machine
<1>3. /\ s.queue \in Seq(Queued) /\ s.outgoing.messages \in Seq(Message)
      /\ MessagesOf(s.queue) \in Seq(Message)
  BY LineType, MessagesType
<1> HIDE DEF e, x
<1>4. MessagesOf(x.queue) = MessagesOf(s.queue) \o <<m>>
  BY <1>1, <1>2, <1>3, MessagesAppend
<1> DEFINE wire == s.outgoing.messages
           rest == MessagesOf(s.queue)
<1>5. LineOf(x) = wire \o (rest \o <<m>>) /\ LineOf(s) = wire \o rest /\ SentOf(x) = SentOf(s)
  BY <1>2, <1>4 DEF LineOf, SentOf
<1>6. wire \in Seq(Message) /\ rest \in Seq(Message) /\ <<m>> \in Seq(Message)
  BY <1>3
<1> HIDE DEF wire, rest
<1>7. wire \o (rest \o <<m>>) = (wire \o rest) \o <<m>>
  BY <1>6, JoinedThrice
<1>8. LineOf(s) \in Seq(Message)
  BY LineType
<1>9. LineOf(x) = Append(LineOf(s), m)
  BY <1>5, <1>7, <1>8, AppendIsConcat
<1> QED BY <1>5, <1>9 DEF Accepts, x

LEMMA ShipOneLine ==
    ASSUME NEW s \in Machine, NEW m \in Message, NEW t \in Token, NEW fresh \in Nat,
           s.queue = <<>>
    PROVE  Accepts(s, Ship(s, <<Entry(m, t)>>, fresh).state, m)
<1> DEFINE e == Entry(m, t)
           one == <<e>>
           x == Ship(s, one, fresh).state
           wire == s.outgoing.messages
<1>1. e \in Queued /\ e.message = m
  BY DEF Entry, Queued
<1> HIDE DEF e
<1>2. one \in Seq(Queued) /\ MessagesOf(one) = <<m>>
  <2>1. s.queue \in Seq(Queued)
    BY LineType
  <2>2. MessagesOf(<<e>>) = <<e.message>>
    BY <1>1, <2>1, MessagesAppend
  <2> QED BY <1>1, <2>2
<1> HIDE DEF one
<1>3. x.queue = s.queue /\ x.outgoing.messages = wire \o MessagesOf(one)
  BY <1>2, ShipLine, ZenonT(60)
<1>4. MessagesOf(s.queue) = <<>> /\ wire \in Seq(Message) /\ <<m>> \in Seq(Message)
  BY LineType DEF MessagesOf
<1> HIDE DEF x
<1>5. LineOf(s) = wire /\ LineOf(x) = wire \o <<m>>
  <2>1. LineOf(s) = wire \o <<>> /\ LineOf(x) = (wire \o <<m>>) \o <<>>
    BY <1>2, <1>3, <1>4 DEF LineOf
  <2>2. wire \o <<m>> \in Seq(Message)
    BY <1>4, Joined, Zenon
  <2> HIDE DEF wire
  <2> QED BY <1>4, <2>1, <2>2, ConcatEmptySeq
<1>6. LineOf(x) = Append(LineOf(s), m)
  BY <1>4, <1>5, AppendIsConcat
<1>7. SentOf(s) = Len(wire) /\ SentOf(x) = Len(wire \o <<m>>)
  BY <1>2, <1>3 DEF SentOf
<1>8. Len(wire \o <<m>>) = Len(wire) + 1
  <2> HIDE DEF wire
  <2>1. wire \o <<m>> = Append(wire, m)
    BY <1>4, AppendIsConcat
  <2> QED BY <1>4, <2>1
<1> QED BY <1>5, <1>6, <1>7, <1>8 DEF Accepts, x, one, e

\* A token joins a caller's entry and changes no message.
LEMMA AttachLine ==
    ASSUME NEW s \in Machine, NEW m, NEW t \in Token, IsQueued(s, m)
    PROVE  LET x == AttachToQueued(s, m, t)
           IN  LineOf(x) = LineOf(s) /\ SentOf(x) = SentOf(s)
<1> DEFINE i == Min({j \in 1..Len(s.queue) : s.queue[j].message = m})
           e == [s.queue[i] EXCEPT !.tokens = @ \cup {t}]
           q == [s.queue EXCEPT ![i] = e]
           x == AttachToQueued(s, m, t)
<1>1. s.queue \in Seq(Queued)
  BY LineType
<1>2. i \in 1..Len(s.queue)
  <2> DEFINE S == {j \in 1..Len(s.queue) : s.queue[j].message = m}
  <2>1. S \subseteq Nat /\ S # {}
    BY DEF IsQueued
  <2> QED BY <2>1, MinIsLeast
<1>3. x.queue = q /\ x.outgoing = s.outgoing
  BY DEF AttachToQueued, Machine
<1> HIDE DEF i, x
<1>4. e.message = s.queue[i].message
  BY <1>1, <1>2, EntryType DEF Queued
<1> HIDE DEF e
<1>5. Len(q) = Len(s.queue) /\ \A j \in 1..Len(q) : q[j] = IF j = i THEN e ELSE s.queue[j]
  BY <1>1, <1>2
<1> HIDE DEF q
<1>6. \A j \in 1..Len(q) : q[j].message = s.queue[j].message
  BY <1>4, <1>5
<1>7. MessagesOf(q) = MessagesOf(s.queue)
  BY <1>5, <1>6 DEF MessagesOf
<1> QED BY <1>3, <1>7 DEF LineOf, SentOf, x

LEMMA SubmittedLine ==
    ASSUME NEW s \in Machine, NEW m \in Message, NEW t \in Token, NEW r, NEW fresh \in Nat
    PROVE  Accepts(s, MessageSubmitted(s, m, t, r, fresh).state, m)
<1> DEFINE y == MessageSubmitted(s, m, t, r, fresh)
<1>1. \A x : Unchanged(x).state = x
  BY DEF Unchanged
<1>2. CASE InFlight(s, m)
  <2> DEFINE x == [s EXCEPT !.outgoing.tokens = @ \cup {t}]
  <2>1. y.state = x
    BY <1>2 DEF MessageSubmitted, Unchanged
  <2>2. x.queue = s.queue /\ x.outgoing.messages = s.outgoing.messages
    BY DEF Machine, Batch
  <2> HIDE DEF x, y
  <2> QED BY <2>1, <2>2 DEF Accepts, LineOf, SentOf, y
<1>3. CASE ~InFlight(s, m) /\ IsQueued(s, m)
  BY <1>1, <1>3, AttachLine DEF MessageSubmitted, Accepts
<1>4. CASE ~InFlight(s, m) /\ ~IsQueued(s, m) /\ MustWait(s)
  BY <1>1, <1>4, EnqueueLine DEF MessageSubmitted
<1>5. CASE ~InFlight(s, m) /\ ~IsQueued(s, m) /\ ~MustWait(s)
  <2>1. y = Admit(s, m, t, r, fresh) /\ s.queue = <<>>
    BY <1>5 DEF MessageSubmitted, MustWait
  <2> HIDE DEF y
  <2> QED BY <1>1, <2>1, ShipOneLine, EnqueueLine DEF Admit, y
<1> QED BY <1>2, <1>3, <1>4, <1>5

-----------------------------------------------------------------------------
(* The steps of the session as steps of the line. *)

\* The same line, with the same part of it on the wire.
LEMMA LineStutters ==
    ASSUME LineOf(machine') = LineOf(machine), SentOf(machine') = SentOf(machine)
    PROVE  UNCHANGED Line!vars
BY DEF Line!vars, LineOf, SentOf

\* The ASSUMEs of a step lemma, as the steps of the abstract line.
LEMMA LineMoves ==
    ASSUME machine \in Machine, MovesUp(machine, machine')
    PROVE  Line!Ship \/ UNCHANGED Line!vars
<1>1. SentOf(machine) \in Nat /\ Len(LineOf(machine)) = SentOf(machine) + Len(machine.queue)
  BY LineType
<1>2. /\ LineOf(machine') = LineOf(machine)
      /\ \/ SentOf(machine') = SentOf(machine)
         \/ SentOf(machine') \in SentOf(machine) + 1..Len(LineOf(machine))
  BY <1>1 DEF MovesUp
<1> QED BY <1>2 DEF Line!Ship, Line!vars, LineOf, SentOf

LEMMA LineSettles ==
    ASSUME Settles(machine, machine')
    PROVE  Line!Settle
BY DEF Settles, Line!Settle, LineOf, SentOf

LEMMA LineAccepts ==
    ASSUME NEW m \in Message, Accepts(machine, machine', m)
    PROVE  Line!Accept \/ UNCHANGED Line!vars
BY DEF Accepts, Line!Accept, Line!vars, LineOf, SentOf

LEMMA SubmitOnLine ==
    ASSUME IInv, NEW m \in Message, Submit(m)
    PROVE  Line!Accept \/ UNCHANGED Line!vars
<1> DEFINE t == <<m, submits + 1>>
<1>1. /\ machine \in Machine /\ nextId \in Nat /\ t \in Token
      /\ machine' = MessageSubmitted(machine, m, t, roster, nextId).state
  BY MachineAssumption DEF IInv, TypeOK, Submit, Dispatch, Token
<1> QED BY <1>1, SubmittedLine, LineAccepts

LEMMA EndOnLine ==
    ASSUME IInv, NEW id \in 1..nextId - 1, Response(id) \/ SubmitFails(id)
    PROVE  Line!Settle \/ UNCHANGED Line!vars
<1>1. machine \in Machine /\ nextId \in Nat
  BY DEF IInv, TypeOK
<1>2. \/ machine' = machine
      \/ \E settle : machine' = EndBatch(machine, settle, roster, nextId).state
  BY DEF Response, SubmitFails, ResponseReceived, RequestSubmitFailed, DispatchSettling,
         Dispatch, Unchanged
<1> QED BY <1>1, <1>2, EndBatchLine, LineSettles, LineStutters

LEMMA IncomingOnLine ==
    ASSUME IInv, NEW q \in PeerRequest, NEW responded \in BOOLEAN,
           \/ PeerAsks(q) \/ Answer(q) \/ AnswerFails(q)
           \/ RestoreIncoming(q, responded)
    PROVE  UNCHANGED Line!vars
<1>1. machine \in Machine
  BY DEF IInv, TypeOK
<1>2. \/ machine' = machine
      \/ \E how \in {"open", "responded"} : machine' = [machine EXCEPT !.incoming[q] = how]
  BY DEF PeerAsks, Answer, AnswerFails, RestoreIncoming, Incoming, Dispatch, Unchanged,
         RequestReceived, ResponseSubmitted, ResponseSubmitFailed, IncomingRestored
<1>3. machine'.outgoing = machine.outgoing /\ machine'.queue = machine.queue
  BY <1>1, <1>2 DEF Machine
<1> QED BY <1>3, LineStutters DEF LineOf, SentOf

LEMMA RosterOnLine ==
    ASSUME IInv, NEW devices \in SUBSET Device, RosterChanges(devices)
    PROVE  Line!Ship \/ UNCHANGED Line!vars
<1>1. machine \in Machine /\ nextId \in Nat
  BY DEF IInv, TypeOK
<1>2. machine' = machine \/ machine' = Drain(machine, devices, nextId).state
  BY DEF RosterChanges, Dispatch, CapacityChanged, Unchanged
<1> QED BY <1>1, <1>2, DrainLine, LineMoves, LineStutters

LEMMA GiveUpOnLine ==
    ASSUME IInv, Clear \/ InitFails
    PROVE  Line!GiveUp
<1>1. machine \in Machine
  BY DEF IInv, TypeOK
<1>2. machine'.outgoing = NoBatch /\ machine'.queue = <<>>
  <2>1. CASE Clear
    <3>1. machine' = [machine EXCEPT !.outgoing = NoBatch, !.queue = <<>>]
      BY <2>1 DEF Clear, Dispatch, OutgoingCleared, Unchanged
    <3> QED BY <1>1, <3>1 DEF Machine
  <2>2. CASE InitFails
    <3>1. machine' = [machine EXCEPT !.phase = "failed", !.queue = <<>>]
      BY <2>2 DEF InitFails, Dispatch, InitFailed, Unchanged
    <3>2. machine.outgoing = NoBatch
      BY <2>2 DEF InitFails, IInv, NoBatchYet
    <3> QED BY <1>1, <3>1, <3>2 DEF Machine
  <2> QED BY <2>1, <2>2
<1>3. machine'.outgoing.messages = <<>> /\ MessagesOf(machine'.queue) = <<>>
  BY <1>2 DEF NoBatch, MessagesOf
<1>4. <<>> \o <<>> = <<>> /\ Len(<<>>) = 0
  OBVIOUS
<1> QED BY <1>3, <1>4 DEF Line!GiveUp

\* A restored batch goes before the queue, and activation moves the rest up.
LEMMA InitializedOnLine ==
    ASSUME IInv, Initialized
    PROVE  Line!Restore \/ Line!Ship \/ UNCHANGED Line!vars
<1>1. machine \in Machine /\ nextId \in Nat \ {0} /\ machine.outgoing = NoBatch
  BY DEF IInv, TypeOK, NoBatchYet, Initialized
<1>2. ASSUME NEW s \in Machine, NEW fresh \in Nat, machine' = Activated(s, roster, fresh).state
      PROVE  MovesUp(s, machine')
  <2> DEFINE x == [s EXCEPT !.phase = "active"]
  <2>1. x \in Machine /\ x.outgoing = s.outgoing /\ x.queue = s.queue
    BY DEF Machine
  <2>2. machine' = Drain(x, roster, fresh).state
    BY <1>2 DEF Activated
  <2> HIDE DEF x
  <2>3. MovesUp(x, machine')
    BY <1>2, <2>1, <2>2, DrainLine
  <2> QED BY <2>1, <2>3 DEF MovesUp, LineOf, SentOf
<1>3. CASE Dispatch(Activated(machine, roster, nextId))
  <2>1. machine' = Activated(machine, roster, nextId).state
    BY <1>3 DEF Dispatch
  <2> QED BY <1>1, <1>2, <2>1, LineMoves
<1>4. ASSUME NEW batch \in Restorable,
             machine' = Activated(OutgoingRestored(machine, nextId, batch).state,
                                  roster, nextId + 1).state
      PROVE  Line!Restore
  <2> DEFINE found == [ids |-> <<nextId>>, messages |-> batch, tokens |-> {}]
             x == [machine EXCEPT !.outgoing = found]
             rest == MessagesOf(machine.queue)
  <2>1. found \in Batch /\ batch \in Seq(Message)
    BY <1>1, MachineAssumption DEF Batch
  <2>2. OutgoingRestored(machine, nextId, batch).state = x
    BY DEF OutgoingRestored, Unchanged
  <2>3. x \in Machine /\ x.queue = machine.queue /\ x.outgoing.messages = batch
    BY <1>1, <2>1 DEF Machine
  <2> HIDE DEF x, found
  <2>4. MovesUp(x, machine')
    BY <1>1, <1>2, <1>4, <2>2, <2>3
  <2>5. rest \in Seq(Message)
    BY <1>1, LineType, MessagesType
  <2>6. LineOf(x) = batch \o rest /\ SentOf(x) = Len(batch)
    BY <2>3 DEF LineOf, SentOf
  <2>7. LineOf(machine) = rest /\ SentOf(machine) = 0
    BY <1>1, LineWithoutBatch
  <2> HIDE DEF rest
  <2>8. /\ batch \o rest \in Seq(Message) /\ Len(batch) \in Nat /\ Len(rest) \in Nat
        /\ Len(batch \o rest) = Len(batch) + Len(rest)
        /\ SubSeq(batch \o rest, Len(batch) + 1, Len(batch \o rest)) = rest
    BY <2>1, <2>5, Joined, RestOfJoined, Zenon
  <2>9. LineOf(machine') = batch \o rest /\ SentOf(machine') \in Len(batch)..Len(batch \o rest)
    BY <2>4, <2>6 DEF MovesUp
  <2>10. Len(batch) \in 0..Len(batch \o rest)
    BY <2>8
  <2> QED BY <2>7, <2>8, <2>9, <2>10 DEF Line!Restore, LineOf, SentOf
<1> QED BY <1>3, <1>4 DEF Initialized

LEMMA InitOnLine == Init => Line!Init
<1> SUFFICES ASSUME Init PROVE Line!Init
  OBVIOUS
<1>1. machine.outgoing.messages = <<>> /\ MessagesOf(machine.queue) = <<>>
  BY DEF Init, InitialSessionState, NoBatch, MessagesOf
<1>2. <<>> \o <<>> = <<>> /\ Len(<<>>) = 0
  OBVIOUS
<1> QED BY <1>1, <1>2 DEF Line!Init

\* The session is a FIFO line, for any messages, budget and roster: whatever
\* is retransmitted, restored or given up, messages join the line at the
\* back, go on the wire in its order and leave it together from the front.
THEOREM SessionIsALine == Spec => FIFO
<1>1. Init => Line!Init
  BY InitOnLine
<1>2. IInv /\ [Next]_vars => [Line!Next]_(Line!vars)
  <2> SUFFICES ASSUME IInv, [Next]_vars PROVE [Line!Next]_(Line!vars)
    OBVIOUS
  <2>1. CASE UNCHANGED vars
    BY <2>1, LineStutters DEF vars
  <2>2. CASE Next
    <3>1. ASSUME NEW m \in Message, Submit(m) PROVE [Line!Next]_(Line!vars)
      BY <3>1, SubmitOnLine DEF Line!Next
    <3>2. ASSUME NEW id \in 1..nextId - 1, Response(id) \/ SubmitFails(id)
          PROVE  [Line!Next]_(Line!vars)
      BY <3>2, EndOnLine DEF Line!Next
    <3>3. ASSUME NEW q \in PeerRequest, NEW responded \in BOOLEAN,
                 PeerAsks(q) \/ Answer(q) \/ AnswerFails(q) \/ RestoreIncoming(q, responded)
          PROVE  [Line!Next]_(Line!vars)
      BY <3>3, IncomingOnLine
    <3>4. ASSUME NEW devices \in SUBSET Device, RosterChanges(devices)
          PROVE  [Line!Next]_(Line!vars)
      BY <3>4, RosterOnLine DEF Line!Next
    <3>5. CASE Clear \/ InitFails
      BY <3>5, GiveUpOnLine DEF Line!Next
    <3>6. CASE Initialized
      BY <3>6, InitializedOnLine DEF Line!Next
    <3> QED BY <2>2, <3>1, <3>2, <3>3, <3>4, <3>5, <3>6 DEF Next
  <2> QED BY <2>1, <2>2
<1> QED BY <1>1, <1>2, MachineInvariant, PTL DEF Spec, FIFO, Line!Spec

-----------------------------------------------------------------------------
(* Tokens and their messages. *)

\* The entries of a queue hold only their own message's tokens.
EntriesAtHome(q) == \A i \in 1..Len(q) : \A t \in q[i].tokens : t[1] = q[i].message

\* The invariant as a predicate of a state of the reducer.
AtHome(s) ==
    /\ \A t \in s.outgoing.tokens : t[1] \in ToSet(s.outgoing.messages)
    /\ EntriesAtHome(s.queue)

LEMMA ToSetJoined ==
    \A x, y \in Seq(Message) : ToSet(x) \subseteq ToSet(x \o y) /\ ToSet(y) \subseteq ToSet(x \o y)
<1> TAKE x, y \in Seq(Message)
<1> DEFINE both == x \o y
<1>1. /\ both \in Seq(Message) /\ Len(both) = Len(x) + Len(y)
      /\ Len(x) \in Nat /\ Len(y) \in Nat
  BY Joined, Zenon
<1>2. \A i \in 1..Len(x) + Len(y) : both[i] = IF i <= Len(x) THEN x[i] ELSE y[i - Len(x)]
  BY Joined, Zenon
<1> HIDE DEF both
<1>3. DOMAIN x = 1..Len(x) /\ DOMAIN y = 1..Len(y) /\ DOMAIN both = 1..Len(both)
  BY <1>1
<1>4. \A i \in 1..Len(x) : i \in 1..Len(both) /\ both[i] = x[i]
  BY <1>1, <1>2
<1>5. \A i \in 1..Len(y) : i + Len(x) \in 1..Len(both) /\ both[i + Len(x)] = y[i]
  <2> TAKE i \in 1..Len(y)
  <2>1. /\ i + Len(x) \in 1..Len(x) + Len(y) /\ ~(i + Len(x) <= Len(x))
        /\ (i + Len(x)) - Len(x) = i
    BY <1>1
  <2> QED BY <1>1, <1>2, <2>1
<1> QED BY <1>3, <1>4, <1>5 DEF ToSet, both

\* Entries shipped at home are at home in the batch.
LEMMA ShipHome ==
    ASSUME NEW s \in Machine, NEW entries \in Seq(Queued), NEW fresh \in Nat,
           AtHome(s), EntriesAtHome(entries)
    PROVE  AtHome(Ship(s, entries, fresh).state)
<1> DEFINE x == Ship(s, entries, fresh).state
           wire == s.outgoing.messages
           more == MessagesOf(entries)
<1>1. /\ x.queue = s.queue /\ x.outgoing.messages = wire \o more
      /\ x.outgoing.tokens = s.outgoing.tokens \cup TokensOf(entries)
  BY ShipLine
<1>2. wire \in Seq(Message) /\ more \in Seq(Message) /\ Len(more) = Len(entries)
  BY LineType, MessagesType
<1>3. \A t \in TokensOf(entries) : t[1] \in ToSet(more)
  <2> SUFFICES ASSUME NEW t \in TokensOf(entries) PROVE t[1] \in ToSet(more)
    OBVIOUS
  <2>1. PICK i \in 1..Len(entries) : t \in entries[i].tokens
    BY DEF TokensOf
  <2>2. t[1] = entries[i].message
    BY <2>1 DEF EntriesAtHome
  <2>3. DOMAIN more = 1..Len(entries) /\ more[i] = entries[i].message
    BY DEF MessagesOf
  <2> HIDE DEF more
  <2> QED BY <2>2, <2>3 DEF ToSet
<1> HIDE DEF x, wire, more
<1>4. ToSet(wire) \subseteq ToSet(wire \o more) /\ ToSet(more) \subseteq ToSet(wire \o more)
  BY <1>2, ToSetJoined, Zenon
<1>5. \A t \in s.outgoing.tokens : t[1] \in ToSet(wire)
  BY DEF AtHome, wire
<1>6. \A t \in x.outgoing.tokens : t[1] \in ToSet(x.outgoing.messages)
  BY <1>1, <1>3, <1>4, <1>5
<1> QED BY <1>1, <1>6 DEF AtHome, x

LEMMA DrainHome ==
    ASSUME NEW s \in Machine, NEW r, NEW fresh \in Nat, AtHome(s)
    PROVE  AtHome(Drain(s, r, fresh).state)
<1> DEFINE n == Min(Stops(s, r))
           front == SubSeq(s.queue, 1, n)
           back == SubSeq(s.queue, n + 1, Len(s.queue))
           left == [s EXCEPT !.queue = back]
<1>1. n \in 0..Len(s.queue) /\ s.queue \in Seq(Queued)
  BY StopFacts DEF Machine
<1> HIDE DEF n
<1>2. /\ front \in Seq(Queued) /\ back \in Seq(Queued)
      /\ \A i \in 1..Len(front) : i \in 1..Len(s.queue) /\ front[i] = s.queue[i]
      /\ \A i \in 1..Len(back) : i + n \in 1..Len(s.queue) /\ back[i] = s.queue[i + n]
  <2>1. /\ front \in Seq(Queued) /\ Len(front) = n
        /\ \A i \in 1..n : front[i] = s.queue[i]
    BY <1>1
  <2> HIDE DEF front
  <2>2. /\ back \in Seq(Queued)
        /\ \A i \in 1..Len(back) : i + n \in 1..Len(s.queue) /\ back[i] = s.queue[i + n]
    BY <1>1, TokensSplit
  <2> QED BY <1>1, <2>1, <2>2
<1>3. Drain(s, r, fresh).state = Ship(left, front, fresh).state
  BY DEF Drain, Take, n
<1> HIDE DEF front, back
<1>4. left \in Machine /\ left.queue = back /\ left.outgoing = s.outgoing
  BY <1>2 DEF Machine
<1> HIDE DEF left
<1>5. EntriesAtHome(front) /\ EntriesAtHome(back)
  <2>1. \A i \in 1..Len(s.queue) : \A t \in s.queue[i].tokens : t[1] = s.queue[i].message
    BY DEF AtHome, EntriesAtHome
  <2>2. EntriesAtHome(front)
    BY <1>2, <2>1 DEF EntriesAtHome
  <2>3. EntriesAtHome(back)
    BY <1>2, <2>1 DEF EntriesAtHome
  <2> QED BY <2>2, <2>3
<1>6. AtHome(left)
  BY <1>4, <1>5 DEF AtHome
<1> QED BY <1>2, <1>3, <1>4, <1>5, <1>6, ShipHome

\* The token of a message that is queued, attached or shipped is at home.
LEMMA SubmittedHome ==
    ASSUME NEW s \in Machine, NEW m \in Message, NEW t \in Token, NEW r, NEW fresh \in Nat,
           t[1] = m, AtHome(s)
    PROVE  AtHome(MessageSubmitted(s, m, t, r, fresh).state)
<1> DEFINE y == MessageSubmitted(s, m, t, r, fresh)
           e == Entry(m, t)
<1>1. \A x : Unchanged(x).state = x
  BY DEF Unchanged
<1>2. s.queue \in Seq(Queued) /\ e \in Queued /\ e.message = m /\ e.tokens = {t}
  BY LineType DEF Entry, Queued
<1>3. CASE InFlight(s, m)
  <2> DEFINE x == [s EXCEPT !.outgoing.tokens = @ \cup {t}]
  <2>1. y.state = x
    BY <1>3 DEF MessageSubmitted, Unchanged
  <2>2. /\ x.queue = s.queue /\ x.outgoing.messages = s.outgoing.messages
        /\ x.outgoing.tokens = s.outgoing.tokens \cup {t}
    BY DEF Machine, Batch
  <2> HIDE DEF x, y
  <2> QED BY <1>3, <2>1, <2>2 DEF AtHome, InFlight, y
<1>4. CASE ~InFlight(s, m) /\ IsQueued(s, m)
  <2> DEFINE S == {j \in 1..Len(s.queue) : s.queue[j].message = m}
             i == Min(S)
             c == [s.queue[i] EXCEPT !.tokens = @ \cup {t}]
             q == [s.queue EXCEPT ![i] = c]
             x == AttachToQueued(s, m, t)
  <2>1. S \subseteq Nat /\ S # {}
    BY <1>4 DEF IsQueued
  <2>2. i \in 1..Len(s.queue) /\ s.queue[i].message = m
    BY <2>1, MinIsLeast
  <2>3. x.queue = q /\ x.outgoing = s.outgoing
    BY DEF AttachToQueued, Machine
  <2> HIDE DEF i, x
  <2>4. c.message = m /\ c.tokens = s.queue[i].tokens \cup {t}
    BY <1>2, <2>2, EntryType DEF Queued
  <2> HIDE DEF c
  <2>5. Len(q) = Len(s.queue) /\ \A j \in 1..Len(q) : q[j] = IF j = i THEN c ELSE s.queue[j]
    BY <1>2, <2>2
  <2> HIDE DEF q
  <2>6. EntriesAtHome(q)
    BY <2>2, <2>4, <2>5 DEF AtHome, EntriesAtHome
  <2>7. y.state = x
    BY <1>4 DEF MessageSubmitted, Unchanged, x
  <2> HIDE DEF y
  <2> QED BY <2>3, <2>6, <2>7 DEF AtHome, y
<1>5. AtHome(Enqueue(s, m, t))
  <2> DEFINE x == Enqueue(s, m, t)
             q == Append(s.queue, e)
  <2>1. x.queue = q /\ x.outgoing = s.outgoing
    BY DEF Enqueue, Machine
  <2> HIDE DEF e, x
  <2>2. /\ Len(q) = Len(s.queue) + 1 /\ q[Len(s.queue) + 1] = e
        /\ \A j \in 1..Len(s.queue) : q[j] = s.queue[j]
    BY <1>2
  <2> HIDE DEF q
  <2>3. EntriesAtHome(q)
    BY <1>2, <2>2 DEF AtHome, EntriesAtHome
  <2> QED BY <2>1, <2>3 DEF AtHome, x
<1>6. AtHome(Ship(s, <<e>>, fresh).state)
  <2> DEFINE one == <<e>>
  <2> HIDE DEF e
  <2>1. one \in Seq(Queued) /\ Len(one) = 1 /\ one[1] = e
    BY <1>2
  <2> HIDE DEF one
  <2>2. EntriesAtHome(one)
    BY <1>2, <2>1 DEF EntriesAtHome
  <2>3. AtHome(Ship(s, one, fresh).state)
    BY <2>1, <2>2, ShipHome
  <2> QED BY <2>3 DEF one
<1>7. CASE ~InFlight(s, m) /\ ~IsQueued(s, m)
  <2> HIDE DEF y
  <2>1. y = Unchanged(Enqueue(s, m, t)) \/ y = Ship(s, <<e>>, fresh)
    BY <1>7 DEF MessageSubmitted, Admit, y
  <2> QED BY <1>1, <1>5, <1>6, <2>1 DEF y
<1> QED BY <1>3, <1>4, <1>7

LEMMA TokensStayHome ==
    ASSUME IInv, AtHome(machine), [Next]_vars
    PROVE  AtHome(machine')
<1>1. machine \in Machine /\ nextId \in Nat /\ nextId + 1 \in Nat
  BY DEF IInv, TypeOK
<1>2. ASSUME NEW s \in Machine, AtHome(s), NEW settle, NEW r, NEW fresh \in Nat
      PROVE  AtHome(EndBatch(s, settle, r, fresh).state)
  <2> DEFINE x == [s EXCEPT !.outgoing = NoBatch]
  <2>1. x \in Machine /\ x.queue = s.queue /\ x.outgoing.tokens = {}
    BY NoBatchFacts
  <2>2. EndBatch(s, settle, r, fresh).state = Drain(x, r, fresh).state
    BY DEF EndBatch, Drain, Take, Ship, NoEffects
  <2> HIDE DEF x
  <2>3. AtHome(x)
    BY <1>2, <2>1 DEF AtHome
  <2> QED BY <1>2, <2>1, <2>2, <2>3, DrainHome
<1>3. ASSUME NEW s \in Machine, AtHome(s), NEW r, NEW fresh \in Nat
      PROVE  AtHome(Activated(s, r, fresh).state)
  <2> DEFINE x == [s EXCEPT !.phase = "active"]
  <2>1. x \in Machine /\ x.outgoing = s.outgoing /\ x.queue = s.queue
    BY DEF Machine
  <2>2. Activated(s, r, fresh) = Drain(x, r, fresh)
    BY DEF Activated
  <2> HIDE DEF x
  <2>3. AtHome(x)
    BY <1>3, <2>1 DEF AtHome
  <2> QED BY <1>3, <2>1, <2>2, <2>3, DrainHome
<1>4. ASSUME NEW m \in Message, Submit(m) PROVE AtHome(machine')
  <2> DEFINE t == <<m, submits + 1>>
  <2>1. /\ t \in Token /\ t[1] = m
        /\ machine' = MessageSubmitted(machine, m, t, roster, nextId).state
    BY <1>4, MachineAssumption DEF IInv, TypeOK, Submit, Dispatch, Token
  <2> HIDE DEF t
  <2> QED BY <1>1, <2>1, SubmittedHome
<1>5. ASSUME NEW id \in 1..nextId - 1, Response(id) \/ SubmitFails(id) PROVE AtHome(machine')
  <2>1. \/ machine' = machine
        \/ \E settle : machine' = EndBatch(machine, settle, roster, nextId).state
    BY <1>5 DEF Response, SubmitFails, ResponseReceived, RequestSubmitFailed,
                DispatchSettling, Dispatch, Unchanged
  <2> QED BY <1>1, <1>2, <2>1
<1>6. ASSUME NEW q \in PeerRequest, NEW responded \in BOOLEAN,
             PeerAsks(q) \/ Answer(q) \/ AnswerFails(q) \/ RestoreIncoming(q, responded)
      PROVE  AtHome(machine')
  <2>1. \/ machine' = machine
        \/ \E how \in {"open", "responded"} : machine' = [machine EXCEPT !.incoming[q] = how]
    BY <1>6 DEF PeerAsks, Answer, AnswerFails, RestoreIncoming, Incoming, Dispatch, Unchanged,
                RequestReceived, ResponseSubmitted, ResponseSubmitFailed, IncomingRestored
  <2>2. machine'.outgoing = machine.outgoing /\ machine'.queue = machine.queue
    BY <1>1, <2>1 DEF Machine
  <2> QED BY <2>2 DEF AtHome
<1>7. ASSUME NEW devices \in SUBSET Device, RosterChanges(devices) PROVE AtHome(machine')
  <2>1. machine' = machine \/ machine' = Drain(machine, devices, nextId).state
    BY <1>7 DEF RosterChanges, Dispatch, CapacityChanged, Unchanged
  <2> QED BY <1>1, <2>1, DrainHome
<1>8. CASE Clear \/ InitFails
  <2>1. \/ machine'.outgoing = NoBatch /\ machine'.queue = <<>>
        \/ machine'.outgoing = machine.outgoing /\ machine'.queue = <<>>
    BY <1>1, <1>8 DEF Clear, InitFails, Dispatch, OutgoingCleared, InitFailed, Unchanged, Machine
  <2>2. EntriesAtHome(<<>>) /\ NoBatch.tokens = {}
    BY DEF EntriesAtHome, NoBatch
  <2> QED BY <2>1, <2>2 DEF AtHome
<1>9. CASE Initialized
  <2>1. CASE Dispatch(Activated(machine, roster, nextId))
    <3>1. machine' = Activated(machine, roster, nextId).state
      BY <2>1 DEF Dispatch
    <3> QED BY <1>1, <1>3, <3>1
  <2>2. ASSUME NEW batch \in Restorable,
               machine' = Activated(OutgoingRestored(machine, nextId, batch).state,
                                    roster, nextId + 1).state
        PROVE  AtHome(machine')
    <3> DEFINE found == [ids |-> <<nextId>>, messages |-> batch, tokens |-> {}]
               x == [machine EXCEPT !.outgoing = found]
    <3>1. found \in Batch /\ found.tokens = {}
      BY <1>1, MachineAssumption DEF Batch
    <3>2. OutgoingRestored(machine, nextId, batch).state = x
      BY DEF OutgoingRestored, Unchanged
    <3> HIDE DEF found
    <3>3. x \in Machine /\ x.queue = machine.queue /\ x.outgoing.tokens = {}
      BY <1>1, <3>1 DEF Machine
    <3> HIDE DEF x
    <3>4. AtHome(x)
      BY <3>3 DEF AtHome
    <3> QED BY <1>1, <1>3, <2>2, <3>2, <3>3, <3>4
  <2> QED BY <1>9, <2>1, <2>2 DEF Initialized
<1>10. CASE UNCHANGED vars
  BY <1>10 DEF vars
<1> QED BY <1>4, <1>5, <1>6, <1>7, <1>8, <1>9, <1>10 DEF Next

\* A caller's promise is answered for the message the caller sent: whatever
\* is batched, retransmitted or attached to an equal message, a token stays
\* with its own message, in the batch or in the queue.
THEOREM TokensWithTheirMessages == Spec => []TokenWithItsMessage
<1>1. Init => AtHome(machine)
  <2> SUFFICES ASSUME Init PROVE AtHome(machine)
    OBVIOUS
  <2>1. machine.outgoing.tokens = {} /\ machine.queue = <<>> /\ Len(<<>>) = 0
    BY DEF Init, InitialSessionState, NoBatch
  <2> QED BY <2>1 DEF AtHome, EntriesAtHome
<1>2. IInv /\ AtHome(machine) /\ [Next]_vars => AtHome(machine)'
  BY TokensStayHome
<1>3. AtHome(machine) => TokenWithItsMessage
  BY DEF AtHome, EntriesAtHome, TokenWithItsMessage
<1> QED BY <1>1, <1>2, <1>3, MachineInvariant, PTL DEF Spec
=============================================================================
