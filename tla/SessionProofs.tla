---------------------------- MODULE SessionProofs ----------------------------
(***************************************************************************)
(* That a session keeps its promises, for any messages, devices, requests, *)
(* faults, retries and restarts: what a caller waits for is on its way, a  *)
(* request of the peer is handled once, no older batch replaces a newer    *)
(* one in the store, and a disposed session is silent.                     *)
(***************************************************************************)
EXTENDS Session, SequenceTheorems, TLAPS

(* The reducer's lemmas are those of its own proof.                         *)

R == INSTANCE SessionMachineProofs WITH waiting <- pending, Restorable <- {}

LEMMA ReducerAssumption == R!MachineAssumption
BY SessionAssumption DEF R!MachineAssumption

LEMMA SameTypes ==
    /\ R!Token = Token /\ R!NoBatch = NoBatch /\ R!NoEffects = NoEffects
    /\ \A s : R!LiveTokens(s) = LiveTokens(s) /\ R!TokensOf(s) = TokensOf(s)
    /\ \A s : R!IsLive(s) = IsLive(s) /\ R!Unchanged(s) = Unchanged(s)
    /\ \A q : R!MessagesOf(q) = MessagesOf(q)
BY DEF R!Token, Token, R!NoBatch, NoBatch, R!NoEffects, NoEffects, R!LiveTokens, LiveTokens,
       R!TokensOf, TokensOf, R!IsLive, IsLive, R!Unchanged, Unchanged, R!MessagesOf, MessagesOf

LEMMA SameGrown == \A s, e : R!Grown(s, e) = Grown(s, e)
BY SameTypes DEF R!Grown, Grown

LEMMA SameShip == \A s, e, f : R!Ship(s, e, f) = Ship(s, e, f)
<1> TAKE s, e, f
<1>1. \A ids : [i \in 1..Len(e) |-> [id |-> ids[i], messages |-> R!Grown(s, SubSeq(e, 1, i))]]
               = [i \in 1..Len(e) |-> [id |-> ids[i], messages |-> Grown(s, SubSeq(e, 1, i))]]
  BY SameGrown
<1>2. R!Grown(s, e) = Grown(s, e) /\ R!TokensOf(e) = TokensOf(e) /\ R!NoEffects = NoEffects
  BY SameGrown, SameTypes
<1> QED BY <1>1, <1>2, Zenon DEF R!Ship, Ship

LEMMA SameStops == \A s, r : R!Min(R!Stops(s, r)) = Min(Stops(s, r))
<1> TAKE s, r
<1>1. \A x, i : R!CanTake(x, r, i) = CanTake(x, r, i)
  BY SameGrown, SameTypes DEF R!CanTake, CanTake
<1>2. R!Stops(s, r) = Stops(s, r)
  BY <1>1 DEF R!Stops, Stops
<1> QED BY <1>2 DEF R!Min, Min

LEMMA SameDrain == \A s, r, f : R!Drain(s, r, f) = Drain(s, r, f)
<1> TAKE s, r, f
<1>1. \A n : R!Take(s, n, f) = Take(s, n, f)
  BY SameShip DEF R!Take, Take
<1> QED BY <1>1, SameStops DEF R!Drain, Drain

LEMMA SameSubmitted == \A s, m, t, r, f : R!MessageSubmitted(s, m, t, r, f) = MessageSubmitted(s, m, t, r, f)
<1> TAKE s, m, t, r, f
<1>1. R!InFlight(s, m) = InFlight(s, m)
  BY DEF R!InFlight, InFlight, R!ToSet, ToSet
<1>2. R!IsQueued(s, m) = IsQueued(s, m)
  BY DEF R!IsQueued, IsQueued
<1>3. R!AttachToQueued(s, m, t) = AttachToQueued(s, m, t)
  BY DEF R!AttachToQueued, AttachToQueued, R!Min, Min
<1>4. R!Enqueue(s, m, t) = Enqueue(s, m, t) /\ R!Entry(m, t) = Entry(m, t) /\ R!MustWait(s) = MustWait(s)
  BY DEF R!Enqueue, Enqueue, R!Entry, Entry, R!MustWait, MustWait
<1>5. R!Admit(s, m, t, r, f) = Admit(s, m, t, r, f)
  BY <1>4, SameTypes, SameShip DEF R!Admit, Admit
<1> QED BY <1>1, <1>2, <1>3, <1>4, <1>5, SameTypes DEF R!MessageSubmitted, MessageSubmitted

-----------------------------------------------------------------------------
(* What the reducer sends *)

\* The ids of the live batch were handed out by this session or one before it.
IdsBelow(s, n) == \A i \in 1..Len(s.outgoing.ids) : s.outgoing.ids[i] \in 1..n - 1

Send == [id : Nat, messages : Seq(Message)]

\* What is shown of an event t of the state s: each message that is sent has a
\* fresh id, the last of which becomes that of the live batch.
Sends(s, t, fresh) ==
    /\ t.effects.submits \in Seq(Send)
    /\ \A i \in 1..Len(t.effects.submits) :
         t.effects.submits[i].id = fresh + i - 1 /\ t.effects.submits[i].messages # <<>>
    /\ IdsBelow(t.state, fresh + Len(t.effects.submits))
    /\ \/ t.effects.submits = <<>> /\ t.state.outgoing.ids = s.outgoing.ids
       \/ /\ t.effects.submits # <<>> /\ IsLive(t.state.outgoing)
          /\ LiveRequestId(t.state) = fresh + Len(t.effects.submits) - 1

LEMMA Numbered ==
    ASSUME NEW old \in Seq(Nat), NEW n \in Nat, NEW fresh \in Nat \ {0}, NEW ids \in Seq(Nat), Len(ids) = n,
           \A i \in 1..n : ids[i] = fresh + i - 1, \A i \in 1..Len(old) : old[i] \in 1..fresh - 1
    PROVE  LET all == old \o ids
           IN  /\ \A i \in 1..Len(all) : all[i] \in 1..(fresh + n) - 1
               /\ n = 0 => all = old
               /\ n # 0 => all # <<>> /\ all[Len(all)] = fresh + n - 1
<1> DEFINE all == old \o ids
<1>1. Len(old) \in Nat /\ Len(all) = Len(old) + n
  BY ConcatProperties, LenProperties
<1>2. \A i \in 1..Len(all) : all[i] = IF i <= Len(old) THEN old[i] ELSE ids[i - Len(old)]
  BY ConcatProperties
<1> HIDE DEF all
<1>3. ASSUME NEW i \in 1..Len(all) PROVE all[i] \in 1..(fresh + n) - 1
  <2>1. CASE i <= Len(old)
    BY <1>1, <1>2, <2>1
  <2>2. CASE i > Len(old)
    <3>1. i - Len(old) \in 1..n
      BY <1>1, <2>2
    <3>2. all[i] = fresh + (i - Len(old)) - 1
      BY <1>1, <1>2, <2>2, <3>1
    <3> QED BY <1>1, <3>1, <3>2
  <2> QED BY <1>1, <2>1, <2>2
<1>4. n = 0 => all = old
  <2>1. n = 0 => ids = <<>>
    BY EmptySeq
  <2> QED BY <2>1, ConcatEmptySeq DEF all
<1>5. n # 0 => all # <<>> /\ all[Len(all)] = fresh + n - 1
  <2> SUFFICES ASSUME n # 0 PROVE all # <<>> /\ all[Len(all)] = fresh + n - 1
    OBVIOUS
  <2>1. Len(all) - Len(old) = n /\ Len(all) \in 1..Len(all) /\ ~(Len(all) <= Len(old))
    BY <1>1
  <2>2. all[Len(all)] = ids[n]
    BY <1>2, <2>1
  <2> QED BY <1>1, <2>1, <2>2
<1> QED BY <1>3, <1>4, <1>5 DEF all

LEMMA ShipSends ==
    ASSUME NEW s \in R!Machine, NEW entries \in Seq(R!Queued), NEW fresh \in Nat \ {0}, IdsBelow(s, fresh)
    PROVE  Sends(s, Ship(s, entries, fresh), fresh)
<1> DEFINE t == Ship(s, entries, fresh)
           n == Len(entries)
           ids == [i \in 1..n |-> fresh + i - 1]
           sends == [i \in 1..n |-> [id |-> ids[i], messages |-> Grown(s, SubSeq(entries, 1, i))]]
           batch == [ids |-> s.outgoing.ids \o ids, messages |-> Grown(s, entries),
                     tokens |-> s.outgoing.tokens \cup TokensOf(entries)]
<1>1. s.outgoing \in R!Batch /\ s.outgoing.ids \in Seq(Nat) /\ s.outgoing.messages \in Seq(Message)
  BY DEF R!Machine, R!Batch
<1>2. t.state = [s EXCEPT !.outgoing = batch] /\ t.effects.submits = sends
  BY DEF Ship, NoEffects
<1>3. n \in Nat /\ ids \in Seq(Nat) /\ Len(ids) = n /\ \A i \in 1..n : ids[i] = fresh + i - 1
  BY LenProperties
<1>4. ASSUME NEW i \in 1..n
      PROVE  Grown(s, SubSeq(entries, 1, i)) \in Seq(Message) /\ Grown(s, SubSeq(entries, 1, i)) # <<>>
  <2>1. SubSeq(entries, 1, i) \in Seq(R!Queued) /\ Len(SubSeq(entries, 1, i)) = i
    OBVIOUS
  <2>2. MessagesOf(SubSeq(entries, 1, i)) \in Seq(Message) /\ Len(MessagesOf(SubSeq(entries, 1, i))) = i
    BY <2>1, R!MessagesType, ReducerAssumption, SameTypes
  <2> HIDE DEF n
  <2>3. ASSUME NEW x \in Seq(Message), NEW y \in Seq(Message), Len(y) # 0
        PROVE  x \o y \in Seq(Message) /\ x \o y # <<>>
    BY <2>3, ConcatProperties, EmptySeq
  <2>4. i # 0
    OBVIOUS
  <2> QED BY <1>1, <2>2, <2>3, <2>4 DEF Grown
<1>5. sends \in Seq(Send) /\ Len(sends) = n /\ \A i \in 1..n : sends[i].id = fresh + i - 1 /\ sends[i].messages # <<>>
  <2>1. \A i \in 1..n : ids[i] \in Nat /\ ids[i] = fresh + i - 1
    BY <1>3
  <2> HIDE DEF ids, n
  <2>2. \A i \in 1..n : [id |-> ids[i], messages |-> Grown(s, SubSeq(entries, 1, i))] \in Send
    BY <1>4, <2>1 DEF Send
  <2> QED BY <1>3, <1>4, <2>1, <2>2
<1>6. t.state.outgoing.ids = s.outgoing.ids \o ids
  <2> HIDE DEF batch, t
  <2>1. t.state.outgoing = batch
    BY <1>2 DEF R!Machine
  <2> QED BY <2>1 DEF batch
<1> DEFINE all == s.outgoing.ids \o ids
<1>7. /\ \A i \in 1..Len(all) : all[i] \in 1..(fresh + n) - 1
      /\ n = 0 => all = s.outgoing.ids
      /\ n # 0 => all # <<>> /\ all[Len(all)] = fresh + n - 1
  <2> DEFINE old == s.outgoing.ids
  <2>1. \A i \in 1..Len(old) : old[i] \in 1..fresh - 1
    BY DEF IdsBelow
  <2>2. old \in Seq(Nat) /\ n \in Nat /\ ids \in Seq(Nat) /\ Len(ids) = n
    BY <1>1, <1>3
  <2>3. \A i \in 1..n : ids[i] = fresh + i - 1
    BY <1>3
  <2> HIDE DEF ids, n, old
  <2>4. LET both == old \o ids
        IN  /\ \A i \in 1..Len(both) : both[i] \in 1..(fresh + n) - 1
            /\ n = 0 => both = old
            /\ n # 0 => both # <<>> /\ both[Len(both)] = fresh + n - 1
    BY <2>1, <2>2, <2>3, Numbered, SMTT(30)
  <2> QED BY <2>4 DEF old
<1> HIDE DEF ids, sends, batch, t, all, n
<1>9. IdsBelow(t.state, fresh + Len(t.effects.submits))
  BY <1>2, <1>5, <1>6, <1>7 DEF IdsBelow, all
<1>10. CASE n = 0
  <2>1. all = s.outgoing.ids /\ sends = <<>>
    BY <1>5, <1>7, <1>10, EmptySeq
  <2> QED BY <1>2, <1>5, <1>6, <1>9, <2>1 DEF Sends, t, all
<1>11. CASE n # 0
  <2>1. all # <<>> /\ all[Len(all)] = fresh + n - 1
    BY <1>7, <1>11
  <2>2. sends # <<>>
    BY <1>5, <1>11
  <2>3. t.state.outgoing.ids = all
    BY <1>6 DEF all
  <2>4. IsLive(t.state.outgoing) /\ LiveRequestId(t.state) = fresh + n - 1
    BY <2>1, <2>3 DEF IsLive, LiveRequestId, Last
  <2> QED BY <1>2, <1>5, <1>9, <2>2, <2>4 DEF Sends, t
<1> QED BY <1>10, <1>11

LEMMA TakenFacts ==
    ASSUME NEW s \in R!Machine, NEW n \in 0..Len(s.queue), NEW fresh \in Nat \ {0}, IdsBelow(s, fresh)
    PROVE  /\ Sends(s, Take(s, n, fresh), fresh)
           /\ Take(s, n, fresh).state.incoming = s.incoming /\ Take(s, n, fresh).effects.settle = "none"
<1> DEFINE front == SubSeq(s.queue, 1, n)
           left == [s EXCEPT !.queue = SubSeq(s.queue, n + 1, Len(s.queue))]
<1>1. s.queue \in Seq(R!Queued)
  BY DEF R!Machine
<1>2. front \in Seq(R!Queued) /\ SubSeq(s.queue, n + 1, Len(s.queue)) \in Seq(R!Queued)
  BY <1>1
<1>3. left \in R!Machine /\ left.outgoing = s.outgoing /\ left.incoming = s.incoming
  BY <1>2 DEF R!Machine
<1>4. Take(s, n, fresh) = Ship(left, front, fresh)
  BY DEF Take
<1> HIDE DEF front, left
<1>5. Sends(left, Ship(left, front, fresh), fresh)
  BY <1>2, <1>3, ShipSends DEF IdsBelow
<1>6. Ship(left, front, fresh).state.incoming = left.incoming /\ Ship(left, front, fresh).effects.settle = "none"
  BY <1>3 DEF Ship, NoEffects, R!Machine
<1> QED BY <1>3, <1>4, <1>5, <1>6 DEF Sends

\* What is shown of an event t of a state s: tokens keep their owners, none
\* is settled and the incoming side stays as it is.
Keeps(s, t) ==
    /\ t.state \in R!Machine /\ t.state.phase = s.phase /\ t.state.incoming = s.incoming
    /\ R!OneOwner(t.state)

LEMMA DrainEvent ==
    ASSUME NEW s \in R!Machine, NEW r, NEW fresh \in Nat \ {0}, IdsBelow(s, fresh), R!OneOwner(s)
    PROVE  LET t == Drain(s, r, fresh)
           IN  /\ Sends(s, t, fresh) /\ Keeps(s, t) /\ R!Behind(t.state)
               /\ LiveTokens(t.state) = LiveTokens(s)
               /\ t.effects.tokens = {} /\ t.effects.settle = "none"
<1>1. Min(Stops(s, r)) \in 0..Len(s.queue)
  <2>1. R!Min(R!Stops(s, r)) \in 0..Len(s.queue)
    BY R!StopFacts, ReducerAssumption
  <2> QED BY <2>1, SameStops
<1>2. Drain(s, r, fresh) = Take(s, Min(Stops(s, r)), fresh)
  BY DEF Drain
<1>3. LET t == R!Drain(s, r, fresh)
      IN  /\ t.state \in R!Machine /\ t.state.phase = s.phase
          /\ R!LiveTokens(t.state) = R!LiveTokens(s)
          /\ R!OneOwner(t.state) /\ R!Behind(t.state)
          /\ t.effects.tokens = {} /\ Len(t.effects.submits) \in Nat
  BY R!DrainFacts, ReducerAssumption
<1>4. R!Drain(s, r, fresh) = Drain(s, r, fresh) /\ \A x : R!LiveTokens(x) = LiveTokens(x)
  BY SameDrain, SameTypes
<1> QED BY <1>1, <1>2, <1>3, <1>4, TakenFacts DEF Keeps

LEMMA EndEvent ==
    ASSUME NEW s \in R!Machine, NEW r, NEW fresh \in Nat \ {0}, NEW settle, R!OneOwner(s)
    PROVE  LET t == EndBatch(s, settle, r, fresh)
           IN  /\ Sends([s EXCEPT !.outgoing = NoBatch], t, fresh) /\ Keeps(s, t) /\ R!Behind(t.state)
               /\ LiveTokens(t.state) = LiveTokens(s) \ t.effects.tokens
               /\ t.effects.tokens = s.outgoing.tokens /\ t.effects.settle = settle
<1> DEFINE x == [s EXCEPT !.outgoing = NoBatch]
           d == Drain(x, r, fresh)
           t == EndBatch(s, settle, r, fresh)
<1>1. NoBatch \in R!Batch /\ NoBatch.tokens = {} /\ NoBatch.ids = <<>> /\ NoBatch.messages = <<>>
  BY DEF R!Batch, NoBatch
<1>2. /\ x \in R!Machine /\ x.phase = s.phase /\ x.queue = s.queue /\ x.incoming = s.incoming
      /\ x.outgoing = NoBatch
  BY <1>1 DEF R!Machine
<1>3. /\ t.state = d.state /\ t.effects.tokens = s.outgoing.tokens /\ t.effects.settle = settle
      /\ t.effects.submits = d.effects.submits
  BY DEF EndBatch, Drain, Take, Ship, NoEffects
<1> HIDE DEF x
<1>4. R!OneOwner(x) /\ IdsBelow(x, fresh)
  BY <1>1, <1>2, SameTypes DEF R!OneOwner, IdsBelow
<1>5. /\ Sends(x, d, fresh) /\ Keeps(x, d) /\ R!Behind(d.state) /\ LiveTokens(d.state) = LiveTokens(x)
  BY <1>2, <1>4, DrainEvent
<1>6. LiveTokens(x) = LiveTokens(s) \ s.outgoing.tokens
  BY <1>1, <1>2, SameTypes DEF LiveTokens, R!OneOwner
<1> HIDE DEF t, d
<1> QED BY <1>2, <1>3, <1>5, <1>6 DEF Sends, Keeps, t, x

LEMMA ActivatedEvent ==
    ASSUME NEW s \in R!Machine, NEW r, NEW fresh \in Nat \ {0}, IdsBelow(s, fresh), R!OneOwner(s)
    PROVE  LET t == Activated(s, r, fresh)
           IN  /\ Sends(s, t, fresh) /\ R!Behind(t.state)
               /\ t.state \in R!Machine /\ t.state.phase = "active" /\ t.state.incoming = s.incoming
               /\ R!OneOwner(t.state) /\ LiveTokens(t.state) = LiveTokens(s)
               /\ t.effects.tokens = {} /\ t.effects.settle = "none"
<1> DEFINE x == [s EXCEPT !.phase = "active"]
<1>1. x \in R!Machine /\ x.phase = "active" /\ x.queue = s.queue /\ x.incoming = s.incoming /\ x.outgoing = s.outgoing
  BY DEF R!Machine
<1>2. Activated(s, r, fresh) = Drain(x, r, fresh)
  BY DEF Activated
<1> HIDE DEF x
<1>3. R!OneOwner(x) /\ IdsBelow(x, fresh) /\ LiveTokens(x) = LiveTokens(s)
  BY <1>1 DEF R!OneOwner, IdsBelow, LiveTokens
<1> DEFINE d == Drain(x, r, fresh)
<1>4. /\ Sends(x, d, fresh) /\ Keeps(x, d) /\ R!Behind(d.state)
      /\ LiveTokens(d.state) = LiveTokens(x)
      /\ d.effects.tokens = {} /\ d.effects.settle = "none"
  BY <1>1, <1>3, DrainEvent
<1> HIDE DEF d
<1>5. Sends(s, d, fresh)
  BY <1>1, <1>4 DEF Sends
<1>6. /\ d.state \in R!Machine /\ d.state.phase = "active" /\ d.state.incoming = s.incoming
      /\ R!OneOwner(d.state)
  BY <1>1, <1>4 DEF Keeps
<1>7. Activated(s, r, fresh) = d
  BY <1>2 DEF d
<1> QED BY <1>3, <1>4, <1>5, <1>6, <1>7

LEMMA SubmittedEvent ==
    ASSUME NEW s \in R!Machine, NEW m \in Message, NEW t \in Token, NEW r, NEW fresh \in Nat \ {0},
           t \notin LiveTokens(s), R!OneOwner(s), s.phase = "active" => R!Behind(s), IdsBelow(s, fresh)
    PROVE  LET y == MessageSubmitted(s, m, t, r, fresh)
           IN  /\ Sends(s, y, fresh) /\ Keeps(s, y)
               /\ LiveTokens(y.state) = LiveTokens(s) \cup {t}
               /\ s.phase = "active" => R!Behind(y.state)
               /\ s.phase = "initialization" /\ s.outgoing = NoBatch =>
                     y.effects.submits = <<>> /\ y.state.outgoing = NoBatch
<1> DEFINE y == MessageSubmitted(s, m, t, r, fresh)
<1>1. /\ y.state \in R!Machine /\ y.state.phase = s.phase
      /\ LiveTokens(y.state) = LiveTokens(s) \cup {t}
      /\ R!OneOwner(y.state)
      /\ s.phase = "active" => R!Behind(y.state)
  <2>1. t \in R!Token /\ t \notin R!LiveTokens(s) /\ fresh \in Nat
    BY SameTypes
  <2>2. LET z == R!MessageSubmitted(s, m, t, r, fresh)
        IN  /\ z.state \in R!Machine /\ z.state.phase = s.phase
            /\ R!LiveTokens(z.state) = R!LiveTokens(s) \cup {t}
            /\ R!OneOwner(z.state)
            /\ s.phase = "active" => R!Behind(z.state)
            /\ Len(z.effects.submits) \in Nat
    BY <2>1, R!SubmittedFacts, ReducerAssumption
  <2>3. R!MessageSubmitted(s, m, t, r, fresh) = y /\ \A x : R!LiveTokens(x) = LiveTokens(x)
    BY SameSubmitted, SameTypes
  <2> HIDE DEF y
  <2> QED BY <2>2, <2>3
<1> DEFINE quiet == {[s EXCEPT !.outgoing.tokens = @ \cup {t}], AttachToQueued(s, m, t), Enqueue(s, m, t)}
<1>2. \/ \E x \in quiet : y = Unchanged(x)
      \/ /\ y = Ship(s, <<Entry(m, t)>>, fresh) /\ ~InFlight(s, m) /\ ~IsQueued(s, m) /\ ~MustWait(s)
  BY DEF MessageSubmitted, Admit
<1>3. ASSUME NEW x \in quiet
      PROVE  x.outgoing.ids = s.outgoing.ids /\ x.incoming = s.incoming
  BY <1>3, SMTT(30) DEF AttachToQueued, Enqueue, R!Machine, R!Batch
<1>4. ASSUME NEW x \in quiet, y = Unchanged(x)
      PROVE  Sends(s, y, fresh) /\ Keeps(s, y)
  <2>1. y.state = x /\ y.effects.submits = <<>>
    BY <1>4 DEF Unchanged, NoEffects
  <2> HIDE DEF y, quiet
  <2>2. <<>> \in Seq(Send) /\ Len(<<>>) = 0
    OBVIOUS
  <2>3. IdsBelow(x, fresh + Len(<<>>))
    BY <1>3, <2>2 DEF IdsBelow
  <2> QED BY <1>1, <1>3, <2>1, <2>2, <2>3 DEF Sends, Keeps
<1>5. ASSUME y = Ship(s, <<Entry(m, t)>>, fresh)
      PROVE  Sends(s, y, fresh) /\ Keeps(s, y)
  <2>1. <<Entry(m, t)>> \in Seq(R!Queued)
    BY SameTypes DEF Entry, R!Queued
  <2>2. y.state.incoming = s.incoming
    BY <1>5 DEF Ship, R!Machine
  <2> HIDE DEF y
  <2> QED BY <1>1, <1>5, <2>1, <2>2, ShipSends DEF Keeps
<1>6. ASSUME s.phase = "initialization", s.outgoing = NoBatch
      PROVE  y.effects.submits = <<>> /\ y.state.outgoing = NoBatch
  <2>1. ~InFlight(s, m) /\ MustWait(s)
    BY <1>6 DEF InFlight, NoBatch, ToSet, MustWait
  <2>2. y = Unchanged(AttachToQueued(s, m, t)) \/ y = Unchanged(Enqueue(s, m, t))
    BY <2>1 DEF MessageSubmitted
  <2>3. AttachToQueued(s, m, t).outgoing = s.outgoing /\ Enqueue(s, m, t).outgoing = s.outgoing
    BY DEF AttachToQueued, Enqueue, R!Machine
  <2> QED BY <1>6, <2>2, <2>3 DEF Unchanged, NoEffects
<1> HIDE DEF y, quiet
<1> QED BY <1>1, <1>2, <1>4, <1>5, <1>6 DEF y

-----------------------------------------------------------------------------
(* What inductiveness adds *)

\* Every promise has one owner in the reducer, there is no batch before the
\* end of init, and a disposed session has given up all.
MachineOK ==
    /\ machine \in R!Machine /\ R!OneOwner(machine) /\ IdsBelow(machine, nextId)
    /\ machine.phase = "active" => R!Behind(machine)
    /\ machine.phase = "initialization" => machine.outgoing = NoBatch
    /\ pending = LiveTokens(machine)
    /\ \A t \in pending : t[2] <= submits
    /\ submits \in 0..MaxSubmits /\ nextId \in Nat \ {0}
    /\ disposed => machine.outgoing = NoBatch /\ machine.queue = <<>>

AskBody == [kind : {"request"}, id : Nat \ {0}, messages : Seq(Message), to : SUBSET Device]

AnswerBody == [kind : {"response"}, id : PeerRequest, to : SUBSET Device]

Submission ==
    [policy : {"request", "response", "clear"}, body : AskBody \cup AnswerBody, expiry : Nat,
     left : 0..MaxSubmitRetries, pc : {"sending", "answered", "backoff"},
     error : {"none", "transient", "priority"}, min : Nat, owned : BOOLEAN]

\* Only a submission whose body could not be built has no expiry, and it is
\* not tried again.
RunOK(r) ==
    /\ r \in Submission
    /\ r.policy = "response" => r.body \in AnswerBody
    /\ r.policy # "response" => r.body \in AskBody /\ r.body.id < nextId
    /\ r.owned => r.expiry <= current
    /\ r.pc # "sending" => r.owned
    /\ r.pc = "backoff" => r.error # "none"
    /\ r.expiry = 0 => r.policy = "request" /\ r.pc = "answered" /\ r.error = "transient" /\ r.left = 0

RunsOK ==
    /\ current \in Nat /\ restarts \in 0..MaxRestarts
    /\ \A r \in runs : RunOK(r)

Slot(bodies) == {None} \cup [expiry : Nat \ {0}, body : bodies]

ChannelsOK(f) ==
    /\ f \in [{"request", "response"} -> Slot(AskBody \cup AnswerBody)]
    /\ f["request"] # None => f["request"].body \in AskBody /\ f["request"].body.id < nextId
    /\ f["response"] # None => f["response"].body \in AnswerBody

Arrived ==
    [kind : {"request"}, from : Device, id : PeerRequest, form : {"readable", "malformed", "opaque"}]
    \cup [kind : {"response"}, from : Device, id : Nat \ {0}, form : {"readable"}]

PeerChannels == [{"request", "response"} -> {None} \cup Arrived]

InitOK ==
    /\ init = [pc |-> init.pc, retries |-> init.retries, specs |-> init.specs, own |-> init.own,
               peer |-> init.peer]
    /\ init.pc \in {"querying", "backoff", "decoding", "ended"}
    /\ init.retries \in 0..MaxInitRetries /\ init.specs \subseteq Device
    /\ init.pc = "querying" =>
         /\ \A f \in init.own : ChannelsOK(f) /\ \A g \in init.own : f = g
         /\ \A found \in init.peer : found \in [init.specs -> PeerChannels]
    /\ init.pc = "decoding" =>
         /\ init.own \subseteq AskBody \cup AnswerBody /\ init.peer \subseteq Arrived
         /\ \A body \in init.own : body.kind = "request" => body.id < nextId
    /\ init.pc # "ended" => machine.phase = "initialization"

OutsideOK ==
    /\ roster \subseteq Device /\ topics \subseteq Device
    /\ peer \in [Device -> PeerChannels]
    /\ seen \subseteq Arrived /\ decoding \subseteq seen
    /\ heard \cup owed \subseteq 1..nextId - 1
    /\ subscribers \subseteq Subscriber /\ buffered \subseteq PeerRequest
    /\ resolved \subseteq Token
    /\ got \in [Subscriber -> [PeerRequest -> Nat]]

SessionTypes == MachineOK /\ RunsOK /\ ChannelsOK(own) /\ InitOK /\ OutsideOK

-----------------------------------------------------------------------------
(* What inductiveness adds to the requests of the peer *)

\* A request is known once it was taken in; one that still waits for its
\* answer has no submission.
RequestsOK ==
    /\ BufferedAwaitsAnswer /\ SubscribersAreServed /\ OneRunPerResponse
    /\ \A s \in Subscriber, q \in PeerRequest :
         got[s][q] <= 1 /\ (s \in subscribers /\ got[s][q] = 1 => IsTracked(machine, q))
    /\ \A r \in runs : r.owned /\ r.policy = "response" =>
         machine.incoming[r.body.id] = "responded"

Answering == {r \in runs : r.owned /\ r.policy = "response"}

\* Where no submit call of a dead session lands late, every submission under
\* way has a driver.
Owned == \A r \in runs : r.owned

\* The newest answer is not accepted and gone, and outranks all others.
AnswersOK ==
    /\ lastResponse \in PeerRequest => IsTracked(machine, lastResponse)
    /\ \A r, x \in Answering :
         r.body.id = lastResponse /\ x.body.id # lastResponse => x.expiry < r.expiry
    /\ ~disposed /\ lastResponse \in PeerRequest /\ machine.incoming[lastResponse] = "responded" =>
         \/ \E r \in Answering : r.body.id = lastResponse /\ ~(r.pc = "answered" /\ r.error = "none")
         \/ /\ own["response"] # None /\ own["response"].body.id = lastResponse
            /\ \A x \in Answering : x.body.id # lastResponse => x.expiry < own["response"].expiry

-----------------------------------------------------------------------------
(* What inductiveness adds to our request channel *)

Asks == {r \in runs : r.policy # "response"}

Rank(body) == 2 * body.id + (IF body.messages = <<>> THEN 1 ELSE 0)

\* Submissions are ordered by their batches, in the store and on the way; the
\* live batch, alone to be sent again, is the newest.
LineOK ==
    /\ machine.phase = "initialization" => Asks = {}
    /\ \A r, x \in Asks : r.expiry # 0 /\ x.expiry # 0 /\ Rank(r.body) < Rank(x.body) => r.expiry < x.expiry
    /\ \A r \in Asks : own["request"] # None /\ r.expiry # 0 /\ Rank(r.body) < Rank(own["request"].body)
                         => r.expiry <= own["request"].expiry
    /\ IsLive(machine.outgoing) =>
         /\ own["request"] # None => own["request"].body.id <= LiveRequestId(machine)
         /\ \A r \in Asks : r.body.id <= LiveRequestId(machine)
         /\ \A r \in Asks : r.policy = "request" /\ r.body.id = LiveRequestId(machine) =>
              /\ own["request"] # None => Rank(own["request"].body) <= Rank(r.body)
              /\ \A x \in Asks : Rank(x.body) <= Rank(r.body)

\* What init read from the request channel is what it holds: nothing is sent
\* before init ends.
OursOK ==
    /\ init.pc = "querying" => \A f \in init.own : f["request"] = own["request"]
    /\ init.pc = "decoding" =>
         \A body \in init.own : body.kind = "request" =>
             own["request"] # None /\ own["request"].body = body

Carried ==
    IsLive(machine.outgoing) =>
        \/ \E r \in Asks : /\ r.policy = "request" /\ r.body.id = LiveRequestId(machine)
                           /\ ~(r.pc = "answered" /\ r.error = "none")
        \/ own["request"] # None /\ own["request"].body.id = LiveRequestId(machine)

-----------------------------------------------------------------------------
(* The reducer's side of a step *)

\* The driver may adopt the outcome t of an event, of a state whose batch is
\* that of s.
Adopts(s, t) ==
    /\ t.state \in R!Machine /\ R!OneOwner(t.state)
    /\ t.state.phase = "active" => R!Behind(t.state)
    /\ t.state.phase = "initialization" => t.state.outgoing = NoBatch
    /\ Sends(s, t, nextId)

Ended == [machine EXCEPT !.outgoing = NoBatch]

LEMMA BatchFacts ==
    /\ NoBatch \in R!Batch /\ NoBatch.ids = <<>> /\ NoBatch.tokens = {} /\ NoBatch.messages = <<>>
    /\ ~IsLive(NoBatch)
BY DEF NoBatch, R!Batch, IsLive

LEMMA NothingSent ==
    ASSUME MachineOK
    PROVE  Adopts(machine, Unchanged(machine))
<1>1. Unchanged(machine).state = machine /\ Unchanged(machine).effects.submits = <<>>
  BY DEF Unchanged, NoEffects
<1>2. <<>> \in Seq(Send) /\ Len(<<>>) = 0
  OBVIOUS
<1> QED BY <1>1, <1>2 DEF Adopts, Sends, MachineOK, IdsBelow

LEMMA LiveIdType ==
    ASSUME NEW s \in R!Machine, IsLive(s.outgoing), NEW n \in Nat, IdsBelow(s, n)
    PROVE  LiveRequestId(s) \in 1..n - 1 /\ LiveRequestId(s) \in ToSet(s.outgoing.ids)
<1>1. s.outgoing.ids \in Seq(Nat) /\ s.outgoing.ids # <<>>
  BY DEF R!Machine, R!Batch, IsLive
<1>2. Len(s.outgoing.ids) \in 1..Len(s.outgoing.ids)
  BY <1>1
<1> QED BY <1>2 DEF LiveRequestId, Last, IdsBelow, ToSet

\* An answer to the live batch, or its failure, ends it; nothing else does.
LEMMA EndedEvents ==
    ASSUME MachineOK, NEW id, NEW t,
           \/ t = RequestSubmitFailed(machine, id, roster, nextId)
           \/ t = ResponseReceived(machine, id, roster, nextId)
    PROVE  /\ t = Unchanged(machine) \/ (Adopts(Ended, t) /\ IsLive(machine.outgoing))
           /\ t.state.phase = machine.phase /\ t.state.incoming = machine.incoming
           /\ LiveTokens(t.state) = LiveTokens(machine) \ t.effects.tokens
           /\ t.effects.tokens \subseteq LiveTokens(machine)
<1>1. machine \in R!Machine /\ nextId \in Nat \ {0} /\ R!OneOwner(machine)
  BY DEF MachineOK
<1>2. CASE t = Unchanged(machine)
  BY <1>2 DEF Unchanged, NoEffects
<1>3. ASSUME NEW settle, t = EndBatch(machine, settle, roster, nextId), IsLive(machine.outgoing)
      PROVE  /\ Adopts(Ended, t)
             /\ t.state.phase = machine.phase /\ t.state.incoming = machine.incoming
             /\ LiveTokens(t.state) = LiveTokens(machine) \ t.effects.tokens
             /\ t.effects.tokens \subseteq LiveTokens(machine)
  <2>1. /\ Sends(Ended, t, nextId) /\ Keeps(machine, t) /\ R!Behind(t.state)
        /\ LiveTokens(t.state) = LiveTokens(machine) \ t.effects.tokens
        /\ t.effects.tokens = machine.outgoing.tokens
    BY <1>1, <1>3, EndEvent DEF Ended
  <2>2. machine.phase # "initialization"
    BY <1>3, BatchFacts DEF MachineOK
  <2> QED BY <1>3, <2>1, <2>2 DEF Adopts, Keeps, LiveTokens
<1>4. \/ t = Unchanged(machine)
      \/ \E settle : (t = EndBatch(machine, settle, roster, nextId)) /\ IsLive(machine.outgoing)
  <2>1. ASSUME id \in ToSet(machine.outgoing.ids) PROVE IsLive(machine.outgoing)
    <3>1. CASE machine.outgoing.ids = <<>>
      BY <2>1, <3>1 DEF ToSet
    <3> QED BY <3>1 DEF IsLive
  <2>2. \/ t = Unchanged(machine)
        \/ t = EndBatch(machine, "reject", roster, nextId) /\ IsLive(machine.outgoing)
        \/ t = EndBatch(machine, "resolve", roster, nextId) /\ IsLive(machine.outgoing)
    BY <2>1 DEF RequestSubmitFailed, ResponseReceived
  <2> QED BY <2>2
<1> QED BY <1>2, <1>3, <1>4

LEMMA FailureEnds ==
    ASSUME MachineOK, IsLive(machine.outgoing)
    PROVE  Adopts(Ended, RequestSubmitFailed(machine, LiveRequestId(machine), roster, nextId))
<1> DEFINE t == RequestSubmitFailed(machine, LiveRequestId(machine), roster, nextId)
<1>1. t = EndBatch(machine, "reject", roster, nextId)
  BY DEF RequestSubmitFailed
<1>2. machine \in R!Machine /\ nextId \in Nat \ {0} /\ R!OneOwner(machine)
  BY DEF MachineOK
<1> HIDE DEF t
<1>3. Sends(Ended, t, nextId) /\ Keeps(machine, t) /\ R!Behind(t.state)
  BY <1>1, <1>2, EndEvent DEF Ended
<1>4. machine.phase # "initialization"
  BY BatchFacts DEF MachineOK
<1> QED BY <1>3, <1>4 DEF Adopts, Keeps, t

LEMMA SubmitEvent ==
    ASSUME MachineOK, NEW m \in Message, submits < MaxSubmits
    PROVE  LET token == <<m, submits + 1>>
               t == MessageSubmitted(machine, m, token, roster, nextId)
           IN  /\ Adopts(machine, t) /\ t.state.phase = machine.phase
               /\ t.state.incoming = machine.incoming
               /\ LiveTokens(t.state) = LiveTokens(machine) \cup {token}
<1> DEFINE token == <<m, submits + 1>>
           t == MessageSubmitted(machine, m, token, roster, nextId)
<1>1. MaxSubmits \in Nat /\ submits \in 0..MaxSubmits
  BY SessionAssumption DEF MachineOK
<1>2. token \in Token /\ token \notin LiveTokens(machine)
  BY <1>1 DEF Token, MachineOK
<1> HIDE DEF token
<1>3. /\ Sends(machine, t, nextId) /\ Keeps(machine, t)
      /\ LiveTokens(t.state) = LiveTokens(machine) \cup {token}
      /\ machine.phase = "active" => R!Behind(t.state)
      /\ machine.phase = "initialization" /\ machine.outgoing = NoBatch => t.state.outgoing = NoBatch
  BY <1>2, SubmittedEvent DEF MachineOK
<1> HIDE DEF t
<1> QED BY <1>3 DEF Adopts, Keeps, MachineOK, t, token

LEMMA CapacityEvent ==
    ASSUME MachineOK, NEW devices
    PROVE  LET t == CapacityChanged(machine, devices, nextId)
           IN  /\ Adopts(machine, t) /\ t.state.phase = machine.phase
               /\ t.state.incoming = machine.incoming
               /\ LiveTokens(t.state) = LiveTokens(machine)
<1> DEFINE t == CapacityChanged(machine, devices, nextId)
<1>1. CASE machine.phase # "active"
  <2>1. t = Unchanged(machine)
    BY <1>1 DEF CapacityChanged
  <2> QED BY <2>1, NothingSent DEF Unchanged
<1>2. CASE machine.phase = "active"
  <2>1. t = Drain(machine, devices, nextId)
    BY <1>2 DEF CapacityChanged
  <2>2. /\ Sends(machine, t, nextId) /\ Keeps(machine, t) /\ R!Behind(t.state)
        /\ LiveTokens(t.state) = LiveTokens(machine)
    BY <2>1, DrainEvent DEF MachineOK
  <2> HIDE DEF t
  <2> QED BY <1>2, <2>2 DEF Adopts, Keeps, t
<1> QED BY <1>1, <1>2

\* What init restores takes the place of no batch.
LEMMA RestoredEvent ==
    ASSUME MachineOK, machine.phase = "initialization",
           NEW s \in R!Machine, s.queue = machine.queue, IdsBelow(s, nextId), s.outgoing.tokens = {}
    PROVE  LET t == Activated(s, roster, nextId)
           IN  /\ Adopts(s, t) /\ t.state.phase = "active" /\ t.state.incoming = s.incoming
               /\ LiveTokens(t.state) = LiveTokens(machine)
               /\ t.effects.tokens = {} /\ t.effects.settle = "none"
<1> DEFINE t == Activated(s, roster, nextId)
<1>1. R!OneOwner(s) /\ LiveTokens(s) = LiveTokens(machine)
  BY BatchFacts DEF MachineOK, R!OneOwner, LiveTokens
<1>2. /\ Sends(s, t, nextId) /\ R!Behind(t.state)
      /\ t.state \in R!Machine /\ t.state.phase = "active" /\ t.state.incoming = s.incoming
      /\ R!OneOwner(t.state) /\ LiveTokens(t.state) = LiveTokens(s)
      /\ t.effects.tokens = {} /\ t.effects.settle = "none"
  BY <1>1, ActivatedEvent DEF MachineOK
<1> HIDE DEF t
<1> QED BY <1>1, <1>2 DEF Adopts, t

\* The incoming side of the reducer touches nothing else.
LEMMA IncomingEvents ==
    ASSUME NEW s \in R!Machine, NEW q \in PeerRequest, NEW responded \in BOOLEAN,
           NEW x \in {RequestReceived(s, q).state, ResponseSubmitted(s, q).state,
                      ResponseSubmitFailed(s, q).state, IncomingRestored(s, q, responded).state}
    PROVE  /\ x \in R!Machine /\ x.phase = s.phase /\ x.outgoing = s.outgoing /\ x.queue = s.queue
           /\ \E v \in {"open", "responded"} : x.incoming = [s.incoming EXCEPT ![q] = v] \/ x = s
<1>1. \/ x = s
      \/ \E v \in {"open", "responded"} : x = [s EXCEPT !.incoming[q] = v]
  BY DEF RequestReceived, ResponseSubmitted, ResponseSubmitFailed, IncomingRestored, Unchanged
<1>2. ASSUME NEW v \in {"open", "responded"}, x = [s EXCEPT !.incoming[q] = v]
      PROVE  /\ x \in R!Machine /\ x.phase = s.phase /\ x.outgoing = s.outgoing /\ x.queue = s.queue
             /\ x.incoming = [s.incoming EXCEPT ![q] = v]
  BY <1>2 DEF R!Machine
<1> QED BY <1>1, <1>2

(* The two steps of an answer leave the phase alone.                       *)
LEMMA AnswersKeepPhase ==
    ASSUME NEW s \in R!Machine, NEW q \in PeerRequest
    PROVE  /\ ResponseSubmitted(s, q).state.phase = s.phase
           /\ ResponseSubmitFailed(s, q).state.phase = s.phase
  BY DEF ResponseSubmitted, ResponseSubmitFailed, Unchanged, R!Machine

\* What init makes of our request channel and of the peer's.
TakesOver(ids) == ids = <<>> \/ \E body \in init.own : body.kind = "request" /\ ids = <<body.id>>

Tracks(incoming) ==
    \/ incoming = machine.incoming /\ UNCHANGED deliveryVars
    \/ \E q \in PeerRequest :
         /\ ~IsTracked(machine, q)
         /\ \/ incoming = [machine.incoming EXCEPT ![q] = "responded"] /\ UNCHANGED deliveryVars
            \/ incoming = [machine.incoming EXCEPT ![q] = "open"] /\ Deliver(q)

\* init ends by restoring the batch the request channel holds, if it is
\* unanswered, and tracking the request the peer's channel holds.
LEMMA InitEvent ==
    ASSUME MachineOK, InitOK, InitFinishes
    PROVE  /\ machine.phase = "initialization" /\ machine.outgoing = NoBatch
           /\ \E s \in R!Machine :
                LET t == Activated(s, roster, nextId)
                IN  /\ DispatchEvent(t)
                    /\ Adopts(s, t) /\ t.state.phase = "active" /\ t.state.incoming = s.incoming
                    /\ LiveTokens(t.state) = LiveTokens(machine)
                    /\ t.effects.tokens = {} /\ t.effects.settle = "none"
                    /\ TakesOver(s.outgoing.ids) /\ Tracks(s.incoming)
<1>1. /\ machine \in R!Machine /\ machine.phase = "initialization" /\ machine.outgoing = NoBatch
      /\ nextId \in Nat \ {0} /\ IdsBelow(machine, nextId)
  BY DEF InitFinishes, InitOK, MachineOK
<1>2. PICK request \in Found(init.own, "request"), response \in Found(init.own, "response"),
           asked \in Found(init.peer, "request"), answer \in Found(init.peer, "response") :
         LET responded == response # None /\ response.id = asked.id
             outgoing == Restored(machine, request, answer)
         IN  IF asked = None
             THEN DispatchEvent(Activated(outgoing, roster, nextId)) /\ UNCHANGED deliveryVars
             ELSE /\ DispatchEvent(Activated(IncomingRestored(outgoing, asked.id, responded).state,
                                             roster, nextId))
                  /\ IF IsTracked(machine, asked.id) \/ responded THEN UNCHANGED deliveryVars
                     ELSE Deliver(asked.id)
  BY DEF InitFinishes
<1> DEFINE outgoing == Restored(machine, request, answer)
           responded == response # None /\ response.id = asked.id
           both == IncomingRestored(outgoing, asked.id, responded).state
<1>3. /\ outgoing \in R!Machine /\ outgoing.queue = machine.queue /\ IdsBelow(outgoing, nextId)
      /\ outgoing.outgoing.tokens = {} /\ outgoing.incoming = machine.incoming
      /\ TakesOver(outgoing.outgoing.ids)
  <2>1. CASE outgoing = machine
    BY <1>1, <2>1, BatchFacts DEF TakesOver
  <2>2. CASE outgoing # machine
    <3>1. request # None /\ outgoing = OutgoingRestored(machine, request.id, request.messages).state
      BY <2>2 DEF Restored
    <3>2. request \in init.own /\ request.kind = "request"
      BY <3>1 DEF Found
    <3>3. request \in AskBody \cup AnswerBody /\ request.id < nextId
      BY <3>2 DEF InitOK, InitFinishes
    <3>4. request.id \in Nat \ {0} /\ request.messages \in Seq(Message)
      BY <3>2, <3>3 DEF AskBody, AnswerBody
    <3> DEFINE batch == [ids |-> <<request.id>>, messages |-> request.messages, tokens |-> {}]
    <3>5. batch \in R!Batch
      BY <3>4 DEF R!Batch
    <3>6. outgoing = [machine EXCEPT !.outgoing = batch]
      BY <3>1 DEF OutgoingRestored, Unchanged
    <3> HIDE DEF outgoing
    <3>7. /\ outgoing \in R!Machine /\ outgoing.queue = machine.queue /\ outgoing.incoming = machine.incoming
          /\ outgoing.outgoing = batch
      BY <1>1, <3>5, <3>6 DEF R!Machine
    <3>8. IdsBelow(outgoing, nextId)
      BY <1>1, <3>3, <3>4, <3>7 DEF IdsBelow
    <3> QED BY <3>2, <3>7, <3>8 DEF TakesOver
  <2> QED BY <2>1, <2>2
<1>4. CASE asked = None
  <2> HIDE DEF outgoing
  <2>1. DispatchEvent(Activated(outgoing, roster, nextId)) /\ UNCHANGED deliveryVars
    BY <1>2, <1>4 DEF outgoing
  <2> DEFINE t == Activated(outgoing, roster, nextId)
  <2>2. /\ Adopts(outgoing, t) /\ t.state.phase = "active" /\ t.state.incoming = outgoing.incoming
        /\ LiveTokens(t.state) = LiveTokens(machine)
        /\ t.effects.tokens = {} /\ t.effects.settle = "none"
    BY <1>1, <1>3, RestoredEvent
  <2>3. Tracks(outgoing.incoming)
    BY <1>3, <2>1 DEF Tracks
  <2> HIDE DEF t
  <2> QED BY <1>1, <1>3, <2>1, <2>2, <2>3 DEF t
<1>5. CASE asked # None
  <2>1. asked.id \in PeerRequest
    <3>1. asked \in init.peer /\ asked.kind = "request"
      BY <1>5 DEF Found
    <3>2. asked \in Arrived
      BY <3>1 DEF InitOK, InitFinishes
    <3> QED BY <3>1, <3>2 DEF Arrived
  <2>2. responded \in BOOLEAN
    OBVIOUS
  <2>3. /\ DispatchEvent(Activated(both, roster, nextId))
        /\ IF IsTracked(machine, asked.id) \/ responded THEN UNCHANGED deliveryVars ELSE Deliver(asked.id)
    BY <1>2, <1>5
  <2> HIDE DEF outgoing, responded
  <2>4. both = IF IsTracked(machine, asked.id) THEN outgoing
               ELSE [outgoing EXCEPT !.incoming[asked.id] = IF responded THEN "responded" ELSE "open"]
    BY <1>3 DEF IncomingRestored, Unchanged, IsTracked
  <2>5. /\ both \in R!Machine /\ both.outgoing = outgoing.outgoing /\ both.queue = outgoing.queue
        /\ both.incoming = IF IsTracked(machine, asked.id) THEN machine.incoming
                           ELSE [machine.incoming EXCEPT ![asked.id] = IF responded THEN "responded" ELSE "open"]
    BY <1>3, <2>1, <2>2, <2>4 DEF R!Machine
  <2> HIDE DEF both
  <2>6. /\ both.queue = machine.queue /\ IdsBelow(both, nextId) /\ both.outgoing.tokens = {}
        /\ TakesOver(both.outgoing.ids)
    BY <1>3, <2>5 DEF IdsBelow
  <2> DEFINE t == Activated(both, roster, nextId)
  <2>7. /\ Adopts(both, t) /\ t.state.phase = "active" /\ t.state.incoming = both.incoming
        /\ LiveTokens(t.state) = LiveTokens(machine)
        /\ t.effects.tokens = {} /\ t.effects.settle = "none"
    BY <1>1, <2>5, <2>6, RestoredEvent
  <2>8. Tracks(both.incoming)
    BY <2>1, <2>2, <2>3, <2>5 DEF Tracks
  <2> HIDE DEF t
  <2> QED BY <1>1, <2>1, <2>3, <2>5, <2>6, <2>7, <2>8 DEF t
<1> QED BY <1>4, <1>5

machineSide == <<machine, nextId, pending, submits, disposed>>

LEMMA MachineKept == MachineOK /\ UNCHANGED machineSide => MachineOK'
BY DEF MachineOK, machineSide, R!OneOwner, IdsBelow, R!Behind, LiveTokens

LEMMA MachineListens ==
    ASSUME MachineOK, machine' \in R!Machine, machine'.phase = machine.phase,
           machine'.outgoing = machine.outgoing, machine'.queue = machine.queue,
           UNCHANGED <<nextId, pending, submits, disposed>>
    PROVE  MachineOK'
BY DEF MachineOK, R!OneOwner, IdsBelow, R!Behind, LiveTokens

LEMMA MachineAdopts ==
    ASSUME MachineOK, NEW s, NEW t, Adopts(s, t), machine' = t.state,
           nextId' = nextId + Len(t.effects.submits), pending' = LiveTokens(t.state),
           submits' \in submits..MaxSubmits, \A token \in pending' \ pending : token[2] <= submits',
           ~disposed /\ ~disposed'
    PROVE  MachineOK'
<1>1. Len(t.effects.submits) \in Nat
  BY DEF Adopts, Sends
<1>2. submits \in 0..MaxSubmits /\ MaxSubmits \in Nat /\ nextId \in Nat \ {0}
  BY SessionAssumption DEF MachineOK
<1>3. nextId' \in Nat \ {0} /\ submits' \in 0..MaxSubmits
  BY <1>1, <1>2
<1>4. \A token \in pending' : token[2] <= submits'
  <2>1. pending \subseteq Token /\ \A token \in pending : token[2] <= submits
    <3>1. LiveTokens(machine) \subseteq Token
      <4>1. machine.outgoing.tokens \subseteq Token
        BY SameTypes DEF MachineOK, R!Machine, R!Batch
      <4>2. TokensOf(machine.queue) \subseteq Token
        BY SameTypes, R!TokensType, ReducerAssumption DEF MachineOK, R!Machine
      <4> QED BY <4>1, <4>2 DEF LiveTokens
    <3> QED BY <3>1 DEF MachineOK
  <2>2. ASSUME NEW token \in pending PROVE token[2] <= submits'
    BY <1>2, <2>1 DEF Token
  <2> QED BY <2>2
<1> QED BY <1>3, <1>4 DEF MachineOK, Adopts, Sends, R!OneOwner, R!Behind, IdsBelow, LiveTokens

LEMMA MachineGivesUp ==
    ASSUME MachineOK, pending' = {}, UNCHANGED <<nextId, submits>>,
           \/ machine' = OutgoingCleared(machine).state
           \/ machine' = InitFailed(machine).state /\ machine.outgoing = NoBatch
    PROVE  MachineOK'
<1>1. /\ machine'.outgoing = NoBatch /\ machine'.queue = <<>> /\ machine' \in R!Machine
  <2>1. machine \in R!Machine /\ <<>> \in Seq(R!Queued)
    BY DEF MachineOK
  <2> QED BY <2>1, BatchFacts DEF OutgoingCleared, InitFailed, Unchanged, R!Machine
<1>2. LiveTokens(machine') = {} /\ IdsBelow(machine', nextId') /\ R!Behind(machine') /\ R!OneOwner(machine')
  <2>1. TokensOf(<<>>) = {}
    BY DEF TokensOf
  <2> QED BY <1>1, <2>1, BatchFacts DEF LiveTokens, IdsBelow, R!Behind, R!OneOwner
<1> QED BY <1>1, <1>2 DEF MachineOK

LEMMA ArrivedRequest ==
    ASSUME OutsideOK, NEW st \in decoding, st.kind = "request" \/ st.form = "malformed"
    PROVE  st.id \in PeerRequest /\ st.kind = "request"
BY DEF OutsideOK, Arrived

LEMMA MachineStep ==
    ASSUME SessionTypes, [Next]_vars
    PROVE  MachineOK'
<1> USE DEF sessionVars, outgoingVars, incomingVars, deliveryVars, intakeVars, outsideVars, peerVars, bounds
<1>0. MachineOK /\ InitOK /\ OutsideOK /\ RunsOK
  BY DEF SessionTypes
<1>m. machine \in R!Machine /\ nextId \in Nat \ {0} /\ submits \in 0..MaxSubmits /\ pending = LiveTokens(machine)
  BY <1>0 DEF MachineOK
<1>1. CASE StoreStep
  BY <1>0, <1>1, MachineKept DEF StoreStep, StoreAccepts, StoreRejects, CallFails, AccountFull, Uninvolved, machineSide
<1>2. CASE DriverStep
  <2>1. PICK r \in runs : BackOff(r) \/ Resend(r) \/ RequestEnds(r) \/ ResponseEnds(r) \/ ClearEnds(r)
    BY <1>2 DEF DriverStep
  <2>2. CASE BackOff(r) \/ Resend(r) \/ ClearEnds(r)
    BY <1>0, <2>2, MachineKept DEF BackOff, Resend, ClearEnds, machineSide
  <2>3. CASE RequestEnds(r)
    <3>1. CASE UNCHANGED machine /\ UNCHANGED nextId /\ UNCHANGED pending
      BY <1>0, <2>3, <3>1, MachineKept DEF RequestEnds, machineSide
    <3> DEFINE t == RequestSubmitFailed(machine, r.body.id, roster, nextId)
    <3>2. CASE ~disposed /\ Perform(t, runs \ {r})
      <4>1. machine' = t.state /\ nextId' = nextId + Len(t.effects.submits) /\ pending' = pending \ t.effects.tokens
        BY <3>2 DEF Perform, Start
      <4>2. UNCHANGED <<submits, disposed>>
        BY <2>3 DEF RequestEnds
      <4>3. /\ \E s : Adopts(s, t)
            /\ LiveTokens(t.state) = LiveTokens(machine) \ t.effects.tokens
        BY <1>0, EndedEvents, NothingSent
      <4> HIDE DEF t
      <4> QED BY <1>0, <1>m, <3>2, <4>1, <4>2, <4>3, MachineAdopts
    <3> QED BY <2>3, <3>1, <3>2 DEF RequestEnds
  <2>4. CASE ResponseEnds(r)
    <3>1. CASE UNCHANGED machine
      BY <1>0, <2>4, <3>1, MachineKept DEF ResponseEnds, machineSide
    <3>2. CASE machine' = ResponseSubmitFailed(machine, r.body.id).state
      <4>1. r.body.id \in PeerRequest
        BY <1>0, <2>4 DEF ResponseEnds, RunsOK, RunOK, AnswerBody
      <4> QED BY <1>0, <1>m, <2>4, <3>2, <4>1, IncomingEvents, MachineListens DEF ResponseEnds
    <3> QED BY <2>4, <3>1, <3>2 DEF ResponseEnds
  <2> QED BY <2>1, <2>2, <2>3, <2>4
<1>3. CASE InitStep
  <2>1. CASE InitQueryOwn \/ InitQueryPeer \/ InitRetries \/ InitLoaded \/ InitAbandoned
    BY <1>0, <2>1, MachineKept DEF InitQueryOwn, InitQueryPeer, InitRetries, InitLoaded, InitAbandoned, machineSide
  <2>2. CASE InitQueryFails
    <3>1. CASE UNCHANGED <<machine, pending>>
      BY <1>0, <2>2, <3>1, MachineKept DEF InitQueryFails, machineSide
    <3>2. CASE ~disposed /\ machine' = InitFailed(machine).state /\ pending' = {}
      <4>1. machine.outgoing = NoBatch
        BY <1>0, <2>2 DEF InitQueryFails, InitOK, MachineOK
      <4>2. UNCHANGED <<nextId, submits>>
        BY <2>2 DEF InitQueryFails
      <4> QED BY <1>0, <3>2, <4>1, <4>2, MachineGivesUp
    <3> QED BY <2>2, <3>1, <3>2 DEF InitQueryFails
  <2>3. CASE InitFinishes
    <3>1. PICK s, t : /\ DispatchEvent(t) /\ Adopts(s, t) /\ LiveTokens(t.state) = LiveTokens(machine)
                      /\ t.effects.tokens = {}
      BY <1>0, <2>3, InitEvent
    <3>2. /\ machine' = t.state /\ nextId' = nextId + Len(t.effects.submits) /\ pending' = pending
          /\ UNCHANGED <<submits, disposed>> /\ ~disposed
      BY <2>3, <3>1 DEF DispatchEvent, Perform, Start, InitFinishes
    <3> QED BY <1>0, <1>m, <3>1, <3>2, MachineAdopts
  <2> QED BY <1>3, <2>1, <2>2, <2>3 DEF InitStep
<1>4. CASE DecoderStep
  <2>1. PICK st \in decoding : Dropped(st) \/ Nacked(st) \/ RequestArrives(st) \/ ResponseArrives(st)
    BY <1>4 DEF DecoderStep
  <2>2. CASE Dropped(st)
    BY <1>0, <2>2, MachineKept DEF Dropped, Decoded, machineSide
  <2>3. CASE Nacked(st)
    <3>1. st.id \in PeerRequest
      BY <1>0, <2>3, ArrivedRequest DEF Nacked
    <3> DEFINE x == RequestReceived(machine, st.id).state
    <3>2. x \in R!Machine /\ x.phase = machine.phase /\ x.outgoing = machine.outgoing /\ x.queue = machine.queue
      BY <1>m, <3>1, IncomingEvents
    <3> DEFINE y == ResponseSubmitted(x, st.id).state
    <3>3. machine' \in {x, y}
      BY <2>3 DEF Nacked, StartResponse
    <3>4. UNCHANGED <<nextId, pending, submits, disposed>>
      BY <2>3 DEF Nacked, Decoded
    <3> HIDE DEF x
    <3>5. y \in R!Machine /\ y.phase = x.phase /\ y.outgoing = x.outgoing /\ y.queue = x.queue
      BY <3>1, <3>2, IncomingEvents
    <3> HIDE DEF y
    <3> QED BY <1>0, <3>2, <3>3, <3>4, <3>5, MachineListens
  <2>4. CASE RequestArrives(st)
    <3>1. st.id \in PeerRequest
      BY <1>0, <2>4, ArrivedRequest DEF RequestArrives
    <3> QED BY <1>0, <1>m, <2>4, <3>1, IncomingEvents, MachineListens DEF RequestArrives, Decoded
  <2>5. CASE ResponseArrives(st)
    <3> DEFINE t == ResponseReceived(machine, st.id, roster, nextId)
    <3>1. /\ machine' = t.state /\ nextId' = nextId + Len(t.effects.submits) /\ pending' = pending \ t.effects.tokens
          /\ UNCHANGED <<submits, disposed>>
      BY <2>5 DEF ResponseArrives, DispatchEvent, Perform, Start, Decoded
    <3>2. /\ t = Unchanged(machine) \/ (Adopts(Ended, t) /\ IsLive(machine.outgoing))
          /\ LiveTokens(t.state) = LiveTokens(machine) \ t.effects.tokens
      BY <1>0, EndedEvents
    <3> HIDE DEF t
    <3>3. CASE t = Unchanged(machine)
      <4>1. machine' = machine /\ nextId' = nextId /\ pending' = pending
        BY <1>m, <3>1, <3>3 DEF Unchanged, NoEffects
      <4> QED BY <1>0, <3>1, <4>1, MachineKept DEF machineSide
    <3>4. CASE Adopts(Ended, t) /\ IsLive(machine.outgoing)
      <4>1. ~disposed
        BY <1>0, <3>4, BatchFacts DEF MachineOK
      <4> QED BY <1>0, <1>m, <3>1, <3>2, <3>4, <4>1, MachineAdopts
    <3> QED BY <3>2, <3>3, <3>4
  <2> QED BY <2>1, <2>2, <2>3, <2>4, <2>5
<1>5. CASE PeerRead \/ PeerAnswer
  BY <1>0, <1>5, MachineKept DEF PeerRead, PeerAnswer, PeerReads, PeerAnswers, Published, machineSide
<1>6. CASE Application
  <2>1. ASSUME NEW m \in Message, SubmitRequestMessage(m) PROVE MachineOK'
    <3> DEFINE token == <<m, submits + 1>>
               t == MessageSubmitted(machine, m, token, roster, nextId)
    <3>1. /\ machine' = t.state /\ nextId' = nextId + Len(t.effects.submits) /\ pending' = pending \cup {token}
          /\ submits' = submits + 1 /\ submits < MaxSubmits /\ UNCHANGED disposed /\ ~disposed
      BY <2>1 DEF SubmitRequestMessage, Start
    <3>2. Adopts(machine, t) /\ LiveTokens(t.state) = LiveTokens(machine) \cup {token}
      BY <1>0, <3>1, SubmitEvent
    <3>3. token[2] = submits + 1
      OBVIOUS
    <3> HIDE DEF t, token
    <3>4. submits' \in submits..MaxSubmits
      BY <1>m, <3>1, SessionAssumption
    <3> QED BY <1>0, <1>m, <3>1, <3>2, <3>3, <3>4, MachineAdopts
  <2>2. ASSUME NEW q \in PeerRequest, SubmitResponseMessage(q) PROVE MachineOK'
    BY <1>0, <1>m, <2>2, IncomingEvents, MachineListens DEF SubmitResponseMessage, StartResponse
  <2>3. ASSUME NEW q \in PeerRequest, RespondAgain(q) PROVE MachineOK'
    BY <1>0, <2>3, MachineKept DEF RespondAgain, machineSide
  <2>4. ASSUME NEW s \in Subscriber, Subscribe(s) \/ Unsubscribe(s) PROVE MachineOK'
    BY <1>0, <2>4, MachineKept DEF Subscribe, Unsubscribe, machineSide
  <2>5. CASE ClearOutgoingStatement
    BY <1>0, <2>5, MachineGivesUp DEF ClearOutgoingStatement
  <2>6. CASE Dispose
    BY <1>0, <2>6, MachineGivesUp DEF Dispose
  <2> QED BY <1>6, <2>1, <2>2, <2>3, <2>4, <2>5, <2>6 DEF Application
<1>7. CASE Environment
  <2>1. ASSUME NEW q \in PeerRequest, NEW form \in Form(q), PeerAsks(q, form) PROVE MachineOK'
    BY <1>0, <2>1, MachineKept DEF PeerAsks, Published, machineSide
  <2>2. ASSUME NEW devices \in Roster, RosterChanges(devices) PROVE MachineOK'
    <3>1. CASE UNCHANGED outgoingVars
      BY <1>0, <2>2, <3>1, MachineKept DEF RosterChanges, machineSide
    <3> DEFINE t == CapacityChanged(machine, devices, nextId)
    <3>2. CASE Start(t, runs, devices) /\ UNCHANGED <<pending, resolved>>
      <4>1. /\ machine' = t.state /\ nextId' = nextId + Len(t.effects.submits)
            /\ UNCHANGED <<submits, pending, disposed>> /\ ~disposed
        BY <2>2, <3>2 DEF Start, RosterChanges
      <4>2. Adopts(machine, t) /\ LiveTokens(t.state) = LiveTokens(machine)
        BY <1>0, CapacityEvent
      <4> HIDE DEF t
      <4> QED BY <1>0, <1>m, <4>1, <4>2, MachineAdopts
    <3> QED BY <2>2, <3>1, <3>2 DEF RosterChanges
  <2>3. CASE Restart
    <3>1. /\ machine' = InitialSessionState /\ pending' = {} /\ UNCHANGED <<nextId, submits>> /\ disposed' = FALSE
      BY <2>3 DEF Restart
    <3>2. InitialSessionState \in R!Machine /\ LiveTokens(InitialSessionState) = {}
          /\ R!OneOwner(InitialSessionState) /\ IdsBelow(InitialSessionState, nextId)
      BY BatchFacts DEF InitialSessionState, R!Machine, LiveTokens, TokensOf, R!OneOwner, IdsBelow
    <3> QED BY <1>0, <3>1, <3>2 DEF MachineOK, InitialSessionState
  <2> QED BY <1>7, <2>1, <2>2, <2>3 DEF Environment
<1>8. CASE UNCHANGED vars
  BY <1>0, <1>8, MachineKept DEF vars, machineSide
<1> QED BY <1>1, <1>2, <1>3, <1>4, <1>5, <1>6, <1>7, <1>8 DEF Next

-----------------------------------------------------------------------------
(* Submissions *)

LEMMA ClockAdvances ==
    ASSUME RunsOK
    PROVE  /\ Clock(restarts) \in Nat
           /\ \A base \in Nat : NextExpiry(base, Clock(restarts)) \in Nat /\ NextExpiry(base, Clock(restarts)) > base
BY SessionAssumption DEF RunsOK, NextExpiry

\* r is a first submission of a batch, on its way or not built at all.
IsStart(r, id, expiry) ==
    /\ r \in Submission /\ r.policy = "request" /\ r.owned
    /\ r.body \in AskBody /\ r.body.id = id
    /\ \/ r.pc = "sending" /\ r.error = "none" /\ r.expiry = expiry
       \/ r.pc = "answered" /\ r.error = "transient" /\ r.left = 0 /\ r.expiry = 0

\* The driver starts one submission for each that the reducer asks for, in
\* their order and with expiries above all before.
LEMMA NewRuns ==
    ASSUME RunsOK, NEW fresh \in Nat \ {0}, NEW starts \in Seq(Send), NEW to \in SUBSET Device,
           \A i \in 1..Len(starts) : starts[i].id = fresh + i - 1 /\ starts[i].messages # <<>>
    PROVE  LET new == RequestRuns(starts, current, to)
               after == CurrentAfter(starts, current, to)
               base == NextExpiry(current, Clock(restarts))
           IN  /\ after \in Nat /\ current <= after
               /\ \A r \in new : \E i \in 1..Len(starts) :
                    /\ IsStart(r, fresh + i - 1, base + i - 1)
                    /\ r.expiry <= after /\ r.body.messages # <<>>
               /\ \A i \in 1..Len(starts) : \E r \in new : r.body.id = fresh + i - 1
               /\ starts = <<>> => new = {} /\ after = current
<1> DEFINE new == RequestRuns(starts, current, to)
           after == CurrentAfter(starts, current, to)
           base == NextExpiry(current, Clock(restarts))
           body(i) == RequestBody(starts[i].id, starts[i].messages, to)
           run(i) == IF CanBuild(to) THEN Run("request", body(i), base + i - 1, MaxSubmitRetries)
                     ELSE Unbuilt(body(i))
<1>1. current \in Nat /\ base \in Nat /\ base > current /\ MaxSubmitRetries \in Nat
  BY ClockAdvances, SessionAssumption DEF RunsOK
<1>2. Len(starts) \in Nat /\ (starts = <<>> <=> Len(starts) = 0)
  OBVIOUS
<1> HIDE DEF base
<1>3. new = {run(i) : i \in 1..Len(starts)}
  BY DEF RequestRuns, ExpiryAfter, base
<1>4. after = IF starts = <<>> \/ ~CanBuild(to) THEN current ELSE base + Len(starts) - 1
  BY DEF CurrentAfter, ExpiryAfter, base
<1> HIDE DEF after, new
<1>5. ASSUME NEW i \in 1..Len(starts)
      PROVE  /\ IsStart(run(i), fresh + i - 1, base + i - 1)
             /\ run(i).expiry <= after /\ run(i).body.messages # <<>> /\ run(i).body.id = fresh + i - 1
  <2>1. starts[i] \in Send /\ starts[i].id = fresh + i - 1 /\ starts[i].messages # <<>>
    OBVIOUS
  <2>2. /\ body(i) \in AskBody /\ body(i).id = fresh + i - 1 /\ body(i).messages # <<>>
    BY <2>1, <1>2 DEF RequestBody, AskBody, Send
  <2>3. starts # <<>>
    BY <1>2
  <2> HIDE DEF body
  <2>4. CASE CanBuild(to)
    <3>1. run(i) = Run("request", body(i), base + i - 1, MaxSubmitRetries)
      BY <2>4
    <3>2. base + i - 1 \in Nat /\ base + i - 1 <= after
      BY <1>1, <1>2, <1>4, <2>3, <2>4
    <3> HIDE DEF run
    <3> QED BY <1>1, <2>2, <3>1, <3>2 DEF Run, IsStart, Submission
  <2>5. CASE ~CanBuild(to)
    <3>1. run(i) = Unbuilt(body(i))
      BY <2>5
    <3>2. after \in Nat
      BY <1>1, <1>4, <2>5
    <3> HIDE DEF run
    <3>3. run(i) = [policy |-> "request", body |-> body(i), expiry |-> 0, left |-> 0, pc |-> "answered",
                    error |-> "transient", min |-> 0, owned |-> TRUE]
      BY <3>1 DEF Run, Unbuilt
    <3>4. run(i) \in Submission
      BY <1>1, <2>2, <3>3 DEF Submission
    <3> QED BY <1>1, <2>2, <3>2, <3>3, <3>4 DEF IsStart
  <2> QED BY <2>4, <2>5
<1>6. after \in Nat /\ current <= after
  BY <1>1, <1>2, <1>4
<1>7. starts = <<>> => new = {} /\ after = current
  BY <1>2, <1>3, <1>4
<1> HIDE DEF run
<1>8. \A i \in 1..Len(starts) : run(i) \in new
  BY <1>3
<1>9. \A r \in new : \E i \in 1..Len(starts) : r = run(i)
  BY <1>3
<1>10. \A r \in new : \E i \in 1..Len(starts) :
                    /\ IsStart(r, fresh + i - 1, base + i - 1)
                    /\ r.expiry <= after /\ r.body.messages # <<>>
  BY <1>5, <1>9
<1>11. \A i \in 1..Len(starts) : \E r \in new : r.body.id = fresh + i - 1
  BY <1>5, <1>8
<1> QED BY <1>6, <1>7, <1>10, <1>11 DEF new, after, base

\* A submission stays what it is as ids and expiries are handed out.
LEMMA RunKept ==
    ASSUME NEW r, RunOK(r), nextId \in Nat, nextId' \in Nat, nextId <= nextId',
           current \in Nat, current' \in Nat, current <= current'
    PROVE  RunOK(r)'
BY DEF RunOK, Submission, AskBody

LEMMA StartedRuns ==
    ASSUME MachineOK, RunsOK, NEW s, NEW t, Adopts(s, t), NEW kept \in SUBSET runs, NEW to \in SUBSET Device,
           Start(t, kept, to), UNCHANGED restarts
    PROVE  RunsOK'
<1> DEFINE new == RequestRuns(t.effects.submits, current, to)
           n == Len(t.effects.submits)
<1>1. /\ t.effects.submits \in Seq(Send) /\ n \in Nat
      /\ \A i \in 1..n : t.effects.submits[i].id = nextId + i - 1 /\ t.effects.submits[i].messages # <<>>
  BY DEF Adopts, Sends
<1>2. nextId' = nextId + n /\ runs' = kept \cup new /\ current' = CurrentAfter(t.effects.submits, current, to)
  BY DEF Start
<1>3. nextId \in Nat \ {0} /\ current \in Nat
  BY DEF MachineOK, RunsOK
<1> DEFINE starts == t.effects.submits
<1>4. /\ current' \in Nat /\ current <= current'
      /\ \A r \in new : \E i \in 1..n :
            /\ IsStart(r, nextId + i - 1, NextExpiry(current, Clock(restarts)) + i - 1)
            /\ r.expiry <= current' /\ r.body.messages # <<>>
  <2>1. starts \in Seq(Send) /\ \A i \in 1..Len(starts) : starts[i].id = nextId + i - 1 /\ starts[i].messages # <<>>
    BY <1>1
  <2>2. n = Len(starts) /\ new = RequestRuns(starts, current, to) /\ current' = CurrentAfter(starts, current, to)
    BY <1>2
  <2> HIDE DEF starts, n, new
  <2> QED BY <1>3, <2>1, <2>2, NewRuns
<1>5. nextId' \in Nat /\ nextId <= nextId'
  BY <1>1, <1>2, <1>3
<1>6. ASSUME NEW r \in kept PROVE RunOK(r)'
  BY <1>3, <1>4, <1>5, <1>6, RunKept DEF RunsOK
<1>7. ASSUME NEW r \in new PROVE RunOK(r)'
  <2> HIDE DEF new, n
  <2>1. PICK i \in 1..n : IsStart(r, nextId + i - 1, NextExpiry(current, Clock(restarts)) + i - 1) /\ r.expiry <= current'
    BY <1>4, <1>7
  <2>2. r.body.id < nextId'
    BY <1>1, <1>2, <1>3, <2>1 DEF IsStart
  <2>3. NextExpiry(current, Clock(restarts)) + i - 1 # 0
    BY <1>1, <1>3, ClockAdvances
  <2> QED BY <2>1, <2>2, <2>3 DEF IsStart, RunOK
<1> HIDE DEF new
<1> QED BY <1>2, <1>4, <1>6, <1>7 DEF RunsOK

-----------------------------------------------------------------------------
(* The steps that dispatch an event whose submissions the driver starts *)

Dispatching(s, t, kept) ==
    /\ Adopts(s, t)
    /\ \E to \in SUBSET Device : Start(t, kept, to)
    /\ UNCHANGED <<restarts, lastResponse, own, disposed>>

\* The same before and after the end of init.
Dispatches(s, t, kept) == Dispatching(s, t, kept) /\ t.state.phase = machine.phase /\ UNCHANGED init

LEMMA FailureDispatches ==
    ASSUME SessionTypes, NEW r \in runs, RequestEnds(r), ~UNCHANGED machine \/ (Failed(r) /\ ~disposed)
    PROVE  /\ Failed(r) /\ ~disposed
           /\ \E s \in {machine, Ended} : \E t :
                /\ Dispatches(s, t, runs \ {r}) /\ t.state.incoming = machine.incoming
                /\ IsLive(machine.outgoing) /\ r.body.id = LiveRequestId(machine) => s = Ended
<1> DEFINE t == RequestSubmitFailed(machine, r.body.id, roster, nextId)
<1>0. MachineOK /\ roster \in SUBSET Device
  BY DEF SessionTypes, OutsideOK
<1>1. Failed(r) /\ ~disposed /\ Perform(t, runs \ {r})
  BY DEF RequestEnds
<1>2. Start(t, runs \ {r}, roster) /\ UNCHANGED <<restarts, lastResponse, own, disposed, init>>
  BY <1>1 DEF RequestEnds, Perform, outsideVars, bounds, sessionVars
<1>3. /\ t = Unchanged(machine) \/ (Adopts(Ended, t) /\ IsLive(machine.outgoing))
      /\ t.state.phase = machine.phase /\ t.state.incoming = machine.incoming
  BY <1>0, EndedEvents
<1>4. IsLive(machine.outgoing) /\ r.body.id = LiveRequestId(machine) => Adopts(Ended, t)
  BY <1>0, FailureEnds
<1>5. t = Unchanged(machine) => Adopts(machine, t)
  BY <1>0, NothingSent
<1> HIDE DEF t
<1>6. PICK s \in {machine, Ended} :
        Adopts(s, t) /\ (IsLive(machine.outgoing) /\ r.body.id = LiveRequestId(machine) => s = Ended)
  BY <1>3, <1>4, <1>5
<1> QED BY <1>0, <1>1, <1>2, <1>3, <1>6 DEF Dispatches, Dispatching

LEMMA ResponseDispatches ==
    ASSUME SessionTypes, NEW st \in decoding, ResponseArrives(st)
    PROVE  \E s \in {machine, Ended} : \E t :
             /\ Dispatches(s, t, runs) /\ t.state.incoming = machine.incoming
             /\ disposed => t = Unchanged(machine)
<1> DEFINE t == ResponseReceived(machine, st.id, roster, nextId)
<1>0. MachineOK /\ roster \in SUBSET Device
  BY DEF SessionTypes, OutsideOK
<1>2. Start(t, runs, roster) /\ UNCHANGED <<restarts, lastResponse, own, disposed, init>>
  BY DEF ResponseArrives, DispatchEvent, Perform, Decoded, outsideVars, bounds, sessionVars
<1>3. /\ t = Unchanged(machine) \/ (Adopts(Ended, t) /\ IsLive(machine.outgoing))
      /\ t.state.phase = machine.phase /\ t.state.incoming = machine.incoming
  BY <1>0, EndedEvents
<1>4. disposed => ~IsLive(machine.outgoing)
  BY <1>0, BatchFacts DEF MachineOK
<1>5. t = Unchanged(machine) => Adopts(machine, t)
  BY <1>0, NothingSent
<1> HIDE DEF t
<1>6. PICK s \in {machine, Ended} : Adopts(s, t) /\ (disposed => t = Unchanged(machine))
  BY <1>3, <1>4, <1>5
<1> QED BY <1>0, <1>2, <1>3, <1>6 DEF Dispatches, Dispatching

LEMMA SubmitDispatches ==
    ASSUME SessionTypes, NEW m \in Message, SubmitRequestMessage(m)
    PROVE  \E t : Dispatches(machine, t, runs) /\ t.state.incoming = machine.incoming /\ ~disposed
<1> DEFINE t == MessageSubmitted(machine, m, <<m, submits + 1>>, roster, nextId)
<1>0. MachineOK /\ roster \in SUBSET Device
  BY DEF SessionTypes, OutsideOK
<1>1. Start(t, runs, roster) /\ UNCHANGED <<restarts, lastResponse, own, disposed, init>>
      /\ submits < MaxSubmits /\ ~disposed
  BY DEF SubmitRequestMessage, sessionVars
<1>2. Adopts(machine, t) /\ t.state.phase = machine.phase /\ t.state.incoming = machine.incoming
  BY <1>0, <1>1, SubmitEvent
<1> HIDE DEF t
<1> QED BY <1>0, <1>1, <1>2 DEF Dispatches, Dispatching

LEMMA RosterDispatches ==
    ASSUME SessionTypes, NEW devices \in Roster, RosterChanges(devices)
    PROVE  \/ UNCHANGED <<outgoingVars, lastResponse, own, disposed, init, restarts>>
           \/ \E t : Dispatches(machine, t, runs) /\ t.state.incoming = machine.incoming /\ ~disposed
<1> DEFINE t == CapacityChanged(machine, devices, nextId)
<1>0. MachineOK /\ devices \in SUBSET Device
  BY SessionAssumption DEF SessionTypes
<1>1. UNCHANGED <<restarts, lastResponse, own, disposed, init>> /\ ~disposed
  BY DEF RosterChanges, outsideVars, bounds
<1>2. Adopts(machine, t) /\ t.state.phase = machine.phase /\ t.state.incoming = machine.incoming
  BY <1>0, CapacityEvent
<1>3. UNCHANGED outgoingVars \/ Start(t, runs, devices)
  BY DEF RosterChanges
<1> HIDE DEF t
<1> QED BY <1>0, <1>1, <1>2, <1>3 DEF Dispatches, Dispatching

LEMMA InitDispatches ==
    ASSUME SessionTypes, InitFinishes
    PROVE  /\ machine.phase = "initialization" /\ machine.outgoing = NoBatch /\ init.pc = "decoding" /\ ~disposed
           /\ \E s, t :
                /\ Dispatching(s, t, runs) /\ t.state.phase = "active" /\ init' = Idle
                /\ TakesOver(s.outgoing.ids) /\ Tracks(t.state.incoming)
<1>0. MachineOK /\ InitOK /\ roster \in SUBSET Device
  BY DEF SessionTypes, OutsideOK
<1>1. UNCHANGED <<restarts, lastResponse, own, disposed>> /\ init' = Idle /\ init.pc = "decoding" /\ ~disposed
  BY DEF InitFinishes, outsideVars, bounds
<1>2. machine.phase = "initialization" /\ machine.outgoing = NoBatch
  BY <1>0, InitEvent
<1>3. PICK s, t :
            /\ s \in R!Machine
            /\ DispatchEvent(t)
            /\ Adopts(s, t) /\ t.state.phase = "active" /\ t.state.incoming = s.incoming
            /\ TakesOver(s.outgoing.ids) /\ Tracks(s.incoming)
  BY <1>0, InitEvent
<1>4. Dispatching(s, t, runs)
  BY <1>0, <1>1, <1>3 DEF DispatchEvent, Perform, Dispatching
<1> QED BY <1>1, <1>2, <1>3, <1>4

LEMMA DispatchedRuns ==
    ASSUME SessionTypes, NEW s, NEW t, NEW kept \in SUBSET runs, Dispatching(s, t, kept)
    PROVE  RunsOK'
BY StartedRuns DEF Dispatching, SessionTypes

LEMMA DispatchedIds ==
    ASSUME MachineOK, NEW s, NEW t, NEW kept, Dispatching(s, t, kept)
    PROVE  nextId <= nextId'
BY DEF Dispatching, Adopts, Sends, Start, MachineOK

LEMMA NextIdGrows ==
    ASSUME SessionTypes, [Next]_vars
    PROVE  nextId' \in Nat /\ nextId <= nextId'
<1> USE DEF sessionVars, outgoingVars, incomingVars, deliveryVars, intakeVars, outsideVars, peerVars, bounds
<1>0. MachineOK /\ nextId \in Nat \ {0}
  BY DEF SessionTypes, MachineOK
<1> SUFFICES nextId <= nextId'
  BY MachineStep DEF MachineOK
<1>s. UNCHANGED nextId => nextId <= nextId'
  BY <1>0
<1>1. CASE StoreStep
  BY <1>1, <1>s DEF StoreStep, StoreAccepts, StoreRejects, CallFails, AccountFull, Uninvolved
<1>2. CASE DriverStep
  <2>1. PICK r \in runs : BackOff(r) \/ Resend(r) \/ RequestEnds(r) \/ ResponseEnds(r) \/ ClearEnds(r)
    BY <1>2 DEF DriverStep
  <2>2. CASE RequestEnds(r)
    <3>1. CASE Failed(r) /\ ~disposed
      BY <1>0, <2>2, <3>1, FailureDispatches, DispatchedIds DEF Dispatches
    <3> QED BY <1>s, <2>2, <3>1 DEF RequestEnds
  <2> QED BY <2>1, <2>2, <1>s DEF BackOff, Resend, ResponseEnds, ClearEnds
<1>3. CASE InitStep
  <2>1. CASE InitFinishes
    BY <1>0, <2>1, InitDispatches, DispatchedIds
  <2> QED BY <1>3, <1>s, <2>1 DEF InitStep, InitQueryOwn, InitQueryPeer, InitQueryFails, InitRetries, InitLoaded,
                             InitAbandoned
<1>4. CASE DecoderStep
  <2>1. PICK st \in decoding : Dropped(st) \/ Nacked(st) \/ RequestArrives(st) \/ ResponseArrives(st)
    BY <1>4 DEF DecoderStep
  <2>2. CASE ResponseArrives(st)
    BY <1>0, <2>2, ResponseDispatches, DispatchedIds DEF Dispatches
  <2> QED BY <1>s, <2>1, <2>2 DEF Dropped, Nacked, RequestArrives
<1>5. CASE PeerRead \/ PeerAnswer
  BY <1>5, <1>s DEF PeerRead, PeerAnswer, PeerReads, PeerAnswers, Published
<1>6. CASE Application
  <2>1. ASSUME NEW m \in Message, SubmitRequestMessage(m) PROVE nextId <= nextId'
    BY <1>0, <2>1, SubmitDispatches, DispatchedIds DEF Dispatches
  <2> QED BY <1>6, <1>s, <2>1 DEF Application, SubmitResponseMessage, RespondAgain, Subscribe, Unsubscribe,
                             ClearOutgoingStatement, Dispose
<1>7. CASE Environment
  <2>1. ASSUME NEW devices \in Roster, RosterChanges(devices) PROVE nextId <= nextId'
    BY <1>0, <1>s, <2>1, RosterDispatches, DispatchedIds DEF Dispatches
  <2> QED BY <1>7, <1>s, <2>1 DEF Environment, PeerAsks, Published, Restart
<1>8. CASE UNCHANGED vars
  BY <1>8, <1>s DEF vars
<1> QED BY <1>1, <1>2, <1>3, <1>4, <1>5, <1>6, <1>7, <1>8 DEF Next

LEMMA AnsweredRuns ==
    ASSUME MachineOK, RunsOK, NEW r \in runs, r.pc = "sending", NEW error \in {"none", "transient", "priority"},
           NEW min \in Nat, runs' = Answered(r, error, min), UNCHANGED <<nextId, current, restarts>>
    PROVE  RunsOK'
<1> DEFINE x == [r EXCEPT !.pc = "answered", !.error = error, !.min = min]
<1>1. nextId \in Nat /\ current \in Nat /\ RunOK(r)
  BY DEF MachineOK, RunsOK
<1>2. \A y \in runs : RunOK(y)'
  BY <1>1, RunKept DEF RunsOK
<1>3. ASSUME r.owned PROVE RunOK(x)'
  BY <1>1, <1>3 DEF RunOK, Submission
<1>4. \A y \in runs' : y \in runs \/ (y = x /\ r.owned)
  BY DEF Answered
<1> HIDE DEF x
<1> QED BY <1>2, <1>3, <1>4 DEF RunsOK

\* The floor is only raised, and a submission less changes nothing.
LEMMA FloorRises ==
    ASSUME RunsOK, NEW r \in runs
    PROVE  FloorAfter(r) \in Nat /\ current <= FloorAfter(r)
BY DEF RunsOK, RunOK, Submission, FloorAfter, RaisedFloor

LEMMA FewerRuns ==
    ASSUME MachineOK, RunsOK, runs' \subseteq runs, current' \in Nat, current <= current',
           UNCHANGED <<nextId, restarts>>
    PROVE  RunsOK'
<1>1. nextId \in Nat /\ current \in Nat
  BY DEF MachineOK, RunsOK
<1> QED BY <1>1, RunKept DEF RunsOK

\* One submission more, sent with an expiry of its own.
LEMMA OneMoreRun ==
    ASSUME MachineOK, RunsOK, NEW policy \in {"request", "response", "clear"}, NEW body, NEW left \in 0..MaxSubmitRetries,
           policy = "response" => body \in AnswerBody,
           policy # "response" => body \in AskBody /\ body.id < nextId,
           current' = NextExpiry(current, Clock(restarts)),
           NEW kept \in SUBSET runs, runs' = kept \cup {Run(policy, body, current', left)},
           UNCHANGED <<nextId, restarts>>
    PROVE  RunsOK'
<1>1. nextId \in Nat /\ current \in Nat /\ current' \in Nat /\ current < current'
  BY ClockAdvances DEF MachineOK, RunsOK
<1>2. \A r \in runs : RunOK(r)'
  BY <1>1, RunKept DEF RunsOK
<1>r. PICK r : r = Run(policy, body, current', left)
  OBVIOUS
<1>3. /\ r \in Submission /\ r.policy = policy /\ r.body = body /\ r.expiry = current' /\ r.owned
      /\ r.pc = "sending" /\ r.expiry # 0
  BY <1>1, <1>r DEF Run, Submission
<1>4. runs' = kept \cup {r}
  BY <1>r
<1>5. RunOK(r)'
  BY <1>1, <1>3 DEF RunOK
<1> QED BY <1>1, <1>2, <1>4, <1>5 DEF RunsOK

LEMMA BackedOff ==
    ASSUME MachineOK, RunsOK, NEW r \in runs, BackOff(r)
    PROVE  RunsOK'
<1>x. PICK x : x = [r EXCEPT !.pc = "backoff", !.left = IF r.error = "transient" THEN @ - 1 ELSE @]
  OBVIOUS
<1>1. nextId \in Nat /\ current \in Nat /\ RunOK(r) /\ current' \in Nat /\ current <= current'
  BY FloorRises DEF MachineOK, RunsOK, BackOff
<1>2. UNCHANGED <<nextId, restarts>> /\ runs' = (runs \ {r}) \cup {x}
  BY <1>x DEF BackOff, outsideVars, bounds
<1>3. \A y \in runs : RunOK(y)'
  BY <1>1, <1>2, RunKept DEF RunsOK
<1>4. r.pc = "answered" /\ r.error # "none" /\ ~(r.error = "transient" /\ r.left = 0)
  BY DEF BackOff, Ends, GivesUp
<1>l. (IF r.error = "transient" THEN r.left - 1 ELSE r.left) \in 0..MaxSubmitRetries
  BY <1>1, <1>4, SessionAssumption DEF RunOK, Submission
<1>5. /\ x \in Submission /\ x.policy = r.policy /\ x.body = r.body /\ x.expiry = r.expiry /\ x.owned = r.owned
      /\ x.pc = "backoff" /\ x.error = r.error
  BY <1>1, <1>x, <1>l DEF RunOK, Submission
<1>e. r.expiry \in Nat
  BY <1>1 DEF RunOK, Submission
<1>6. RunOK(x)'
  BY <1>1, <1>2, <1>4, <1>5, <1>e DEF RunOK
<1> QED BY <1>1, <1>2, <1>3, <1>6 DEF RunsOK

LEMMA RunsKept == MachineOK /\ RunsOK /\ UNCHANGED <<runs, current, nextId, restarts>> => RunsOK'
BY FewerRuns DEF RunsOK

LEMMA MaxOfFew ==
    ASSUME NEW a \in Nat, NEW b \in Nat, NEW S \in SUBSET {0, a, b}, 0 \in S
    PROVE  Max(S) \in Nat /\ \A x \in S : x <= Max(S)
<1>1. \E m \in S : \A y \in S : m >= y
  <2>1. CASE a \in S /\ (b \notin S \/ b <= a)
    BY <2>1
  <2>2. CASE b \in S /\ (a \notin S \/ a <= b)
    BY <2>2
  <2>3. CASE a \notin S /\ b \notin S
    BY <2>3
  <2> QED BY <2>1, <2>2, <2>3
<1>2. Max(S) \in S /\ \A y \in S : Max(S) >= y
  BY <1>1 DEF Max
<1>3. S \subseteq Nat
  OBVIOUS
<1> QED BY <1>2, <1>3

\* The floor init raises: above what our channels held.
LEMMA LoadedFloor ==
    ASSUME SessionTypes, InitLoaded
    PROVE  /\ current' \in Nat /\ current <= current'
           /\ \A f \in init.own, c \in {"request", "response"} : f[c] # None => f[c].expiry <= current'
<1>1. PICK f \in init.own : TRUE
  BY DEF InitLoaded
<1>2. ChannelsOK(f) /\ \A g \in init.own : g = f
  BY DEF SessionTypes, InitOK, InitLoaded
<1> DEFINE ours == UNION {Held(channels) : channels \in init.own}
           S == {0} \cup {st.expiry : st \in ours}
           height(c) == IF f[c] = None THEN 0 ELSE f[c].expiry
<1>3. current' = RaisedFloor(current, Max(S)) /\ current \in Nat
  BY DEF InitLoaded, SessionTypes, RunsOK
<1>4. ours = {f["request"], f["response"]} \ {None}
  BY <1>2 DEF Held
<1>5. height("request") \in Nat /\ height("response") \in Nat
  BY <1>2 DEF ChannelsOK, Slot
<1> HIDE DEF ours
<1>6. S \in SUBSET {0, height("request"), height("response")} /\ 0 \in S
  BY <1>4
<1>7. \A c \in {"request", "response"} : f[c] # None => f[c].expiry \in S
  BY <1>4
<1> HIDE DEF S, height
<1>8. Max(S) \in Nat /\ \A x \in S : x <= Max(S)
  BY <1>5, <1>6, MaxOfFew
<1>9. current' \in Nat /\ current <= current' /\ Max(S) <= current'
  BY <1>3, <1>8 DEF RaisedFloor
<1>10. \A c \in {"request", "response"} : f[c] # None => f[c].expiry <= current'
  <2> SUFFICES ASSUME NEW c \in {"request", "response"}, f[c] # None PROVE f[c].expiry <= current'
    OBVIOUS
  <2>1. f[c].expiry \in Nat
    BY <1>2 DEF ChannelsOK, Slot
  <2> QED BY <1>7, <1>8, <1>9, <2>1
<1> QED BY <1>2, <1>9, <1>10

LEMMA RunsStep ==
    ASSUME SessionTypes, [Next]_vars
    PROVE  RunsOK'
<1> USE DEF sessionVars, outgoingVars, incomingVars, deliveryVars, intakeVars, outsideVars, peerVars, bounds
<1>0. MachineOK /\ RunsOK /\ ChannelsOK(own) /\ InitOK /\ OutsideOK
  BY DEF SessionTypes
<1>m. MaxSubmitRetries \in Nat /\ 0 \in 0..MaxSubmitRetries /\ MaxSubmitRetries \in 0..MaxSubmitRetries
  BY SessionAssumption
<1>1. CASE StoreStep
  <2>1. PICK r \in runs : StoreAccepts(r) \/ StoreRejects(r) \/ CallFails(r) \/ AccountFull(r)
    BY <1>1 DEF StoreStep
  <2>2. r.pc = "sending" /\ UNCHANGED <<nextId, current, restarts>>
    BY <2>1 DEF StoreAccepts, StoreRejects, CallFails, AccountFull, Uninvolved
  <2>3. RunOK(r) /\ r.expiry \in Nat
    BY <1>0 DEF RunsOK, RunOK, Submission
  <2>4. \E error \in {"none", "transient", "priority"}, min \in Nat : runs' = Answered(r, error, min)
    <3>1. CASE StoreAccepts(r)
      BY <3>1 DEF StoreAccepts
    <3>2. CASE StoreRejects(r)
      <4>1. own[Channel(r)].expiry \in Nat
        BY <1>0, <2>3, <3>2 DEF StoreRejects, Occupied, Channel, ChannelsOK, Slot, RunOK, Submission, AskBody, AnswerBody
      <4> QED BY <3>2, <4>1 DEF StoreRejects
    <3>3. CASE CallFails(r)
      BY <3>3 DEF CallFails
    <3>4. CASE AccountFull(r)
      BY <2>3, <3>4 DEF AccountFull
    <3> QED BY <2>1, <3>1, <3>2, <3>3, <3>4
  <2> QED BY <1>0, <2>2, <2>4, AnsweredRuns
<1>2. CASE DriverStep
  <2>1. PICK r \in runs : BackOff(r) \/ Resend(r) \/ RequestEnds(r) \/ ResponseEnds(r) \/ ClearEnds(r)
    BY <1>2 DEF DriverStep
  <2>2. CASE BackOff(r)
    BY <1>0, <2>2, BackedOff
  <2>3. CASE Resend(r)
    <3>1. RunOK(r) /\ r.policy \in {"request", "response", "clear"} /\ r.left \in 0..MaxSubmitRetries
      BY <1>0 DEF RunsOK, RunOK, Submission
    <3>2. /\ current' = NextExpiry(current, Clock(restarts)) /\ UNCHANGED <<nextId, restarts>>
          /\ runs' = (runs \ {r}) \cup {Run(r.policy, r.body, current', r.left)}
      BY <2>3 DEF Resend
    <3>3. /\ r.policy = "response" => r.body \in AnswerBody
          /\ r.policy # "response" => r.body \in AskBody /\ r.body.id < nextId
      BY <3>1 DEF RunOK
    <3>4. runs \ {r} \in SUBSET runs
      OBVIOUS
    <3> QED BY <1>0, <3>1, <3>2, <3>3, <3>4, OneMoreRun
  <2>4. CASE RequestEnds(r) \/ ResponseEnds(r) \/ ClearEnds(r)
    <3>1. CASE RequestEnds(r) /\ Failed(r) /\ ~disposed
      <4>1. \E s, t : Dispatching(s, t, runs \ {r})
        BY <3>1, FailureDispatches DEF Dispatches
      <4> QED BY <4>1, DispatchedRuns
    <3>2. CASE ~(RequestEnds(r) /\ Failed(r) /\ ~disposed)
      <4>1. runs' \subseteq runs /\ current' = FloorAfter(r) /\ UNCHANGED <<nextId, restarts>>
        BY <2>4, <3>2 DEF RequestEnds, ResponseEnds, ClearEnds
      <4> QED BY <1>0, <4>1, FloorRises, FewerRuns
    <3> QED BY <3>1, <3>2
  <2> QED BY <2>1, <2>2, <2>3, <2>4
<1>3. CASE InitStep
  <2>1. CASE InitFinishes
    BY <2>1, InitDispatches, DispatchedRuns
  <2>2. CASE InitLoaded
    BY <1>0, <2>2, LoadedFloor, FewerRuns DEF InitLoaded
  <2> QED BY <1>0, <1>3, <2>1, <2>2, RunsKept
          DEF InitStep, InitQueryOwn, InitQueryPeer, InitQueryFails, InitRetries, InitAbandoned
<1>a. ASSUME NEW x, NEW q \in PeerRequest, StartResponse(x, q), UNCHANGED <<nextId, restarts>> PROVE RunsOK'
  <2>1. ResponseBody(q) \in AnswerBody
    BY <1>0 DEF ResponseBody, AnswerBody, OutsideOK
  <2>2. /\ current' = NextExpiry(current, Clock(restarts))
        /\ runs' = runs \cup {Run("response", ResponseBody(q), current', MaxSubmitRetries)}
    BY <1>a DEF StartResponse, Run
  <2> QED BY <1>0, <1>m, <1>a, <2>1, <2>2, OneMoreRun
<1>4. CASE DecoderStep
  <2>1. PICK st \in decoding : Dropped(st) \/ Nacked(st) \/ RequestArrives(st) \/ ResponseArrives(st)
    BY <1>4 DEF DecoderStep
  <2>2. CASE Nacked(st)
    <3>1. st.id \in PeerRequest
      BY <1>0, <2>2, ArrivedRequest DEF Nacked
    <3>2. UNCHANGED <<nextId, restarts>>
      BY <2>2 DEF Nacked, Decoded
    <3>3. CASE UNCHANGED <<current, runs>>
      BY <1>0, <3>2, <3>3, RunsKept
    <3> QED BY <1>a, <2>2, <3>1, <3>2, <3>3 DEF Nacked
  <2>3. CASE ResponseArrives(st)
    BY <2>3, ResponseDispatches, DispatchedRuns DEF Dispatches
  <2> QED BY <1>0, <2>1, <2>2, <2>3, RunsKept DEF Dropped, RequestArrives, Decoded
<1>5. CASE PeerRead \/ PeerAnswer
  BY <1>0, <1>5, RunsKept DEF PeerRead, PeerAnswer, PeerReads, PeerAnswers, Published
<1>6. CASE Application
  <2>1. ASSUME NEW m \in Message, SubmitRequestMessage(m) PROVE RunsOK'
    BY <2>1, SubmitDispatches, DispatchedRuns DEF Dispatches
  <2>2. ASSUME NEW q \in PeerRequest, SubmitResponseMessage(q) PROVE RunsOK'
    BY <1>a, <2>2 DEF SubmitResponseMessage
  <2>3. CASE ClearOutgoingStatement
    <3>1. CASE UNCHANGED <<current, runs>>
      BY <1>0, <2>3, <3>1, RunsKept DEF ClearOutgoingStatement
    <3> DEFINE empty == RequestBody(LiveRequestId(machine), <<>>, roster)
    <3>2. CASE /\ IsLive(machine.outgoing) /\ current' = NextExpiry(current, Clock(restarts))
               /\ runs' = runs \cup {Run("clear", empty, current', 0)}
      <4>1. nextId \in Nat /\ LiveRequestId(machine) \in 1..nextId - 1
        BY <1>0, <3>2, LiveIdType DEF MachineOK
      <4>2. empty \in AskBody /\ empty.id < nextId
        BY <1>0, <4>1 DEF RequestBody, AskBody, OutsideOK
      <4>3. UNCHANGED <<nextId, restarts>>
        BY <2>3 DEF ClearOutgoingStatement
      <4> HIDE DEF empty
      <4> QED BY <1>0, <1>m, <3>2, <4>2, <4>3, OneMoreRun
    <3> QED BY <2>3, <3>1, <3>2 DEF ClearOutgoingStatement
  <2> QED BY <1>0, <1>6, <2>1, <2>2, <2>3, RunsKept DEF Application, RespondAgain, Subscribe, Unsubscribe, Dispose
<1>7. CASE Environment
  <2>1. ASSUME NEW devices \in Roster, RosterChanges(devices) PROVE RunsOK'
    BY <1>0, <2>1, RosterDispatches, DispatchedRuns, RunsKept DEF Dispatches
  <2>2. CASE Restart
    <3>1. /\ restarts' \in 0..MaxRestarts /\ current' = 0 /\ runs' = Orphans /\ nextId' = nextId
      BY <1>0, <2>2, SessionAssumption DEF Restart, RunsOK
    <3>2. ASSUME NEW r \in Orphans PROVE RunOK(r)'
      <4>1. PICK x \in runs : x.pc = "sending" /\ r = [x EXCEPT !.owned = FALSE]
        BY DEF Orphans
      <4>2. RunOK(x)
        BY <1>0 DEF RunsOK
      <4> QED BY <3>1, <4>1, <4>2 DEF RunOK, Submission
    <3> QED BY <3>1, <3>2 DEF RunsOK
  <2> QED BY <1>0, <1>7, <2>1, <2>2, RunsKept DEF Environment, PeerAsks, Published
<1>8. CASE UNCHANGED vars
  BY <1>0, <1>8, RunsKept DEF vars
<1> QED BY <1>1, <1>2, <1>3, <1>4, <1>5, <1>6, <1>7, <1>8 DEF Next

-----------------------------------------------------------------------------
(* Our channels in the store *)

LEMMA AskKeeps ==
    ASSUME nextId \in Nat, nextId' \in Nat, nextId <= nextId', NEW body \in AskBody, body.id < nextId
    PROVE  body.id < nextId'
BY DEF AskBody

LEMMA ChannelsKept ==
    ASSUME NEW f, ChannelsOK(f), nextId \in Nat, nextId' \in Nat, nextId <= nextId'
    PROVE  ChannelsOK(f)'
BY AskKeeps DEF ChannelsOK

LEMMA ChannelKind ==
    ASSUME RunsOK, NEW r \in runs
    PROVE  /\ r.policy = "response" => Channel(r) = "response"
           /\ r.policy # "response" => Channel(r) = "request"
           /\ Channel(r) \in {"request", "response"} /\ r.expiry \in Nat
BY DEF RunsOK, RunOK, Submission, AskBody, AnswerBody, Channel

\* Our channels change only by a submit call that the store accepts.
LEMMA OnlyCallsWrite ==
    ASSUME SessionTypes, [Next]_vars
    PROVE  \/ UNCHANGED own
           \/ \E r \in runs : r.pc = "sending" /\ ~Occupied(r) /\ own' = Stored(r) /\ StoreStep
<1> USE DEF sessionVars, outgoingVars, incomingVars, deliveryVars, intakeVars, outsideVars, peerVars, bounds
<1>1. CASE StoreStep
  BY <1>1 DEF StoreStep, StoreAccepts, StoreRejects, CallFails, AccountFull
<1>2. CASE DriverStep
  BY <1>2 DEF DriverStep, BackOff, Resend, RequestEnds, ResponseEnds, ClearEnds
<1>3. CASE InitStep
  BY <1>3 DEF InitStep, InitQueryOwn, InitQueryPeer, InitQueryFails, InitRetries, InitLoaded, InitFinishes,
              InitAbandoned
<1>4. CASE DecoderStep
  BY <1>4 DEF DecoderStep, Dropped, Nacked, RequestArrives, ResponseArrives, Decoded
<1>5. CASE PeerRead \/ PeerAnswer
  BY <1>5 DEF PeerRead, PeerAnswer, PeerReads, PeerAnswers, Published
<1>6. CASE Application
  BY <1>6 DEF Application, SubmitRequestMessage, SubmitResponseMessage, RespondAgain, Subscribe, Unsubscribe,
              ClearOutgoingStatement, Dispose
<1>7. CASE Environment
  BY <1>7 DEF Environment, PeerAsks, Published, RosterChanges, Restart
<1>8. CASE UNCHANGED vars
  BY <1>8 DEF vars
<1> QED BY <1>1, <1>2, <1>3, <1>4, <1>5, <1>6, <1>7, <1>8 DEF Next

LEMMA StoredFacts ==
    ASSUME SessionTypes, NEW r \in runs, r.pc = "sending"
    PROVE  /\ ChannelsOK(Stored(r)) /\ Channel(r) \in {"request", "response"}
           /\ Stored(r)[Channel(r)] = [expiry |-> r.expiry, body |-> r.body]
           /\ \A c \in {"request", "response"} : c # Channel(r) => Stored(r)[c] = own[c]
<1>1. RunOK(r) /\ ChannelsOK(own) /\ RunsOK
  BY DEF SessionTypes, RunsOK
<1>2. r.expiry \in Nat \ {0} /\ r.body \in AskBody \cup AnswerBody
  BY <1>1 DEF RunOK, Submission
<1>3. [expiry |-> r.expiry, body |-> r.body] \in Slot(AskBody \cup AnswerBody)
  BY <1>2 DEF Slot
<1>4. own \in [{"request", "response"} -> Slot(AskBody \cup AnswerBody)]
  BY <1>1 DEF ChannelsOK
<1>5. /\ Stored(r) \in [{"request", "response"} -> Slot(AskBody \cup AnswerBody)]
      /\ Channel(r) \in {"request", "response"}
      /\ Stored(r)[Channel(r)] = [expiry |-> r.expiry, body |-> r.body]
      /\ \A c \in {"request", "response"} : c # Channel(r) => Stored(r)[c] = own[c]
  BY <1>1, <1>3, <1>4, ChannelKind DEF Stored
<1>6. r.policy = "response" => Channel(r) = "response" /\ r.body \in AnswerBody
  BY <1>1, ChannelKind DEF RunOK
<1>7. r.policy # "response" => Channel(r) = "request" /\ r.body \in AskBody /\ r.body.id < nextId
  BY <1>1, ChannelKind DEF RunOK
<1> QED BY <1>1, <1>5, <1>6, <1>7 DEF ChannelsOK

LEMMA ChannelsStep ==
    ASSUME SessionTypes, [Next]_vars
    PROVE  ChannelsOK(own)'
<1>1. nextId \in Nat /\ nextId' \in Nat /\ nextId <= nextId'
  BY NextIdGrows DEF SessionTypes, MachineOK
<1>2. PICK f : f = own' /\ ChannelsOK(f)
  <2>1. CASE UNCHANGED own
    BY <2>1 DEF SessionTypes
  <2>2. CASE \E r \in runs : r.pc = "sending" /\ own' = Stored(r)
    BY <2>2, StoredFacts
  <2> QED BY <2>1, <2>2, OnlyCallsWrite
<1>3. ChannelsOK(f)'
  BY <1>1, <1>2, ChannelsKept
<1> QED BY <1>2, <1>3 DEF ChannelsOK

-----------------------------------------------------------------------------
(* init and what it found *)

LEMMA InitKept ==
    ASSUME SessionTypes, [Next]_vars, UNCHANGED init, init.pc # "ended" => machine'.phase = machine.phase
    PROVE  InitOK'
<1>1. nextId \in Nat /\ nextId' \in Nat /\ nextId <= nextId' /\ InitOK
  BY NextIdGrows DEF SessionTypes, MachineOK
<1>2. ASSUME init.pc = "querying" PROVE \A f \in init.own : ChannelsOK(f)'
  BY <1>1, <1>2, ChannelsKept DEF InitOK
<1>3. ASSUME init.pc = "decoding", NEW body \in init.own, body.kind = "request" PROVE body.id < nextId'
  <2>1. body \in AskBody /\ body.id < nextId
    BY <1>1, <1>3 DEF InitOK, AnswerBody
  <2> QED BY <1>1, <2>1, AskKeeps
<1> QED BY <1>1, <1>2, <1>3 DEF InitOK

LEMMA InitEnds ==
    ASSUME init' = Idle
    PROVE  InitOK'
<1>1. init' = [pc |-> "ended", retries |-> 0, specs |-> {}, own |-> {}, peer |-> {}]
  BY DEF Idle, Queries
<1> QED BY <1>1, SessionAssumption DEF InitOK

LEMMA InitAsks ==
    ASSUME NEW n \in 0..MaxInitRetries, NEW specs \in SUBSET Device, machine'.phase = "initialization",
           init' = Queries(n, specs) \/ init' = [Queries(n, specs) EXCEPT !.pc = "backoff"]
    PROVE  InitOK'
<1>1. PICK pc \in {"querying", "backoff"} : init' = [pc |-> pc, retries |-> n, specs |-> specs, own |-> {}, peer |-> {}]
  BY DEF Queries
<1> QED BY <1>1 DEF InitOK

LEMMA InitStepKeeps ==
    ASSUME SessionTypes, [Next]_vars, InitStep
    PROVE  InitOK'
<1> USE DEF sessionVars, outgoingVars, incomingVars, deliveryVars, intakeVars, outsideVars, peerVars, bounds
<1>0. InitOK /\ ChannelsOK(own) /\ OutsideOK
  BY DEF SessionTypes
<1>n. nextId \in Nat
  BY DEF SessionTypes, MachineOK
<1>1. CASE InitQueryOwn
  <2>1. init' = [pc |-> "querying", retries |-> init.retries, specs |-> init.specs, own |-> {own}, peer |-> init.peer]
    BY <1>0, <1>1 DEF InitQueryOwn, InitOK
  <2>2. UNCHANGED <<machine, nextId, own>> /\ init.pc = "querying"
    BY <1>1 DEF InitQueryOwn
  <2>3. ChannelsOK(own)'
    BY ChannelsStep
  <2>f. PICK f : f = own
    OBVIOUS
  <2>4. ChannelsOK(f)'
    BY <2>2, <2>3, <2>f DEF ChannelsOK
  <2> QED BY <1>0, <2>1, <2>2, <2>4, <2>f DEF InitOK
<1>2. CASE InitQueryPeer
  <2>1. init' = [pc |-> "querying", retries |-> init.retries, specs |-> init.specs, own |-> init.own,
                 peer |-> {[d \in init.specs |-> peer[d]]}]
    BY <1>0, <1>2 DEF InitQueryPeer, InitOK
  <2>2. UNCHANGED <<machine, nextId>> /\ init.pc = "querying"
    BY <1>2 DEF InitQueryPeer
  <2>3. [d \in init.specs |-> peer[d]] \in [init.specs -> PeerChannels]
    BY <1>0 DEF InitOK, OutsideOK
  <2>4. \A f \in init.own : ChannelsOK(f)'
    BY <1>0, <1>n, <2>2, ChannelsKept DEF InitOK
  <2> QED BY <1>0, <2>1, <2>2, <2>3, <2>4 DEF InitOK
<1>3. CASE InitQueryFails
  <2>1. CASE init' = Idle
    BY <2>1, InitEnds
  <2>2. CASE ~disposed /\ init.retries < MaxInitRetries
    <3>1. init' = [Queries(init.retries + 1, {}) EXCEPT !.pc = "backoff"] /\ UNCHANGED machine
      BY <1>3, <2>2 DEF InitQueryFails
    <3>2. init.retries + 1 \in 0..MaxInitRetries /\ {} \in SUBSET Device
      BY <1>0, <2>2, SessionAssumption DEF InitOK
    <3>3. machine'.phase = "initialization"
      BY <1>0, <1>3, <3>1 DEF InitQueryFails, InitOK
    <3> QED BY <3>1, <3>2, <3>3, InitAsks
  <2> QED BY <1>3, <2>1, <2>2 DEF InitQueryFails
<1>4. CASE InitRetries
  <2>1. init' = Queries(init.retries, topics) /\ UNCHANGED machine /\ init.pc = "backoff"
    BY <1>4 DEF InitRetries
  <2> QED BY <1>0, <2>1, InitAsks DEF InitOK, OutsideOK
<1>5. CASE InitLoaded
  <2> DEFINE ours == UNION {Held(channels) : channels \in init.own}
             theirs == UNION {UNION {Held(found[d]) : d \in DOMAIN found} : found \in init.peer}
  <2>1. init' = [pc |-> "decoding", retries |-> 0, specs |-> init.specs, own |-> ReadBack(ours),
                 peer |-> {st \in theirs : st.form = "readable"}]
    BY <1>0, <1>5 DEF InitLoaded, InitOK
  <2>2. UNCHANGED <<machine, nextId>> /\ init.pc = "querying"
    BY <1>5 DEF InitLoaded
  <2>3. \A st \in ours : st.body \in AskBody \cup AnswerBody /\ (st.body.kind = "request" => st.body.id < nextId)
    <3> SUFFICES ASSUME NEW st \in ours
                 PROVE  st.body \in AskBody \cup AnswerBody /\ (st.body.kind = "request" => st.body.id < nextId)
      OBVIOUS
    <3>1. PICK f \in init.own, c \in {"request", "response"} : st = f[c] /\ st # None
      BY DEF Held
    <3>2. ChannelsOK(f)
      BY <1>0, <2>2 DEF InitOK
    <3> QED BY <3>1, <3>2 DEF ChannelsOK, Slot, AnswerBody
  <2>4. ReadBack(ours) \subseteq AskBody \cup AnswerBody /\ \A body \in ReadBack(ours) : body.kind = "request" => body.id < nextId
    BY <2>3 DEF ReadBack
  <2>5. theirs \subseteq Arrived
    <3> SUFFICES ASSUME NEW st \in theirs PROVE st \in Arrived
      OBVIOUS
    <3>0. PICK found \in init.peer : st \in UNION {Held(found[d]) : d \in DOMAIN found}
      OBVIOUS
    <3>1. PICK d \in DOMAIN found, c \in {"request", "response"} : st = found[d][c] /\ st # None
      BY <3>0 DEF Held
    <3>2. found \in [init.specs -> PeerChannels]
      BY <1>0, <2>2 DEF InitOK
    <3>3. found[d] \in PeerChannels
      BY <3>1, <3>2
    <3> QED BY <3>1, <3>3 DEF PeerChannels
  <2> HIDE DEF ours, theirs
  <2> QED BY <1>0, <2>1, <2>2, <2>4, <2>5, SessionAssumption DEF InitOK
<1>6. CASE InitFinishes \/ InitAbandoned
  BY <1>6, InitEnds DEF InitFinishes, InitAbandoned
<1> QED BY <1>1, <1>2, <1>3, <1>4, <1>5, <1>6 DEF InitStep

LEMMA InitOKStep ==
    ASSUME SessionTypes, [Next]_vars
    PROVE  InitOK'
<1> USE DEF sessionVars, outgoingVars, incomingVars, deliveryVars, intakeVars, outsideVars, peerVars, bounds
<1>0. MachineOK /\ RunsOK /\ OutsideOK /\ InitOK
  BY DEF SessionTypes
<1>m. machine \in R!Machine
  BY <1>0 DEF MachineOK
<1>s. UNCHANGED <<machine, init>> => InitOK'
  BY InitKept
<1>d. ASSUME NEW s, NEW t, NEW kept, Dispatches(s, t, kept) PROVE InitOK'
  BY <1>d, InitKept DEF Dispatches, Dispatching, Start
<1>1. CASE StoreStep
  BY <1>1, <1>s DEF StoreStep, StoreAccepts, StoreRejects, CallFails, AccountFull, Uninvolved
<1>2. CASE DriverStep
  <2>1. PICK r \in runs : BackOff(r) \/ Resend(r) \/ RequestEnds(r) \/ ResponseEnds(r) \/ ClearEnds(r)
    BY <1>2 DEF DriverStep
  <2>2. CASE RequestEnds(r)
    <3>1. CASE Failed(r) /\ ~disposed
      BY <1>d, <2>2, <3>1, FailureDispatches
    <3> QED BY <1>s, <2>2, <3>1 DEF RequestEnds
  <2>3. CASE ResponseEnds(r)
    <3>1. r.body.id \in PeerRequest
      BY <1>0, <2>3 DEF ResponseEnds, RunsOK, RunOK, AnswerBody
    <3>2. machine' \in {machine, ResponseSubmitFailed(machine, r.body.id).state} /\ UNCHANGED init
      BY <2>3 DEF ResponseEnds
    <3>3. ResponseSubmitFailed(machine, r.body.id).state.phase = machine.phase
      BY <1>m, <3>1, AnswersKeepPhase
    <3>4. machine'.phase = machine.phase
      BY <3>2, <3>3
    <3> QED BY <3>2, <3>4, InitKept
  <2> QED BY <1>s, <2>1, <2>2, <2>3 DEF BackOff, Resend, ClearEnds
<1>3. CASE InitStep
  BY <1>3, InitStepKeeps
<1>4. CASE DecoderStep
  <2>1. PICK st \in decoding : Dropped(st) \/ Nacked(st) \/ RequestArrives(st) \/ ResponseArrives(st)
    BY <1>4 DEF DecoderStep
  <2>2. CASE Nacked(st)
    <3>1. st.id \in PeerRequest
      BY <1>0, <2>2, ArrivedRequest DEF Nacked
    <3> DEFINE x == RequestReceived(machine, st.id).state
    <3>2. x \in R!Machine /\ x.phase = machine.phase
      BY <1>m, <3>1, IncomingEvents
    <3>3. machine' \in {x, ResponseSubmitted(x, st.id).state} /\ UNCHANGED init
      BY <2>2 DEF Nacked, StartResponse, Decoded
    <3> HIDE DEF x
    <3>4. ResponseSubmitted(x, st.id).state.phase = x.phase
      BY <3>1, <3>2, AnswersKeepPhase
    <3>5. machine'.phase = machine.phase
      BY <3>2, <3>3, <3>4
    <3> QED BY <3>3, <3>5, InitKept
  <2>3. CASE RequestArrives(st)
    <3>1. st.id \in PeerRequest
      BY <1>0, <2>3, ArrivedRequest DEF RequestArrives
    <3>2. machine'.phase = machine.phase /\ UNCHANGED init
      BY <1>m, <2>3, <3>1, IncomingEvents DEF RequestArrives, Decoded
    <3> QED BY <3>2, InitKept
  <2>4. CASE ResponseArrives(st)
    BY <1>d, <2>4, ResponseDispatches
  <2> QED BY <1>s, <2>1, <2>2, <2>3, <2>4 DEF Dropped, Decoded
<1>5. CASE PeerRead \/ PeerAnswer
  BY <1>5, <1>s DEF PeerRead, PeerAnswer, PeerReads, PeerAnswers, Published
<1>6. CASE Application
  <2>1. ASSUME NEW m \in Message, SubmitRequestMessage(m) PROVE InitOK'
    BY <1>d, <2>1, SubmitDispatches
  <2>2. ASSUME NEW q \in PeerRequest, SubmitResponseMessage(q) PROVE InitOK'
    BY <1>m, <2>2, IncomingEvents, InitKept DEF SubmitResponseMessage, StartResponse
  <2>3. ASSUME ClearOutgoingStatement \/ Dispose PROVE InitOK'
    <3>1. machine'.phase = machine.phase
      BY <1>m, <2>3 DEF ClearOutgoingStatement, Dispose, OutgoingCleared, Unchanged, R!Machine
    <3>2. init' = Idle \/ UNCHANGED init
      BY <2>3 DEF ClearOutgoingStatement, Dispose
    <3> QED BY <3>1, <3>2, InitKept, InitEnds
  <2> QED BY <1>6, <1>s, <2>1, <2>2, <2>3 DEF Application, RespondAgain, Subscribe, Unsubscribe
<1>7. CASE Environment
  <2>1. ASSUME NEW devices \in Roster, RosterChanges(devices) PROVE InitOK'
    BY <1>d, <1>s, <2>1, RosterDispatches
  <2>2. CASE Restart
    <3>1. /\ machine'.phase = "initialization" /\ init' = Queries(0, roster)
          /\ roster \in SUBSET Device /\ 0 \in 0..MaxInitRetries
      BY <1>0, <2>2, SessionAssumption DEF Restart, InitialSessionState, OutsideOK
    <3> QED BY <3>1, InitAsks
  <2> QED BY <1>7, <1>s, <2>1, <2>2 DEF Environment, PeerAsks, Published
<1>8. CASE UNCHANGED vars
  BY <1>8, <1>s DEF vars
<1> QED BY <1>1, <1>2, <1>3, <1>4, <1>5, <1>6, <1>7, <1>8 DEF Next

-----------------------------------------------------------------------------
(* The peer, and what the session knows of it *)

outsideSide == <<roster, topics, peer, seen, decoding, heard, owed, subscribers, buffered, resolved, got>>

LEMMA LiveTokensType ==
    ASSUME MachineOK
    PROVE  LiveTokens(machine) \subseteq Token
<1>1. machine.outgoing.tokens \subseteq Token
  BY SameTypes DEF MachineOK, R!Machine, R!Batch
<1>2. TokensOf(machine.queue) \subseteq Token
  BY SameTypes, R!TokensType, ReducerAssumption DEF MachineOK, R!Machine
<1> QED BY <1>1, <1>2 DEF LiveTokens

LEMMA OutsideStep ==
    ASSUME SessionTypes, [Next]_vars
    PROVE  OutsideOK'
<1> USE DEF sessionVars, outgoingVars, incomingVars, deliveryVars, intakeVars, outsideVars, peerVars, bounds
<1>0. MachineOK /\ RunsOK /\ OutsideOK /\ InitOK /\ ChannelsOK(own)
  BY DEF SessionTypes
<1>n. nextId \in Nat /\ nextId' \in Nat /\ nextId <= nextId'
  BY NextIdGrows DEF SessionTypes, MachineOK
<1>s. UNCHANGED outsideSide => OutsideOK'
  BY <1>0, <1>n DEF outsideSide, OutsideOK
<1>r. ASSUME UNCHANGED <<roster, topics, peer, seen, heard, owed, subscribers, buffered, got>>,
             decoding' \subseteq decoding, resolved' \subseteq Token
      PROVE  OutsideOK'
  BY <1>0, <1>n, <1>r DEF OutsideOK
<1>d. ASSUME NEW q \in PeerRequest, Deliver(q), UNCHANGED <<roster, topics, peer, seen, heard, owed>>,
             decoding' \subseteq decoding, resolved' \subseteq Token
      PROVE  OutsideOK'
  <2>1. got' \in [Subscriber -> [PeerRequest -> Nat]]
    BY <1>0, <1>d DEF Deliver, OutsideOK
  <2>2. subscribers' \subseteq Subscriber /\ buffered' \subseteq PeerRequest
    BY <1>0, <1>d DEF Deliver, OutsideOK
  <2> QED BY <1>0, <1>n, <1>d, <2>1, <2>2 DEF OutsideOK
<1>p. resolved \subseteq Token
  BY <1>0 DEF OutsideOK
<1>q. ASSUME NEW t, t.effects.tokens \subseteq LiveTokens(machine),
             NEW kept, Perform(t, kept)
      PROVE  resolved' \subseteq Token
  BY <1>0, <1>p, <1>q, LiveTokensType DEF Perform
<1>1. CASE StoreStep
  BY <1>1, <1>s DEF StoreStep, StoreAccepts, StoreRejects, CallFails, AccountFull, Uninvolved, outsideSide
<1>2. CASE DriverStep
  <2>1. PICK r \in runs : BackOff(r) \/ Resend(r) \/ RequestEnds(r) \/ ResponseEnds(r) \/ ClearEnds(r)
    BY <1>2 DEF DriverStep
  <2>2. CASE RequestEnds(r)
    <3> DEFINE t == RequestSubmitFailed(machine, r.body.id, roster, nextId)
    <3>1. t.effects.tokens \subseteq LiveTokens(machine)
      BY <1>0, EndedEvents
    <3>2. Perform(t, runs \ {r}) \/ UNCHANGED resolved
      BY <2>2 DEF RequestEnds
    <3> HIDE DEF t
    <3>3. resolved' \subseteq Token
      BY <1>p, <1>q, <3>1, <3>2
    <3> QED BY <1>r, <2>2, <3>3 DEF RequestEnds
  <2>3. CASE ResponseEnds(r)
    BY <1>0, <1>n, <2>3 DEF ResponseEnds, Pruned, OutsideOK
  <2> QED BY <1>s, <2>1, <2>2, <2>3 DEF BackOff, Resend, ClearEnds, outsideSide
<1>3. CASE InitStep
  <2>1. CASE InitLoaded
    <3> DEFINE theirs == UNION {UNION {Held(found[d]) : d \in DOMAIN found} : found \in init.peer}
    <3>1. theirs \subseteq Arrived
      <4> SUFFICES ASSUME NEW st \in theirs PROVE st \in Arrived
        OBVIOUS
      <4>1. PICK found \in init.peer : st \in UNION {Held(found[d]) : d \in DOMAIN found}
        OBVIOUS
      <4>2. PICK d \in DOMAIN found, c \in {"request", "response"} : st = found[d][c] /\ st # None
        BY <4>1 DEF Held
      <4>3. found \in [init.specs -> PeerChannels]
        BY <1>0, <2>1 DEF InitOK, InitLoaded
      <4>4. found[d] \in PeerChannels
        BY <4>2, <4>3
      <4> QED BY <4>2, <4>4 DEF PeerChannels
    <3>2. seen' = seen \cup theirs
      BY <2>1 DEF InitLoaded
    <3> HIDE DEF theirs
    <3> QED BY <1>0, <1>n, <2>1, <3>1, <3>2 DEF InitLoaded, OutsideOK
  <2>2. CASE InitFinishes
    <3>1. PICK s, t : DispatchEvent(t) /\ t.effects.tokens = {} /\ Tracks(s.incoming)
      BY <1>0, <2>2, InitEvent
    <3>2. resolved' \subseteq Token
      BY <1>q, <3>1 DEF DispatchEvent
    <3>3. UNCHANGED <<roster, topics, peer, seen, heard, owed, decoding>>
      BY <2>2 DEF InitFinishes
    <3>4. UNCHANGED deliveryVars \/ \E q \in PeerRequest : Deliver(q)
      BY <3>1 DEF Tracks
    <3>5. CASE UNCHANGED deliveryVars
      BY <1>r, <3>2, <3>3, <3>5
    <3> QED BY <1>d, <3>2, <3>3, <3>4, <3>5
  <2> QED BY <1>3, <1>s, <2>1, <2>2 DEF InitStep, InitQueryOwn, InitQueryPeer, InitQueryFails, InitRetries,
                                  InitAbandoned, outsideSide
<1>4. CASE DecoderStep
  <2>1. PICK st \in decoding : Dropped(st) \/ Nacked(st) \/ RequestArrives(st) \/ ResponseArrives(st)
    BY <1>4 DEF DecoderStep
  <2>2. /\ decoding' \subseteq decoding /\ UNCHANGED <<roster, topics, peer, seen, heard, owed>>
    BY <2>1 DEF Dropped, Nacked, RequestArrives, ResponseArrives, Decoded
  <2>3. CASE Dropped(st) \/ Nacked(st)
    BY <1>p, <1>r, <2>2, <2>3 DEF Dropped, Nacked
  <2>4. CASE RequestArrives(st)
    <3>1. st.id \in PeerRequest
      BY <1>0, <2>4, ArrivedRequest DEF RequestArrives
    <3> QED BY <1>p, <1>d, <2>2, <2>4, <3>1 DEF RequestArrives
  <2>5. CASE ResponseArrives(st)
    <3> DEFINE t == ResponseReceived(machine, st.id, roster, nextId)
    <3>1. t.effects.tokens \subseteq LiveTokens(machine)
      BY <1>0, EndedEvents
    <3>2. Perform(t, runs) /\ UNCHANGED deliveryVars
      BY <2>5 DEF ResponseArrives, DispatchEvent
    <3> HIDE DEF t
    <3>3. resolved' \subseteq Token
      BY <1>q, <3>1, <3>2
    <3> QED BY <1>r, <2>2, <3>2, <3>3
  <2> QED BY <2>1, <2>3, <2>4, <2>5
<1>5. CASE PeerRead
  <2>1. PICK d \in Device : PeerReads(d)
    BY <1>5 DEF PeerRead
  <2>2. own["request"].body.id \in 1..nextId - 1
    BY <1>0, <1>n, <2>1 DEF PeerReads, ChannelsOK, AskBody
  <2>3. heard' \cup owed' \subseteq 1..nextId - 1
    BY <1>0, <2>1, <2>2 DEF PeerReads, OutsideOK
  <2> QED BY <1>0, <1>n, <2>1, <2>3 DEF PeerReads, OutsideOK
<1>b. ASSUME NEW st \in Arrived, Published(st), owed' \subseteq owed PROVE OutsideOK'
  <2>1. /\ st.from \in Device /\ st.kind \in {"request", "response"}
    BY DEF Arrived
  <2>2. peer' \in [Device -> PeerChannels]
    BY <1>0, <1>b, <2>1 DEF Published, OutsideOK, PeerChannels
  <2>3. seen' \subseteq Arrived /\ decoding' \subseteq seen'
    BY <1>0, <1>b DEF Published, Intake, OutsideOK
  <2> QED BY <1>0, <1>n, <1>b, <2>2, <2>3 DEF Published, OutsideOK
<1>6. CASE PeerAnswer
  <2>1. PICK d \in Device, id \in owed : PeerAnswers(d, id)
    BY <1>6 DEF PeerAnswer
  <2>2. id \in Nat \ {0}
    BY <1>0, <1>n DEF OutsideOK
  <2>3. PeerStatement("response", d, id, "readable") \in Arrived
    BY <2>2 DEF PeerStatement, Arrived
  <2> QED BY <1>b, <2>1, <2>3 DEF PeerAnswers
<1>7. CASE Application
  <2>1. ASSUME NEW m \in Message, SubmitRequestMessage(m) PROVE OutsideOK'
    BY <1>s, <2>1 DEF SubmitRequestMessage, outsideSide
  <2>2. ASSUME NEW s \in Subscriber, Subscribe(s) PROVE OutsideOK'
    <3>1. got' \in [Subscriber -> [PeerRequest -> Nat]]
      BY <1>0, <2>2 DEF Subscribe, Replay, OutsideOK
    <3> QED BY <1>0, <1>n, <2>2, <3>1 DEF Subscribe, OutsideOK
  <2>3. ASSUME NEW s \in Subscriber, Unsubscribe(s) PROVE OutsideOK'
    BY <1>0, <1>n, <2>3 DEF Unsubscribe, OutsideOK
  <2>4. ASSUME NEW q \in PeerRequest, RespondAgain(q) PROVE OutsideOK'
    BY <1>0, <1>n, <2>4 DEF RespondAgain, Pruned, OutsideOK
  <2>5. CASE Dispose
    BY <1>0, <1>n, <2>5 DEF Dispose, OutsideOK
  <2> QED BY <1>7, <1>s, <2>1, <2>2, <2>3, <2>4, <2>5
          DEF Application, SubmitResponseMessage, ClearOutgoingStatement, outsideSide
<1>8. CASE Environment
  <2>1. ASSUME NEW q \in PeerRequest, NEW form \in Form(q), PeerAsks(q, form) PROVE OutsideOK'
    <3>1. PeerStatement("request", Sender(q), q, form) \in Arrived
      BY SessionAssumption DEF PeerStatement, Arrived
    <3> QED BY <1>b, <2>1, <3>1 DEF PeerAsks
  <2>2. ASSUME NEW devices \in Roster, RosterChanges(devices) PROVE OutsideOK'
    <3>1. roster' \subseteq Device /\ topics' \subseteq Device
      BY <1>0, <2>2, SessionAssumption DEF RosterChanges, OutsideOK
    <3>2. UNCHANGED <<peer, seen, decoding, heard, owed, subscribers, buffered, resolved, got>>
      BY <2>2 DEF RosterChanges
    <3> QED BY <1>0, <1>n, <3>1, <3>2 DEF OutsideOK
  <2>3. CASE Restart
    <3>1. got' \in [Subscriber -> [PeerRequest -> Nat]]
      BY <2>3 DEF Restart, NothingGiven
    <3> QED BY <1>0, <1>n, <2>3, <3>1, SessionAssumption DEF Restart, OutsideOK
  <2> QED BY <1>8, <2>1, <2>2, <2>3 DEF Environment
<1>9. CASE UNCHANGED vars
  BY <1>9, <1>s DEF vars, outsideSide
<1> QED BY <1>1, <1>2, <1>3, <1>4, <1>5, <1>6, <1>7, <1>8, <1>9 DEF Next

LEMMA InitTypes == Init => SessionTypes
<1> SUFFICES ASSUME Init PROVE SessionTypes
  OBVIOUS
<1>1. 0 \in 0..MaxInitRetries /\ roster \subseteq Device /\ Eager \subseteq Subscriber /\ 0 \in 0..MaxRestarts
      /\ 0 \in 0..MaxSubmits
  BY SessionAssumption DEF Init
<1>2. /\ InitialSessionState \in R!Machine /\ LiveTokens(InitialSessionState) = {}
      /\ R!OneOwner(InitialSessionState) /\ IdsBelow(InitialSessionState, nextId)
  BY BatchFacts DEF InitialSessionState, R!Machine, LiveTokens, TokensOf, R!OneOwner, IdsBelow
<1>3. MachineOK
  BY <1>1, <1>2 DEF Init, MachineOK, InitialSessionState
<1>4. RunsOK
  BY <1>1 DEF Init, RunsOK
<1>5. own \in [{"request", "response"} -> {None}] /\ ChannelsOK(own)
  BY DEF Init, ChannelsOK, Slot
<1>6. InitOK
  BY <1>1 DEF Init, InitOK, Queries, InitialSessionState
<1>7. peer \in [Device -> PeerChannels] /\ got \in [Subscriber -> [PeerRequest -> Nat]]
  BY <1>5 DEF Init, PeerChannels, NothingGiven
<1>8. OutsideOK
  BY <1>1, <1>7 DEF Init, OutsideOK
<1> QED BY <1>3, <1>4, <1>5, <1>6, <1>8 DEF SessionTypes

\* The type of the whole session: what the reducer, the submissions, the
\* channels, init and the peer hold.
THEOREM SessionTyped == Spec => []SessionTypes
<1>1. SessionTypes /\ [Next]_vars => SessionTypes'
  BY MachineStep, RunsStep, ChannelsStep, InitOKStep, OutsideStep DEF SessionTypes
<1> QED BY <1>1, InitTypes, PTL DEF Spec

-----------------------------------------------------------------------------
(* A disposed session *)

LEMMA SilentStep ==
    ASSUME SessionTypes, [Next]_vars, disposed, disposed'
    PROVE  \A r \in runs' : r.pc = "sending" => r \in runs
<1> DEFINE Silent == \A r \in runs' : r.pc = "sending" => r \in runs
<1> USE DEF sessionVars, outgoingVars, incomingVars, deliveryVars, intakeVars, outsideVars, peerVars, bounds
<1>0. RunsOK /\ MachineOK /\ roster \in SUBSET Device
  BY DEF SessionTypes, OutsideOK
<1>s. runs' \subseteq runs => Silent
  OBVIOUS
<1>1. CASE StoreStep
  <2>0. PICK r \in runs : \E error, min : runs' = Answered(r, error, min)
    BY <1>1 DEF StoreStep, StoreAccepts, StoreRejects, CallFails, AccountFull
  <2>1. PICK error, min : runs' = Answered(r, error, min)
    BY <2>0
  <2>2. RunOK(r) /\ r \in Submission
    BY <1>0 DEF RunsOK, RunOK
  <2>3. \A x \in runs' : x \in runs \/ x.pc = "answered"
    BY <2>1, <2>2 DEF Answered, Submission
  <2> QED BY <2>3
<1>2. CASE DriverStep
  <2>1. PICK r \in runs : BackOff(r) \/ Resend(r) \/ RequestEnds(r) \/ ResponseEnds(r) \/ ClearEnds(r)
    BY <1>2 DEF DriverStep
  <2>2. CASE BackOff(r)
    <3>1. r \in Submission
      BY <1>0 DEF RunsOK, RunOK
    <3>2. \A x \in runs' : x \in runs \/ x.pc = "backoff"
      BY <2>2, <3>1 DEF BackOff, Submission
    <3> QED BY <3>2
  <2>3. CASE Resend(r)
    BY <2>3 DEF Resend, ShouldRetry
  <2>4. CASE RequestEnds(r) \/ ResponseEnds(r) \/ ClearEnds(r)
    <3>1. runs' \subseteq runs
      BY <2>4 DEF RequestEnds, ResponseEnds, ClearEnds
    <3> QED BY <1>s, <3>1
  <2> QED BY <2>1, <2>2, <2>3, <2>4
<1>3. CASE InitStep
  BY <1>3, <1>s DEF InitStep, InitQueryOwn, InitQueryPeer, InitQueryFails, InitRetries, InitLoaded, InitFinishes,
                    InitAbandoned
<1>4. CASE DecoderStep
  <2>1. PICK st \in decoding : Dropped(st) \/ Nacked(st) \/ RequestArrives(st) \/ ResponseArrives(st)
    BY <1>4 DEF DecoderStep
  <2>2. CASE ResponseArrives(st)
    <3>0. PICK t : t = Unchanged(machine) /\ \E to \in SUBSET Device : Start(t, runs, to)
      BY <2>2, ResponseDispatches DEF Dispatches, Dispatching
    <3>1. PICK to \in SUBSET Device : Start(t, runs, to)
      BY <3>0
    <3>2. t.effects.submits = <<>> /\ runs' = runs \cup RequestRuns(t.effects.submits, current, to)
      BY <3>0, <3>1 DEF Start, Unchanged, NoEffects
    <3>3. RequestRuns(<<>>, current, to) = {}
      BY DEF RequestRuns
    <3>4. runs' = runs
      BY <3>2, <3>3
    <3> QED BY <1>s, <3>4
  <2> QED BY <1>s, <2>1, <2>2 DEF Dropped, Nacked, RequestArrives
<1>5. CASE PeerRead \/ PeerAnswer
  BY <1>5, <1>s DEF PeerRead, PeerAnswer, PeerReads, PeerAnswers, Published
<1>6. CASE Application
  BY <1>6, <1>s DEF Application, SubmitRequestMessage, SubmitResponseMessage, RespondAgain, Subscribe, Unsubscribe,
                    ClearOutgoingStatement, Dispose
<1>7. CASE Environment
  BY <1>7, <1>s DEF Environment, PeerAsks, Published, RosterChanges, Restart
<1>8. CASE UNCHANGED vars
  BY <1>8, <1>s DEF vars
<1> QED BY <1>1, <1>2, <1>3, <1>4, <1>5, <1>6, <1>7, <1>8 DEF Next

\* However it was disposed of, a session never starts a submit call again.
THEOREM DisposedIsSilent == Spec => DisposedStaysSilent
<1>1. SessionTypes /\ [Next]_vars => [disposed /\ disposed' => \A r \in runs' : r.pc = "sending" => r \in runs]_vars
  BY SilentStep
<1> QED BY <1>1, SessionTyped, PTL DEF Spec, DisposedStaysSilent

-----------------------------------------------------------------------------
(* The requests of the peer *)

LEMMA IncomingType ==
    ASSUME SessionTypes
    PROVE  machine.incoming \in [PeerRequest -> {"unknown", "open", "responded"}] /\ machine \in R!Machine
BY DEF SessionTypes, MachineOK, R!Machine

\* Nobody is given a request, no answer starts or ends.
LEMMA RequestsKept ==
    ASSUME RequestsOK, UNCHANGED deliveryVars, Answering' = Answering, machine'.incoming = machine.incoming
    PROVE  RequestsOK'
BY DEF RequestsOK, BufferedAwaitsAnswer, SubscribersAreServed, OneRunPerResponse, Answering, IsTracked, deliveryVars

\* A submission of an answer moves on.
LEMMA AnswerMoves ==
    ASSUME RequestsOK, UNCHANGED deliveryVars, machine'.incoming = machine.incoming,
           NEW r \in Answering, NEW x, x.owned, x.policy = "response", x.body = r.body,
           Answering' = (Answering \ {r}) \cup {x}
    PROVE  RequestsOK'
<1>1. BufferedAwaitsAnswer'
  BY DEF RequestsOK, BufferedAwaitsAnswer, Answering, deliveryVars
<1>2. OneRunPerResponse'
  BY DEF RequestsOK, OneRunPerResponse, Answering
<1>3. \A y \in runs' : y.owned /\ y.policy = "response" => machine'.incoming[y.body.id] = "responded"
  BY DEF RequestsOK, Answering
<1> QED BY <1>1, <1>2, <1>3 DEF RequestsOK, SubscribersAreServed, IsTracked, deliveryVars

LEMMA AnswerStarts ==
    ASSUME SessionTypes, RequestsOK, UNCHANGED deliveryVars, NEW q \in PeerRequest, machine.incoming[q] # "responded",
           machine'.incoming = [machine.incoming EXCEPT ![q] = "responded"],
           NEW x, x.owned, x.policy = "response", x.body.id = q, Answering' = Answering \cup {x}
    PROVE  RequestsOK'
<1>1. machine.incoming \in [PeerRequest -> {"unknown", "open", "responded"}]
  BY IncomingType
<1>2. \A r \in Answering : machine.incoming[r.body.id] = "responded" /\ r.body.id # q
  BY DEF RequestsOK, Answering
<1>3. BufferedAwaitsAnswer'
  <2> SUFFICES ASSUME NEW p \in buffered PROVE machine'.incoming[p] = "open" \/ \E r \in Answering' : r.body.id = p
    BY DEF BufferedAwaitsAnswer, Answering, deliveryVars
  <2>1. p \in PeerRequest
    BY DEF SessionTypes, OutsideOK
  <2>2. machine.incoming[p] = "open" \/ \E r \in Answering : r.body.id = p
    BY DEF RequestsOK, BufferedAwaitsAnswer, Answering
  <2> QED BY <1>1, <2>1, <2>2
<1>4. OneRunPerResponse'
  BY <1>2 DEF RequestsOK, OneRunPerResponse, Answering
<1>5. \A r \in Answering' : machine'.incoming[r.body.id] = "responded"
  <2>1. \A r \in Answering : r.body.id \in PeerRequest
    BY DEF SessionTypes, RunsOK, RunOK, AnswerBody, Answering
  <2> QED BY <1>1, <1>2, <2>1
<1>6. \A p \in PeerRequest : IsTracked(machine, p) => IsTracked(machine, p)'
  BY <1>1 DEF IsTracked
<1> QED BY <1>3, <1>4, <1>5, <1>6 DEF RequestsOK, SubscribersAreServed, Answering, deliveryVars

\* A request is taken in that was not known.
LEMMA RequestTracked ==
    ASSUME SessionTypes, RequestsOK, NEW q \in PeerRequest, ~IsTracked(machine, q), NEW v \in {"open", "responded"},
           machine'.incoming = [machine.incoming EXCEPT ![q] = v],
           UNCHANGED deliveryVars \/ (v = "open" /\ Deliver(q)), Answering' = Answering
    PROVE  RequestsOK'
<1>1. machine.incoming \in [PeerRequest -> {"unknown", "open", "responded"}] /\ machine.incoming[q] = "unknown"
  BY IncomingType DEF IsTracked
<1>2. \A r \in Answering : r.body.id \in PeerRequest /\ machine.incoming[r.body.id] = "responded" /\ r.body.id # q
  BY <1>1 DEF SessionTypes, RunsOK, RunOK, AnswerBody, RequestsOK, Answering
<1>3. \A p \in buffered : p \in PeerRequest /\ IsTracked(machine, p) /\ p # q
  <2>1. buffered \subseteq PeerRequest
    BY DEF SessionTypes, OutsideOK
  <2>2. \A p \in buffered : IsTracked(machine, p)
    BY <1>2 DEF RequestsOK, BufferedAwaitsAnswer, IsTracked, Answering
  <2> QED BY <2>1, <2>2
<1>4. \A p \in PeerRequest : p # q => machine'.incoming[p] = machine.incoming[p]
  BY <1>1
<1>5. machine'.incoming[q] = v /\ IsTracked(machine, q)'
  BY <1>1 DEF IsTracked
<1>6. \A r \in Answering' : machine'.incoming[r.body.id] = "responded"
  BY <1>2, <1>4
<1>7. OneRunPerResponse'
  BY DEF RequestsOK, OneRunPerResponse, Answering
<1>8. BufferedAwaitsAnswer'
  <2> SUFFICES ASSUME NEW p \in buffered' PROVE machine'.incoming[p] = "open" \/ \E r \in Answering' : r.body.id = p
    BY DEF BufferedAwaitsAnswer, Answering
  <2>1. CASE p \in buffered
    BY <1>3, <1>4, <2>1 DEF RequestsOK, BufferedAwaitsAnswer, Answering
  <2>2. CASE p \notin buffered
    BY <1>5, <2>2 DEF Deliver, deliveryVars
  <2> QED BY <2>1, <2>2
<1>9. got \in [Subscriber -> [PeerRequest -> Nat]] /\ subscribers \subseteq Subscriber
  BY DEF SessionTypes, OutsideOK
<1>10. CASE UNCHANGED deliveryVars
  <2>1. \A s \in Subscriber, p \in PeerRequest :
          got'[s][p] <= 1 /\ (s \in subscribers' /\ got'[s][p] = 1 => IsTracked(machine, p)')
    BY <1>4, <1>5, <1>10 DEF RequestsOK, IsTracked, deliveryVars
  <2>2. SubscribersAreServed'
    BY <1>10 DEF RequestsOK, SubscribersAreServed, deliveryVars
  <2> QED BY <1>6, <1>7, <1>8, <2>1, <2>2 DEF RequestsOK, Answering
<1>11. CASE Deliver(q)
  <2>1. \A s \in Subscriber, p \in PeerRequest :
          got'[s][p] = IF s \in subscribers /\ p = q THEN got[s][p] + 1 ELSE got[s][p]
    BY <1>9, <1>11 DEF Deliver
  <2>2. \A s \in subscribers : got[s][q] = 0
    <3> SUFFICES ASSUME NEW s \in subscribers PROVE got[s][q] = 0
      OBVIOUS
    <3>1. s \in Subscriber /\ got[s][q] \in Nat /\ got[s][q] <= 1 /\ got[s][q] # 1
      BY <1>9 DEF RequestsOK
    <3> QED BY <3>1
  <2>3. subscribers' \subseteq subscribers /\ buffered' = buffered \cup {q}
    BY <1>11 DEF Deliver
  <2>4. \A s \in Subscriber, p \in PeerRequest :
          got'[s][p] <= 1 /\ (s \in subscribers' /\ got'[s][p] = 1 => IsTracked(machine, p)')
    <3> SUFFICES ASSUME NEW s \in Subscriber, NEW p \in PeerRequest
                 PROVE  got'[s][p] <= 1 /\ (s \in subscribers' /\ got'[s][p] = 1 => IsTracked(machine, p)')
      OBVIOUS
    <3>1. got[s][p] <= 1 /\ (s \in subscribers /\ got[s][p] = 1 => IsTracked(machine, p))
      BY DEF RequestsOK
    <3>2. CASE p = q
      BY <1>5, <2>1, <2>2, <3>1, <3>2
    <3>3. CASE p # q
      BY <1>4, <2>1, <2>3, <3>1, <3>3 DEF IsTracked
    <3> QED BY <3>2, <3>3
  <2>5. SubscribersAreServed'
    <3> SUFFICES ASSUME NEW s \in subscribers', NEW p \in buffered' PROVE got'[s][p] >= 1
      BY DEF SubscribersAreServed
    <3>1. s \in subscribers /\ s \in Subscriber /\ p \in PeerRequest
      BY <1>3, <1>9, <2>3
    <3>2. CASE p = q
      BY <2>1, <2>2, <3>1, <3>2
    <3>3. CASE p # q
      BY <2>1, <2>3, <3>1, <3>3 DEF RequestsOK, SubscribersAreServed
    <3> QED BY <3>2, <3>3
  <2> QED BY <1>6, <1>7, <1>8, <2>4, <2>5 DEF RequestsOK, Answering
<1> QED BY <1>10, <1>11

LEMMA AnswerEnds ==
    ASSUME SessionTypes, RequestsOK, NEW r \in Answering, Answering' = Answering \ {r}, UNCHANGED <<subscribers, got>>,
           \/ /\ machine'.incoming = [machine.incoming EXCEPT ![r.body.id] = "open"]
              /\ UNCHANGED buffered
           \/ machine'.incoming = machine.incoming /\ buffered' = buffered \ {r.body.id}
    PROVE  RequestsOK'
<1> DEFINE q == r.body.id
<1>1. machine.incoming \in [PeerRequest -> {"unknown", "open", "responded"}] /\ q \in PeerRequest
  BY IncomingType DEF SessionTypes, RunsOK, RunOK, AnswerBody, Answering
<1>2. machine.incoming[q] = "responded"
  BY DEF RequestsOK, Answering
<1>3. \A x \in Answering' : x.body.id # q /\ x \in Answering /\ x.body.id \in PeerRequest
  BY DEF RequestsOK, OneRunPerResponse, Answering, SessionTypes, RunsOK, RunOK, AnswerBody
<1>4. \A p \in PeerRequest : p # q => machine'.incoming[p] = machine.incoming[p]
  BY <1>1
<1>5. machine'.incoming[q] \in {"open", "responded"} /\ (UNCHANGED buffered => machine'.incoming[q] = "open" \/ q \notin buffered)
  BY <1>1, <1>2
<1>6. buffered' \subseteq buffered /\ (q \in buffered' => machine'.incoming[q] = "open")
  BY <1>1
<1>7. \A x \in Answering' : machine'.incoming[x.body.id] = "responded"
  BY <1>3, <1>4 DEF RequestsOK, Answering
<1>8. OneRunPerResponse'
  BY <1>3 DEF RequestsOK, OneRunPerResponse, Answering
<1>9. BufferedAwaitsAnswer'
  <2> SUFFICES ASSUME NEW p \in buffered' PROVE machine'.incoming[p] = "open" \/ \E x \in Answering' : x.body.id = p
    BY DEF BufferedAwaitsAnswer, Answering
  <2>1. p \in PeerRequest /\ (machine.incoming[p] = "open" \/ \E x \in Answering : x.body.id = p)
    BY <1>6 DEF SessionTypes, OutsideOK, RequestsOK, BufferedAwaitsAnswer, Answering
  <2>2. CASE p = q
    BY <1>6, <2>2
  <2>3. CASE p # q
    BY <1>4, <2>1, <2>3
  <2> QED BY <2>2, <2>3
<1>10. \A p \in PeerRequest : IsTracked(machine, p) => IsTracked(machine, p)'
  BY <1>4, <1>5 DEF IsTracked
<1>11. SubscribersAreServed'
  BY <1>6 DEF RequestsOK, SubscribersAreServed
<1> QED BY <1>7, <1>8, <1>9, <1>10, <1>11 DEF RequestsOK, Answering

\* A dispatch starts no answer.
LEMMA DispatchedAnswers ==
    ASSUME SessionTypes, NEW s, NEW t, NEW kept \in SUBSET runs, Dispatching(s, t, kept),
           \A r \in runs \ kept : r.policy = "request"
    PROVE  Answering' = Answering
<1>1. PICK to \in SUBSET Device : Start(t, kept, to)
  BY DEF Dispatching
<1> DEFINE starts == t.effects.submits
           new == RequestRuns(starts, current, to)
<1>2. starts \in Seq(Send) /\ \A i \in 1..Len(starts) : starts[i].id = nextId + i - 1 /\ starts[i].messages # <<>>
  BY DEF Dispatching, Adopts, Sends
<1>3. runs' = kept \cup new
  BY <1>1 DEF Start
<1>4. nextId \in Nat \ {0} /\ RunsOK
  BY DEF SessionTypes, MachineOK
<1> HIDE DEF starts
<1>5. \A r \in new : r.policy = "request"
  BY <1>2, <1>4, NewRuns DEF IsStart
<1> HIDE DEF new
<1> QED BY <1>3, <1>5 DEF Answering

LEMMA ResponseStarts ==
    ASSUME SessionTypes, RequestsOK, NEW s \in R!Machine, s.incoming \in [PeerRequest -> {"unknown", "open", "responded"}],
           NEW q \in PeerRequest, StartResponse(s, q), UNCHANGED deliveryVars,
           \/ s = machine /\ machine.incoming[q] = "open"
           \/ ~IsTracked(machine, q) /\ s.incoming = [machine.incoming EXCEPT ![q] = "open"]
    PROVE  RequestsOK'
<1>1. machine.incoming \in [PeerRequest -> {"unknown", "open", "responded"}]
  BY IncomingType
<1>2. s.incoming[q] = "open" /\ machine.incoming[q] # "responded"
  BY <1>1 DEF IsTracked
<1>3. machine' = [s EXCEPT !.incoming[q] = "responded"]
  BY <1>2 DEF StartResponse, ResponseSubmitted, Unchanged, IsTracked
<1>4. machine'.incoming = [s.incoming EXCEPT ![q] = "responded"]
  BY <1>3 DEF R!Machine
<1>5. machine'.incoming = [machine.incoming EXCEPT ![q] = "responded"]
  BY <1>1, <1>4
<1>6. PICK x : x = Run("response", ResponseBody(q), NextExpiry(current, Clock(restarts)), MaxSubmitRetries)
  OBVIOUS
<1>7. x.owned /\ x.policy = "response" /\ x.body.id = q /\ x.pc = "sending"
  BY <1>6 DEF Run, ResponseBody
<1>8. runs' = runs \cup {x}
  BY <1>6 DEF StartResponse
<1>9. Answering' = Answering \cup {x}
  BY <1>7, <1>8 DEF Answering
<1> QED BY <1>2, <1>5, <1>7, <1>9, AnswerStarts

LEMMA RequestsStep ==
    ASSUME SessionTypes, RequestsOK, [Next]_vars
    PROVE  RequestsOK'
<1> USE DEF sessionVars, outgoingVars, incomingVars, deliveryVars, intakeVars, outsideVars, peerVars, bounds
<1>0. MachineOK /\ RunsOK /\ OutsideOK /\ InitOK
  BY DEF SessionTypes
<1>m. machine \in R!Machine /\ machine.incoming \in [PeerRequest -> {"unknown", "open", "responded"}]
  BY IncomingType
<1>s. UNCHANGED <<machine, runs, subscribers, buffered, got>> => RequestsOK'
  BY RequestsKept DEF Answering
<1>d. ASSUME NEW s, NEW t, NEW kept \in SUBSET runs, Dispatches(s, t, kept), \A r \in runs \ kept : r.policy = "request",
             t.state.incoming = machine.incoming, UNCHANGED deliveryVars
      PROVE  RequestsOK'
  <2>1. machine'.incoming = machine.incoming
    BY <1>d DEF Dispatches, Dispatching, Start
  <2>2. Answering' = Answering
    BY <1>d, DispatchedAnswers DEF Dispatches
  <2> QED BY <1>d, <2>1, <2>2, RequestsKept
<1>x. ASSUME NEW r \in runs, NEW x, x.owned = r.owned, x.policy = r.policy, x.body = r.body,
             runs' = (runs \ {r}) \cup (IF r.owned THEN {x} ELSE {}), UNCHANGED <<machine, subscribers, buffered, got>>
      PROVE  RequestsOK'
  <2>1. CASE r \in Answering
    <3>1. Answering' = (Answering \ {r}) \cup {x}
      BY <1>x, <2>1 DEF Answering
    <3> QED BY <1>x, <2>1, <3>1, AnswerMoves DEF Answering
  <2>2. CASE r \notin Answering
    <3>1. Answering' = Answering
      BY <1>x, <2>2 DEF Answering
    <3> QED BY <1>x, <3>1, RequestsKept
  <2> QED BY <2>1, <2>2
<1>1. CASE StoreStep
  <2>0. PICK r \in runs : \E error, min : runs' = Answered(r, error, min)
    BY <1>1 DEF StoreStep, StoreAccepts, StoreRejects, CallFails, AccountFull
  <2>1. PICK error, min : runs' = Answered(r, error, min)
    BY <2>0
  <2>2. UNCHANGED <<machine, subscribers, buffered, got>>
    BY <1>1 DEF StoreStep, StoreAccepts, StoreRejects, CallFails, AccountFull, Uninvolved
  <2>3. PICK x : x = [r EXCEPT !.pc = "answered", !.error = error, !.min = min]
    OBVIOUS
  <2>4. r \in Submission
    BY <1>0 DEF RunsOK, RunOK
  <2>5. x.owned = r.owned /\ x.policy = r.policy /\ x.body = r.body
    BY <2>3, <2>4 DEF Submission
  <2>6. runs' = (runs \ {r}) \cup (IF r.owned THEN {x} ELSE {})
    BY <2>1, <2>3 DEF Answered
  <2> QED BY <1>x, <2>2, <2>5, <2>6
<1>2. CASE DriverStep
  <2>1. PICK r \in runs : BackOff(r) \/ Resend(r) \/ RequestEnds(r) \/ ResponseEnds(r) \/ ClearEnds(r)
    BY <1>2 DEF DriverStep
  <2>2. r \in Submission /\ RunOK(r) /\ r.owned
    BY <1>0, <2>1 DEF RunsOK, RunOK, BackOff, Resend, RequestEnds, ResponseEnds, ClearEnds, Ends
  <2>3. CASE BackOff(r)
    <3>1. PICK x : x = [r EXCEPT !.pc = "backoff", !.left = IF r.error = "transient" THEN @ - 1 ELSE @]
      OBVIOUS
    <3>2. x.owned = r.owned /\ x.policy = r.policy /\ x.body = r.body
      BY <2>2, <3>1 DEF Submission
    <3>3. runs' = (runs \ {r}) \cup {x} /\ UNCHANGED <<machine, subscribers, buffered, got>>
      BY <2>3, <3>1 DEF BackOff
    <3> QED BY <1>x, <2>2, <3>2, <3>3
  <2>4. CASE Resend(r)
    <3>1. PICK x : x = Run(r.policy, r.body, current', r.left)
      OBVIOUS
    <3>2. x.owned = r.owned /\ x.policy = r.policy /\ x.body = r.body
      BY <2>2, <3>1 DEF Run, Submission
    <3>3. runs' = (runs \ {r}) \cup {x} /\ UNCHANGED <<machine, subscribers, buffered, got>>
      BY <2>4, <3>1 DEF Resend
    <3> QED BY <1>x, <2>2, <3>2, <3>3
  <2>5. CASE RequestEnds(r)
    <3>1. r.policy = "request" /\ UNCHANGED deliveryVars
      BY <2>5 DEF RequestEnds
    <3>2. CASE Failed(r) /\ ~disposed
      <4>1. PICK s, t : Dispatches(s, t, runs \ {r}) /\ t.state.incoming = machine.incoming
        BY <2>5, <3>2, FailureDispatches
      <4>2. runs \ {r} \in SUBSET runs /\ \A x \in runs \ (runs \ {r}) : x.policy = "request"
        BY <3>1
      <4> QED BY <1>d, <3>1, <4>1, <4>2
    <3>3. CASE ~(Failed(r) /\ ~disposed)
      <4>1. UNCHANGED machine /\ runs' = runs \ {r}
        BY <2>5, <3>3 DEF RequestEnds
      <4>2. Answering' = Answering
        BY <3>1, <4>1 DEF Answering
      <4> QED BY <3>1, <4>1, <4>2, RequestsKept
    <3> QED BY <3>2, <3>3
  <2>6. CASE ClearEnds(r)
    <3>1. UNCHANGED machine /\ runs' = runs \ {r} /\ r.policy = "clear" /\ UNCHANGED deliveryVars
      BY <2>6 DEF ClearEnds
    <3>2. Answering' = Answering
      BY <3>1 DEF Answering
    <3> QED BY <3>1, <3>2, RequestsKept
  <2>7. CASE ResponseEnds(r)
    <3>1. r \in Answering /\ r.body.id \in PeerRequest
      BY <2>2, <2>7 DEF ResponseEnds, Answering, RunOK, AnswerBody
    <3>2. Answering' = Answering \ {r} /\ UNCHANGED <<subscribers, got>>
      BY <2>7 DEF ResponseEnds, Answering
    <3>3. CASE Failed(r) /\ ~disposed /\ lastResponse = r.body.id
      <4>1. machine' = ResponseSubmitFailed(machine, r.body.id).state /\ UNCHANGED buffered
        BY <2>7, <3>3 DEF ResponseEnds
      <4>2. IsTracked(machine, r.body.id)
        BY <3>1 DEF RequestsOK, Answering, IsTracked
      <4>3. machine' = [machine EXCEPT !.incoming[r.body.id] = "open"]
        BY <4>1, <4>2 DEF ResponseSubmitFailed, Unchanged
      <4>4. machine'.incoming = [machine.incoming EXCEPT ![r.body.id] = "open"]
        BY <1>m, <4>3 DEF R!Machine
      <4> QED BY <3>1, <3>2, <4>1, <4>4, AnswerEnds
    <3>4. CASE ~(Failed(r) /\ ~disposed /\ lastResponse = r.body.id)
      <4>1. UNCHANGED machine /\ buffered' = buffered \ {r.body.id}
        BY <2>7, <3>4 DEF ResponseEnds, Pruned
      <4> QED BY <3>1, <3>2, <4>1, AnswerEnds
    <3> QED BY <3>3, <3>4
  <2> QED BY <2>1, <2>3, <2>4, <2>5, <2>6, <2>7
<1>3. CASE InitStep
  <2>1. CASE InitQueryFails
    <3>1. machine'.incoming = machine.incoming
      BY <1>m, <2>1 DEF InitQueryFails, InitFailed, Unchanged, R!Machine
    <3> QED BY <2>1, <3>1, RequestsKept DEF InitQueryFails, Answering
  <2>2. CASE InitFinishes
    <3>1. PICK s, t : Dispatching(s, t, runs) /\ Tracks(t.state.incoming)
      BY <2>2, InitDispatches
    <3>2. Answering' = Answering
      BY <3>1, DispatchedAnswers
    <3>3. machine'.incoming = t.state.incoming
      BY <3>1 DEF Dispatching, Start
    <3>4. Tracks(machine'.incoming)
      BY <3>1, <3>3
    <3> QED BY <3>2, <3>4, RequestsKept, RequestTracked DEF Tracks
  <2> QED BY <1>3, <1>s, <2>1, <2>2 DEF InitStep, InitQueryOwn, InitQueryPeer, InitRetries, InitLoaded, InitAbandoned
<1>4. CASE DecoderStep
  <2>1. PICK st \in decoding : Dropped(st) \/ Nacked(st) \/ RequestArrives(st) \/ ResponseArrives(st)
    BY <1>4 DEF DecoderStep
  <2>2. CASE Dropped(st)
    BY <1>s, <2>2 DEF Dropped
  <2>3. CASE Nacked(st)
    <3>1. st.id \in PeerRequest /\ ~IsTracked(machine, st.id) /\ UNCHANGED deliveryVars
      BY <1>0, <2>3, ArrivedRequest DEF Nacked
    <3>2. PICK x : x = RequestReceived(machine, st.id).state
      OBVIOUS
    <3>3. x = [machine EXCEPT !.incoming[st.id] = "open"]
      BY <3>1, <3>2 DEF RequestReceived, Unchanged
    <3>4. x \in R!Machine /\ x.incoming = [machine.incoming EXCEPT ![st.id] = "open"]
      BY <1>m, <3>1, <3>3 DEF R!Machine
    <3>5. CASE machine' = x /\ UNCHANGED runs
      BY <3>1, <3>4, <3>5, RequestTracked DEF Answering
    <3>6. CASE StartResponse(x, st.id)
      <4>1. x.incoming \in [PeerRequest -> {"unknown", "open", "responded"}]
        BY <3>4 DEF R!Machine
      <4> QED BY <3>1, <3>4, <3>6, <4>1, ResponseStarts
    <3> QED BY <2>3, <3>2, <3>5, <3>6 DEF Nacked
  <2>4. CASE RequestArrives(st)
    <3>1. st.id \in PeerRequest /\ ~IsTracked(machine, st.id) /\ Deliver(st.id) /\ UNCHANGED runs
      BY <1>0, <2>4, ArrivedRequest DEF RequestArrives
    <3>2. machine' = [machine EXCEPT !.incoming[st.id] = "open"]
      BY <2>4, <3>1 DEF RequestArrives, RequestReceived, Unchanged
    <3>3. machine'.incoming = [machine.incoming EXCEPT ![st.id] = "open"]
      BY <1>m, <3>2 DEF R!Machine
    <3> QED BY <3>1, <3>3, RequestTracked DEF Answering
  <2>5. CASE ResponseArrives(st)
    <3>1. UNCHANGED deliveryVars
      BY <2>5 DEF ResponseArrives
    <3>2. PICK s, t : Dispatches(s, t, runs) /\ t.state.incoming = machine.incoming
      BY <2>5, ResponseDispatches
    <3> QED BY <1>d, <3>1, <3>2
  <2> QED BY <2>1, <2>2, <2>3, <2>4, <2>5
<1>5. CASE PeerRead \/ PeerAnswer
  BY <1>5, <1>s DEF PeerRead, PeerAnswer, PeerReads, PeerAnswers, Published
<1>6. CASE Application
  <2>1. ASSUME NEW m \in Message, SubmitRequestMessage(m) PROVE RequestsOK'
    <3>1. UNCHANGED deliveryVars
      BY <2>1 DEF SubmitRequestMessage
    <3>2. PICK t : Dispatches(machine, t, runs) /\ t.state.incoming = machine.incoming
      BY <2>1, SubmitDispatches
    <3> QED BY <1>d, <3>1, <3>2
  <2>2. ASSUME NEW q \in PeerRequest, SubmitResponseMessage(q) PROVE RequestsOK'
    BY <1>m, <2>2, ResponseStarts DEF SubmitResponseMessage
  <2>3. ASSUME NEW q \in PeerRequest, RespondAgain(q) PROVE RequestsOK'
    BY <2>3 DEF RespondAgain, Pruned, RequestsOK, BufferedAwaitsAnswer, SubscribersAreServed, OneRunPerResponse, IsTracked
  <2>4. ASSUME NEW s \in Subscriber, Subscribe(s) PROVE RequestsOK'
    <3>1. UNCHANGED <<machine, runs, buffered>> /\ subscribers' \subseteq subscribers \cup {s} /\ got' = [got EXCEPT ![s] = Replay]
      BY <2>4 DEF Subscribe
    <3>2. got \in [Subscriber -> [PeerRequest -> Nat]] /\ buffered \subseteq PeerRequest
      BY <1>0 DEF OutsideOK
    <3>3. \A q \in buffered : IsTracked(machine, q)
      BY DEF RequestsOK, BufferedAwaitsAnswer, IsTracked
    <3>4. \A q \in PeerRequest : got'[s][q] = IF q \in buffered THEN 1 ELSE 0
      BY <3>1, <3>2 DEF Replay
    <3>5. \A x \in Subscriber : x # s => got'[x] = got[x]
      BY <3>1, <3>2
    <3>6. \A x \in Subscriber, q \in PeerRequest :
            got'[x][q] <= 1 /\ (x \in subscribers' /\ got'[x][q] = 1 => IsTracked(machine, q)')
      <4> SUFFICES ASSUME NEW x \in Subscriber, NEW q \in PeerRequest
                   PROVE  got'[x][q] <= 1 /\ (x \in subscribers' /\ got'[x][q] = 1 => IsTracked(machine, q)')
        OBVIOUS
      <4>1. CASE x = s
        BY <3>1, <3>3, <3>4, <4>1 DEF IsTracked
      <4>2. CASE x # s
        BY <3>1, <3>5, <4>2 DEF RequestsOK, IsTracked
      <4> QED BY <4>1, <4>2
    <3>7. SubscribersAreServed'
      <4> SUFFICES ASSUME NEW x \in subscribers', NEW q \in buffered PROVE got'[x][q] >= 1
        BY <3>1 DEF SubscribersAreServed
      <4>1. x \in Subscriber /\ q \in PeerRequest
        BY <1>0, <3>1, <3>2 DEF OutsideOK
      <4>2. CASE x = s
        BY <3>4, <4>1, <4>2
      <4>3. CASE x # s
        BY <3>1, <3>5, <4>1, <4>3 DEF RequestsOK, SubscribersAreServed
      <4> QED BY <4>2, <4>3
    <3> QED BY <3>1, <3>6, <3>7 DEF RequestsOK, BufferedAwaitsAnswer, OneRunPerResponse
  <2>5. ASSUME NEW s \in Subscriber, Unsubscribe(s) PROVE RequestsOK'
    BY <2>5 DEF Unsubscribe, RequestsOK, BufferedAwaitsAnswer, SubscribersAreServed, OneRunPerResponse, IsTracked
  <2>6. CASE ClearOutgoingStatement
    <3>1. machine'.incoming = machine.incoming /\ UNCHANGED deliveryVars
      BY <1>m, <2>6 DEF ClearOutgoingStatement, OutgoingCleared, Unchanged, R!Machine
    <3>x. PICK x : x = Run("clear", RequestBody(LiveRequestId(machine), <<>>, roster), current', 0)
      OBVIOUS
    <3>2. x.policy = "clear" /\ (runs' = runs \cup {x} \/ UNCHANGED runs)
      BY <2>6, <3>x DEF ClearOutgoingStatement, Run
    <3>3. Answering' = Answering
      BY <3>2 DEF Answering
    <3> QED BY <3>1, <3>3, RequestsKept
  <2>7. CASE Dispose
    <3>1. machine'.incoming = machine.incoming
      BY <1>m, <2>7 DEF Dispose, OutgoingCleared, Unchanged, R!Machine
    <3>2. UNCHANGED <<runs, buffered, got>> /\ subscribers' = {}
      BY <2>7 DEF Dispose
    <3> QED BY <3>1, <3>2 DEF RequestsOK, BufferedAwaitsAnswer, SubscribersAreServed, OneRunPerResponse, IsTracked
  <2> QED BY <1>6, <2>1, <2>2, <2>3, <2>4, <2>5, <2>6, <2>7 DEF Application
<1>7. CASE Environment
  <2>1. ASSUME NEW q \in PeerRequest, NEW form \in Form(q), PeerAsks(q, form) PROVE RequestsOK'
    BY <1>s, <2>1 DEF PeerAsks, Published
  <2>2. ASSUME NEW devices \in Roster, RosterChanges(devices) PROVE RequestsOK'
    <3>1. UNCHANGED deliveryVars
      BY <2>2 DEF RosterChanges
    <3>2. CASE UNCHANGED outgoingVars
      BY <1>s, <3>1, <3>2
    <3>3. CASE \E t : Dispatches(machine, t, runs) /\ t.state.incoming = machine.incoming
      BY <1>d, <3>1, <3>3
    <3> QED BY <2>2, <3>2, <3>3, RosterDispatches
  <2>3. CASE Restart
    <3>1. \A r \in runs' : ~r.owned
      <4>1. runs' = Orphans
        BY <2>3 DEF Restart
      <4>2. \A x \in runs : [x EXCEPT !.owned = FALSE].owned = FALSE
        BY <1>0 DEF RunsOK, RunOK, Submission
      <4> QED BY <4>1, <4>2 DEF Orphans
    <3>2. buffered' = {} /\ got' = NothingGiven
      BY <2>3 DEF Restart
    <3>3. \A s \in Subscriber, q \in PeerRequest : got'[s][q] = 0
      BY <3>2 DEF NothingGiven
    <3> QED BY <3>1, <3>2, <3>3 DEF RequestsOK, BufferedAwaitsAnswer, SubscribersAreServed, OneRunPerResponse
  <2> QED BY <1>7, <2>1, <2>2, <2>3 DEF Environment
<1>8. CASE UNCHANGED vars
  BY <1>8, <1>s DEF vars
<1> QED BY <1>1, <1>2, <1>3, <1>4, <1>5, <1>6, <1>7, <1>8 DEF Next

LEMMA RequestsInvariant == Spec => []RequestsOK
<1>1. Init => RequestsOK
  <2> SUFFICES ASSUME Init PROVE RequestsOK
    OBVIOUS
  <2>1. runs = {} /\ buffered = {} /\ got = NothingGiven
    BY DEF Init
  <2>2. \A s \in Subscriber, q \in PeerRequest : got[s][q] = 0
    BY <2>1 DEF NothingGiven
  <2> QED BY <2>1, <2>2 DEF RequestsOK, BufferedAwaitsAnswer, SubscribersAreServed, OneRunPerResponse
<1>2. SessionTypes /\ RequestsOK /\ [Next]_vars => RequestsOK'
  BY RequestsStep
<1> QED BY <1>1, <1>2, SessionTyped, PTL DEF Spec

\* What the session and its book-keeping hold, whatever happens.
THEOREM SessionTypeCorrect == Spec => []TypeOK
<1>1. SessionTypes /\ RequestsOK => TypeOK
  <2> SUFFICES ASSUME SessionTypes, RequestsOK PROVE TypeOK
    OBVIOUS
  <2>0. MachineOK /\ RunsOK /\ InitOK /\ OutsideOK
    BY DEF SessionTypes
  <2>1. pending \cup resolved \cup LiveTokens(machine) \subseteq Token
    BY <2>0, LiveTokensType DEF MachineOK, OutsideOK
  <2>2. machine.phase \in {"initialization", "active", "failed"}
        /\ machine.incoming \in [PeerRequest -> {"unknown", "open", "responded"}]
    BY <2>0 DEF MachineOK, R!Machine
  <2>3. \A r \in runs :
         /\ [policy |-> r.policy, pc |-> r.pc, error |-> r.error] \in Owner
         /\ r.expiry \in 0..current \/ ~r.owned
         /\ r.left \in 0..MaxSubmitRetries
    BY <2>0 DEF RunsOK, RunOK, Submission, Owner
  <2>4. got \in [Subscriber -> [PeerRequest -> 0..2]]
    <3>1. got \in [Subscriber -> [PeerRequest -> Nat]] /\ \A s \in Subscriber, q \in PeerRequest : got[s][q] <= 1
      BY <2>0 DEF OutsideOK, RequestsOK
    <3>2. \A s \in Subscriber : got[s] \in [PeerRequest -> 0..2]
      BY <3>1
    <3> QED BY <3>1, <3>2
  <2> QED BY <2>0, <2>1, <2>2, <2>3, <2>4 DEF TypeOK, InitOK, OutsideOK
<1> QED BY <1>1, SessionTyped, RequestsInvariant, PTL

\* No promise is ever out of the reducer's sight, nor held without a caller.
THEOREM EveryPromiseOwned == Spec => []EveryWaiterIsOwned
<1>1. SessionTypes => EveryWaiterIsOwned
  BY DEF SessionTypes, MachineOK, EveryWaiterIsOwned
<1> QED BY <1>1, SessionTyped, PTL

\* Even when a dead session's calls land late: nobody misses a request, gets it
\* twice or is replayed one that was answered, and no answer is sent by two
\* submissions.
THEOREM RequestsServed ==
    Spec => [](BufferedAwaitsAnswer /\ GivenOnce /\ SubscribersAreServed /\ OneRunPerResponse)
<1>1. RequestsOK => BufferedAwaitsAnswer /\ GivenOnce /\ SubscribersAreServed /\ OneRunPerResponse
  BY DEF RequestsOK, GivenOnce
<1> QED BY <1>1, RequestsInvariant, PTL

-----------------------------------------------------------------------------
(* The newest answer, where no submit call of a dead session lands late *)

LEMMA OwnedStep ==
    ASSUME SessionTypes, Owned, [Next]_vars, "late" \notin Behaviour
    PROVE  Owned'
<1> USE DEF sessionVars, outgoingVars, incomingVars, deliveryVars, intakeVars, outsideVars, peerVars, bounds
<1>0. RunsOK /\ InitOK /\ OutsideOK /\ MachineOK
  BY DEF SessionTypes
<1>s. runs' \subseteq runs => Owned'
  BY DEF Owned
<1>x. ASSUME NEW x, x.owned, runs' \subseteq runs \cup {x} PROVE Owned'
  BY <1>x DEF Owned
<1>d. ASSUME NEW s, NEW t, NEW kept \in SUBSET runs, Dispatching(s, t, kept) PROVE Owned'
  <2>1. PICK to \in SUBSET Device : Start(t, kept, to)
    BY <1>d DEF Dispatching
  <2> DEFINE starts == t.effects.submits
             new == RequestRuns(starts, current, to)
  <2>2. starts \in Seq(Send) /\ \A i \in 1..Len(starts) : starts[i].id = nextId + i - 1 /\ starts[i].messages # <<>>
    BY <1>d DEF Dispatching, Adopts, Sends
  <2>3. runs' = kept \cup new
    BY <2>1 DEF Start
  <2>4. nextId \in Nat \ {0}
    BY <1>0 DEF MachineOK
  <2> HIDE DEF starts
  <2>5. \A r \in new : r.owned
    BY <1>0, <2>2, <2>4, NewRuns DEF IsStart
  <2> HIDE DEF new
  <2> QED BY <1>d, <2>3, <2>5 DEF Owned
<1>1. CASE StoreStep
  <2>0. PICK r \in runs : \E error, min : runs' = Answered(r, error, min)
    BY <1>1 DEF StoreStep, StoreAccepts, StoreRejects, CallFails, AccountFull
  <2>1. PICK error, min : runs' = Answered(r, error, min)
    BY <2>0
  <2>2. PICK x : x = [r EXCEPT !.pc = "answered", !.error = error, !.min = min]
    OBVIOUS
  <2>3. r \in Submission /\ r.owned
    BY <1>0 DEF RunsOK, RunOK, Owned
  <2>4. x.owned
    BY <2>2, <2>3 DEF Submission
  <2>5. runs' \subseteq runs \cup {x}
    BY <2>1, <2>2 DEF Answered
  <2> QED BY <1>x, <2>4, <2>5
<1>2. CASE DriverStep
  <2>1. PICK r \in runs : BackOff(r) \/ Resend(r) \/ RequestEnds(r) \/ ResponseEnds(r) \/ ClearEnds(r)
    BY <1>2 DEF DriverStep
  <2>2. r \in Submission /\ r.owned
    BY <1>0 DEF RunsOK, RunOK, Owned
  <2>3. CASE BackOff(r)
    <3>1. PICK x : x = [r EXCEPT !.pc = "backoff", !.left = IF r.error = "transient" THEN @ - 1 ELSE @]
      OBVIOUS
    <3>2. x.owned
      BY <2>2, <3>1 DEF Submission
    <3>3. runs' = (runs \ {r}) \cup {x}
      BY <2>3, <3>1 DEF BackOff
    <3> QED BY <1>x, <3>2, <3>3
  <2>4. CASE Resend(r)
    <3>1. PICK x : x = Run(r.policy, r.body, current', r.left)
      OBVIOUS
    <3>2. x.owned /\ runs' = (runs \ {r}) \cup {x}
      BY <2>4, <3>1 DEF Run, Resend
    <3> QED BY <1>x, <3>2
  <2>5. CASE RequestEnds(r)
    <3>1. CASE Failed(r) /\ ~disposed
      <4>1. PICK s, t : Dispatches(s, t, runs \ {r})
        BY <2>5, <3>1, FailureDispatches
      <4> QED BY <1>d, <4>1 DEF Dispatches
    <3> QED BY <1>s, <2>5, <3>1 DEF RequestEnds
  <2> QED BY <1>s, <2>1, <2>3, <2>4, <2>5 DEF ResponseEnds, ClearEnds
<1>3. CASE InitStep
  <2>1. CASE InitFinishes
    BY <1>d, <2>1, InitDispatches
  <2> QED BY <1>3, <1>s, <2>1 DEF InitStep, InitQueryOwn, InitQueryPeer, InitQueryFails, InitRetries, InitLoaded,
                             InitAbandoned
<1>r. ASSUME NEW s, NEW q, StartResponse(s, q) PROVE Owned'
  <2>1. PICK x : x = Run("response", ResponseBody(q), NextExpiry(current, Clock(restarts)), MaxSubmitRetries)
    OBVIOUS
  <2>2. x.owned /\ runs' = runs \cup {x}
    BY <1>r, <2>1 DEF StartResponse, Run
  <2> QED BY <1>x, <2>2
<1>4. CASE DecoderStep
  <2>1. PICK st \in decoding : Dropped(st) \/ Nacked(st) \/ RequestArrives(st) \/ ResponseArrives(st)
    BY <1>4 DEF DecoderStep
  <2>2. CASE ResponseArrives(st)
    BY <1>d, <2>2, ResponseDispatches DEF Dispatches
  <2>3. CASE Nacked(st)
    BY <1>s, <1>r, <2>3 DEF Nacked
  <2> QED BY <1>s, <2>1, <2>2, <2>3 DEF Dropped, RequestArrives
<1>5. CASE PeerRead \/ PeerAnswer
  BY <1>5, <1>s DEF PeerRead, PeerAnswer, PeerReads, PeerAnswers, Published
<1>6. CASE Application
  <2>1. ASSUME NEW m \in Message, SubmitRequestMessage(m) PROVE Owned'
    BY <1>d, <2>1, SubmitDispatches DEF Dispatches
  <2>2. ASSUME NEW q \in PeerRequest, SubmitResponseMessage(q) PROVE Owned'
    BY <1>r, <2>2 DEF SubmitResponseMessage
  <2>3. CASE ClearOutgoingStatement
    <3>x. PICK x : x = Run("clear", RequestBody(LiveRequestId(machine), <<>>, roster), current', 0)
      OBVIOUS
    <3>1. x.owned /\ runs' \subseteq runs \cup {x}
      BY <2>3, <3>x DEF ClearOutgoingStatement, Run
    <3> QED BY <1>x, <3>1
  <2> QED BY <1>6, <1>s, <2>1, <2>2, <2>3 DEF Application, RespondAgain, Subscribe, Unsubscribe, Dispose
<1>7. CASE Environment
  <2>1. ASSUME NEW devices \in Roster, RosterChanges(devices) PROVE Owned'
    BY <1>d, <1>s, <2>1, RosterDispatches DEF Dispatches
  <2>2. CASE Restart
    <3>1. runs' = {}
      BY <2>2 DEF Restart, Orphans
    <3> QED BY <1>s, <3>1
  <2> QED BY <1>7, <1>s, <2>1, <2>2 DEF Environment, PeerAsks, Published
<1>8. CASE UNCHANGED vars
  BY <1>8, <1>s DEF vars
<1> QED BY <1>1, <1>2, <1>3, <1>4, <1>5, <1>6, <1>7, <1>8 DEF Next

LEMMA OwnedInvariant ==
    ASSUME "late" \notin Behaviour
    PROVE  Spec => []Owned
<1>1. Init => Owned
  BY DEF Init, Owned
<1>2. SessionTypes /\ Owned /\ [Next]_vars => Owned'
  BY OwnedStep
<1> QED BY <1>1, <1>2, SessionTyped, PTL DEF Spec

\* The answers and their channel stay as they are.
LEMMA AnswersKept ==
    ASSUME AnswersOK, Answering' = Answering, lastResponse' = lastResponse, own'["response"] = own["response"],
           disposed => disposed',
           lastResponse \in PeerRequest => machine'.incoming[lastResponse] = machine.incoming[lastResponse]
    PROVE  AnswersOK'
BY DEF AnswersOK, IsTracked

LEMMA SlotIsTaken == \A expiry, body : [expiry |-> expiry, body |-> body] # None
<1> SUFFICES ASSUME NEW expiry, NEW body, [expiry |-> expiry, body |-> body] = None PROVE FALSE
  OBVIOUS
<1>1. "kind" \in DOMAIN None /\ DOMAIN [expiry |-> expiry, body |-> body] = {"expiry", "body"}
  BY DEF None
<1> QED BY <1>1

\* A submission of an answer moves on.
LEMMA AnswerMovesOn ==
    ASSUME AnswersOK, UNCHANGED <<lastResponse, machine, own, disposed>>,
           NEW r \in Answering, NEW x, x.body = r.body, x.expiry = r.expiry, ~(x.pc = "answered" /\ x.error = "none"),
           Answering' = (Answering \ {r}) \cup {x}
    PROVE  AnswersOK'
<1>1. \A y, z \in Answering' : y.body.id = lastResponse /\ z.body.id # lastResponse => z.expiry < y.expiry
  BY DEF AnswersOK
<1>2. CASE ~disposed /\ lastResponse \in PeerRequest /\ machine.incoming[lastResponse] = "responded"
  <2>1. CASE \E y \in Answering : y.body.id = lastResponse /\ ~(y.pc = "answered" /\ y.error = "none")
    <3>1. PICK y \in Answering : y.body.id = lastResponse /\ ~(y.pc = "answered" /\ y.error = "none")
      BY <2>1
    <3>2. y \in Answering' \/ (y = r /\ x \in Answering')
      OBVIOUS
    <3> QED BY <1>1, <3>1, <3>2 DEF AnswersOK, IsTracked
  <2>2. CASE ~\E y \in Answering : y.body.id = lastResponse /\ ~(y.pc = "answered" /\ y.error = "none")
    BY <1>1, <1>2, <2>2 DEF AnswersOK, IsTracked
  <2> QED BY <2>1, <2>2
<1>3. CASE ~(~disposed /\ lastResponse \in PeerRequest /\ machine.incoming[lastResponse] = "responded")
  BY <1>1, <1>3 DEF AnswersOK, IsTracked
<1> QED BY <1>2, <1>3

\* The store accepts an answer.
LEMMA AnswerAccepted ==
    ASSUME SessionTypes, AnswersOK, UNCHANGED <<lastResponse, machine, disposed>>,
           NEW r \in Answering, NEW x, x.body = r.body, x.expiry = r.expiry,
           Answering' = (Answering \ {r}) \cup {x},
           ~Occupied(r), own'["response"] = [expiry |-> r.expiry, body |-> r.body]
    PROVE  AnswersOK'
<1>1. Channel(r) = "response" /\ r.expiry \in Nat
  BY ChannelKind DEF SessionTypes, Answering
<1>2. own'["response"] # None /\ own'["response"].body.id = r.body.id /\ own'["response"].expiry = r.expiry
  BY SlotIsTaken
<1>3. \A y, z \in Answering' : y.body.id = lastResponse /\ z.body.id # lastResponse => z.expiry < y.expiry
  BY DEF AnswersOK
<1>4. lastResponse \in PeerRequest => IsTracked(machine, lastResponse)'
  BY DEF AnswersOK, IsTracked
<1>5. CASE r.body.id = lastResponse
  BY <1>2, <1>3, <1>4, <1>5 DEF AnswersOK
<1>6. CASE r.body.id # lastResponse
  <2>1. own["response"] # None => own["response"].expiry \in Nat
    BY DEF SessionTypes, ChannelsOK, Slot
  <2>2. ~(own["response"] # None /\ r.expiry < own["response"].expiry)
    BY <1>1, <2>1 DEF Occupied
  <2>3. \A y \in Answering : y.body.id = lastResponse => y \in Answering'
    BY <1>6
  <2> QED BY <1>3, <1>4, <1>6, <2>2, <2>3 DEF AnswersOK
<1> QED BY <1>5, <1>6

\* The newest answer starts, or is sent again: with an expiry above all.
LEMMA AnswerOutranks ==
    ASSUME SessionTypes, AnswersOK, NEW x, x.expiry = NextExpiry(current, Clock(restarts)), x.pc = "sending",
           x.body.id = lastResponse', (lastResponse \in PeerRequest => IsTracked(machine, lastResponse))',
           NEW kept \in SUBSET Answering, Answering' = kept \cup {x},
           \A r \in kept : r.body.id # lastResponse'
    PROVE  AnswersOK'
<1>1. \A r \in kept : r.expiry \in Nat /\ r.expiry <= current
  BY DEF SessionTypes, RunsOK, RunOK, Submission, Answering
<1>2. current \in Nat /\ x.expiry \in Nat /\ current < x.expiry
  BY ClockAdvances DEF SessionTypes, RunsOK
<1>3. \A r \in kept : r.expiry < x.expiry
  BY <1>1, <1>2
<1>4. \A y, z \in Answering' : y.body.id = lastResponse' /\ z.body.id # lastResponse' => z.expiry < y.expiry
  BY <1>3
<1>5. x \in Answering' /\ ~(x.pc = "answered" /\ x.error = "none")
  OBVIOUS
<1> QED BY <1>4, <1>5 DEF AnswersOK

\* The submission of an answer ends: if of the newest, accepted or failed.
LEMMA AnswerIsDone ==
    ASSUME SessionTypes, AnswersOK, NEW r \in Answering, ResponseEnds(r)
    PROVE  AnswersOK'
<1> USE DEF sessionVars, outsideVars
<1>1. Answering' = Answering \ {r} /\ UNCHANGED <<lastResponse, own, disposed>>
  BY DEF ResponseEnds, Answering
<1>2. r.body.id \in PeerRequest /\ r.policy = "response"
  BY DEF SessionTypes, RunsOK, RunOK, AnswerBody, Answering
<1>m. machine.incoming \in [PeerRequest -> {"unknown", "open", "responded"}] /\ machine \in R!Machine
  BY IncomingType
<1>3. \A y, z \in Answering' : y.body.id = lastResponse /\ z.body.id # lastResponse => z.expiry < y.expiry
  BY <1>1 DEF AnswersOK
<1>4. CASE Failed(r) /\ ~disposed /\ lastResponse = r.body.id
  <2>1. machine' = [machine EXCEPT !.incoming[r.body.id] = "open"]
    BY <1>2, <1>4 DEF ResponseEnds, ResponseSubmitFailed, Unchanged, AnswersOK
  <2>2. machine'.incoming[lastResponse] = "open"
    BY <1>2, <1>4, <1>m, <2>1 DEF R!Machine
  <2> QED BY <1>1, <1>3, <2>2 DEF AnswersOK, IsTracked
<1>5. CASE ~(Failed(r) /\ ~disposed /\ lastResponse = r.body.id)
  <2>1. UNCHANGED machine
    BY <1>5 DEF ResponseEnds
  <2>2. ~disposed /\ lastResponse = r.body.id => r.pc = "answered" /\ r.error = "none"
    <3> SUFFICES ASSUME ~disposed, lastResponse = r.body.id PROVE r.pc = "answered" /\ r.error = "none"
      OBVIOUS
    <3>1. ShouldRetry(r) /\ ~Failed(r)
      BY <1>2, <1>5 DEF ShouldRetry
    <3>2. Ends(r)
      BY DEF ResponseEnds
    <3> QED BY <3>1, <3>2 DEF Ends, GivesUp, Failed
  <2>3. \A y \in Answering : y.body.id = lastResponse /\ ~(y.pc = "answered" /\ y.error = "none") /\ ~disposed => y \in Answering'
    BY <1>1, <2>2
  <2> QED BY <1>1, <1>3, <2>1, <2>3 DEF AnswersOK, IsTracked
<1> QED BY <1>4, <1>5

LEMMA AnswersStep ==
    ASSUME SessionTypes, RequestsOK, Owned, AnswersOK, [Next]_vars, "late" \notin Behaviour
    PROVE  AnswersOK'
<1> USE DEF sessionVars, outgoingVars, incomingVars, deliveryVars, intakeVars, outsideVars, peerVars, bounds
<1>0. MachineOK /\ RunsOK /\ OutsideOK /\ InitOK
  BY DEF SessionTypes
<1>m. machine \in R!Machine /\ machine.incoming \in [PeerRequest -> {"unknown", "open", "responded"}]
  BY IncomingType
<1>s. UNCHANGED <<machine, runs, lastResponse, own>> /\ (disposed => disposed') => AnswersOK'
  BY AnswersKept DEF Answering
<1>d. ASSUME NEW s, NEW t, NEW kept \in SUBSET runs, Dispatches(s, t, kept), \A r \in runs \ kept : r.policy = "request",
             t.state.incoming = machine.incoming
      PROVE  AnswersOK'
  <2>1. machine'.incoming = machine.incoming /\ UNCHANGED <<lastResponse, own, disposed>>
    BY <1>d DEF Dispatches, Dispatching, Start
  <2>2. Answering' = Answering
    BY <1>d, DispatchedAnswers DEF Dispatches
  <2> QED BY <2>1, <2>2, AnswersKept
<1>t. ASSUME NEW q \in PeerRequest, ~IsTracked(machine, q), NEW v, machine'.incoming = [machine.incoming EXCEPT ![q] = v],
             Answering' = Answering, UNCHANGED <<lastResponse, own, disposed>>
      PROVE  AnswersOK'
  <2>1. lastResponse \in PeerRequest => lastResponse # q
    BY <1>t DEF AnswersOK
  <2>2. lastResponse \in PeerRequest => machine'.incoming[lastResponse] = machine.incoming[lastResponse]
    BY <1>m, <1>t, <2>1
  <2> QED BY <1>t, <2>2, AnswersKept
<1>1. CASE StoreStep
  <2>1. PICK r \in runs : StoreAccepts(r) \/ StoreRejects(r) \/ CallFails(r) \/ AccountFull(r)
    BY <1>1 DEF StoreStep
  <2>2. UNCHANGED <<machine, lastResponse, disposed>> /\ r.pc = "sending" /\ r \in Submission /\ r.owned
    BY <1>0, <2>1 DEF StoreAccepts, StoreRejects, CallFails, AccountFull, Uninvolved, RunsOK, RunOK, Owned
  <2>3. PICK error, min : /\ runs' = Answered(r, error, min)
                          /\ \/ UNCHANGED own /\ error # "none"
                             \/ ~Occupied(r) /\ own' = Stored(r)
    BY <2>1 DEF StoreAccepts, StoreRejects, CallFails, AccountFull
  <2>4. PICK x : x = [r EXCEPT !.pc = "answered", !.error = error, !.min = min]
    OBVIOUS
  <2>5. /\ x.owned /\ x.policy = r.policy /\ x.body = r.body /\ x.expiry = r.expiry
        /\ x.error = error /\ runs' = (runs \ {r}) \cup {x}
    BY <2>2, <2>3, <2>4 DEF Submission, Answered
  <2>6. CASE r.policy # "response"
    <3>1. Answering' = Answering
      BY <2>5, <2>6 DEF Answering
    <3>2. own'["response"] = own["response"]
      BY <1>0, <2>2, <2>3, <2>6, StoredFacts, ChannelKind
    <3> QED BY <2>2, <3>1, <3>2, AnswersKept
  <2>7. CASE r.policy = "response"
    <3>1. r \in Answering /\ Answering' = (Answering \ {r}) \cup {x}
      BY <2>2, <2>5, <2>7 DEF Answering
    <3>2. CASE UNCHANGED own /\ error # "none"
      BY <2>2, <2>5, <3>1, <3>2, AnswerMovesOn
    <3>3. CASE ~Occupied(r) /\ own' = Stored(r)
      <4>1. own'["response"] = [expiry |-> r.expiry, body |-> r.body]
        BY <1>0, <2>2, <2>7, <3>3, StoredFacts, ChannelKind
      <4> QED BY <2>2, <2>5, <3>1, <3>3, <4>1, AnswerAccepted
    <3> QED BY <2>3, <3>2, <3>3
  <2> QED BY <2>6, <2>7
<1>2. CASE DriverStep
  <2>1. PICK r \in runs : BackOff(r) \/ Resend(r) \/ RequestEnds(r) \/ ResponseEnds(r) \/ ClearEnds(r)
    BY <1>2 DEF DriverStep
  <2>2. r \in Submission /\ RunOK(r) /\ r.owned
    BY <1>0 DEF RunsOK, RunOK, Owned
  <2>3. CASE BackOff(r)
    <3>1. PICK x : x = [r EXCEPT !.pc = "backoff", !.left = IF r.error = "transient" THEN @ - 1 ELSE @]
      OBVIOUS
    <3>2. x.owned /\ x.policy = r.policy /\ x.body = r.body /\ x.expiry = r.expiry /\ x.pc = "backoff"
      BY <2>2, <3>1 DEF Submission
    <3>3. runs' = (runs \ {r}) \cup {x} /\ UNCHANGED <<lastResponse, machine, own, disposed>>
      BY <2>3, <3>1 DEF BackOff
    <3>4. CASE r.policy = "response"
      <4>1. r \in Answering /\ Answering' = (Answering \ {r}) \cup {x}
        BY <2>2, <3>2, <3>3, <3>4 DEF Answering
      <4> QED BY <3>2, <3>3, <4>1, AnswerMovesOn
    <3>5. CASE r.policy # "response"
      <4>1. Answering' = Answering
        BY <3>2, <3>3, <3>5 DEF Answering
      <4> QED BY <3>3, <4>1, AnswersKept
    <3> QED BY <3>4, <3>5
  <2>4. CASE Resend(r)
    <3>1. PICK x : x = Run(r.policy, r.body, current', r.left)
      OBVIOUS
    <3>2. x.owned /\ x.policy = r.policy /\ x.body = r.body /\ x.expiry = current' /\ x.pc = "sending"
      BY <2>2, <3>1 DEF Run, Submission
    <3>3. /\ runs' = (runs \ {r}) \cup {x} /\ UNCHANGED <<lastResponse, machine, own, disposed>>
          /\ current' = NextExpiry(current, Clock(restarts)) /\ ShouldRetry(r)
      BY <2>4, <3>1 DEF Resend
    <3>4. CASE r.policy = "response"
      <4>1. r \in Answering /\ Answering' = (Answering \ {r}) \cup {x}
        BY <2>2, <3>2, <3>3, <3>4 DEF Answering
      <4>2. lastResponse = r.body.id
        BY <3>3, <3>4 DEF ShouldRetry
      <4>3. \A y \in Answering \ {r} : y.body.id # lastResponse
        BY <4>1, <4>2 DEF RequestsOK, OneRunPerResponse, Answering
      <4>4. Answering \ {r} \in SUBSET Answering
        OBVIOUS
      <4>5. (lastResponse \in PeerRequest => IsTracked(machine, lastResponse))'
        BY <3>3 DEF AnswersOK, IsTracked
      <4> QED BY <3>2, <3>3, <4>1, <4>2, <4>3, <4>4, <4>5, AnswerOutranks
    <3>5. CASE r.policy # "response"
      <4>1. Answering' = Answering
        BY <3>2, <3>3, <3>5 DEF Answering
      <4> QED BY <3>3, <4>1, AnswersKept
    <3> QED BY <3>4, <3>5
  <2>5. CASE RequestEnds(r)
    <3>1. r.policy = "request"
      BY <2>5 DEF RequestEnds
    <3>2. CASE Failed(r) /\ ~disposed
      <4>1. PICK s, t : Dispatches(s, t, runs \ {r}) /\ t.state.incoming = machine.incoming
        BY <2>5, <3>2, FailureDispatches
      <4>2. runs \ {r} \in SUBSET runs /\ \A x \in runs \ (runs \ {r}) : x.policy = "request"
        BY <3>1
      <4> QED BY <1>d, <4>1, <4>2
    <3>3. CASE ~(Failed(r) /\ ~disposed)
      <4>1. UNCHANGED <<machine, lastResponse, own, disposed>> /\ runs' = runs \ {r}
        BY <2>5, <3>3 DEF RequestEnds
      <4>2. Answering' = Answering
        BY <3>1, <4>1 DEF Answering
      <4> QED BY <4>1, <4>2, AnswersKept
    <3> QED BY <3>2, <3>3
  <2>6. CASE ClearEnds(r)
    <3>1. UNCHANGED <<machine, lastResponse, own, disposed>> /\ runs' = runs \ {r} /\ r.policy = "clear"
      BY <2>6 DEF ClearEnds
    <3>2. Answering' = Answering
      BY <3>1 DEF Answering
    <3> QED BY <3>1, <3>2, AnswersKept
  <2>7. CASE ResponseEnds(r)
    <3>1. r \in Answering
      BY <2>2, <2>7 DEF ResponseEnds, Answering
    <3> QED BY <2>7, <3>1, AnswerIsDone
  <2> QED BY <2>1, <2>3, <2>4, <2>5, <2>6, <2>7
<1>3. CASE InitStep
  <2>1. CASE InitQueryFails
    <3>1. machine'.incoming = machine.incoming
      BY <1>m, <2>1 DEF InitQueryFails, InitFailed, Unchanged, R!Machine
    <3> QED BY <2>1, <3>1, AnswersKept DEF InitQueryFails, Answering
  <2>2. CASE InitFinishes
    <3>1. PICK s, t : Dispatching(s, t, runs) /\ Tracks(t.state.incoming)
      BY <2>2, InitDispatches
    <3>2. Answering' = Answering
      BY <3>1, DispatchedAnswers
    <3>3. machine'.incoming = t.state.incoming /\ UNCHANGED <<lastResponse, own, disposed>>
      BY <3>1 DEF Dispatching, Start
    <3>4. Tracks(machine'.incoming)
      BY <3>1, <3>3
    <3> QED BY <1>t, <3>2, <3>3, <3>4, AnswersKept DEF Tracks
  <2> QED BY <1>3, <1>s, <2>1, <2>2 DEF InitStep, InitQueryOwn, InitQueryPeer, InitRetries, InitLoaded, InitAbandoned
<1>r. ASSUME NEW x \in R!Machine, NEW q \in PeerRequest, StartResponse(x, q), UNCHANGED <<own, disposed>>,
             machine.incoming[q] # "responded", IsTracked(x, q)
      PROVE  AnswersOK'
  <2>1. PICK y : y = Run("response", ResponseBody(q), NextExpiry(current, Clock(restarts)), MaxSubmitRetries)
    OBVIOUS
  <2>2. /\ y.owned /\ y.policy = "response" /\ y.body.id = q /\ y.pc = "sending"
        /\ y.expiry = NextExpiry(current, Clock(restarts))
    BY <2>1 DEF Run, ResponseBody
  <2>3. runs' = runs \cup {y} /\ lastResponse' = q
    BY <1>r, <2>1 DEF StartResponse
  <2>4. Answering' = Answering \cup {y}
    BY <2>2, <2>3 DEF Answering
  <2>5. \A z \in Answering : z.body.id # q
    BY <1>r DEF RequestsOK, Answering
  <2>6. machine' = [x EXCEPT !.incoming[q] = "responded"]
    BY <1>r DEF StartResponse, ResponseSubmitted, Unchanged
  <2>7. (lastResponse \in PeerRequest => IsTracked(machine, lastResponse))'
    BY <1>r, <2>3, <2>6 DEF IsTracked, R!Machine
  <2> QED BY <2>2, <2>3, <2>4, <2>5, <2>7, AnswerOutranks
<1>4. CASE DecoderStep
  <2>1. PICK st \in decoding : Dropped(st) \/ Nacked(st) \/ RequestArrives(st) \/ ResponseArrives(st)
    BY <1>4 DEF DecoderStep
  <2>2. CASE Dropped(st)
    BY <1>s, <2>2 DEF Dropped, Decoded
  <2>3. CASE Nacked(st)
    <3>1. st.id \in PeerRequest /\ ~IsTracked(machine, st.id) /\ UNCHANGED <<own, disposed>>
      BY <1>0, <2>3, ArrivedRequest DEF Nacked, Decoded
    <3>2. PICK x : x = RequestReceived(machine, st.id).state
      OBVIOUS
    <3>3. x = [machine EXCEPT !.incoming[st.id] = "open"]
      BY <3>1, <3>2 DEF RequestReceived, Unchanged
    <3>4. x \in R!Machine /\ x.incoming = [machine.incoming EXCEPT ![st.id] = "open"]
      BY <1>m, <3>1, <3>3 DEF R!Machine
    <3>5. CASE machine' = x /\ UNCHANGED <<runs, lastResponse>>
      BY <1>t, <3>1, <3>4, <3>5 DEF Answering
    <3>6. CASE StartResponse(x, st.id)
      <4>1. IsTracked(x, st.id) /\ machine.incoming[st.id] # "responded"
        BY <1>m, <3>1, <3>4 DEF IsTracked
      <4> QED BY <1>r, <3>1, <3>4, <3>6, <4>1
    <3> QED BY <2>3, <3>2, <3>5, <3>6 DEF Nacked
  <2>4. CASE RequestArrives(st)
    <3>1. /\ st.id \in PeerRequest /\ ~IsTracked(machine, st.id) /\ UNCHANGED <<runs, lastResponse, own, disposed>>
      BY <1>0, <2>4, ArrivedRequest DEF RequestArrives, Decoded
    <3>2. machine' = [machine EXCEPT !.incoming[st.id] = "open"]
      BY <2>4, <3>1 DEF RequestArrives, RequestReceived, Unchanged
    <3>3. machine'.incoming = [machine.incoming EXCEPT ![st.id] = "open"]
      BY <1>m, <3>2 DEF R!Machine
    <3> QED BY <1>t, <3>1, <3>3 DEF Answering
  <2>5. CASE ResponseArrives(st)
    <3>2. PICK s, t : Dispatches(s, t, runs) /\ t.state.incoming = machine.incoming
      BY <2>5, ResponseDispatches
    <3> QED BY <1>d, <3>2
  <2> QED BY <2>1, <2>2, <2>3, <2>4, <2>5
<1>5. CASE PeerRead \/ PeerAnswer
  <2>1. UNCHANGED <<machine, runs, lastResponse, own, disposed>>
    BY <1>5 DEF PeerRead, PeerAnswer, PeerReads, PeerAnswers, Published
  <2> QED BY <1>s, <2>1
<1>6. CASE Application
  <2>1. ASSUME NEW m \in Message, SubmitRequestMessage(m) PROVE AnswersOK'
    BY <1>d, <2>1, SubmitDispatches
  <2>2. ASSUME NEW q \in PeerRequest, SubmitResponseMessage(q) PROVE AnswersOK'
    BY <1>m, <1>r, <2>2 DEF SubmitResponseMessage, IsTracked
  <2>3. CASE ClearOutgoingStatement
    <3>1. machine'.incoming = machine.incoming /\ UNCHANGED <<lastResponse, own, disposed>>
      BY <1>m, <2>3 DEF ClearOutgoingStatement, OutgoingCleared, Unchanged, R!Machine
    <3>x. PICK x : x = Run("clear", RequestBody(LiveRequestId(machine), <<>>, roster), current', 0)
      OBVIOUS
    <3>2. x.policy = "clear" /\ (runs' = runs \cup {x} \/ UNCHANGED runs)
      BY <2>3, <3>x DEF ClearOutgoingStatement, Run
    <3>3. Answering' = Answering
      BY <3>2 DEF Answering
    <3> QED BY <3>1, <3>3, AnswersKept
  <2>4. CASE Dispose
    <3>1. machine'.incoming = machine.incoming
      BY <1>m, <2>4 DEF Dispose, OutgoingCleared, Unchanged, R!Machine
    <3>2. UNCHANGED <<runs, lastResponse, own>> /\ disposed'
      BY <2>4 DEF Dispose
    <3> QED BY <3>1, <3>2, AnswersKept DEF Answering
  <2> QED BY <1>6, <1>s, <2>1, <2>2, <2>3, <2>4 DEF Application, RespondAgain, Subscribe, Unsubscribe
<1>7. CASE Environment
  <2>1. ASSUME NEW q \in PeerRequest, NEW form \in Form(q), PeerAsks(q, form) PROVE AnswersOK'
    BY <1>s, <2>1 DEF PeerAsks, Published
  <2>2. ASSUME NEW devices \in Roster, RosterChanges(devices) PROVE AnswersOK'
    <3>1. CASE UNCHANGED <<outgoingVars, lastResponse, own, disposed>>
      BY <1>s, <3>1
    <3>2. CASE \E t : Dispatches(machine, t, runs) /\ t.state.incoming = machine.incoming
      BY <1>d, <3>2
    <3> QED BY <2>2, <3>1, <3>2, RosterDispatches
  <2>3. CASE Restart
    <3>1. runs' = {} /\ lastResponse' = None
      BY <2>3 DEF Restart, Orphans
    <3>2. None \notin PeerRequest
      BY SessionAssumption
    <3> QED BY <3>1, <3>2 DEF AnswersOK, Answering
  <2> QED BY <1>7, <2>1, <2>2, <2>3 DEF Environment
<1>8. CASE UNCHANGED vars
  BY <1>8, <1>s DEF vars
<1> QED BY <1>1, <1>2, <1>3, <1>4, <1>5, <1>6, <1>7, <1>8 DEF Next

\* Unless a dead session's calls land late, the newest answer is not lost.
THEOREM RequestsAlwaysHandledOnce ==
    ASSUME "late" \notin Behaviour
    PROVE  Spec => []RequestsAreHandledOnce
<1>1. Init => AnswersOK
  <2>1. None \notin PeerRequest
    BY SessionAssumption
  <2> QED BY <2>1 DEF Init, AnswersOK, Answering
<1>2. SessionTypes /\ RequestsOK /\ Owned /\ AnswersOK /\ [Next]_vars => AnswersOK'
  BY AnswersStep
<1>3. RequestsOK /\ AnswersOK => RequestsAreHandledOnce
  <2> SUFFICES ASSUME RequestsOK, AnswersOK PROVE RequestsAreHandledOnce
    OBVIOUS
  <2>1. BufferedAwaitsAnswer /\ GivenOnce /\ SubscribersAreServed /\ OneRunPerResponse
    BY DEF RequestsOK, GivenOnce
  <2>2. NewestAnswerIsCarried
    BY DEF AnswersOK, NewestAnswerIsCarried, Answering
  <2> QED BY <2>1, <2>2 DEF RequestsAreHandledOnce
<1> QED BY <1>1, <1>2, <1>3, SessionTyped, RequestsInvariant, OwnedInvariant, PTL DEF Spec

-----------------------------------------------------------------------------
(* Our request channel, where no submit call of a dead session lands late *)

LEMMA RankFacts ==
    ASSUME NEW body \in AskBody
    PROVE  /\ Rank(body) \in Nat /\ 2 * body.id <= Rank(body) /\ Rank(body) <= 2 * body.id + 1
           /\ body.messages # <<>> => Rank(body) = 2 * body.id
           /\ body.messages = <<>> => Rank(body) = 2 * body.id + 1
           /\ body.id \in Nat /\ body.id # 0
BY DEF Rank, AskBody

LEMMA AskFacts ==
    ASSUME SessionTypes, Owned, NEW r \in Asks
    PROVE  /\ r \in runs /\ RunOK(r) /\ r.policy # "response" /\ r.body \in AskBody /\ r.body.id < nextId
           /\ r.expiry \in Nat /\ r.expiry <= current /\ Channel(r) = "request"
           /\ r.pc = "sending" => r.expiry # 0
BY ChannelKind DEF Asks, SessionTypes, RunsOK, RunOK, Submission, Owned

LEMMA OurFacts ==
    ASSUME SessionTypes, own["request"] # None
    PROVE  /\ own["request"].body \in AskBody /\ own["request"].body.id < nextId /\ own["request"].expiry \in Nat
BY DEF SessionTypes, ChannelsOK, Slot

\* The channel stays, and nothing is started.
LEMMA LineKept ==
    ASSUME LineOK, Asks' \subseteq Asks, own'["request"] = own["request"],
           machine'.phase = machine.phase \/ machine'.phase # "initialization",
           \/ ~IsLive(machine'.outgoing)
           \/ machine'.outgoing.ids = machine.outgoing.ids
    PROVE  LineOK'
<1>1. IsLive(machine'.outgoing) => IsLive(machine.outgoing) /\ LiveRequestId(machine') = LiveRequestId(machine)
  BY DEF IsLive, LiveRequestId
<1>2. machine'.phase = "initialization" => Asks' = {}
  BY DEF LineOK
<1> QED BY <1>1, <1>2 DEF LineOK

\* A submission moves on.
LEMMA LineMoves ==
    ASSUME LineOK, UNCHANGED machine, own'["request"] = own["request"], NEW r \in Asks, NEW x,
           x.body = r.body, x.expiry = r.expiry, x.policy = r.policy, Asks' = (Asks \ {r}) \cup {x}
    PROVE  LineOK'
<1>1. \A y \in Asks' : \E z \in Asks : y.body = z.body /\ y.expiry = z.expiry /\ y.policy = z.policy
  OBVIOUS
<1>2. machine'.phase = "initialization" => Asks' = {}
  BY DEF LineOK
<1>3. /\ \A y, z \in Asks' : y.expiry # 0 /\ z.expiry # 0 /\ Rank(y.body) < Rank(z.body) => y.expiry < z.expiry
      /\ \A y \in Asks' : own["request"] # None /\ y.expiry # 0 /\ Rank(y.body) < Rank(own["request"].body)
                         => y.expiry <= own["request"].expiry
  BY <1>1 DEF LineOK
<1>4. IsLive(machine.outgoing) =>
         /\ own["request"] # None => own["request"].body.id <= LiveRequestId(machine)
         /\ \A y \in Asks' : y.body.id <= LiveRequestId(machine)
         /\ \A y \in Asks' : y.policy = "request" /\ y.body.id = LiveRequestId(machine) =>
              /\ own["request"] # None => Rank(own["request"].body) <= Rank(y.body)
              /\ \A z \in Asks' : Rank(z.body) <= Rank(y.body)
  BY <1>1 DEF LineOK
<1> QED BY <1>2, <1>3, <1>4 DEF LineOK

\* The store accepts a submission: none that it outranks is newer.
LEMMA LineAccepts ==
    ASSUME LineOK, UNCHANGED machine, NEW r \in Asks, NEW x, r.expiry # 0,
           x.body = r.body, x.expiry = r.expiry, x.policy = r.policy, Asks' = (Asks \ {r}) \cup {x},
           own'["request"] = [expiry |-> r.expiry, body |-> r.body],
           \A y \in Asks : y.expiry \in Nat
    PROVE  LineOK'
<1>1. own'["request"] # None /\ own'["request"].body = r.body /\ own'["request"].expiry = r.expiry
  BY SlotIsTaken
<1>2. \A y \in Asks : y.expiry # 0 /\ Rank(y.body) < Rank(r.body) => y.expiry <= r.expiry
  <2> SUFFICES ASSUME NEW y \in Asks, y.expiry # 0, Rank(y.body) < Rank(r.body) PROVE y.expiry <= r.expiry
    OBVIOUS
  <2>1. y.expiry < r.expiry
    BY DEF LineOK
  <2> QED BY <2>1
<1>3. \A y \in Asks' : \E z \in Asks : y.body = z.body /\ y.expiry = z.expiry /\ y.policy = z.policy
  OBVIOUS
<1>4. machine'.phase = "initialization" => Asks' = {}
  BY DEF LineOK
<1>5. /\ \A y, z \in Asks' : y.expiry # 0 /\ z.expiry # 0 /\ Rank(y.body) < Rank(z.body) => y.expiry < z.expiry
      /\ \A y \in Asks' : y.expiry # 0 /\ Rank(y.body) < Rank(r.body) => y.expiry <= r.expiry
  BY <1>2, <1>3 DEF LineOK
<1>6. IsLive(machine.outgoing) =>
         /\ r.body.id <= LiveRequestId(machine)
         /\ \A y \in Asks' : y.body.id <= LiveRequestId(machine)
         /\ \A y \in Asks' : y.policy = "request" /\ y.body.id = LiveRequestId(machine) =>
              /\ Rank(r.body) <= Rank(y.body)
              /\ \A z \in Asks' : Rank(z.body) <= Rank(y.body)
  BY <1>3 DEF LineOK
<1> QED BY <1>1, <1>4, <1>5, <1>6 DEF LineOK

\* A channel that holds a newer batch is occupied.
LEMMA OlderIsRejected ==
    ASSUME SessionTypes, Owned, LineOK, NEW r \in Asks, r.pc = "sending", ~Occupied(r), own["request"] # None
    PROVE  Rank(own["request"].body) <= Rank(r.body)
<1>1. r.expiry \in Nat /\ r.expiry # 0 /\ own["request"].expiry \in Nat /\ ~(own["request"].expiry >= r.expiry)
  BY AskFacts, OurFacts DEF Occupied
<1>2. ~(Rank(r.body) < Rank(own["request"].body))
  BY <1>1 DEF LineOK
<1>3. Rank(r.body) \in Nat /\ Rank(own["request"].body) \in Nat
  BY AskFacts, OurFacts, RankFacts
<1> QED BY <1>2, <1>3

\* The live batch is sent again: with an expiry above all.
LEMMA LineResends ==
    ASSUME SessionTypes, Owned, LineOK, UNCHANGED machine, own'["request"] = own["request"], NEW r \in Asks, NEW x,
           r.policy = "request", LiveRequestId(machine) = r.body.id,
           x.body = r.body, x.policy = r.policy, x.expiry = NextExpiry(current, Clock(restarts)),
           Asks' = (Asks \ {r}) \cup {x}
    PROVE  LineOK'
<1>1. current \in Nat /\ x.expiry \in Nat /\ current < x.expiry
  BY ClockAdvances DEF SessionTypes, RunsOK
<1>2. r.body \in AskBody /\ Rank(r.body) \in Nat /\ IsLive(machine.outgoing)
  BY AskFacts, RankFacts DEF LiveRequestId
<1>3. ASSUME NEW y \in Asks
      PROVE  /\ y.expiry < x.expiry /\ Rank(y.body) \in Nat
             /\ y.body.id <= LiveRequestId(machine) /\ Rank(y.body) <= Rank(r.body)
  <2>1. y.body \in AskBody /\ y.expiry \in Nat /\ y.expiry <= current
    BY AskFacts
  <2>2. Rank(y.body) \in Nat
    BY <2>1, RankFacts
  <2> QED BY <1>1, <1>2, <2>1, <2>2 DEF LineOK
<1>4. own["request"] # None =>
         /\ own["request"].body.id <= LiveRequestId(machine) /\ Rank(own["request"].body) <= Rank(r.body)
         /\ Rank(own["request"].body) \in Nat
  BY <1>2, OurFacts, RankFacts DEF LineOK
<1>5. \A y, z \in Asks' : y.expiry # 0 /\ z.expiry # 0 /\ Rank(y.body) < Rank(z.body) => y.expiry < z.expiry
  <2> SUFFICES ASSUME NEW y \in Asks', NEW z \in Asks', y.expiry # 0, z.expiry # 0, Rank(y.body) < Rank(z.body)
               PROVE  y.expiry < z.expiry
    OBVIOUS
  <2>1. CASE y = x
    BY <1>2, <1>3, <2>1
  <2>2. CASE z = x /\ y \in Asks
    BY <1>3, <2>2
  <2>3. CASE y \in Asks /\ z \in Asks
    BY <2>3 DEF LineOK
  <2> QED BY <2>1, <2>2, <2>3
<1>6. \A y \in Asks' : own["request"] # None /\ y.expiry # 0 /\ Rank(y.body) < Rank(own["request"].body)
                         => y.expiry <= own["request"].expiry
  BY <1>2, <1>4 DEF LineOK
<1>7. \A y \in Asks' : y.body.id <= LiveRequestId(machine)
  BY <1>3
<1>8. \A y \in Asks' : y.policy = "request" /\ y.body.id = LiveRequestId(machine) =>
              /\ own["request"] # None => Rank(own["request"].body) <= Rank(y.body)
              /\ \A z \in Asks' : Rank(z.body) <= Rank(y.body)
  BY <1>2, <1>3, <1>4 DEF LineOK
<1>9. machine.phase # "initialization"
  BY DEF LineOK
<1>10. IsLive(machine'.outgoing) /\ LiveRequestId(machine') = LiveRequestId(machine)
  BY <1>2
<1> QED BY <1>4, <1>5, <1>6, <1>7, <1>8, <1>9, <1>10 DEF LineOK

\* The live batch is cleared: by one of the same id that outranks it.
LEMMA LineClears ==
    ASSUME SessionTypes, Owned, LineOK, own'["request"] = own["request"], IsLive(machine.outgoing),
           machine'.outgoing = NoBatch, machine'.phase = machine.phase, NEW x,
           x.body \in AskBody, x.body.id = LiveRequestId(machine), x.body.messages = <<>>,
           x.expiry = NextExpiry(current, Clock(restarts)), Asks' = Asks \cup {x}
    PROVE  LineOK'
<1>1. current \in Nat /\ x.expiry \in Nat /\ current < x.expiry
  BY ClockAdvances DEF SessionTypes, RunsOK
<1>2. Rank(x.body) \in Nat /\ Rank(x.body) = 2 * LiveRequestId(machine) + 1 /\ LiveRequestId(machine) \in Nat
  BY RankFacts
<1>3. ASSUME NEW y \in Asks
      PROVE  y.expiry < x.expiry /\ Rank(y.body) \in Nat /\ Rank(y.body) <= Rank(x.body)
  <2>1. y.body \in AskBody /\ y.expiry \in Nat /\ y.expiry <= current
    BY AskFacts
  <2>2. Rank(y.body) \in Nat /\ Rank(y.body) <= 2 * y.body.id + 1 /\ y.body.id \in Nat
    BY <2>1, RankFacts
  <2>3. y.body.id <= LiveRequestId(machine)
    BY DEF LineOK
  <2> QED BY <1>1, <1>2, <2>1, <2>2, <2>3, SMTT(30)
<1>4. own["request"] # None => Rank(own["request"].body) <= Rank(x.body) /\ Rank(own["request"].body) \in Nat
  <2> SUFFICES ASSUME own["request"] # None
               PROVE  Rank(own["request"].body) <= Rank(x.body) /\ Rank(own["request"].body) \in Nat
    OBVIOUS
  <2>1. own["request"].body \in AskBody
    BY OurFacts
  <2>2. /\ Rank(own["request"].body) \in Nat /\ Rank(own["request"].body) <= 2 * own["request"].body.id + 1
        /\ own["request"].body.id \in Nat
    BY <2>1, RankFacts
  <2>3. own["request"].body.id <= LiveRequestId(machine)
    BY DEF LineOK
  <2> QED BY <1>2, <2>2, <2>3
<1>5. \A y, z \in Asks' : y.expiry # 0 /\ z.expiry # 0 /\ Rank(y.body) < Rank(z.body) => y.expiry < z.expiry
  <2> SUFFICES ASSUME NEW y \in Asks', NEW z \in Asks', y.expiry # 0, z.expiry # 0, Rank(y.body) < Rank(z.body)
               PROVE  y.expiry < z.expiry
    OBVIOUS
  <2>1. CASE y = x
    BY <1>2, <1>3, <2>1
  <2>2. CASE z = x /\ y \in Asks
    BY <1>3, <2>2
  <2>3. CASE y \in Asks /\ z \in Asks
    BY <2>3 DEF LineOK
  <2> QED BY <2>1, <2>2, <2>3
<1>6. \A y \in Asks' : own["request"] # None /\ y.expiry # 0 /\ Rank(y.body) < Rank(own["request"].body)
                         => y.expiry <= own["request"].expiry
  BY <1>2, <1>4 DEF LineOK
<1>7. machine'.phase # "initialization" /\ ~IsLive(machine'.outgoing)
  BY BatchFacts DEF SessionTypes, MachineOK
<1> QED BY <1>5, <1>6, <1>7 DEF LineOK

\* What a dispatch starts: submissions of fresh ids, the last of the live batch.
Launches(t, kept, n, new) ==
    /\ runs' = kept \cup new
    /\ \A r \in new : /\ r.body.messages # <<>>
                      /\ \E i \in 1..n : IsStart(r, nextId + i - 1, NextExpiry(current, Clock(restarts)) + i - 1)
    /\ \E r \in new : r.body.id = nextId + n - 1
    /\ IsLive(t.state.outgoing) /\ LiveRequestId(t.state) = nextId + n - 1
    /\ t.state.phase # "initialization"

LEMMA DispatchedAsks ==
    ASSUME SessionTypes, NEW s, NEW t, NEW kept \in SUBSET runs, Dispatching(s, t, kept)
    PROVE  /\ machine' = t.state /\ own' = own
           /\ \/ runs' = kept /\ t.state.outgoing.ids = s.outgoing.ids
              \/ \E n \in Nat \ {0} : \E new : Launches(t, kept, n, new)
<1>1. PICK to \in SUBSET Device : Start(t, kept, to)
  BY DEF Dispatching
<1> DEFINE starts == t.effects.submits
           new == RequestRuns(starts, current, to)
<1>2. starts \in Seq(Send) /\ \A i \in 1..Len(starts) : starts[i].id = nextId + i - 1 /\ starts[i].messages # <<>>
  BY DEF Dispatching, Adopts, Sends
<1>3. runs' = kept \cup new /\ machine' = t.state /\ own' = own
  BY <1>1 DEF Start, Dispatching
<1>4. nextId \in Nat \ {0} /\ RunsOK
  BY DEF SessionTypes, MachineOK
<1>5. \/ starts = <<>> /\ t.state.outgoing.ids = s.outgoing.ids
      \/ starts # <<>> /\ IsLive(t.state.outgoing) /\ LiveRequestId(t.state) = nextId + Len(starts) - 1
  BY DEF Dispatching, Adopts, Sends
<1>6. IsLive(t.state.outgoing) => t.state.phase # "initialization"
  BY BatchFacts DEF Dispatching, Adopts
<1> HIDE DEF starts
<1>7. /\ \A r \in new : \E i \in 1..Len(starts) :
           /\ IsStart(r, nextId + i - 1, NextExpiry(current, Clock(restarts)) + i - 1)
           /\ r.body.messages # <<>>
      /\ \A i \in 1..Len(starts) : \E r \in new : r.body.id = nextId + i - 1
      /\ starts = <<>> => new = {}
  BY <1>2, <1>4, NewRuns
<1> HIDE DEF new
<1>8. CASE starts = <<>>
  BY <1>3, <1>5, <1>7, <1>8
<1>9. CASE starts # <<>>
  <2>1. Len(starts) \in Nat \ {0} /\ Len(starts) \in 1..Len(starts)
    BY <1>2, <1>9
  <2>2. Launches(t, kept, Len(starts), new)
    BY <1>3, <1>5, <1>6, <1>7, <1>9, <2>1 DEF Launches
  <2> QED BY <1>3, <2>1, <2>2
<1> QED BY <1>8, <1>9

\* Where a dispatch finds the batch it does not replace.
TakenOver(s) ==
    \/ s.outgoing.ids = <<>>
    \/ s.outgoing.ids = machine.outgoing.ids
    \/ Asks = {} /\ own["request"] # None /\ s.outgoing.ids = <<own["request"].body.id>>

LEMMA LineDispatches ==
    ASSUME SessionTypes, Owned, LineOK, NEW s, NEW t, NEW kept \in SUBSET runs, Dispatching(s, t, kept), TakenOver(s),
           t.state.phase = machine.phase \/ t.state.phase # "initialization"
    PROVE  LineOK'
<1>1. machine' = t.state /\ own' = own
  BY DispatchedAsks
<1>2. CASE runs' = kept /\ t.state.outgoing.ids = s.outgoing.ids
  <2>1. Asks' \subseteq Asks
    BY <1>2 DEF Asks
  <2>2. CASE s.outgoing.ids = <<>> \/ s.outgoing.ids = machine.outgoing.ids
    BY <1>1, <1>2, <2>1, <2>2, LineKept DEF IsLive
  <2>3. CASE Asks = {} /\ own["request"] # None /\ s.outgoing.ids = <<own["request"].body.id>>
    <3>1. LiveRequestId(machine') = own["request"].body.id
      BY <1>1, <1>2, <2>3 DEF LiveRequestId, IsLive, Last
    <3>2. own["request"].body.id \in Nat
      BY <2>3, OurFacts, RankFacts
    <3> QED BY <1>1, <2>1, <2>3, <3>1, <3>2 DEF LineOK
  <2> QED BY <2>2, <2>3 DEF TakenOver
<1>3. CASE ~(runs' = kept /\ t.state.outgoing.ids = s.outgoing.ids)
  <2>n. PICK n \in Nat \ {0} : \E new : Launches(t, kept, n, new)
    BY <1>3, DispatchedAsks
  <2>0. PICK new : Launches(t, kept, n, new)
    BY <2>n
  <2>1. /\ runs' = kept \cup new
        /\ \A r \in new : /\ r.body.messages # <<>>
                          /\ \E i \in 1..n : IsStart(r, nextId + i - 1, NextExpiry(current, Clock(restarts)) + i - 1)
        /\ IsLive(t.state.outgoing) /\ LiveRequestId(t.state) = nextId + n - 1
        /\ t.state.phase # "initialization"
    BY <2>0 DEF Launches
  <2>2. PICK base : base = NextExpiry(current, Clock(restarts))
    OBVIOUS
  <2>3. current \in Nat /\ base \in Nat /\ current < base /\ nextId \in Nat \ {0}
    BY <2>2, ClockAdvances DEF SessionTypes, RunsOK, MachineOK
  <2>4. ASSUME NEW r \in new
        PROVE  /\ r.policy = "request" /\ Rank(r.body) = 2 * r.body.id
               /\ \E i \in 1..n : r.body.id = nextId + i - 1 /\ (r.expiry = base + i - 1 \/ r.expiry = 0)
    <3>1. PICK i \in 1..n : IsStart(r, nextId + i - 1, base + i - 1)
      BY <2>1, <2>2
    <3>2. r.policy = "request" /\ r.body \in AskBody /\ r.body.id = nextId + i - 1 /\ (r.expiry = base + i - 1 \/ r.expiry = 0)
      BY <3>1 DEF IsStart
    <3> QED BY <2>1, <3>2, RankFacts
  <2>5. ASSUME NEW r \in Asks
        PROVE  /\ Rank(r.body) \in Nat /\ Rank(r.body) < 2 * nextId /\ r.body.id < nextId /\ r.body.id \in Nat
               /\ r.expiry \in Nat /\ r.expiry <= current
    <3>1. r.body \in AskBody /\ r.body.id < nextId /\ r.expiry \in Nat /\ r.expiry <= current
      BY AskFacts
    <3>2. Rank(r.body) \in Nat /\ Rank(r.body) <= 2 * r.body.id + 1 /\ r.body.id \in Nat
      BY <3>1, RankFacts
    <3> QED BY <2>3, <3>1, <3>2
  <2>6. own["request"] # None =>
          Rank(own["request"].body) \in Nat /\ Rank(own["request"].body) < 2 * nextId /\ own["request"].body.id < nextId
          /\ own["request"].body.id \in Nat
    <3> SUFFICES ASSUME own["request"] # None
                 PROVE  Rank(own["request"].body) \in Nat /\ Rank(own["request"].body) < 2 * nextId
                        /\ own["request"].body.id < nextId /\ own["request"].body.id \in Nat
      OBVIOUS
    <3>1. own["request"].body \in AskBody /\ own["request"].body.id < nextId
      BY OurFacts
    <3>2. /\ Rank(own["request"].body) \in Nat /\ Rank(own["request"].body) <= 2 * own["request"].body.id + 1
          /\ own["request"].body.id \in Nat
      BY <3>1, RankFacts
    <3> QED BY <2>3, <3>1, <3>2
  <2>7. Asks' \subseteq Asks \cup new
    BY <2>1, <2>4 DEF Asks
  <2>8. ASSUME NEW y \in Asks', NEW z \in Asks', y.expiry # 0, z.expiry # 0, Rank(y.body) < Rank(z.body)
        PROVE  y.expiry < z.expiry
    <3>1. CASE y \in Asks /\ z \in Asks
      BY <2>8, <3>1 DEF LineOK
    <3>2. CASE y \in Asks /\ z \in new
      <4>1. PICK i \in 1..n : z.body.id = nextId + i - 1 /\ (z.expiry = base + i - 1 \/ z.expiry = 0)
        BY <2>4, <3>2
      <4>2. y.expiry \in Nat /\ y.expiry <= current
        BY <2>5, <3>2
      <4> QED BY <2>3, <2>8, <4>1, <4>2
    <3>3. CASE y \in new /\ z \in Asks
      <4>1. PICK i \in 1..n : y.body.id = nextId + i - 1
        BY <2>4, <3>3
      <4>2. Rank(y.body) = 2 * y.body.id
        BY <2>4, <3>3
      <4>3. Rank(z.body) \in Nat /\ Rank(z.body) < 2 * nextId
        BY <2>5, <3>3
      <4> QED BY <2>3, <2>8, <4>1, <4>2, <4>3
    <3>4. CASE y \in new /\ z \in new
      <4>1. PICK i \in 1..n : y.body.id = nextId + i - 1 /\ (y.expiry = base + i - 1 \/ y.expiry = 0)
        BY <2>4, <3>4
      <4>2. PICK j \in 1..n : z.body.id = nextId + j - 1 /\ (z.expiry = base + j - 1 \/ z.expiry = 0)
        BY <2>4, <3>4
      <4>3. Rank(y.body) = 2 * y.body.id /\ Rank(z.body) = 2 * z.body.id
        BY <2>4, <3>4
      <4> QED BY <2>3, <2>8, <4>1, <4>2, <4>3
    <3> QED BY <2>7, <3>1, <3>2, <3>3, <3>4
  <2>9. ASSUME NEW r \in Asks', own["request"] # None, r.expiry # 0, Rank(r.body) < Rank(own["request"].body)
        PROVE  r.expiry <= own["request"].expiry
    <3>1. CASE r \in Asks
      BY <2>9, <3>1 DEF LineOK
    <3>2. CASE r \in new
      <4>1. PICK i \in 1..n : r.body.id = nextId + i - 1
        BY <2>4, <3>2
      <4>2. Rank(r.body) = 2 * r.body.id
        BY <2>4, <3>2
      <4> QED BY <2>3, <2>6, <2>9, <4>1, <4>2
    <3> QED BY <2>7, <3>1, <3>2
  <2>10. PICK live : live = nextId + n - 1 /\ LiveRequestId(machine') = live
    BY <1>1, <2>1
  <2>11. ASSUME NEW r \in Asks' PROVE r.body.id <= live /\ Rank(r.body) <= 2 * live
    <3>1. CASE r \in Asks
      <4>1. r.body.id \in Nat /\ r.body.id < nextId /\ Rank(r.body) \in Nat /\ Rank(r.body) < 2 * nextId
        BY <2>5, <3>1
      <4> QED BY <2>3, <2>10, <4>1
    <3>2. CASE r \in new
      <4>1. PICK i \in 1..n : r.body.id = nextId + i - 1
        BY <2>4, <3>2
      <4>2. Rank(r.body) = 2 * r.body.id
        BY <2>4, <3>2
      <4> QED BY <2>3, <2>10, <4>1, <4>2
    <3> QED BY <2>7, <3>1, <3>2
  <2>12. ASSUME NEW r \in Asks', r.body.id = live PROVE Rank(r.body) = 2 * live
    <3>1. r \notin Asks
      BY <2>3, <2>5, <2>10, <2>12
    <3> QED BY <2>4, <2>7, <2>12, <3>1
  <2>13. own["request"] # None => own["request"].body.id <= live /\ Rank(own["request"].body) <= 2 * live
    BY <2>3, <2>6, <2>10
  <2>14. machine'.phase # "initialization"
    BY <1>1, <2>1
  <2> QED BY <1>1, <2>8, <2>9, <2>10, <2>11, <2>12, <2>13, <2>14 DEF LineOK
<1> QED BY <1>2, <1>3

\* Nothing is sent on the request channel before init ends.
LEMMA RequestChannelWaits ==
    ASSUME SessionTypes, LineOK, [Next]_vars
    PROVE  own'["request"] = own["request"] \/ (init.pc = "ended" /\ UNCHANGED init)
<1>1. CASE UNCHANGED own
  BY <1>1
<1>2. CASE \E r \in runs : r.pc = "sending" /\ ~Occupied(r) /\ own' = Stored(r) /\ StoreStep
  <2>1. PICK r \in runs : r.pc = "sending" /\ own' = Stored(r) /\ StoreStep
    BY <1>2
  <2>2. CASE r.policy = "response"
    BY <2>1, <2>2, StoredFacts, ChannelKind DEF SessionTypes
  <2>3. CASE r.policy # "response"
    <3>1. machine.phase # "initialization"
      BY <2>3 DEF LineOK, Asks
    <3>2. init.pc = "ended"
      BY <3>1 DEF SessionTypes, InitOK
    <3>3. UNCHANGED init
      BY <2>1 DEF StoreStep, StoreAccepts, StoreRejects, CallFails, AccountFull, Uninvolved, sessionVars
    <3> QED BY <3>2, <3>3
  <2> QED BY <2>2, <2>3
<1> QED BY <1>1, <1>2, OnlyCallsWrite

LEMMA OursStep ==
    ASSUME SessionTypes, LineOK, OursOK, [Next]_vars
    PROVE  OursOK'
<1> USE DEF sessionVars, outgoingVars, incomingVars, deliveryVars, intakeVars, outsideVars, peerVars, bounds
<1>0. InitOK
  BY DEF SessionTypes
<1>s. UNCHANGED init => OursOK'
  BY RequestChannelWaits DEF OursOK
<1>e. init'.pc \notin {"querying", "decoding"} => OursOK'
  BY DEF OursOK
<1>q. init'.own = {} => OursOK'
  BY DEF OursOK
<1>i. /\ Idle.pc = "ended"
      /\ \A n, specs : /\ Queries(n, specs).own = {}
                       /\ [Queries(n, specs) EXCEPT !.pc = "backoff"].pc = "backoff"
  BY DEF Idle, Queries
<1>1. CASE StoreStep
  BY <1>1, <1>s DEF StoreStep, StoreAccepts, StoreRejects, CallFails, AccountFull, Uninvolved
<1>2. CASE DriverStep
  BY <1>2, <1>s DEF DriverStep, BackOff, Resend, RequestEnds, ResponseEnds, ClearEnds
<1>3. CASE InitQueryOwn
  <2>1. init'.own = {own} /\ init'.pc = "querying" /\ own' = own
    BY <1>0, <1>3 DEF InitQueryOwn, InitOK
  <2> QED BY <2>1 DEF OursOK
<1>4. CASE InitQueryPeer
  <2>1. init'.own = init.own /\ init'.pc = "querying" /\ init.pc = "querying" /\ own' = own
    BY <1>0, <1>4 DEF InitQueryPeer, InitOK
  <2> QED BY <2>1 DEF OursOK
<1>5. CASE InitQueryFails \/ InitFinishes \/ InitAbandoned
  BY <1>5, <1>e, <1>i DEF InitQueryFails, InitFinishes, InitAbandoned
<1>6. CASE InitRetries
  BY <1>6, <1>q, <1>i DEF InitRetries
<1>7. CASE InitLoaded
  <2> DEFINE ours == UNION {Held(channels) : channels \in init.own}
  <2>1. init'.own = ReadBack(ours) /\ init'.pc = "decoding" /\ own' = own /\ init.pc = "querying"
    BY <1>0, <1>7 DEF InitLoaded, InitOK
  <2>2. ASSUME NEW body \in ReadBack(ours), body.kind = "request"
        PROVE  own["request"] # None /\ own["request"].body = body
    <3>1. PICK st \in ours : st.body = body
      BY <2>2 DEF ReadBack
    <3>2. PICK f \in init.own, c \in {"request", "response"} : st = f[c] /\ st # None
      BY <3>1 DEF Held
    <3>3. ChannelsOK(f) /\ f["request"] = own["request"]
      BY <1>0, <2>1, <3>2 DEF InitOK, OursOK
    <3>4. c # "response"
      BY <2>2, <3>1, <3>2, <3>3 DEF ChannelsOK, AnswerBody
    <3> QED BY <3>1, <3>2, <3>3, <3>4
  <2> HIDE DEF ours
  <2> QED BY <2>1, <2>2 DEF OursOK
<1>8. CASE DecoderStep
  BY <1>8, <1>s DEF DecoderStep, Dropped, Nacked, RequestArrives, ResponseArrives, Decoded
<1>9. CASE PeerRead \/ PeerAnswer
  BY <1>9, <1>s DEF PeerRead, PeerAnswer, PeerReads, PeerAnswers, Published
<1>10. CASE Application
  <2>1. CASE Dispose
    BY <2>1, <1>s, <1>e, <1>i DEF Dispose
  <2> QED BY <1>10, <1>s, <2>1 DEF Application, SubmitRequestMessage, SubmitResponseMessage, RespondAgain, Subscribe,
                              Unsubscribe, ClearOutgoingStatement
<1>11. CASE Environment
  <2>1. CASE Restart
    BY <2>1, <1>q, <1>i DEF Restart
  <2> QED BY <1>11, <1>s, <2>1 DEF Environment, PeerAsks, Published, RosterChanges
<1>12. CASE UNCHANGED vars
  BY <1>12, <1>s DEF vars
<1> QED BY <1>1, <1>2, <1>3, <1>4, <1>5, <1>6, <1>7, <1>8, <1>9, <1>10, <1>11, <1>12 DEF Next, InitStep

LEMMA LineStep ==
    ASSUME SessionTypes, Owned, LineOK, OursOK, [Next]_vars, "late" \notin Behaviour
    PROVE  LineOK'
<1> USE DEF sessionVars, outgoingVars, incomingVars, deliveryVars, intakeVars, outsideVars, peerVars, bounds
<1>0. MachineOK /\ RunsOK /\ OutsideOK /\ InitOK
  BY DEF SessionTypes
<1>m. machine \in R!Machine
  BY <1>0 DEF MachineOK
<1>k. Asks' \subseteq Asks /\ own'["request"] = own["request"] /\ machine'.phase = machine.phase
      /\ (machine'.outgoing = machine.outgoing \/ machine'.outgoing = NoBatch) => LineOK'
  BY LineKept, BatchFacts
<1>s. UNCHANGED <<machine, runs, own>> => LineOK'
  BY <1>k DEF Asks
<1>d. ASSUME NEW s \in {machine, Ended}, NEW t, NEW kept \in SUBSET runs, Dispatches(s, t, kept) PROVE LineOK'
  <2>1. s.outgoing.ids = <<>> \/ s.outgoing.ids = machine.outgoing.ids
    BY <1>m, BatchFacts DEF Ended, R!Machine
  <2> QED BY <1>d, <2>1, LineDispatches DEF Dispatches, TakenOver
<1>1. CASE StoreStep
  <2>1. PICK r \in runs : StoreAccepts(r) \/ StoreRejects(r) \/ CallFails(r) \/ AccountFull(r)
    BY <1>1 DEF StoreStep
  <2>2. UNCHANGED machine /\ r.pc = "sending" /\ r \in Submission /\ r.owned
    BY <1>0, <2>1 DEF StoreAccepts, StoreRejects, CallFails, AccountFull, Uninvolved, RunsOK, RunOK, Owned
  <2>3. PICK error, min : /\ runs' = Answered(r, error, min)
                          /\ \/ UNCHANGED own
                             \/ ~Occupied(r) /\ own' = Stored(r)
    BY <2>1 DEF StoreAccepts, StoreRejects, CallFails, AccountFull
  <2>4. PICK x : x = [r EXCEPT !.pc = "answered", !.error = error, !.min = min]
    OBVIOUS
  <2>5. /\ x.policy = r.policy /\ x.body = r.body /\ x.expiry = r.expiry
        /\ runs' = (runs \ {r}) \cup {x}
    BY <2>2, <2>3, <2>4 DEF Submission, Answered
  <2>6. CASE r.policy = "response"
    <3>1. Asks' = Asks
      BY <2>5, <2>6 DEF Asks
    <3>2. own'["request"] = own["request"]
      BY <1>0, <2>2, <2>3, <2>6, StoredFacts, ChannelKind
    <3> QED BY <1>k, <2>2, <3>1, <3>2
  <2>7. CASE r.policy # "response"
    <3>1. r \in Asks /\ Asks' = (Asks \ {r}) \cup {x}
      BY <2>5, <2>7 DEF Asks
    <3>2. CASE UNCHANGED own
      BY <2>2, <2>5, <3>1, <3>2, LineMoves
    <3>3. CASE ~Occupied(r) /\ own' = Stored(r)
      <4>1. own'["request"] = [expiry |-> r.expiry, body |-> r.body]
        BY <1>0, <2>2, <2>7, <3>3, StoredFacts, ChannelKind
      <4>2. r.expiry # 0 /\ \A y \in Asks : y.expiry \in Nat
        BY <2>2, <3>1, AskFacts
      <4> QED BY <2>2, <2>5, <3>1, <4>1, <4>2, LineAccepts
    <3> QED BY <2>3, <3>2, <3>3
  <2> QED BY <2>6, <2>7
<1>2. CASE DriverStep
  <2>1. PICK r \in runs : BackOff(r) \/ Resend(r) \/ RequestEnds(r) \/ ResponseEnds(r) \/ ClearEnds(r)
    BY <1>2 DEF DriverStep
  <2>2. r \in Submission /\ RunOK(r)
    BY <1>0 DEF RunsOK, RunOK
  <2>3. CASE BackOff(r)
    <3>1. PICK x : x = [r EXCEPT !.pc = "backoff", !.left = IF r.error = "transient" THEN @ - 1 ELSE @]
      OBVIOUS
    <3>2. x.policy = r.policy /\ x.body = r.body /\ x.expiry = r.expiry
      BY <2>2, <3>1 DEF Submission
    <3>3. runs' = (runs \ {r}) \cup {x} /\ UNCHANGED <<machine, own>>
      BY <2>3, <3>1 DEF BackOff
    <3>4. CASE r.policy # "response"
      <4>1. r \in Asks /\ Asks' = (Asks \ {r}) \cup {x}
        BY <3>2, <3>3, <3>4 DEF Asks
      <4> QED BY <3>2, <3>3, <4>1, LineMoves
    <3>5. CASE r.policy = "response"
      <4>1. Asks' = Asks
        BY <3>2, <3>3, <3>5 DEF Asks
      <4> QED BY <1>k, <3>3, <4>1
    <3> QED BY <3>4, <3>5
  <2>4. CASE Resend(r)
    <3>1. PICK x : x = Run(r.policy, r.body, current', r.left)
      OBVIOUS
    <3>2. x.policy = r.policy /\ x.body = r.body /\ x.expiry = current'
      BY <3>1 DEF Run
    <3>3. /\ runs' = (runs \ {r}) \cup {x} /\ UNCHANGED <<machine, own>>
          /\ current' = NextExpiry(current, Clock(restarts)) /\ ShouldRetry(r)
      BY <2>4, <3>1 DEF Resend
    <3>4. CASE r.policy # "response"
      <4>1. r \in Asks /\ Asks' = (Asks \ {r}) \cup {x}
        BY <3>2, <3>3, <3>4 DEF Asks
      <4>2. r.policy = "request" /\ LiveRequestId(machine) = r.body.id
        BY <3>3, <3>4 DEF ShouldRetry
      <4> QED BY <3>2, <3>3, <4>1, <4>2, LineResends
    <3>5. CASE r.policy = "response"
      <4>1. Asks' = Asks
        BY <3>2, <3>3, <3>5 DEF Asks
      <4> QED BY <1>k, <3>3, <4>1
    <3> QED BY <3>4, <3>5
  <2>5. CASE RequestEnds(r) /\ Failed(r) /\ ~disposed
    <3>1. PICK s, t : s \in {machine, Ended} /\ Dispatches(s, t, runs \ {r})
      BY <2>5, FailureDispatches
    <3> QED BY <1>d, <3>1
  <2>6. CASE (RequestEnds(r) \/ ResponseEnds(r) \/ ClearEnds(r)) /\ ~(RequestEnds(r) /\ Failed(r) /\ ~disposed)
    <3>1. runs' \subseteq runs /\ UNCHANGED own
      BY <2>6 DEF RequestEnds, ResponseEnds, ClearEnds
    <3>2. machine'.phase = machine.phase /\ machine'.outgoing = machine.outgoing
      BY <1>m, <2>6 DEF RequestEnds, ResponseEnds, ClearEnds, ResponseSubmitFailed, Unchanged, R!Machine
    <3>3. Asks' \subseteq Asks
      BY <3>1 DEF Asks
    <3> QED BY <1>k, <3>1, <3>2, <3>3
  <2> QED BY <2>1, <2>3, <2>4, <2>5, <2>6
<1>3. CASE InitStep
  <2>1. CASE InitQueryFails
    <3>1. machine'.phase \in {machine.phase, "failed"} /\ machine'.outgoing = machine.outgoing
      BY <1>m, <2>1 DEF InitQueryFails, InitFailed, Unchanged, R!Machine
    <3>2. UNCHANGED <<runs, own>>
      BY <2>1 DEF InitQueryFails
    <3> QED BY <3>1, <3>2, LineKept DEF Asks
  <2>2. CASE InitFinishes
    <3>1. PICK s, t : Dispatching(s, t, runs) /\ t.state.phase = "active" /\ TakesOver(s.outgoing.ids)
      BY <2>2, InitDispatches
    <3>2. machine.phase = "initialization" /\ init.pc = "decoding"
      BY <2>2, InitDispatches
    <3>3. TakenOver(s)
      BY <3>1, <3>2 DEF TakesOver, TakenOver, OursOK, LineOK
    <3> QED BY <3>1, <3>3, LineDispatches
  <2> QED BY <1>3, <1>s, <2>1, <2>2 DEF InitStep, InitQueryOwn, InitQueryPeer, InitRetries, InitLoaded, InitAbandoned
<1>r. ASSUME NEW x, x.phase = machine.phase, x.outgoing = machine.outgoing, x \in R!Machine, NEW q \in PeerRequest,
             StartResponse(x, q), UNCHANGED own
      PROVE  LineOK'
  <2>1. PICK y : y = Run("response", ResponseBody(q), NextExpiry(current, Clock(restarts)), MaxSubmitRetries)
    OBVIOUS
  <2>2. y.policy = "response" /\ runs' = runs \cup {y} /\ machine' = ResponseSubmitted(x, q).state
    BY <1>r, <2>1 DEF StartResponse, Run
  <2>3. machine'.phase = machine.phase /\ machine'.outgoing = machine.outgoing
    BY <1>r, <2>2 DEF ResponseSubmitted, Unchanged, R!Machine
  <2>4. Asks' = Asks
    BY <2>2 DEF Asks
  <2> QED BY <1>k, <1>r, <2>3, <2>4
<1>4. CASE DecoderStep
  <2>1. PICK st \in decoding : Dropped(st) \/ Nacked(st) \/ RequestArrives(st) \/ ResponseArrives(st)
    BY <1>4 DEF DecoderStep
  <2>2. CASE Dropped(st)
    BY <1>s, <2>2 DEF Dropped, Decoded
  <2>3. CASE Nacked(st) \/ RequestArrives(st)
    <3>1. st.id \in PeerRequest /\ UNCHANGED own
      BY <1>0, <2>3, ArrivedRequest DEF Nacked, RequestArrives, Decoded
    <3>2. PICK x : x = RequestReceived(machine, st.id).state
      OBVIOUS
    <3>3. x \in R!Machine /\ x.phase = machine.phase /\ x.outgoing = machine.outgoing
      BY <1>m, <3>1, <3>2 DEF RequestReceived, Unchanged, R!Machine
    <3>4. CASE machine' = x /\ UNCHANGED runs
      BY <1>k, <3>1, <3>3, <3>4 DEF Asks
    <3>5. CASE StartResponse(x, st.id)
      BY <1>r, <3>1, <3>3, <3>5
    <3> QED BY <2>3, <3>2, <3>4, <3>5 DEF Nacked, RequestArrives
  <2>5. CASE ResponseArrives(st)
    <3>2. PICK s, t : s \in {machine, Ended} /\ Dispatches(s, t, runs)
      BY <2>5, ResponseDispatches
    <3> QED BY <1>d, <3>2
  <2> QED BY <2>1, <2>2, <2>3, <2>5
<1>5. CASE PeerRead \/ PeerAnswer
  <2>1. UNCHANGED <<machine, runs, own>>
    BY <1>5 DEF PeerRead, PeerAnswer, PeerReads, PeerAnswers, Published
  <2> QED BY <1>s, <2>1
<1>6. CASE Application
  <2>1. ASSUME NEW m \in Message, SubmitRequestMessage(m) PROVE LineOK'
    BY <1>d, <2>1, SubmitDispatches
  <2>2. ASSUME NEW q \in PeerRequest, SubmitResponseMessage(q) PROVE LineOK'
    BY <1>m, <1>r, <2>2 DEF SubmitResponseMessage
  <2>3. CASE ClearOutgoingStatement
    <3>1. machine'.outgoing = NoBatch /\ machine'.phase = machine.phase /\ UNCHANGED own
      BY <1>m, <2>3 DEF ClearOutgoingStatement, OutgoingCleared, Unchanged, R!Machine
    <3>2. CASE UNCHANGED runs
      BY <1>k, <3>1, <3>2 DEF Asks
    <3>3. CASE ~UNCHANGED runs
      <4>1. PICK x : x = Run("clear", RequestBody(LiveRequestId(machine), <<>>, roster), current', 0)
        OBVIOUS
      <4>2. IsLive(machine.outgoing) /\ runs' = runs \cup {x} /\ current' = NextExpiry(current, Clock(restarts))
        BY <2>3, <3>3, <4>1 DEF ClearOutgoingStatement
      <4>3. x.policy = "clear" /\ x.expiry = current' /\ x.body = RequestBody(LiveRequestId(machine), <<>>, roster)
        BY <4>1 DEF Run
      <4>4. nextId \in Nat /\ LiveRequestId(machine) \in 1..nextId - 1
        BY <1>0, <1>m, <4>2, LiveIdType DEF MachineOK
      <4>5. x.body \in AskBody /\ x.body.id = LiveRequestId(machine) /\ x.body.messages = <<>>
        BY <1>0, <4>3, <4>4 DEF RequestBody, AskBody, OutsideOK
      <4>6. Asks' = Asks \cup {x}
        BY <4>2, <4>3 DEF Asks
      <4> QED BY <3>1, <4>2, <4>3, <4>5, <4>6, LineClears
    <3> QED BY <3>2, <3>3
  <2>4. CASE Dispose
    <3>1. machine'.outgoing = NoBatch /\ machine'.phase = machine.phase
      BY <1>m, <2>4 DEF Dispose, OutgoingCleared, Unchanged, R!Machine
    <3>2. UNCHANGED <<runs, own>>
      BY <2>4 DEF Dispose
    <3> QED BY <1>k, <3>1, <3>2 DEF Asks
  <2> QED BY <1>6, <1>s, <2>1, <2>2, <2>3, <2>4 DEF Application, RespondAgain, Subscribe, Unsubscribe
<1>7. CASE Environment
  <2>1. ASSUME NEW q \in PeerRequest, NEW form \in Form(q), PeerAsks(q, form) PROVE LineOK'
    BY <1>s, <2>1 DEF PeerAsks, Published
  <2>2. ASSUME NEW devices \in Roster, RosterChanges(devices) PROVE LineOK'
    <3>1. CASE UNCHANGED <<outgoingVars, lastResponse, own, disposed>>
      BY <1>s, <3>1
    <3>2. CASE \E t : Dispatches(machine, t, runs)
      BY <1>d, <3>2
    <3> QED BY <2>2, <3>1, <3>2, RosterDispatches
  <2>3. CASE Restart
    <3>1. runs' = {} /\ machine' = InitialSessionState
      BY <2>3 DEF Restart, Orphans
    <3>2. ~IsLive(machine'.outgoing)
      BY <3>1, BatchFacts DEF InitialSessionState
    <3> QED BY <3>1, <3>2 DEF LineOK, Asks
  <2> QED BY <1>7, <2>1, <2>2, <2>3 DEF Environment
<1>8. CASE UNCHANGED vars
  BY <1>8, <1>s DEF vars
<1> QED BY <1>1, <1>2, <1>3, <1>4, <1>5, <1>6, <1>7, <1>8 DEF Next

LEMMA SessionLine ==
    ASSUME "late" \notin Behaviour
    PROVE  Spec => [](LineOK /\ OursOK)
<1>1. Init => LineOK /\ OursOK
  <2> SUFFICES ASSUME Init PROVE LineOK /\ OursOK
    OBVIOUS
  <2>1. runs = {} /\ machine = InitialSessionState /\ init = Queries(0, roster)
    BY DEF Init
  <2>2. ~IsLive(machine.outgoing)
    BY <2>1, BatchFacts DEF InitialSessionState
  <2>3. init.own = {}
    BY <2>1 DEF Queries
  <2> QED BY <2>1, <2>2, <2>3 DEF LineOK, OursOK, Asks
<1>2. SessionTypes /\ Owned /\ (LineOK /\ OursOK) /\ [Next]_vars => (LineOK /\ OursOK)'
  BY LineStep, OursStep
<1> QED BY <1>1, <1>2, SessionTyped, OwnedInvariant, PTL DEF Spec

LEMMA ForwardStep ==
    ASSUME SessionTypes, Owned, LineOK, [Next]_vars
    PROVE  RequestRank(own'["request"]) >= RequestRank(own["request"])
<1>1. /\ RequestRank(None) = 0
      /\ own["request"] # None => RequestRank(own["request"]) = Rank(own["request"].body) /\ Rank(own["request"].body) \in Nat
  BY OurFacts, RankFacts DEF RequestRank, Rank
<1>2. RequestRank(own["request"]) \in Nat
  BY <1>1
<1>3. CASE own'["request"] = own["request"]
  BY <1>2, <1>3
<1>4. CASE own'["request"] # own["request"]
  <2>1. PICK r \in runs : r.pc = "sending" /\ ~Occupied(r) /\ own' = Stored(r)
    BY <1>4, OnlyCallsWrite
  <2>2. r.policy # "response"
    BY <1>4, <2>1, StoredFacts, ChannelKind DEF SessionTypes
  <2>3. r \in Asks
    BY <2>2 DEF Asks
  <2>4. own'["request"] = [expiry |-> r.expiry, body |-> r.body]
    BY <2>1, <2>2, StoredFacts, ChannelKind DEF SessionTypes
  <2>5. RequestRank(own'["request"]) = Rank(r.body)
    BY <2>4, SlotIsTaken DEF RequestRank, Rank
  <2>6. Rank(r.body) \in Nat
    BY <2>3, AskFacts, RankFacts
  <2>7. own["request"] # None => Rank(own["request"].body) <= Rank(r.body)
    BY <2>1, <2>3, OlderIsRejected
  <2> QED BY <1>1, <2>5, <2>6, <2>7
<1> QED BY <1>3, <1>4

\* Whatever is retried and however late a call comes back: unless one of a dead
\* session lands late, no older batch replaces a newer one, nor a cleared one
\* its clearing.
THEOREM RequestChannelMovesForward ==
    ASSUME "late" \notin Behaviour
    PROVE  Spec => RequestChannelForward
<1>1. SessionTypes /\ Owned /\ LineOK /\ [Next]_vars
        => [RequestRank(own'["request"]) >= RequestRank(own["request"])]_vars
  BY ForwardStep
<1> QED BY <1>1, SessionTyped, OwnedInvariant, SessionLine, PTL DEF Spec, RequestChannelForward

-----------------------------------------------------------------------------
(* The live batch, where no submit call of a dead session lands late *)

\* A submission of the live batch that the store has not accepted.
Carries(r) ==
    r.policy = "request" /\ r.body.id = LiveRequestId(machine) /\ ~(r.pc = "answered" /\ r.error = "none")

LEMMA CarriedKept ==
    ASSUME Carried, own'["request"] = own["request"],
           ~IsLive(machine'.outgoing) \/ machine'.outgoing.ids = machine.outgoing.ids,
           \A r \in Asks : Carries(r) =>
             \E x \in Asks' : x.policy = "request" /\ x.body = r.body /\ ~(x.pc = "answered" /\ x.error = "none")
    PROVE  Carried'
<1>1. IsLive(machine'.outgoing) => IsLive(machine.outgoing) /\ LiveRequestId(machine') = LiveRequestId(machine)
  BY DEF IsLive, LiveRequestId
<1> QED BY <1>1 DEF Carried, Carries

\* The store accepts a submission, but none older than the live batch over it.
LEMMA CarriedAccepts ==
    ASSUME SessionTypes, Owned, LineOK, Carried, UNCHANGED machine, NEW r \in Asks, NEW x,
           r.pc = "sending", ~Occupied(r), Asks' = (Asks \ {r}) \cup {x},
           own'["request"] = [expiry |-> r.expiry, body |-> r.body]
    PROVE  Carried'
<1> SUFFICES ASSUME IsLive(machine.outgoing) PROVE Carried'
  BY DEF Carried
<1>1. own'["request"] # None /\ own'["request"].body.id = r.body.id
  BY SlotIsTaken
<1>2. CASE r.body.id = LiveRequestId(machine)
  BY <1>1, <1>2 DEF Carried
<1>3. CASE r.body.id # LiveRequestId(machine)
  <2>1. ~(own["request"] # None /\ own["request"].body.id = LiveRequestId(machine))
    <3> SUFFICES ASSUME own["request"] # None, own["request"].body.id = LiveRequestId(machine) PROVE FALSE
      OBVIOUS
    <3>1. Rank(own["request"].body) <= Rank(r.body)
      BY OlderIsRejected
    <3>2. r.body \in AskBody /\ own["request"].body \in AskBody
      BY AskFacts, OurFacts
    <3>3. Rank(r.body) \in Nat /\ Rank(r.body) <= 2 * r.body.id + 1 /\ r.body.id \in Nat
      BY <3>2, RankFacts
    <3>4. /\ Rank(own["request"].body) \in Nat /\ 2 * own["request"].body.id <= Rank(own["request"].body)
          /\ own["request"].body.id \in Nat
      BY <3>2, RankFacts
    <3>5. r.body.id <= LiveRequestId(machine)
      BY DEF LineOK
    <3> QED BY <1>3, <3>1, <3>3, <3>4, <3>5
  <2>2. \E y \in Asks : Carries(y) /\ y # r
    BY <1>3, <2>1 DEF Carried, Carries
  <2>3. \E y \in Asks' : Carries(y)
    BY <2>2
  <2> QED BY <2>3 DEF Carried, Carries
<1> QED BY <1>2, <1>3

LEMMA CarriedDispatches ==
    ASSUME SessionTypes, Carried, NEW s, NEW t, NEW kept \in SUBSET runs, Dispatching(s, t, kept),
           \/ s.outgoing.ids = <<>>
           \/ s.outgoing.ids = machine.outgoing.ids /\ \A r \in Asks : Carries(r) => r \in kept
           \/ own["request"] # None /\ s.outgoing.ids = <<own["request"].body.id>>
    PROVE  Carried'
<1>1. machine' = t.state /\ own' = own
  BY DispatchedAsks
<1>2. CASE runs' = kept /\ t.state.outgoing.ids = s.outgoing.ids
  <2>1. CASE s.outgoing.ids = <<>>
    BY <1>1, <1>2, <2>1 DEF Carried, IsLive
  <2>2. CASE s.outgoing.ids = machine.outgoing.ids /\ \A r \in Asks : Carries(r) => r \in kept
    <3>1. \A r \in Asks : Carries(r) => r \in Asks'
      BY <1>2, <2>2 DEF Asks
    <3> QED BY <1>1, <1>2, <2>2, <3>1, CarriedKept DEF Carries
  <2>3. CASE own["request"] # None /\ s.outgoing.ids = <<own["request"].body.id>>
    <3>1. LiveRequestId(machine') = own["request"].body.id
      BY <1>1, <1>2, <2>3 DEF LiveRequestId, IsLive, Last
    <3> QED BY <1>1, <2>3, <3>1 DEF Carried
  <2> QED BY <2>1, <2>2, <2>3
<1>3. CASE ~(runs' = kept /\ t.state.outgoing.ids = s.outgoing.ids)
  <2>0. PICK n \in Nat \ {0} : \E new : Launches(t, kept, n, new)
    BY <1>3, DispatchedAsks
  <2>1. PICK new : Launches(t, kept, n, new)
    BY <2>0
  <2>2. PICK r \in new : r.body.id = nextId + n - 1
    BY <2>1 DEF Launches
  <2>3. LiveRequestId(machine') = r.body.id /\ runs' = kept \cup new
    BY <1>1, <2>1, <2>2 DEF Launches
  <2>4. PICK i \in 1..n : IsStart(r, nextId + i - 1, NextExpiry(current, Clock(restarts)) + i - 1)
    BY <2>1 DEF Launches
  <2>5. r.policy = "request" /\ ~(r.pc = "answered" /\ r.error = "none")
    BY <2>4 DEF IsStart
  <2>6. r \in Asks'
    BY <2>3, <2>5 DEF Asks
  <2> QED BY <2>3, <2>5, <2>6 DEF Carried
<1> QED BY <1>2, <1>3

LEMMA CarriedStep ==
    ASSUME SessionTypes, Owned, LineOK, OursOK, Carried, [Next]_vars, "late" \notin Behaviour
    PROVE  Carried'
<1> USE DEF sessionVars, outgoingVars, incomingVars, deliveryVars, intakeVars, outsideVars, peerVars, bounds
<1>0. MachineOK /\ RunsOK /\ OutsideOK /\ InitOK
  BY DEF SessionTypes
<1>m. machine \in R!Machine
  BY <1>0 DEF MachineOK
<1>k. Asks \subseteq Asks' /\ own'["request"] = own["request"] /\ machine'.outgoing = machine.outgoing => Carried'
  BY CarriedKept DEF Carries
<1>e. machine'.outgoing = NoBatch => Carried'
  BY BatchFacts DEF Carried
<1>s. UNCHANGED <<machine, runs, own>> => Carried'
  BY <1>k DEF Asks
<1>d. ASSUME NEW s \in {machine, Ended}, NEW t, Dispatches(s, t, runs) PROVE Carried'
  <2>1. s.outgoing.ids = <<>> \/ s.outgoing.ids = machine.outgoing.ids
    BY <1>m, BatchFacts DEF Ended, R!Machine
  <2> QED BY <1>d, <2>1, CarriedDispatches DEF Dispatches, Asks
<1>x. ASSUME UNCHANGED <<machine, own>>, NEW r \in runs, NEW x, x.policy = r.policy, x.body = r.body,
             ~(x.pc = "answered" /\ x.error = "none"), runs' = (runs \ {r}) \cup {x}
      PROVE  Carried'
  <2>1. \A y \in Asks : Carries(y) =>
             \E z \in Asks' : z.policy = "request" /\ z.body = y.body /\ ~(z.pc = "answered" /\ z.error = "none")
    <3> SUFFICES ASSUME NEW y \in Asks, Carries(y)
                 PROVE  \E z \in Asks' : z.policy = "request" /\ z.body = y.body /\ ~(z.pc = "answered" /\ z.error = "none")
      OBVIOUS
    <3>1. CASE y = r
      BY <1>x, <3>1 DEF Asks, Carries
    <3>2. CASE y # r
      BY <1>x, <3>2 DEF Asks, Carries
    <3> QED BY <3>1, <3>2
  <2> QED BY <1>x, <2>1, CarriedKept
<1>1. CASE StoreStep
  <2>1. PICK r \in runs : StoreAccepts(r) \/ StoreRejects(r) \/ CallFails(r) \/ AccountFull(r)
    BY <1>1 DEF StoreStep
  <2>2. UNCHANGED machine /\ r.pc = "sending" /\ r \in Submission /\ r.owned
    BY <1>0, <2>1 DEF StoreAccepts, StoreRejects, CallFails, AccountFull, Uninvolved, RunsOK, RunOK, Owned
  <2>3. PICK error, min : /\ runs' = Answered(r, error, min)
                          /\ \/ UNCHANGED own /\ error # "none"
                             \/ ~Occupied(r) /\ own' = Stored(r)
    BY <2>1 DEF StoreAccepts, StoreRejects, CallFails, AccountFull
  <2>4. PICK x : x = [r EXCEPT !.pc = "answered", !.error = error, !.min = min]
    OBVIOUS
  <2>5. /\ x.policy = r.policy /\ x.body = r.body /\ x.error = error
        /\ runs' = (runs \ {r}) \cup {x}
    BY <2>2, <2>3, <2>4 DEF Submission, Answered
  <2>6. CASE UNCHANGED own /\ error # "none"
    BY <1>x, <2>2, <2>5, <2>6
  <2>7. CASE (~Occupied(r) /\ own' = Stored(r)) /\ r.policy = "response"
    <3>1. Asks' = Asks
      BY <2>5, <2>7 DEF Asks
    <3>2. own'["request"] = own["request"]
      BY <1>0, <2>2, <2>7, StoredFacts, ChannelKind
    <3> QED BY <1>k, <2>2, <3>1, <3>2
  <2>8. CASE (~Occupied(r) /\ own' = Stored(r)) /\ r.policy # "response"
    <3>1. r \in Asks /\ Asks' = (Asks \ {r}) \cup {x}
      BY <2>5, <2>8 DEF Asks
    <3>2. own'["request"] = [expiry |-> r.expiry, body |-> r.body]
      BY <1>0, <2>2, <2>8, StoredFacts, ChannelKind
    <3> QED BY <2>2, <2>8, <3>1, <3>2, CarriedAccepts
  <2> QED BY <2>3, <2>6, <2>7, <2>8
<1>2. CASE DriverStep
  <2>1. PICK r \in runs : BackOff(r) \/ Resend(r) \/ RequestEnds(r) \/ ResponseEnds(r) \/ ClearEnds(r)
    BY <1>2 DEF DriverStep
  <2>2. r \in Submission
    BY <1>0 DEF RunsOK, RunOK
  <2>3. CASE BackOff(r)
    <3>1. PICK x : x = [r EXCEPT !.pc = "backoff", !.left = IF r.error = "transient" THEN @ - 1 ELSE @]
      OBVIOUS
    <3>2. x.policy = r.policy /\ x.body = r.body /\ x.pc = "backoff"
      BY <2>2, <3>1 DEF Submission
    <3>3. runs' = (runs \ {r}) \cup {x} /\ UNCHANGED <<machine, own>>
      BY <2>3, <3>1 DEF BackOff
    <3> QED BY <1>x, <3>2, <3>3
  <2>4. CASE Resend(r)
    <3>1. PICK x : x = Run(r.policy, r.body, current', r.left)
      OBVIOUS
    <3>2. x.policy = r.policy /\ x.body = r.body /\ x.pc = "sending"
      BY <3>1 DEF Run
    <3>3. runs' = (runs \ {r}) \cup {x} /\ UNCHANGED <<machine, own>>
      BY <2>4, <3>1 DEF Resend
    <3> QED BY <1>x, <3>2, <3>3
  <2>5. CASE RequestEnds(r) /\ Failed(r) /\ ~disposed
    <3>0. PICK s \in {machine, Ended} : \E t :
            /\ Dispatches(s, t, runs \ {r})
            /\ IsLive(machine.outgoing) /\ r.body.id = LiveRequestId(machine) => s = Ended
      BY <2>5, FailureDispatches
    <3>1. PICK t :
            /\ Dispatches(s, t, runs \ {r})
            /\ IsLive(machine.outgoing) /\ r.body.id = LiveRequestId(machine) => s = Ended
      BY <3>0
    <3>2. CASE IsLive(machine.outgoing) /\ r.body.id # LiveRequestId(machine)
      <4>1. \A y \in Asks : Carries(y) => y \in runs \ {r}
        BY <3>2 DEF Carries, Asks
      <4>2. s.outgoing.ids = <<>> \/ s.outgoing.ids = machine.outgoing.ids
        BY <1>m, BatchFacts DEF Ended, R!Machine
      <4> QED BY <3>1, <4>1, <4>2, CarriedDispatches DEF Dispatches
    <3>3. CASE ~(IsLive(machine.outgoing) /\ r.body.id # LiveRequestId(machine))
      <4>1. s.outgoing.ids = <<>>
        BY <1>m, <3>1, <3>3, BatchFacts DEF Ended, R!Machine, IsLive
      <4> QED BY <3>1, <4>1, CarriedDispatches DEF Dispatches
    <3> QED BY <3>2, <3>3
  <2>6. CASE RequestEnds(r) /\ ~(Failed(r) /\ ~disposed)
    <3>1. runs' = runs \ {r} /\ UNCHANGED <<machine, own>> /\ r.policy = "request" /\ Ends(r)
      BY <2>6 DEF RequestEnds
    <3>2. CASE disposed
      <4>1. machine'.outgoing = NoBatch
        BY <1>0, <3>1, <3>2 DEF MachineOK
      <4> QED BY <1>e, <4>1
    <3>3. CASE ~disposed
      <4>1. ~Carries(r)
        <5> SUFFICES ASSUME Carries(r) PROVE FALSE
          OBVIOUS
        <5>1. ShouldRetry(r) /\ ~Failed(r) /\ ~(r.pc = "answered" /\ r.error = "none")
          BY <2>6, <3>1, <3>3 DEF ShouldRetry, Carries
        <5> QED BY <3>1, <5>1 DEF Ends, GivesUp, Failed
      <4>2. \A y \in Asks : Carries(y) => y \in Asks'
        BY <3>1, <4>1 DEF Asks
      <4> QED BY <3>1, <4>2, CarriedKept DEF Carries
    <3> QED BY <3>2, <3>3
  <2>7. CASE ResponseEnds(r) \/ ClearEnds(r)
    <3>1. runs' = runs \ {r} /\ UNCHANGED own /\ r.policy # "request"
      BY <2>7 DEF ResponseEnds, ClearEnds
    <3>2. machine'.outgoing = machine.outgoing
      BY <1>m, <2>7 DEF ResponseEnds, ClearEnds, ResponseSubmitFailed, Unchanged, R!Machine
    <3>3. \A y \in Asks : Carries(y) => y \in Asks'
      BY <3>1 DEF Asks, Carries
    <3> QED BY <3>1, <3>2, <3>3, CarriedKept DEF Carries
  <2> QED BY <2>1, <2>3, <2>4, <2>5, <2>6, <2>7
<1>3. CASE InitStep
  <2>1. CASE InitQueryFails
    <3>1. machine'.outgoing = machine.outgoing /\ UNCHANGED <<runs, own>>
      BY <1>m, <2>1 DEF InitQueryFails, InitFailed, Unchanged, R!Machine
    <3> QED BY <1>k, <3>1 DEF Asks
  <2>2. CASE InitFinishes
    <3>1. PICK s, t : Dispatching(s, t, runs) /\ t.state.phase = "active" /\ TakesOver(s.outgoing.ids)
      BY <2>2, InitDispatches
    <3>2. init.pc = "decoding"
      BY <2>2, InitDispatches
    <3>3. s.outgoing.ids = <<>> \/ (own["request"] # None /\ s.outgoing.ids = <<own["request"].body.id>>)
      BY <3>1, <3>2 DEF TakesOver, OursOK
    <3> QED BY <3>1, <3>3, CarriedDispatches
  <2> QED BY <1>3, <1>s, <2>1, <2>2 DEF InitStep, InitQueryOwn, InitQueryPeer, InitRetries, InitLoaded, InitAbandoned
<1>r. ASSUME NEW x, x.outgoing = machine.outgoing, x \in R!Machine, NEW q \in PeerRequest,
             StartResponse(x, q), UNCHANGED own
      PROVE  Carried'
  <2>1. runs \subseteq runs' /\ machine' = ResponseSubmitted(x, q).state
    BY <1>r DEF StartResponse
  <2>2. machine'.outgoing = machine.outgoing
    BY <1>r, <2>1 DEF ResponseSubmitted, Unchanged, R!Machine
  <2> QED BY <1>k, <1>r, <2>1, <2>2 DEF Asks
<1>4. CASE DecoderStep
  <2>1. PICK st \in decoding : Dropped(st) \/ Nacked(st) \/ RequestArrives(st) \/ ResponseArrives(st)
    BY <1>4 DEF DecoderStep
  <2>2. CASE Dropped(st)
    BY <1>s, <2>2 DEF Dropped, Decoded
  <2>3. CASE Nacked(st) \/ RequestArrives(st)
    <3>1. st.id \in PeerRequest /\ UNCHANGED own
      BY <1>0, <2>3, ArrivedRequest DEF Nacked, RequestArrives, Decoded
    <3>2. PICK x : x = RequestReceived(machine, st.id).state
      OBVIOUS
    <3>3. x \in R!Machine /\ x.outgoing = machine.outgoing
      BY <1>m, <3>1, <3>2 DEF RequestReceived, Unchanged, R!Machine
    <3>4. CASE machine' = x /\ UNCHANGED runs
      BY <1>k, <3>1, <3>3, <3>4 DEF Asks
    <3>5. CASE StartResponse(x, st.id)
      BY <1>r, <3>1, <3>3, <3>5
    <3> QED BY <2>3, <3>2, <3>4, <3>5 DEF Nacked, RequestArrives
  <2>5. CASE ResponseArrives(st)
    <3>2. PICK s, t : s \in {machine, Ended} /\ Dispatches(s, t, runs)
      BY <2>5, ResponseDispatches
    <3> QED BY <1>d, <3>2
  <2> QED BY <2>1, <2>2, <2>3, <2>5
<1>5. CASE PeerRead \/ PeerAnswer
  <2>1. UNCHANGED <<machine, runs, own>>
    BY <1>5 DEF PeerRead, PeerAnswer, PeerReads, PeerAnswers, Published
  <2> QED BY <1>s, <2>1
<1>6. CASE Application
  <2>1. ASSUME NEW m \in Message, SubmitRequestMessage(m) PROVE Carried'
    BY <1>d, <2>1, SubmitDispatches
  <2>2. ASSUME NEW q \in PeerRequest, SubmitResponseMessage(q) PROVE Carried'
    BY <1>m, <1>r, <2>2 DEF SubmitResponseMessage
  <2>3. CASE ClearOutgoingStatement \/ Dispose
    <3>1. machine'.outgoing = NoBatch
      BY <1>m, <2>3 DEF ClearOutgoingStatement, Dispose, OutgoingCleared, Unchanged, R!Machine
    <3> QED BY <1>e, <3>1
  <2> QED BY <1>6, <1>s, <2>1, <2>2, <2>3 DEF Application, RespondAgain, Subscribe, Unsubscribe
<1>7. CASE Environment
  <2>1. ASSUME NEW q \in PeerRequest, NEW form \in Form(q), PeerAsks(q, form) PROVE Carried'
    BY <1>s, <2>1 DEF PeerAsks, Published
  <2>2. ASSUME NEW devices \in Roster, RosterChanges(devices) PROVE Carried'
    <3>1. CASE UNCHANGED <<outgoingVars, lastResponse, own, disposed>>
      BY <1>s, <3>1
    <3>2. CASE \E t : Dispatches(machine, t, runs)
      BY <1>d, <3>2
    <3> QED BY <2>2, <3>1, <3>2, RosterDispatches
  <2>3. CASE Restart
    <3>1. machine'.outgoing = NoBatch
      BY <2>3 DEF Restart, InitialSessionState
    <3> QED BY <1>e, <3>1
  <2> QED BY <1>7, <2>1, <2>2, <2>3 DEF Environment
<1>8. CASE UNCHANGED vars
  BY <1>8, <1>s DEF vars
<1> QED BY <1>1, <1>2, <1>3, <1>4, <1>5, <1>6, <1>7, <1>8 DEF Next

\* Unless a dead session's calls land late: a promise is unsettled exactly
\* while the reducer holds its token, and then its message is on its way, or
\* in the store for the peer to read.
THEOREM PromisesAlwaysCarried ==
    ASSUME "late" \notin Behaviour
    PROVE  Spec => []PromisesAreCarried
<1>1. Init => Carried
  BY BatchFacts DEF Init, InitialSessionState, Carried
<1>2. SessionTypes /\ Owned /\ (LineOK /\ OursOK) /\ Carried /\ [Next]_vars => Carried'
  BY CarriedStep
<1>3. Owned /\ Carried => LiveBatchIsCarried
  BY DEF Owned, Carried, LiveBatchIsCarried, Asks
<1>4. TypeOK /\ EveryWaiterIsOwned /\ LiveBatchIsCarried => PromisesAreCarried
  BY DEF PromisesAreCarried
<1> QED BY <1>1, <1>2, <1>3, <1>4, SessionTyped, OwnedInvariant, SessionLine, SessionTypeCorrect, EveryPromiseOwned, PTL
        DEF Spec
=============================================================================
