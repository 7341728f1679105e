--------------------------- MODULE SessionReducer ---------------------------
(***************************************************************************)
(* The decision logic of a statement-store session: the pure reducer of    *)
(* packages/statement-store/src/session/stateMachine.ts.  `transition`     *)
(* there maps a state and an event to the next state and the effects the   *)
(* driver performs; here each event is an operator that returns            *)
(* [state |-> ..., effects |-> ...].                                       *)
(*                                                                         *)
(* A message is an opaque value, a request id a natural number (the source *)
(* draws a nanoid; `fresh' is the first unused number), and the encoded    *)
(* size of a batch is the parameter Fits.                                  *)
(***************************************************************************)
EXTENDS Integers, Sequences, SequencesExt

CONSTANTS
    PeerRequest,    \* ids of the requests a peer may send us
    Fits(_, _)      \* Fits(r, ms): a statement for the recipients r holds ms

-----------------------------------------------------------------------------
(* SessionState.  `outgoingRequest: null' is the batch without ids: a live *)
(* batch always has one.  `incoming' is total: an id the map of the source *)
(* lacks is "unknown".                                                     *)

NoBatch == [ids |-> <<>>, messages |-> <<>>, tokens |-> {}]

IsLive(batch) == batch.ids # <<>>

InitialSessionState ==
    [phase |-> "initialization",
     outgoing |-> NoBatch,
     queue |-> <<>>,
     incoming |-> [r \in PeerRequest |-> "unknown"]]

\* The newest submission of the live batch; 0, which is no id, without one.
LiveRequestId(s) == IF IsLive(s.outgoing) THEN Last(s.outgoing.ids) ELSE 0

MessagesOf(queue) == [i \in 1..Len(queue) |-> queue[i].message]

TokensOf(queue) == UNION {queue[i].tokens : i \in 1..Len(queue)}

LiveTokens(s) == s.outgoing.tokens \cup TokensOf(s.queue)

-----------------------------------------------------------------------------
(* Effects: what becomes of the tokens of a finished batch, then the       *)
(* submissions in the order the driver starts them.                        *)

NoEffects == [settle |-> "none", tokens |-> {}, submits |-> <<>>]

Unchanged(s) == [state |-> s, effects |-> NoEffects]

-----------------------------------------------------------------------------
(* Shipping: every message that joins the batch gets a request id of its   *)
(* own, and its submission carries the whole batch up to and including it. *)

Grown(s, entries) == s.outgoing.messages \o MessagesOf(entries)

Ship(s, entries, fresh) ==
    LET ids == [i \in 1..Len(entries) |-> fresh + i - 1]
    IN  [state |-> [s EXCEPT
            !.outgoing = [ids |-> s.outgoing.ids \o ids,
                          messages |-> Grown(s, entries),
                          tokens |-> s.outgoing.tokens \cup TokensOf(entries)]],
         effects |-> [NoEffects EXCEPT
            !.submits = [i \in 1..Len(entries) |->
                            [id |-> ids[i], messages |-> Grown(s, SubSeq(entries, 1, i))]]]]

(* Draining: the loop takes the head of the queue as long as the batch     *)
(* grown by it still fits; an absent batch takes its first message         *)
(* whatever its size.  It stops before the first head it cannot take.      *)

\* Mutant of CanTake: an absent batch respects the budget too.
CanTakeFitting(s, r, i) == Fits(r, Grown(s, SubSeq(s.queue, 1, i)))

CanTake(s, r, i) ==
    \/ ~IsLive(s.outgoing) /\ i = 1
    \/ Fits(r, Grown(s, SubSeq(s.queue, 1, i)))

Stops(s, r) == {i \in 0..Len(s.queue) : i = Len(s.queue) \/ ~CanTake(s, r, i + 1)}

\* Mutant of Take: the last message taken stays queued.
TakeLeavingLast(s, n, fresh) ==
    Ship([s EXCEPT !.queue = SubSeq(@, IF n = 0 THEN 1 ELSE n, Len(@))], SubSeq(s.queue, 1, n), fresh)

Take(s, n, fresh) ==
    Ship([s EXCEPT !.queue = SubSeq(@, n + 1, Len(@))], SubSeq(s.queue, 1, n), fresh)

Drain(s, r, fresh) == Take(s, Min(Stops(s, r)), fresh)

-----------------------------------------------------------------------------
(* messageSubmitted *)

Entry(m, t) == [message |-> m, tokens |-> {t}]

Enqueue(s, m, t) == [s EXCEPT !.queue = Append(@, Entry(m, t))]

InFlight(s, m) == m \in ToSet(s.outgoing.messages)

IsQueued(s, m) == \E i \in 1..Len(s.queue) : s.queue[i].message = m

\* Mutant of AttachToQueued: the head of the queue takes the token.
AttachToHead(s, m, t) == [s EXCEPT !.queue[1].tokens = @ \cup {t}]

\* The first queued entry with the same bytes takes the token.
AttachToQueued(s, m, t) ==
    LET i == Min({j \in 1..Len(s.queue) : s.queue[j].message = m})
    IN  [s EXCEPT !.queue[i].tokens = @ \cup {t}]

\* Mutants of MustWait: no FIFO gate; no wait for initialization.
MustWaitForInit(s) == s.phase = "initialization"

MustWaitInLine(s) == s.queue # <<>>

\* FIFO, and no submission before initialization has set the expiry floor.
MustWait(s) == s.phase = "initialization" \/ s.queue # <<>>

Admit(s, m, t, r, fresh) ==
    IF ~IsLive(s.outgoing) \/ Fits(r, Append(s.outgoing.messages, m))
    THEN Ship(s, <<Entry(m, t)>>, fresh)
    ELSE Unchanged(Enqueue(s, m, t))

MessageSubmitted(s, m, t, r, fresh) ==
    IF InFlight(s, m) THEN Unchanged([s EXCEPT !.outgoing.tokens = @ \cup {t}])
    ELSE IF IsQueued(s, m) THEN Unchanged(AttachToQueued(s, m, t))
    ELSE IF MustWait(s) THEN Unchanged(Enqueue(s, m, t))
    ELSE Admit(s, m, t, r, fresh)

-----------------------------------------------------------------------------
(* responseReceived, requestSubmitFailed: both end the batch *)

\* Mutants of EndBatch: the tokens are forgotten; the queue is not drained.
EndBatchSilently(s, settle, r, fresh) == Drain([s EXCEPT !.outgoing = NoBatch], r, fresh)

EndBatchOnly(s, settle, r, fresh) ==
    [state |-> [s EXCEPT !.outgoing = NoBatch],
     effects |-> [settle |-> settle, tokens |-> s.outgoing.tokens, submits |-> <<>>]]

EndBatch(s, settle, r, fresh) ==
    LET drained == Drain([s EXCEPT !.outgoing = NoBatch], r, fresh)
    IN  [drained EXCEPT !.effects.settle = settle, !.effects.tokens = s.outgoing.tokens]

\* Any id the batch was ever submitted under counts.
ResponseReceived(s, id, r, fresh) ==
    IF id \in ToSet(s.outgoing.ids) THEN EndBatch(s, "resolve", r, fresh) ELSE Unchanged(s)

\* Only the newest submission of the batch speaks for it.
RequestSubmitFailed(s, id, r, fresh) ==
    IF IsLive(s.outgoing) /\ id = LiveRequestId(s)
    THEN EndBatch(s, "reject", r, fresh)
    ELSE Unchanged(s)

-----------------------------------------------------------------------------
(* Incoming requests *)

\* Mutant of IsTracked: only an answered request counts as known.
IsAnswered(s, q) == s.incoming[q] = "responded"

IsTracked(s, q) == s.incoming[q] # "unknown"

RequestReceived(s, q) ==
    Unchanged(IF IsTracked(s, q) THEN s ELSE [s EXCEPT !.incoming[q] = "open"])

\* Mutant of ResponseSubmitted: the request is not marked up-front.
NotMarkedResponded(s, q) == Unchanged(s)

ResponseSubmitted(s, q) ==
    Unchanged(IF IsTracked(s, q) THEN [s EXCEPT !.incoming[q] = "responded"] ELSE s)

ResponseSubmitFailed(s, q) ==
    Unchanged(IF IsTracked(s, q) THEN [s EXCEPT !.incoming[q] = "open"] ELSE s)

IncomingRestored(s, q, responded) ==
    Unchanged(IF IsTracked(s, q)
              THEN s
              ELSE [s EXCEPT !.incoming[q] = IF responded THEN "responded" ELSE "open"])

-----------------------------------------------------------------------------
(* Phase changes, capacity, clearing and restoring *)

CapacityChanged(s, r, fresh) ==
    IF s.phase = "active" THEN Drain(s, r, fresh) ELSE Unchanged(s)

\* Mutant of OutgoingCleared: the queue survives.
OutgoingClearedOnly(s) == Unchanged([s EXCEPT !.outgoing = NoBatch])

OutgoingCleared(s) == Unchanged([s EXCEPT !.outgoing = NoBatch, !.queue = <<>>])

OutgoingRestored(s, id, messages) ==
    Unchanged([s EXCEPT !.outgoing = [ids |-> <<id>>, messages |-> messages, tokens |-> {}]])

Activated(s, r, fresh) == Drain([s EXCEPT !.phase = "active"], r, fresh)

InitFailed(s) == Unchanged([s EXCEPT !.phase = "failed", !.queue = <<>>])

=============================================================================
