----------------------------- MODULE SubmitRetry -----------------------------
(***************************************************************************)
(* Submitting a statement with retries: submitWithRetry and                *)
(* signAndSubmitStatement of statement-store/src/submit, for several       *)
(* writers that sign with one account and so draw from one allocator.      *)
(*                                                                         *)
(* The store is external.  It keeps one statement per channel and at most  *)
(* Quota statements of an account: a statement that outranks none of them  *)
(* is refused, with the expiry it has to exceed.                           *)
(***************************************************************************)
EXTENDS ExpiryAllocator, Functions

CONSTANTS
    Writer,             \* calls of signAndSubmitStatement, each on its own
    Channel,
    ChannelOf(_),
    Attempts(_),        \* retry budget for transient errors
    PriorityAttempts(_),\* for priority errors; Unbounded for session semantics
    Unbounded,
    Quota,
    Found(_),           \* expiry the store holds on a channel at the start, 0 for none
    MaxFaults,          \* bound: transient failures
    MaxClock            \* bound: ticks of the wall clock's priority

ASSUME SubmitAssumption ==
    /\ \A w \in Writer : ChannelOf(w) \in Channel /\ Attempts(w) \in Nat
    /\ \A w \in Writer : PriorityAttempts(w) \in Nat \cup {Unbounded}
    /\ \A c \in Channel : Found(c) \in Nat
    /\ Unbounded \notin Nat
    /\ {Quota, MaxFaults, MaxClock} \subseteq Nat

VARIABLES
    current,    \* the allocator's counter
    now,        \* the wall clock's priority
    held,       \* expiry of the statement on each channel, 0 for none
    task,       \* one submitWithRetry per writer
    live,       \* writers whose shouldRetry() still holds
    landed,     \* history: writers that have had a statement accepted
    faults

vars == <<current, now, held, task, live, landed, faults>>

\* `min' is the largest minimum reported to this writer.
Fresh(w) ==
    [pc |-> "idle", expiry |-> 0, error |-> "none", min |-> 0,
     left |-> Attempts(w), priorityLeft |-> PriorityAttempts(w)]

Init ==
    /\ current = 0 /\ now = 0 /\ faults = 0
    /\ held = [c \in Channel |-> Found(c)]
    /\ task = [w \in Writer |-> Fresh(w)]
    /\ live = Writer
    /\ landed = {}

-----------------------------------------------------------------------------
(* The store (external) *)

Occupants == {c \in Channel : held[c] # 0}

LowestHeld == Min({held[c] : c \in Occupants})

\* The expiry a statement on channel c has to exceed; 0 if there is room.
Floor(c) ==
    IF held[c] # 0 THEN held[c]
    ELSE IF Cardinality(Occupants) < Quota \/ Occupants = {} THEN 0
    ELSE LowestHeld

Evicted(c) ==
    IF held[c] # 0 \/ Floor(c) = 0 THEN held
    ELSE [x \in Channel |-> IF held[x] = LowestHeld THEN 0 ELSE held[x]]

Accepted(w) ==
    /\ held' = [Evicted(ChannelOf(w)) EXCEPT ![ChannelOf(w)] = task[w].expiry]
    /\ landed' = landed \cup {w}

StoreAccepts(w) ==
    /\ task[w].pc = "sending" /\ task[w].expiry > Floor(ChannelOf(w))
    /\ Accepted(w)
    /\ task' = [task EXCEPT ![w].pc = "answered", ![w].error = "none"]
    /\ UNCHANGED <<current, now, live, faults>>

\* ExpiryTooLow on an occupied channel, AccountFull otherwise.
StoreRejects(w) ==
    /\ task[w].pc = "sending" /\ task[w].expiry <= Floor(ChannelOf(w))
    /\ task' = [task EXCEPT ![w].pc = "answered", ![w].error = "priority",
                            ![w].min = Floor(ChannelOf(w))]
    /\ UNCHANGED <<current, now, held, live, landed, faults>>

\* The call fails, whether or not the store took the statement.
CallFails(w) ==
    /\ task[w].pc = "sending" /\ faults < MaxFaults
    /\ faults' = faults + 1
    /\ \/ UNCHANGED <<held, landed>>
       \/ task[w].expiry > Floor(ChannelOf(w)) /\ Accepted(w)
    /\ task' = [task EXCEPT ![w].pc = "answered", ![w].error = "transient"]
    /\ UNCHANGED <<current, now, live>>

-----------------------------------------------------------------------------
(* submitWithRetry *)

Spent(t) == IF t.error = "priority" THEN t.priorityLeft = 0 ELSE t.left = 0

\* settle(): a superseded submission under the unbounded policy reports success.
Settled(w) ==
    IF task[w].error = "none"
       \/ (PriorityAttempts(w) = Unbounded /\ w \notin live /\ task[w].error = "priority")
    THEN "ok" ELSE "err"

Attempt(w) ==
    /\ \/ task[w].pc = "idle"
       \/ task[w].pc = "backoff" /\ w \in live
    /\ current' = NextExpiry(current, now)
    /\ task' = [task EXCEPT ![w].pc = "sending", ![w].expiry = current']
    /\ UNCHANGED <<now, held, live, landed, faults>>

\* onPriorityError adopts the floor, whatever is decided next.
Adopted(w) ==
    IF task[w].error = "priority" THEN RaisedFloor(current, task[w].min) ELSE current

Charged(t) ==
    IF t.error = "transient" THEN [t EXCEPT !.left = @ - 1]
    ELSE IF t.priorityLeft = Unbounded THEN t
    ELSE [t EXCEPT !.priorityLeft = @ - 1]

BackOff(w) ==
    /\ task[w].pc = "answered" /\ task[w].error # "none"
    /\ w \in live /\ ~Spent(task[w])
    /\ current' = Adopted(w)
    /\ task' = [task EXCEPT ![w] = [Charged(task[w]) EXCEPT !.pc = "backoff"]]
    /\ UNCHANGED <<now, held, live, landed, faults>>

Settle(w) ==
    /\ \/ task[w].pc = "answered" /\ (task[w].error = "none" \/ w \notin live \/ Spent(task[w]))
       \/ task[w].pc = "backoff" /\ w \notin live
    /\ current' = Adopted(w)
    /\ task' = [task EXCEPT ![w].pc = Settled(w)]
    /\ UNCHANGED <<now, held, live, landed, faults>>

\* A newer statement makes w's obsolete, if anybody watches for that.
Supersede(w) ==
    /\ PriorityAttempts(w) = Unbounded /\ w \in live
    /\ live' = live \ {w}
    /\ UNCHANGED <<current, now, held, task, landed, faults>>

Tick ==
    /\ now < MaxClock
    /\ now' = now + 1
    /\ UNCHANGED <<current, held, task, live, landed, faults>>

Step(w) ==
    StoreAccepts(w) \/ StoreRejects(w) \/ CallFails(w) \/ Attempt(w) \/ BackOff(w) \/ Settle(w)

Next == Tick \/ \E w \in Writer : Step(w) \/ Supersede(w)

\* Calls return and timers run.
Spec == Init /\ [][Next]_vars /\ \A w \in Writer : WF_vars(Step(w))

-----------------------------------------------------------------------------
(* Properties *)

Task == [pc : {"idle", "sending", "answered", "backoff", "ok", "err"},
         expiry : Nat, error : {"none", "transient", "priority"}, min : Nat,
         left : Nat, priorityLeft : Nat \cup {Unbounded}]

\* The type of the allocator, the store and the submissions: a retry budget is
\* never overdrawn, which a loop that checked it late would do.
TypeOK ==
    /\ current \in Nat /\ now \in 0..MaxClock /\ faults \in 0..MaxFaults
    /\ held \in [Channel -> Nat]
    /\ task \in [Writer -> Task]
    /\ live \subseteq Writer /\ landed \subseteq Writer

\* Writers of one account never tie: no two submissions that are out or in the
\* store carry the same expiry, and nobody carries one above the counter.
NoTies ==
    /\ \A w \in Writer : task[w].expiry <= current
    /\ \A v, w \in Writer : task[v].expiry = task[w].expiry => v = w \/ task[w].expiry = 0

\* A rejected writer clears the floor it was told of in one step.
ClearsReportedFloor ==
    \A w \in Writer : task[w].pc = "sending" => task[w].expiry > task[w].min

\* "ok" means the statement was accepted, or has been superseded.
OutcomeIsHonest == \A w \in Writer : task[w].pc = "ok" => w \in landed \/ w \notin live

\* Every submission settles, the unbounded ones included.
EverySubmissionSettles == \A w \in Writer : <>(task[w].pc \in {"ok", "err"})
=============================================================================
