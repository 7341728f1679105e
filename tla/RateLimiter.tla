----------------------------- MODULE RateLimiter -----------------------------
(* The rate limiter a host can put before its handlers (rateLimiter.ts): a   *)
(* budget of calls that is filled up when a whole interval has passed since  *)
(* it was last, and a line for what does not fit, worked off by a timer of   *)
(* half an interval; the drop strategy has no line.  Time passes in quarters *)
(* of an interval.  What a call executes calls the limiter later at the      *)
(* earliest, never from within.                                              *)
EXTENDS Naturals, Sequences, SequencesExt

CONSTANTS
    MaxScheduled,     \* bound: calls of schedule
    Budget,           \* maxRequestsPerInterval
    MaxQueued         \* maxQueuedRequests: 0 makes the queue strategy the drop strategy

ASSUME RateAssumption == MaxScheduled \in Nat /\ Budget \in Nat \ {0} /\ MaxQueued \in Nat

\* The calls of schedule, numbered as they are made.
Task == 1..MaxScheduled

VARIABLES
    tokens,   \* remainingTokens
    age,      \* quarters since lastRefillTimestamp, at most Interval
    queue,    \* the calls in line
    timer,    \* quarters until processQueue, None without a timer
    task,     \* per call "idle", "queued", "ran" or "dropped"
    served,   \* history: the calls that ran, in the order they were executed
    recent    \* history: how many ran in the last three quarters and this one, per quarter
limiterVars == <<tokens, age, queue, timer, task, served, recent>>

Interval == 4
NoTimer == Interval
Half == Interval \div 2

LimiterInit ==
    /\ tokens = Budget /\ age = 0 /\ queue = <<>> /\ timer = NoTimer
    /\ task = [c \in Task |-> "idle"] /\ served = <<>> /\ recent = [q \in 1..Interval |-> 0]

\* refillTokens.
Refilled == IF age >= Interval THEN Budget ELSE tokens

Spends(n) ==
    /\ tokens' = Refilled - n /\ age' = (IF age >= Interval THEN 0 ELSE age)
    /\ recent' = [recent EXCEPT ![1] = @ + n]

\* Mutant of RunsNow: a call that finds budget runs, whoever is in line.
RunsNowAnyway == Refilled > 0

RunsNow == Refilled > 0 /\ queue = <<>>

Schedule(c) ==
    /\ task[c] = "idle" /\ \A d \in 1..(c - 1) : task[d] # "idle"
    /\ \/ /\ RunsNow
          /\ task' = [task EXCEPT ![c] = "ran"] /\ Spends(1)
          /\ served' = Append(served, c) /\ UNCHANGED <<queue, timer>>
       \/ /\ ~RunsNow /\ Len(queue) >= MaxQueued
          /\ task' = [task EXCEPT ![c] = "dropped"] /\ Spends(0) /\ UNCHANGED <<queue, timer, served>>
       \/ /\ ~RunsNow /\ Len(queue) < MaxQueued
          /\ task' = [task EXCEPT ![c] = "queued"] /\ Spends(0)
          /\ queue' = Append(queue, c) /\ timer' = IF timer = NoTimer THEN Half ELSE timer
          /\ UNCHANGED served

\* How many of the line there is budget for.
Fits == IF Refilled < Len(queue) THEN Refilled ELSE Len(queue)

\* Mutant of Execute: the line is worked off from its back.
ExecuteLast(n) ==
    /\ Spends(n) /\ queue' = SubSeq(queue, 1, Len(queue) - n)
    /\ served' = served \o Reverse(SubSeq(queue, Len(queue) - n + 1, Len(queue)))
    /\ task' = [c \in Task |-> IF c \in ToSet(queue) \ ToSet(queue') THEN "ran" ELSE task[c]]

\* The first n calls of the line are shifted off it and executed.
Execute(n) ==
    /\ Spends(n) /\ queue' = SubSeq(queue, n + 1, Len(queue))
    /\ served' = served \o SubSeq(queue, 1, n)
    /\ task' = [c \in Task |-> IF c \in ToSet(SubSeq(queue, 1, n)) THEN "ran" ELSE task[c]]

\* Mutant of ProcessQueue: the timer is set once only.
ProcessQueueOnce == timer = 0 /\ timer' = NoTimer /\ Execute(Fits)

\* processQueue: as many as there is budget for, and the timer again for the rest.
ProcessQueue ==
    /\ timer = 0 /\ timer' = IF Fits < Len(queue) THEN Half ELSE NoTimer
    /\ Execute(Fits)

\* destroy: what is in line is refused.
DestroyLimiter ==
    /\ queue # <<>> /\ queue' = <<>> /\ timer' = NoTimer
    /\ task' = [c \in Task |-> IF task[c] = "queued" THEN "dropped" ELSE task[c]]
    /\ UNCHANGED <<tokens, age, served, recent>>

\* A timer may fire late.
TimePasses ==
    /\ timer' = IF timer \in {NoTimer, 0} THEN timer ELSE timer - 1
    /\ age' = IF age < Interval THEN age + 1 ELSE age
    /\ recent' = [q \in 1..Interval |-> IF q = 1 THEN 0 ELSE recent[q - 1]]
    /\ UNCHANGED <<tokens, queue, task, served>>

LimiterNext == (\E c \in Task : Schedule(c)) \/ ProcessQueue \/ DestroyLimiter \/ TimePasses

LimiterSpec == LimiterInit /\ [][LimiterNext]_limiterVars

-----------------------------------------------------------------------------
(* Properties                                                              *)

LimiterTypeOK ==
    /\ tokens \in 0..Budget /\ age \in 0..Interval /\ timer \in 0..NoTimer
    /\ queue \in Seq(Task) /\ Len(queue) <= MaxQueued /\ served \in Seq(Task)

\* A line that is not empty has its timer armed, the line holds exactly the calls
\* neither executed nor refused, and over any interval no more than two budgets
\* are executed (rateLimiter.ts:45-54, 76-84).  That the timer fires is not claimed.
LineIsDriven ==
    /\ queue # <<>> => timer # NoTimer
    /\ ToSet(queue) = {c \in Task : task[c] = "queued"}
    /\ recent[1] + recent[2] + recent[3] + recent[4] <= 2 * Budget

Increasing(s) == \A i, j \in 1..Len(s) : i < j => s[i] < s[j]

\* Calls are executed in the order they were made, those that waited in the line
\* and those that found it empty alike: none passes another, and none is executed
\* twice (rateLimiter.ts:60-61, 89).
FirstComeFirstServed ==
    /\ Increasing(served \o queue)
    /\ ToSet(served) = {c \in Task : task[c] = "ran"}

\* Whatever the limiter executes keeps the order the calls were made in and the
\* rate of the budget, and what waits has a timer.
OrderlyLine == LimiterTypeOK /\ LineIsDriven /\ FirstComeFirstServed
=============================================================================
