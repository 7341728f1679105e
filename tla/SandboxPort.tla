----------------------------- MODULE SandboxPort -----------------------------
(* The functions of a worker sandbox that its host holds: the handlers of    *)
(* the message port (sandbox.ts), the timers and the microtasks              *)
(* (globals/timers.ts), and what disposing the sandbox does to them.  The    *)
(* host holds a function by a handle of its own, which must be released once *)
(* and not be called afterwards: quickjs throws on a released handle.        *)
(*                                                                          *)
(* The VM runs only while the host calls into it; what product code does in  *)
(* that time is any sequence of calls of the port and of the timers.         *)
EXTENDS Naturals, Sequences, FiniteSets, SequencesExt

CONSTANTS
    Function,            \* the functions of product code
    MaxHandles,          \* bound: how many handles are ever taken
    MaxListeners,        \* MAX_MESSAGE_LISTENERS
    MaxMicrotasks        \* MAX_PENDING_MICROTASKS

ASSUME BoundAssumption == {MaxHandles, MaxListeners, MaxMicrotasks} \subseteq Nat \ {0}

VARIABLES
    fnOf,        \* the function each handle taken so far refers to
    alive,       \* the handles not released
    onmessage,   \* the handle of port.onmessage, 0 for none
    listeners,   \* messageListeners
    timeouts,    \* refs of injectTimeouts
    intervals,   \* refs of injectIntervals
    pendingRefs, \* refs of injectQueueMicrotask
    queued,      \* the microtasks queued with the host
    running,     \* what the VM runs: who called, the handle, and the handlers still to call
    jobs,        \* the VM has promise jobs nobody has run
    closed,      \* port.close() has been called
    phase        \* "open", "disposing" (the last jobs run), "freed"

portVars == <<fnOf, alive, onmessage, listeners, timeouts, intervals, pendingRefs, queued, running, jobs, closed, phase>>
held == <<onmessage, listeners, timeouts, intervals, pendingRefs, queued>>

Nobody == [by |-> "nobody", handle |-> 0, rest |-> <<>>]

PortInit ==
    /\ fnOf = <<>> /\ alive = {} /\ onmessage = 0 /\ listeners = <<>>
    /\ timeouts = {} /\ intervals = {} /\ pendingRefs = {} /\ queued = <<>>
    /\ running = Nobody /\ jobs = FALSE /\ closed = FALSE /\ phase = "open"

IsDisposed == phase # "open"
New == Len(fnOf) + 1
Dup(f) == New <= MaxHandles /\ fnOf' = Append(fnOf, f) /\ alive' = alive \cup {New}
Release(hs) == alive' = alive \ hs /\ UNCHANGED fnOf
OnMessage == IF onmessage = 0 THEN {} ELSE {onmessage}
InVm == running # Nobody
KeepsRunning == UNCHANGED <<running, jobs, phase>>

-----------------------------------------------------------------------------
(* What product code calls                                                 *)

Registered(f) == \E i \in DOMAIN listeners : fnOf[listeners[i]] = f

\* Mutant of AddEventListener: each call registers.
AddEventListenerTwice(f) ==
    /\ InVm /\ Len(listeners) < MaxListeners /\ (IsDisposed => listeners = <<>>)
    /\ Dup(f) /\ listeners' = Append(listeners, New)
    /\ KeepsRunning /\ UNCHANGED <<onmessage, timeouts, intervals, pendingRefs, queued, closed>>

\* The same function once, and no more functions than the cap; after dispose
\* the comparison itself fails as soon as there is one to compare with.
AddEventListener(f) ==
    /\ InVm /\ ~Registered(f) /\ Len(listeners) < MaxListeners /\ (IsDisposed => listeners = <<>>)
    /\ Dup(f) /\ listeners' = Append(listeners, New)
    /\ KeepsRunning /\ UNCHANGED <<onmessage, timeouts, intervals, pendingRefs, queued, closed>>

RemoveEventListener(i) ==
    /\ InVm /\ i \in DOMAIN listeners /\ ~IsDisposed
    /\ Release({listeners[i]}) /\ listeners' = RemoveAt(listeners, i)
    /\ KeepsRunning /\ UNCHANGED <<onmessage, timeouts, intervals, pendingRefs, queued, closed>>

\* Mutant of SetOnMessage: the caller's handle is kept, not one of the host's.
SetOnMessageBorrowed(f) ==
    /\ InVm /\ New <= MaxHandles
    /\ Release(OnMessage) /\ onmessage' = New
    /\ KeepsRunning /\ UNCHANGED <<listeners, timeouts, intervals, pendingRefs, queued, closed>>

\* port.onmessage = f, and port.onmessage = null.
SetOnMessage(f) ==
    /\ InVm /\ New <= MaxHandles
    /\ fnOf' = Append(fnOf, f) /\ alive' = (alive \ OnMessage) \cup {New} /\ onmessage' = New
    /\ KeepsRunning /\ UNCHANGED <<listeners, timeouts, intervals, pendingRefs, queued, closed>>

ClearOnMessage ==
    /\ InVm /\ onmessage # 0
    /\ Release({onmessage}) /\ onmessage' = 0
    /\ KeepsRunning /\ UNCHANGED <<listeners, timeouts, intervals, pendingRefs, queued, closed>>

\* Mutant of DisposeHandles: the handles are released and stay in the list.
DisposeHandlesKeeping == onmessage' = 0 /\ UNCHANGED listeners

DisposeHandles == onmessage' = 0 /\ listeners' = <<>>
PortHandles == OnMessage \cup ToSet(listeners)

Close ==
    /\ InVm /\ ~closed /\ closed' = TRUE
    /\ Release(PortHandles) /\ DisposeHandles
    /\ KeepsRunning /\ UNCHANGED <<timeouts, intervals, pendingRefs, queued>>

SetTimeout(f) ==
    /\ InVm /\ Dup(f) /\ timeouts' = timeouts \cup {New}
    /\ KeepsRunning /\ UNCHANGED <<onmessage, listeners, intervals, pendingRefs, queued, closed>>

SetInterval(f) ==
    /\ InVm /\ Dup(f) /\ intervals' = intervals \cup {New}
    /\ KeepsRunning /\ UNCHANGED <<onmessage, listeners, timeouts, pendingRefs, queued, closed>>

\* clearTimeout and clearInterval of an id that is still in the table; also of
\* the interval that is running.
ClearTimer(h) ==
    /\ InVm /\ h \in timeouts \cup intervals /\ Release({h})
    /\ timeouts' = timeouts \ {h} /\ intervals' = intervals \ {h}
    /\ KeepsRunning /\ UNCHANGED <<onmessage, listeners, pendingRefs, queued, closed>>

QueueMicrotask(f) ==
    /\ InVm /\ Cardinality(pendingRefs) < MaxMicrotasks /\ Dup(f)
    /\ pendingRefs' = pendingRefs \cup {New} /\ queued' = Append(queued, New)
    /\ KeepsRunning /\ UNCHANGED <<onmessage, listeners, timeouts, intervals, closed>>

-----------------------------------------------------------------------------
(* The host calls into the VM                                              *)

Calling(by, h, rest) == running' = [by |-> by, handle |-> h, rest |-> rest]

\* run: the entry module is evaluated.  A caller does not run a sandbox it has
\* disposed.
Run == ~InVm /\ ~IsDisposed /\ Calling("run", 0, <<>>) /\ UNCHANGED <<fnOf, alive, held, jobs, closed, phase>>

Snapshot == (IF onmessage = 0 THEN <<>> ELSE <<onmessage>>) \o listeners

\* A message of the container: the handlers there are now are called in turn;
\* without one, only the promise jobs run.
Deliver ==
    /\ ~InVm /\ ~IsDisposed /\ ~closed
    /\ IF Snapshot = <<>> THEN jobs /\ Calling("jobs", 0, <<>>)
       ELSE Calling("message", Head(Snapshot), Tail(Snapshot))
    /\ UNCHANGED <<fnOf, alive, held, jobs, closed, phase>>

\* The next handler of the message.  One that was released in the meantime
\* throws: the message ends there, and the promise jobs wait.
NextHandler ==
    /\ running.by = "message" /\ running.rest # <<>>
    /\ IF Head(running.rest) \in alive
         THEN Calling("message", Head(running.rest), Tail(running.rest)) /\ UNCHANGED jobs
         ELSE running' = Nobody /\ jobs' = TRUE
    /\ UNCHANGED <<fnOf, alive, held, closed, phase>>

\* Timers fire once the host has run its microtasks.  A timeout that fires has
\* left the table, its handle is released when it returns.
TimeoutFires(h) ==
    /\ ~InVm /\ queued = <<>> /\ h \in timeouts
    /\ timeouts' = timeouts \ {h}
    /\ IF IsDisposed THEN Release({h}) /\ UNCHANGED running
       ELSE Calling("timeout", h, <<>>) /\ UNCHANGED <<fnOf, alive>>
    /\ UNCHANGED <<onmessage, listeners, intervals, pendingRefs, queued, jobs, closed, phase>>

IntervalFires(h) ==
    /\ ~InVm /\ queued = <<>> /\ h \in intervals /\ ~IsDisposed
    /\ Calling("interval", h, <<>>)
    /\ UNCHANGED <<fnOf, alive, held, jobs, closed, phase>>

\* Mutant of MicrotaskRuns: it runs whether the sandbox is disposed or not.
MicrotaskRunsAnyway ==
    /\ ~InVm /\ queued # <<>>
    /\ LET h == Head(queued) IN
       /\ queued' = Tail(queued) /\ pendingRefs' = pendingRefs \ {h}
       /\ Calling("microtask", h, <<>>) /\ UNCHANGED <<fnOf, alive>>
    /\ UNCHANGED <<onmessage, listeners, timeouts, intervals, jobs, closed, phase>>

\* A microtask of a sandbox that was disposed releases its handle (once more,
\* if the dispose has done it).
MicrotaskRuns ==
    /\ ~InVm /\ queued # <<>>
    /\ LET h == Head(queued) IN
       /\ queued' = Tail(queued) /\ pendingRefs' = pendingRefs \ {h}
       /\ IF IsDisposed THEN Release({h}) /\ UNCHANGED running
          ELSE Calling("microtask", h, <<>>) /\ UNCHANGED <<fnOf, alive>>
    /\ UNCHANGED <<onmessage, listeners, timeouts, intervals, jobs, closed, phase>>

\* The call returns: the handle of a timeout or a microtask is released, the
\* promise jobs have run.  After the jobs of a dispose the VM is freed.
Returns ==
    /\ InVm /\ running.rest = <<>>
    /\ Release(IF running.by \in {"timeout", "microtask"} THEN {running.handle} ELSE {})
    /\ running' = Nobody /\ jobs' = FALSE
    /\ phase' = IF phase = "disposing" THEN "freed" ELSE phase
    /\ UNCHANGED <<held, closed>>

\* Timers, then microtasks, then the port; then the jobs that are left, and the
\* VM.  A microtask already with the host stays queued.
PortDispose ==
    /\ ~InVm /\ ~IsDisposed
    /\ Release(timeouts \cup intervals \cup pendingRefs \cup PortHandles)
    /\ timeouts' = {} /\ intervals' = {} /\ pendingRefs' = {} /\ DisposeHandles
    /\ IF jobs THEN phase' = "disposing" /\ Calling("jobs", 0, <<>>)
       ELSE phase' = "freed" /\ UNCHANGED running
    /\ UNCHANGED <<queued, jobs, closed>>

PortNext ==
    \/ \E f \in Function :
         AddEventListener(f) \/ SetOnMessage(f) \/ SetTimeout(f) \/ SetInterval(f) \/ QueueMicrotask(f)
    \/ \E i \in 1..MaxListeners : RemoveEventListener(i)
    \/ \E h \in 1..MaxHandles : ClearTimer(h) \/ TimeoutFires(h) \/ IntervalFires(h)
    \/ ClearOnMessage \/ Close
    \/ Run \/ Deliver \/ NextHandler \/ MicrotaskRuns \/ Returns \/ PortDispose

PortSpec == PortInit /\ [][PortNext]_portVars

-----------------------------------------------------------------------------
(* Properties                                                              *)

PortTypeOK ==
    /\ fnOf \in Seq(Function) /\ alive \subseteq DOMAIN fnOf
    /\ onmessage \in DOMAIN fnOf \cup {0} /\ listeners \in Seq(DOMAIN fnOf)
    /\ timeouts \cup intervals \cup pendingRefs \cup ToSet(queued) \subseteq DOMAIN fnOf
    /\ running.by \in {"nobody", "run", "message", "timeout", "interval", "microtask", "jobs"}
    /\ phase \in {"open", "disposing", "freed"}

Owned ==
    PortHandles \cup timeouts \cup intervals \cup pendingRefs
      \cup (IF running.by \in {"timeout", "microtask"} THEN {running.handle} ELSE {})

\* The host holds exactly the handles its tables name: none is lost when a
\* listener is replaced, a timer fires or is cleared, the port is closed or the
\* sandbox disposed, and none in a table has been released, so no call of the
\* port or of a timer starts on a released function (timers.ts:3-7).  No two
\* listeners are one function, and they keep to the cap, however they come and
\* go while messages are delivered.
HandlesAreOwned ==
    /\ alive = Owned
    /\ Len(listeners) <= MaxListeners
    /\ \A i, j \in DOMAIN listeners : fnOf[listeners[i]] = fnOf[listeners[j]] => i = j

\* Disposing is final: no function of product code is called afterwards, though
\* timers, microtasks and messages of the host may still come, except for the
\* promise jobs that were left, which run before the VM is freed
\* (sandbox.ts:435-437).
DisposeIsFinal == [][IsDisposed => running' \in {running, Nobody}]_portVars

\* A function of product code is called only while the sandbox lives and the
\* host holds its handle.
HandlesEndWithTheSandbox == [](PortTypeOK /\ HandlesAreOwned) /\ DisposeIsFinal

=============================================================================
