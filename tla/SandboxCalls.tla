---------------------------- MODULE SandboxCalls -----------------------------
(* What product code in a worker sandbox asks of its host and waits for:     *)
(* fetch (globals/fetch.ts), crypto.subtle (globals/cryptoSubtle.ts) and     *)
(* imports (moduleLoader.ts), with the signals that abort a fetch            *)
(* (globals/AbortController.ts).  The host answers when it likes, also after  *)
(* the sandbox has been disposed; dispose itself runs the jobs that were      *)
(* waiting, after it has torn the bridges down.                              *)
EXTENDS Naturals, Sequences, FiniteSets, SequencesExt, Folds

CONSTANTS
    HostCall,      \* fetch and subtle calls
    Body,          \* request and response bodies
    MaxSignals,    \* bound: how many signals are made
    MaxKeys,       \* bound: how many keys are made
    Import,        \* import statements: [from |-> directory, path |-> segments]
    Source,        \* module sources
    NoSource

\* Signals are numbers, host calls are not.
ASSUME CallBoundAssumption == {MaxSignals, MaxKeys} \subseteq Nat /\ HostCall \cap Nat = {}

VARIABLES
    sources,    \* per signal the signals it is AbortSignal.any of, {} for a controller's
    bucket,     \* per signal its abort listeners: derived signals and fetches
    aborted,    \* the signals that are aborted
    fired,      \* per signal how often it has dispatched its event
    pending,    \* the listeners an abort has yet to call, in order
    used,       \* bodies that have been read
    hostCall,   \* per host call its stage, the host's abort flag, its signal
                \* or key, and whether one of the last jobs made it
    registry,   \* the host's keys
    wrappers,   \* the CryptoKey objects product code can reach
    keys,       \* how many keys there have been
    loading,    \* the import the VM waits for
    entries,    \* moduleLoader's entries
    lifetime    \* "open", "closing" while dispose runs the last jobs, or "gone"

signalVars == <<sources, bucket, aborted, fired, pending>>
keyVars == <<registry, wrappers, keys>>
moduleVars == <<loading, entries>>
bridgeVars == <<signalVars, used, hostCall, keyVars, moduleVars, lifetime>>

NewCall == [stage |-> "idle", aborted |-> FALSE, signal |-> 0, key |-> 0, late |-> FALSE]

\* defaultResolve: the segments of a relative path, joined to the importer's
\* directory.
DefaultResolve(i) ==
    FoldLeft(LAMBDA path, part :
               IF part = "." THEN path
               ELSE IF part = ".." THEN (IF path = <<>> THEN path ELSE Front(path))
               ELSE Append(path, part),
             i.from, i.path)

File == {DefaultResolve(i) : i \in Import}

BridgeInit ==
    /\ sources = <<>> /\ bucket = <<>> /\ aborted = {} /\ fired = <<>> /\ pending = <<>>
    /\ used = {} /\ hostCall = [c \in HostCall |-> NewCall]
    /\ registry = {} /\ wrappers = {} /\ keys = 0
    /\ loading = NoSource /\ entries = [f \in File |-> NoSource]
    /\ lifetime = "open"

Signal == DOMAIN sources
IsFetch(c) == hostCall[c].signal # 0

\* Product code runs: no abort is half way through its listeners.
InProduct == pending = <<>> /\ lifetime # "gone"

-----------------------------------------------------------------------------
(* Signals                                                                 *)

\* new AbortController(), or AbortSignal.any of signals there are: it is
\* aborted at once if one of them is, and listens to all of them if not.
MakeSignal(from) ==
    LET d == Len(sources) + 1 IN
    /\ InProduct /\ d <= MaxSignals /\ from \subseteq Signal
    /\ sources' = Append(sources, from)
    /\ IF from \cap aborted # {}
         THEN /\ aborted' = aborted \cup {d} /\ fired' = Append(fired, 1)
              /\ bucket' = Append(bucket, <<>>)
         ELSE /\ UNCHANGED aborted /\ fired' = Append(fired, 0)
              /\ bucket' = Append([s \in Signal |-> IF s \in from THEN Append(bucket[s], d) ELSE bucket[s]], <<>>)
    /\ UNCHANGED <<pending, used, hostCall, keyVars, moduleVars, lifetime>>

\* Mutant of SignalAbort: a signal dispatches whenever it is told to.
SignalAbortAgain(s) ==
    /\ aborted' = aborted \cup {s} /\ fired' = [fired EXCEPT ![s] = @ + 1]

\* signalAbort: an aborted signal stays as it is, another dispatches to the
\* listeners it has now.
SignalAbort(s) ==
    IF s \in aborted THEN UNCHANGED <<aborted, fired>>
    ELSE aborted' = aborted \cup {s} /\ fired' = [fired EXCEPT ![s] = @ + 1]

Listeners(s) == IF s \in aborted THEN <<>> ELSE bucket[s]

\* A controller aborts, or the timer of AbortSignal.timeout does.
Abort(s) ==
    /\ InProduct /\ s \in Signal /\ sources[s] = {}
    /\ SignalAbort(s) /\ pending' = Listeners(s)
    /\ UNCHANGED <<sources, bucket, used, hostCall, keyVars, moduleVars, lifetime>>

\* The next listener: a derived signal leaves all its sources and dispatches
\* before the rest hears anything; a fetch aborts its host side.
NextListener ==
    /\ pending # <<>>
    /\ LET l == Head(pending) IN
       IF l \in HostCall
         THEN /\ hostCall' = [hostCall EXCEPT ![l].aborted = TRUE] /\ pending' = Tail(pending)
              /\ UNCHANGED <<bucket, aborted, fired>>
         ELSE /\ bucket' = [s \in Signal |-> RemoveFirst(bucket[s], l)]
              /\ SignalAbort(l) /\ pending' = Listeners(l) \o Tail(pending)
              /\ UNCHANGED hostCall
    /\ UNCHANGED <<sources, used, keyVars, moduleVars, lifetime>>

-----------------------------------------------------------------------------
(* fetch and crypto.subtle                                                 *)

\* text(), json(), bytes(), arrayBuffer(), blob(): once per body.
ReadBody(b) ==
    /\ InProduct /\ b \notin used /\ used' = used \cup {b}
    /\ UNCHANGED <<signalVars, hostCall, keyVars, moduleVars, lifetime>>

\* A signal that is aborted or a body that has been read fail the fetch before
\* the host hears of it; a body over the cap fails it after it has been read.
Refused(c, s, b) == s \in aborted \/ b \in used

Fetch(c, s, b, fits) ==
    /\ InProduct /\ hostCall[c] = NewCall /\ s \in Signal
    /\ IF Refused(c, s, b) THEN UNCHANGED <<bucket, used>> /\ hostCall' = [hostCall EXCEPT ![c].stage = "settled"]
       ELSE /\ used' = used \cup {b}
            /\ IF fits THEN /\ hostCall' = [hostCall EXCEPT ![c].stage = "inflight", ![c].signal = s,
                                                   ![c].late = (lifetime = "closing")]
                            /\ bucket' = [bucket EXCEPT ![s] = Append(@, c)]
               ELSE UNCHANGED bucket /\ hostCall' = [hostCall EXCEPT ![c].stage = "settled"]
    /\ UNCHANGED <<sources, aborted, fired, pending, keyVars, moduleVars, lifetime>>

\* inflate looks the key up when the call is made; a key the host does not
\* have fails the call.
Subtle(c, k) ==
    /\ InProduct /\ hostCall[c] = NewCall /\ k \in wrappers \cup {0}
    /\ hostCall' = [hostCall EXCEPT ![c].stage = IF k \in registry \cup {0} THEN "inflight" ELSE "unknown key",
                                   ![c].key = k, ![c].late = (lifetime = "closing")]
    /\ UNCHANGED <<signalVars, used, keyVars, moduleVars, lifetime>>

\* Mutant of HostAnswers: what comes after the dispose is handed on, too.
HostAnswersAnyway(c, made) ==
    /\ pending = <<>> /\ lifetime # "closing" /\ hostCall[c].stage = "inflight"
    /\ hostCall' = [hostCall EXCEPT ![c].stage = "answered"]
    /\ UNCHANGED <<signalVars, used, keyVars, moduleVars, lifetime>>

\* The resolver answers or fails; a subtle call may have made a key, which the
\* host keeps and the VM wraps.  Nothing is answered while dispose runs, and
\* after it the answer is dropped.
HostAnswers(c, made) ==
    /\ pending = <<>> /\ lifetime # "closing" /\ hostCall[c].stage = "inflight"
    /\ made => ~IsFetch(c) /\ keys < MaxKeys
    /\ IF lifetime = "gone" THEN hostCall' = [hostCall EXCEPT ![c].stage = "dropped"] /\ UNCHANGED keyVars
       ELSE /\ hostCall' = [hostCall EXCEPT ![c].stage = "answered"]
            /\ IF made THEN keys' = keys + 1 /\ registry' = registry \cup {keys + 1} /\ wrappers' = wrappers \cup {keys + 1}
               ELSE UNCHANGED keyVars
    /\ UNCHANGED <<signalVars, used, moduleVars, lifetime>>

\* The finally of the bridge, or dispose, runs the jobs: product code goes on.
JobsRun(c) ==
    /\ InProduct /\ hostCall[c].stage = "answered"
    /\ hostCall' = [hostCall EXCEPT ![c].stage = "settled"]
    /\ UNCHANGED <<signalVars, used, keyVars, moduleVars, lifetime>>

\* Mutant of Collected: the host forgets all its keys.
CollectedAll(k) ==
    /\ InProduct /\ k \in wrappers
    /\ wrappers' = wrappers \ {k} /\ registry' = {}
    /\ UNCHANGED <<signalVars, used, hostCall, keys, moduleVars, lifetime>>

\* A wrapper is collected: its finalizer has the host forget the key.
Collected(k) ==
    /\ InProduct /\ k \in wrappers
    /\ wrappers' = wrappers \ {k} /\ registry' = registry \ {k}
    /\ UNCHANGED <<signalVars, used, hostCall, keys, moduleVars, lifetime>>

-----------------------------------------------------------------------------
(* Imports: the VM is suspended until the resolver has answered             *)

Imports(i) ==
    /\ InProduct /\ loading = NoSource /\ loading' = i
    /\ UNCHANGED <<signalVars, used, hostCall, keyVars, entries, lifetime>>

\* Mutant of Resolves: the file gets whatever came last, at any time.
ResolvesAgain(src) ==
    /\ pending = <<>> /\ lifetime # "closing" /\ loading # NoSource /\ loading' = NoSource
    /\ entries' = IF src = NoSource THEN entries ELSE [entries EXCEPT ![DefaultResolve(loading)] = src]
    /\ UNCHANGED <<signalVars, used, hostCall, keyVars, lifetime>>

\* The resolver has the file, or nothing, or fails; the first source of a file
\* stands for all its imports, and a disposed sandbox records none.
Resolves(src) ==
    /\ pending = <<>> /\ lifetime # "closing" /\ loading # NoSource /\ loading' = NoSource
    /\ entries' = IF src = NoSource \/ lifetime # "open" \/ entries[DefaultResolve(loading)] # NoSource THEN entries
                  ELSE [entries EXCEPT ![DefaultResolve(loading)] = src]
    /\ UNCHANGED <<signalVars, used, hostCall, keyVars, lifetime>>

-----------------------------------------------------------------------------

JobsWaiting == {c \in HostCall : hostCall[c].stage = "answered"}

\* Mutant of TearDown: fetches under way are forgotten.
TearDownKeeping ==
    /\ pending = <<>> /\ lifetime = "open" /\ registry' = {}
    /\ lifetime' = IF JobsWaiting # {} THEN "closing" ELSE "gone"
    /\ UNCHANGED <<signalVars, used, hostCall, wrappers, keys, moduleVars>>

\* dispose: disposeFetch aborts what is in flight, disposeSubtle drops the keys,
\* and then the jobs of the calls run whose answers have just come.
TearDown ==
    /\ pending = <<>> /\ lifetime = "open" /\ registry' = {}
    /\ lifetime' = IF JobsWaiting # {} THEN "closing" ELSE "gone"
    /\ hostCall' = [c \in HostCall |-> IF IsFetch(c) /\ hostCall[c].stage = "inflight"
                                   THEN [hostCall[c] EXCEPT !.aborted = TRUE] ELSE hostCall[c]]
    /\ UNCHANGED <<signalVars, used, wrappers, keys, moduleVars>>

\* The last job has run: dispose frees the VM.
VmFreed ==
    /\ pending = <<>> /\ lifetime = "closing" /\ JobsWaiting = {}
    /\ lifetime' = "gone"
    /\ UNCHANGED <<signalVars, used, hostCall, keyVars, moduleVars>>

BridgeNext ==
    \/ \E from \in SUBSET Signal : MakeSignal(from)
    \/ \E s \in Signal : Abort(s)
    \/ NextListener
    \/ \E b \in Body : ReadBody(b)
    \/ \E c \in HostCall :
         \/ \E s \in Signal, b \in Body, fits \in BOOLEAN : Fetch(c, s, b, fits)
         \/ \E k \in wrappers \cup {0} : Subtle(c, k)
         \/ \E made \in BOOLEAN : HostAnswers(c, made)
         \/ JobsRun(c)
    \/ \E k \in wrappers : Collected(k)
    \/ TearDown \/ VmFreed

\* Imports share only the time of the tear-down with the rest.
ImportsNext ==
    \/ \E i \in Import : Imports(i)
    \/ \E src \in Source \cup {NoSource} : Resolves(src)
    \/ TearDown

BridgeSpec == BridgeInit /\ [][BridgeNext \/ ImportsNext]_bridgeVars

-----------------------------------------------------------------------------
(* Properties                                                              *)

BridgeTypeOK ==
    /\ aborted \subseteq Signal /\ DOMAIN bucket = Signal /\ fired \in [Signal -> Nat]
    /\ lifetime \in {"open", "closing", "gone"} /\ used \subseteq Body /\ registry \cup wrappers \subseteq 1..keys
    /\ \A c \in HostCall : hostCall[c].stage \in {"idle", "inflight", "answered", "settled", "dropped", "unknown key"}
    /\ loading \in Import \cup {NoSource} /\ \A f \in File : entries[f] \in Source \cup {NoSource}

\* However signals are made of signals, an abort reaches what depends on it and
\* nothing else: once its listeners have been called, a derived signal is
\* aborted exactly if one of its sources is, each has told its listeners once,
\* and a fetch under way has its host side aborted with its signal.
AbortReachesItsDependents ==
    /\ \A s \in Signal : fired[s] = IF s \in aborted THEN 1 ELSE 0
    /\ pending = <<>> =>
         /\ \A d \in Signal : sources[d] # {} => (d \in aborted <=> sources[d] \cap aborted # {})
         /\ \A c \in HostCall : hostCall[c].stage = "inflight" /\ hostCall[c].signal \in aborted => hostCall[c].aborted

\* Of the fetches made before dispose none is under way that its resolver has not
\* been told to abort, and no answer reaches product code any more.  What the last
\* jobs fetch is aborted by its own signal at most: the bridge does not look
\* whether it was disposed of (fetch.ts:479-544, sandbox.ts:437-438, 464).
TearDownIsFinal ==
    /\ [](lifetime # "open" => \A c \in HostCall :
             IsFetch(c) /\ hostCall[c].stage = "inflight" => hostCall[c].aborted \/ hostCall[c].late)
    /\ [][lifetime # "open" =>
             \A c \in HostCall : hostCall'[c].stage # "answered" \/ hostCall[c].stage = "answered"]_bridgeVars

\* A call never names a key the host does not have, unless dispose has dropped
\* them all and one of the last jobs makes it: until then keys come and go with
\* their wrappers, in whatever order they are collected.
KeysOutliveTheirWrappers ==
    /\ lifetime = "open" => wrappers = registry
    /\ \A c \in HostCall : hostCall[c].stage = "unknown key" => hostCall[c].late

\* A file has one source, the first that was resolved for any of the paths
\* that name it, and it gets none once the sandbox is being disposed of.
FirstSourceWins ==
    [][\A f \in File : entries'[f] # entries[f] => entries[f] = NoSource /\ lifetime = "open"]_bridgeVars

\* The host's side of what product code holds agrees with it - aborts of its
\* signals, the keys behind its wrappers - and what comes too late changes
\* nothing: an answer after the sandbox was torn down, a second source for a
\* file.  Calls made by the jobs that dispose still runs are told apart.
HostSideAgrees ==
    /\ [](BridgeTypeOK /\ AbortReachesItsDependents /\ KeysOutliveTheirWrappers)
    /\ TearDownIsFinal /\ FirstSourceWins
=============================================================================
