----------------------- MODULE TransportSubscriptions -----------------------
(***************************************************************************)
(* Subscriptions over the transport of host-api/src/transport.ts: callers  *)
(* of the product's subscribe share one stream per start payload, the      *)
(* host's handleSubscription serves the streams, and either side may end   *)
(* one while the other's frames are on the way.                            *)
(*                                                                         *)
(* The handlers of the host are external.  They may throw, and send and    *)
(* interrupt whenever they like, also after their stream has ended; the    *)
(* cleanups they return do not throw.                                      *)
(***************************************************************************)
EXTENDS Naturals, Sequences, FiniteSets

CONSTANTS
    Caller,         \* calls of subscribe, each with the handle it returned
    Key, KeyOf(_),  \* method and start payload of a call
    Callback, CallbackOf(_),
    Stream,         \* bound: request ids of streams
    None,
    MaxValues       \* bound: values sent on a stream

ASSUME SubscriptionAssumption ==
    /\ \A c \in Caller : KeyOf(c) \in Key /\ CallbackOf(c) \in Callback
    /\ None \notin Stream
    /\ MaxValues \in Nat

VARIABLES
  (* the product *)
    active,     \* activeSubscriptions: the stream of each key
    listening,  \* streams whose frames are listened to
    listeners,  \* callers attached to each stream
    handle,     \* the stream each caller was given
    latched,    \* streams with a latchedInterrupt
    watching,   \* callers that have called onInterrupt
    told,       \* how often each was called back
    left,       \* callers that have unsubscribed
    heard,      \* history: values each caller had a chance to hear
    disposed,
  (* the frames on their way *)
    toHost, toProduct,
  (* the host *)
    serving,    \* whether the handler is installed on a live transport
    hostDown,
    registered, \* subscriptions: streams with a cleanup to run
    started,    \* history: streams whose handler was called
    threw,      \* history: streams whose handler threw before it returned
    cleaned,    \* history: cleanups run
    sent,       \* history: values sent
    late        \* bound: streams interrupted again after their end

table == <<active, listening, listeners, handle, left>>
interrupts == <<latched, watching, told>>
product == <<table, interrupts, heard, disposed>>
streams == <<registered, started, threw, cleaned, sent, late>>
vars == <<product, toHost, toProduct, serving, hostDown, streams>>

Frame(leg, s) == [leg |-> leg, id |-> s]

Init ==
    /\ active = [k \in Key |-> None]
    /\ listening = {} /\ listeners = [s \in Stream |-> {}]
    /\ handle = [c \in Caller |-> None] /\ left = {}
    /\ latched = {} /\ watching = {} /\ told = [c \in Caller |-> 0]
    /\ heard = [c \in Caller |-> 0]
    /\ disposed = FALSE
    /\ toHost = <<>> /\ toProduct = <<>>
    /\ serving = TRUE /\ hostDown = FALSE
    /\ registered = {} /\ started = {} /\ threw = {}
    /\ cleaned = [s \in Stream |-> 0] /\ sent = [s \in Stream |-> 0] /\ late = {}

\* A destroyed transport throws when it posts, and hears nothing.
ToHost(frame) == IF disposed \/ ~serving THEN toHost ELSE Append(toHost, frame)

ToProduct(frame) == IF disposed \/ hostDown THEN toProduct ELSE Append(toProduct, frame)

ValuesInTransit(s) == Cardinality({k \in DOMAIN toProduct : toProduct[k] = Frame("receive", s)})

-----------------------------------------------------------------------------
(* The product *)

Attach(c, s) ==
    /\ handle' = [handle EXCEPT ![c] = s]
    /\ listeners' = [listeners EXCEPT ![s] = @ \cup {c}]
    /\ heard' = [heard EXCEPT ![c] = sent[s] - ValuesInTransit(s)]

\* The same start payload is already subscribed to.
Join(c) ==
    /\ ~disposed /\ handle[c] = None /\ active[KeyOf(c)] # None
    /\ Attach(c, active[KeyOf(c)])
    /\ UNCHANGED <<active, listening, left, interrupts, disposed, toHost, toProduct,
                   serving, hostDown, streams>>

Open(c, s) ==
    /\ ~disposed /\ handle[c] = None /\ active[KeyOf(c)] = None
    /\ s \notin {handle[d] : d \in Caller}
    /\ Attach(c, s)
    /\ active' = [active EXCEPT ![KeyOf(c)] = s]
    /\ listening' = listening \cup {s}
    /\ toHost' = ToHost(Frame("start", s))
    /\ UNCHANGED <<left, interrupts, disposed, toProduct, serving, hostDown, streams>>

\* Mutant of Remaining: whoever leaves takes the others along.
RemainingNone(c, s) == {}

\* The listeners of s with another callback than c's.
Remaining(c, s) == {d \in listeners[s] : CallbackOf(d) # CallbackOf(c)}

\* Mutant of Kill: the host is not told.
KillSilently(k, s) ==
    /\ active' = [active EXCEPT ![k] = None]
    /\ listening' = listening \ {s}
    /\ UNCHANGED toHost

\* kill(): on a disposed transport the stop cannot be posted.
Kill(k, s) ==
    /\ active' = [active EXCEPT ![k] = None]
    /\ listening' = listening \ {s}
    /\ toHost' = ToHost(Frame("stop", s))

\* unsubscribeListener: the stream is looked up by key, not by handle.
Unsubscribe(c) ==
    /\ handle[c] # None /\ c \notin left
    /\ left' = left \cup {c}
    /\ LET s == active[KeyOf(c)] IN
       \/ s = None /\ UNCHANGED <<active, listening, listeners, toHost>>
       \/ /\ s # None /\ Remaining(c, s) = {}
          /\ Kill(KeyOf(c), s)
          /\ UNCHANGED listeners
       \/ /\ s # None /\ Remaining(c, s) # {}
          /\ listeners' = [listeners EXCEPT ![s] = Remaining(c, s)]
          /\ UNCHANGED <<active, listening, toHost>>
    /\ UNCHANGED <<handle, interrupts, heard, disposed, toProduct, serving, hostDown, streams>>

\* Mutant of OnInterrupt: the latched payload is not looked at.
OnInterruptLate(c) ==
    /\ handle[c] # None /\ c \notin watching
    /\ watching' = watching \cup {c}
    /\ UNCHANGED <<told, table, latched, heard, disposed, toHost, toProduct, serving, hostDown, streams>>

OnInterrupt(c) ==
    /\ handle[c] # None /\ c \notin watching
    /\ watching' = watching \cup {c}
    /\ told' = IF handle[c] \in latched THEN [told EXCEPT ![c] = @ + 1] ELSE told
    /\ UNCHANGED <<table, latched, heard, disposed, toHost, toProduct, serving, hostDown, streams>>

Arrives(leg) ==
    /\ toProduct # <<>> /\ Head(toProduct).leg = leg
    /\ toProduct' = Tail(toProduct)

\* Mutant of Hearers: a listener that throws keeps the value from the others.
HearersOne(s) == IF listeners[s] = {} THEN {} ELSE {CHOOSE c \in listeners[s] : TRUE}

Hearers(s) == listeners[s]

TakeValue ==
    /\ Arrives("receive")
    /\ LET s == Head(toProduct).id IN
       heard' = [c \in Caller |->
                   IF s \in listening /\ c \in Hearers(s) THEN heard[c] + 1 ELSE heard[c]]
    /\ UNCHANGED <<table, interrupts, disposed, toHost, serving, hostDown, streams>>

\* Mutant of StopSubscription: the key keeps the dead stream.
StopSubscriptionKept(s) ==
    /\ UNCHANGED active
    /\ listening' = listening \ {s}

StopSubscription(s) ==
    /\ active' = [k \in Key |-> IF active[k] = s THEN None ELSE active[k]]
    /\ listening' = listening \ {s}

Watchers(s) == {c \in watching : handle[c] = s}

\* An interrupt, or a protocol error for the start.
TakeInterrupt ==
    /\ Arrives("interrupt")
    /\ LET s == Head(toProduct).id IN
       \/ /\ s \in listening
          /\ StopSubscription(s)
          /\ latched' = latched \cup {s}
          /\ told' = [c \in Caller |-> IF c \in Watchers(s) THEN told[c] + 1 ELSE told[c]]
       \/ s \notin listening /\ UNCHANGED <<active, listening, latched, told>>
    /\ UNCHANGED <<listeners, handle, left, watching, heard, disposed, toHost,
                   serving, hostDown, streams>>

Destroy ==
    /\ ~disposed
    /\ disposed' = TRUE
    /\ listening' = {}
    /\ toProduct' = <<>>
    /\ UNCHANGED <<active, listeners, handle, left, interrupts, heard, toHost,
                   serving, hostDown, streams>>

-----------------------------------------------------------------------------
(* The host *)

Served(leg) ==
    /\ serving /\ toHost # <<>> /\ Head(toHost).leg = leg
    /\ toHost' = Tail(toHost)

\* An unknown address, or a payload that does not decode.
RefuseStart ==
    /\ Served("start")
    /\ toProduct' = ToProduct(Frame("interrupt", Head(toHost).id))
    /\ UNCHANGED <<product, serving, hostDown, streams>>

\* The handler runs; it may interrupt before it returns its cleanup.  If it
\* throws, onFrame logs that: nothing is registered and the product is not told.
StartHandler ==
    /\ Served("start")
    /\ LET s == Head(toHost).id IN
       /\ started' = started \cup {s}
       /\ \/ registered' = registered \cup {s} /\ UNCHANGED <<threw, cleaned, toProduct>>
          \/ /\ cleaned' = [cleaned EXCEPT ![s] = @ + 1]
             /\ toProduct' = ToProduct(Frame("interrupt", s))
             /\ UNCHANGED <<registered, threw>>
          \/ threw' = threw \cup {s} /\ UNCHANGED <<registered, cleaned, toProduct>>
    /\ UNCHANGED <<product, serving, hostDown, sent, late>>

\* Mutant of CleanUp: the subscription stays in the table.
CleanUpKeeping(S) ==
    /\ cleaned' = [s \in Stream |-> IF s \in S \cap registered THEN cleaned[s] + 1 ELSE cleaned[s]]
    /\ UNCHANGED registered

\* The cleanups of those streams in S that have one.
CleanUp(S) ==
    /\ cleaned' = [s \in Stream |-> IF s \in S \cap registered THEN cleaned[s] + 1 ELSE cleaned[s]]
    /\ registered' = registered \ S

StopHandler ==
    /\ Served("stop")
    /\ CleanUp({Head(toHost).id})
    /\ UNCHANGED <<product, toProduct, serving, hostDown, started, threw, sent, late>>

Send(s) ==
    /\ s \in started /\ ~hostDown /\ sent[s] < MaxValues
    /\ sent' = [sent EXCEPT ![s] = @ + 1]
    /\ toProduct' = ToProduct(Frame("receive", s))
    /\ UNCHANGED <<product, toHost, serving, hostDown, registered, started, threw, cleaned, late>>

\* Mutant of Interrupt: the product is not told.
InterruptSilently(s) ==
    /\ s \in registered
    /\ CleanUp({s})
    /\ UNCHANGED <<product, toHost, toProduct, serving, hostDown, started, threw, sent, late>>

\* The handler interrupts, or sends a value that does not encode.  When the
\* transport is destroyed, post() throws before the cleanup is run.
Interrupt(s) ==
    /\ s \in registered
    /\ \/ /\ ~hostDown
          /\ CleanUp({s})
          /\ toProduct' = ToProduct(Frame("interrupt", s))
       \/ /\ hostDown
          /\ registered' = registered \ {s}
          /\ UNCHANGED <<cleaned, toProduct>>
    /\ UNCHANGED <<product, toHost, serving, hostDown, started, threw, sent, late>>

\* A handler interrupts a stream that has ended.
InterruptAgain(s) ==
    /\ s \in started \ registered /\ ~hostDown /\ s \notin late
    /\ late' = late \cup {s}
    /\ toProduct' = ToProduct(Frame("interrupt", s))
    /\ UNCHANGED <<product, toHost, serving, hostDown, registered, started, threw, cleaned, sent>>

\* The function handleSubscription returned.
Uninstall ==
    /\ serving
    /\ serving' = FALSE
    /\ CleanUp(registered)
    /\ toHost' = <<>>
    /\ UNCHANGED <<product, toProduct, hostDown, started, threw, sent, late>>

DestroyHost ==
    /\ ~hostDown
    /\ hostDown' = TRUE /\ serving' = FALSE
    /\ toHost' = <<>>
    /\ UNCHANGED <<product, toProduct, streams>>

Next ==
    \/ \E c \in Caller : Join(c) \/ Unsubscribe(c) \/ OnInterrupt(c)
    \/ \E c \in Caller, s \in Stream : Open(c, s)
    \/ TakeValue \/ TakeInterrupt \/ Destroy
    \/ RefuseStart \/ StartHandler \/ StopHandler \/ Uninstall \/ DestroyHost
    \/ \E s \in Stream : Send(s) \/ Interrupt(s) \/ InterruptAgain(s)

Spec == Init /\ [][Next]_vars

-----------------------------------------------------------------------------
(* Properties *)

TypeOK ==
    /\ active \in [Key -> Stream \cup {None}] /\ handle \in [Caller -> Stream \cup {None}]
    /\ listening \subseteq Stream /\ latched \subseteq Stream \ listening
    /\ listeners \in [Stream -> SUBSET Caller]
    /\ watching \subseteq Caller /\ left \subseteq Caller
    /\ told \in [Caller -> Nat] /\ heard \in [Caller -> Nat]
    /\ {disposed, serving, hostDown} \subseteq BOOLEAN
    /\ toHost \in Seq([leg : {"start", "stop"}, id : Stream])
    /\ toProduct \in Seq([leg : {"receive", "interrupt"}, id : Stream])
    /\ registered \subseteq started \ threw /\ threw \subseteq started
    /\ started \subseteq Stream /\ late \subseteq started
    /\ cleaned \in [Stream -> Nat] /\ sent \in [Stream -> 0 .. MaxValues]

InTransit(channel, leg, s) == \E k \in DOMAIN channel : channel[k] = Frame(leg, s)

\* While both ends are up, a stream the product listens to is served: its
\* start is on the way, the host runs it, or the product is about to be told
\* that it ended.  Nobody listens to a stream that is gone for good, unless its
\* handler threw: then onFrame logs and the product is never told
\* (transport.ts:208-213, 759).
ListenersAreServed ==
    \A s \in listening : serving =>
        \/ InTransit(toHost, "start", s) \/ s \in registered \/ InTransit(toProduct, "interrupt", s)
        \/ s \in threw

\* The other way round: the host runs no stream for nobody.  Either the
\* product listens or a stop is on the way.
NoStreamForNobody ==
    \A s \in registered : serving /\ ~disposed =>
        s \in listening \/ InTransit(toHost, "stop", s)

\* However a stop, an interrupt and the host's own teardown cross, a handler
\* that returned has its cleanup run exactly once, and one that threw has none.
CleanedOnce ==
    \A s \in started : ~hostDown => cleaned[s] = IF s \in registered \cup threw THEN 0 ELSE 1

\* A caller whose callback is its own stays attached to the live stream of
\* its key until it leaves or the host ends that stream, whatever the others
\* do, with stale handles too.
StaysAttached ==
    \A c \in Caller : handle[c] # None /\ c \notin left /\ ~disposed =>
        \/ handle[c] \in latched
        \/ /\ active[KeyOf(c)] = handle[c] /\ handle[c] \in listening
           /\ c \in listeners[handle[c]]

\* A key leads to a stream that is listened to, so a later subscribe never
\* joins one the host has dropped.
TableIsLive == \A k \in Key : active[k] # None /\ ~disposed => active[k] \in listening

\* Whenever onInterrupt is called, before or after the interrupt, its callback
\* runs once, and only if the stream was interrupted.
WatchersAreTold ==
    \A c \in watching : told[c] = IF handle[c] \in latched THEN 1 ELSE 0

\* An attached caller misses nothing: it has heard, or is about to, every
\* value of the stream since it joined, whatever the other callbacks do.
HearsEveryValue ==
    \A c \in Caller : handle[c] \in listening /\ c \in listeners[handle[c]] =>
        heard[c] + ValuesInTransit(handle[c]) = sent[handle[c]]

\* Product and host agree on which streams run, however starts, stops and
\* interrupts cross: each is served while it is listened to and cleaned up once,
\* but for those whose handler threw.
StreamsAreServed == TypeOK /\ ListenersAreServed /\ NoStreamForNobody /\ TableIsLive /\ CleanedOnce

\* A caller stays on its stream, and misses nothing of it, until it leaves or is
\* told that it ended.
CallersStayAttached == StaysAttached /\ WatchersAreTold /\ HearsEveryValue
=============================================================================
