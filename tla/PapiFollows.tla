----------------------------- MODULE PapiFollows -----------------------------
(* The JSON-RPC provider of a product (papiProvider.ts) for one chain: each  *)
(* connection keeps its follows and its broadcasts, and turns requests into  *)
(* calls of the host API.  The follows of all connections subscribe through  *)
(* one transport, which shares a stream among those with the same payload    *)
(* (transport.ts; its frames are TransportSubscriptions').                   *)
(*                                                                          *)
(* The consumer is polkadot-api's substrate client.  An eager one has one    *)
(* follow at a time and follows again from within the handler of a stop.     *)
EXTENDS Naturals, Sequences, FiniteSets, SequencesExt

CONSTANTS
    Connection,
    WithRuntime(_),  \* the payload a connection's follows have
    Eager,           \* the connections of eager consumers
    Rpc,             \* requests to a connection, each used once
    MaxFollows       \* bound: follows of a connection

ASSUME FollowsAssumption ==
    Eager \subseteq Connection /\ MaxFollows \in Nat /\ \A c \in Connection : WithRuntime(c) \in BOOLEAN

VARIABLES
    provider,  \* per connection: "checking", "typed", "fallback", "inert", "closed"
    feed,      \* the follows, the streams, and the stream each payload has
    rpc,       \* per request its connection and how far it is
    broadcast  \* per request: "none", "known" (activeBroadcasts), "stopped", "orphaned"

followVars == <<provider, feed, rpc, broadcast>>

Payload == BOOLEAN

\* A follow is named by its connection and its number.
Follow_ == Connection \X (1..MaxFollows)

FollowsInit ==
    /\ provider = [c \in Connection |-> "checking"]
    /\ feed = [next |-> [c \in Connection |-> 1],       \* nextSubId
               active |-> {},                            \* activeFollows
               stops |-> [f \in Follow_ |-> 0],          \* stop events sent
               streams |-> <<>>,                         \* each its listeners, and who ended it
               current |-> [p \in Payload |-> 0]]        \* the stream of a payload, 0 for none
    /\ rpc = [r \in Rpc |-> [stage |-> "none", conn |-> "none"]]
    /\ broadcast = [r \in Rpc |-> "none"]

-----------------------------------------------------------------------------
(* What a connection does to the feed                                       *)

\* transport.subscribe: join the stream of the payload, or open one.
Subscribed(d, c, f) ==
    LET p == WithRuntime(c)  s == d.current[p] IN
    IF s # 0 THEN [d EXCEPT !.streams[s].listeners = Append(@, f)]
    ELSE [d EXCEPT !.streams = Append(@, [listeners |-> <<f>>, ended |-> "no"]),
                   !.current[p] = Len(d.streams) + 1]

\* Each follow has a callback of its own, which is there at most once.
Without(listeners, f) ==
    IF Contains(listeners, f) THEN RemoveAt(listeners, SelectInSeq(listeners, LAMBDA g : g = f)) ELSE listeners

\* The listener of f leaves the stream the payload has now; the last one kills it.
Unsubscribed(d, f) ==
    LET p == WithRuntime(f[1])  s == d.current[p]  rest == Without(d.streams[s].listeners, f) IN
    IF s = 0 THEN d
    ELSE IF rest = <<>> THEN [d EXCEPT !.current[p] = 0, !.streams[s] = [listeners |-> <<>>, ended |-> "product"]]
    ELSE [d EXCEPT !.streams[s].listeners = rest]

CanFollow(d, c) == d.next[c] <= MaxFollows

Followed(d, c) ==
    LET f == <<c, d.next[c]>> IN
    [Subscribed(d, c, f) EXCEPT !.active = @ \cup {f}, !.next[c] = @ + 1]

\* A stop event; an eager consumer follows again before the handler returns.
Told(d, f) ==
    LET told == [d EXCEPT !.stops[f] = @ + 1] IN
    IF f[1] \in Eager /\ CanFollow(d, f[1]) THEN Followed(told, f[1]) ELSE told

\* Mutant of Stopped: the event goes out before the subscription is released.
StoppedLate(d, f) ==
    IF f \in d.active THEN Unsubscribed(Told([d EXCEPT !.active = @ \ {f}], f), f) ELSE Told(d, f)

\* The host's Stop reaches the listener of f.
Stopped(d, f) ==
    IF f \in d.active THEN Told(Unsubscribed([d EXCEPT !.active = @ \ {f}], f), f) ELSE Told(d, f)

\* onInterrupt
Interrupted(d, f) == IF f \in d.active THEN Told([d EXCEPT !.active = @ \ {f}], f) ELSE d

-----------------------------------------------------------------------------
(* The consumer                                                             *)

FollowsOf(c) == {f \in feed.active : f[1] = c}

\* checkIfReady
Starts(c) ==
    /\ provider[c] = "checking"
    /\ \E as \in {"typed", "fallback", "inert"} : provider' = [provider EXCEPT ![c] = as]
    /\ UNCHANGED <<feed, rpc, broadcast>>

FollowsAnew(c) ==
    /\ provider[c] = "typed" /\ CanFollow(feed, c)
    /\ c \in Eager => FollowsOf(c) = {}
    /\ feed' = Followed(feed, c)
    /\ UNCHANGED <<provider, rpc, broadcast>>

\* An unfollow of a follow that has ended is answered too.
Unfollow(f) ==
    /\ provider[f[1]] = "typed" /\ f[2] < feed.next[f[1]]
    /\ feed' = IF f \in feed.active THEN [Unsubscribed(feed, f) EXCEPT !.active = @ \ {f}] ELSE feed
    /\ UNCHANGED <<provider, rpc, broadcast>>

\* chainHead operations, chainSpec and broadcasts become requests of the host;
\* any other method is refused at once.
Ask(c, r) ==
    /\ provider[c] = "typed" /\ rpc[r].stage = "none"
    /\ \E kind \in {"call", "broadcast", "refused"} : rpc' = [rpc EXCEPT ![r] = [stage |-> kind, conn |-> c]]
    /\ UNCHANGED <<provider, feed, broadcast>>

\* A broadcast that has started is remembered; after disconnect nobody is left
\* to stop it.
Answered(r) ==
    /\ rpc[r].stage \in {"call", "broadcast"}
    /\ \E stage \in {"result", "error"} :
         /\ rpc' = [rpc EXCEPT ![r].stage = stage]
         /\ broadcast' = [broadcast EXCEPT ![r] =
              IF rpc[r].stage # "broadcast" \/ stage = "error" THEN @
              ELSE IF provider[rpc[r].conn] = "closed" THEN "orphaned" ELSE "known"]
    /\ UNCHANGED <<provider, feed>>

\* transaction_v1_stop
StopBroadcast(r) ==
    /\ rpc[r].stage = "result" /\ provider[rpc[r].conn] = "typed" /\ broadcast[r] = "known"
    /\ broadcast' = [broadcast EXCEPT ![r] = "stopped"]
    /\ UNCHANGED <<provider, feed, rpc>>

\* Mutant of AllReleased: the follows are forgotten, not unsubscribed.
AllForgotten(c) == [feed EXCEPT !.active = @ \ FollowsOf(c)]

\* disconnect: every follow is unsubscribed.
AllReleased(c) ==
    [FoldLeft(Unsubscribed, feed, SetToSeq(FollowsOf(c))) EXCEPT !.active = @ \ FollowsOf(c)]

Disconnect(c) ==
    /\ provider[c] = "typed"
    /\ provider' = [provider EXCEPT ![c] = "closed"]
    /\ feed' = AllReleased(c)
    /\ broadcast' = [r \in Rpc |-> IF rpc[r].conn = c /\ broadcast[r] = "known" THEN "stopped" ELSE broadcast[r]]
    /\ UNCHANGED rpc

-----------------------------------------------------------------------------
(* The host                                                                 *)

Live(s) == feed.streams[s].ended = "no"

\* The node stops the follow behind the stream: the listeners there are hear of
\* it in turn, and nothing is sent on the stream again.
HostStops(s) ==
    /\ s \in DOMAIN feed.streams /\ Live(s)
    /\ feed' = FoldLeft(Stopped, [feed EXCEPT !.streams[s].ended = "host"], feed.streams[s].listeners)
    /\ UNCHANGED <<provider, rpc, broadcast>>

\* The transport forgets the stream before anyone is told.
HostInterrupts(s) ==
    /\ s \in DOMAIN feed.streams /\ Live(s)
    /\ feed' = FoldLeft(Interrupted,
                 [feed EXCEPT !.streams[s].ended = "host",
                    !.current = [p \in Payload |-> IF @[p] = s THEN 0 ELSE @[p]]],
                 feed.streams[s].listeners)
    /\ UNCHANGED <<provider, rpc, broadcast>>

FollowsNext ==
    \/ \E c \in Connection : Starts(c) \/ FollowsAnew(c) \/ Disconnect(c) \/ \E r \in Rpc : Ask(c, r)
    \/ \E f \in Follow_ : Unfollow(f)
    \/ \E r \in Rpc : Answered(r) \/ StopBroadcast(r)
    \/ \E s \in DOMAIN feed.streams : HostStops(s) \/ HostInterrupts(s)

FollowsSpec == FollowsInit /\ [][FollowsNext]_followVars

-----------------------------------------------------------------------------
(* Properties                                                              *)

FollowsTypeOK ==
    /\ provider \in [Connection -> {"checking", "typed", "fallback", "inert", "closed"}]
    /\ feed.active \subseteq Follow_
    /\ \A p \in Payload : feed.current[p] \in 0..Len(feed.streams)

\* A follow that is not over is on a stream the host still serves: one that
\* follows a stop has reached the host (papiProvider.ts:209-214).
RefollowReachesTheHost ==
    \A f \in feed.active :
      LET s == feed.current[WithRuntime(f[1])] IN s # 0 /\ Live(s)

\* The active follows are exactly the listeners of the live streams, each once:
\* none waits on a stream that has ended, none is served after it left, and no
\* stream runs for a connection that is closed; a follow is told of its end
\* once.  A broadcast known to the provider does not outlive its connection.
FollowsAreServed ==
    /\ RefollowReachesTheHost
    /\ \A s \in DOMAIN feed.streams : Live(s) =>
         LET heard == feed.streams[s].listeners IN
         /\ heard # <<>> /\ IsInjective(heard)
         /\ \A k \in DOMAIN heard : heard[k] \in feed.active /\ feed.current[WithRuntime(heard[k][1])] = s
    /\ \A f \in Follow_ : feed.stops[f] <= 1
    /\ \A f \in feed.active :
         /\ provider[f[1]] = "typed" /\ feed.stops[f] = 0
         /\ f \in ToSet(feed.streams[feed.current[WithRuntime(f[1])]].listeners)
    /\ \A r \in Rpc : broadcast[r] = "known" => provider[rpc[r].conn] = "typed"
=============================================================================
