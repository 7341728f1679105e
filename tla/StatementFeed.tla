---------------------------- MODULE StatementFeed ----------------------------
(* The subscriptions of the RPC adapter of the statement store (rpc.ts) to   *)
(* one filter: its listeners share one subscription of the node, whose       *)
(* statements are gathered until a timer hands them out as a page.  A page   *)
(* is handed out over the very array listeners join and leave: until the     *)
(* last listener returns, nothing happens but what the listeners call.       *)
EXTENDS Naturals, Sequences, FiniteSets, SequencesExt

CONSTANTS
    Listener,       \* the calls of subscribeStatements with this filter
    MaxStatements   \* bound: statements of one subscription of the node

ASSUME FeedAssumption == MaxStatements \in Nat

VARIABLES
    lists,     \* the arrays of listeners there have been
    current,   \* the one in `callbacks`, 0 for none
    streams,   \* the node's subscriptions: sent, batch, scheduled, state
    active,    \* the one in `activeSubscriptions`, 0 for none
    handout,   \* the page being handed out: its array, the next index, ...
    heard      \* per listener the statements it has been given, <<stream, n>>

feedVars == <<lists, current, streams, active, handout, heard>>

NoHandout == [page |-> {}, list |-> 0, next |-> 1, called |-> {}, left |-> 0]

FeedInit ==
    /\ lists = <<>> /\ current = 0 /\ streams = <<>> /\ active = 0
    /\ handout = NoHandout
    /\ heard = [l \in Listener |-> [since |-> 0, got |-> {}, missed |-> {}, stage |-> "new"]]

HandingOut == handout # NoHandout

\* Mutant of Opens: every listener has a subscription of the node.
OpensAlways(list) == TRUE

Opens(list) == Len(list) = 1

\* subscribeStatements
Listen(l) ==
    /\ heard[l].stage = "new"
    /\ LET list == IF current = 0 THEN <<l>> ELSE Append(lists[current], l) IN
       /\ lists' = IF current = 0 THEN Append(lists, list) ELSE [lists EXCEPT ![current] = list]
       /\ current' = IF current = 0 THEN Len(lists) + 1 ELSE current
       /\ IF Opens(list)
            THEN /\ streams' = Append(streams, [sent |-> 0, batch |-> {}, scheduled |-> FALSE, state |-> "open"])
                 /\ active' = Len(streams) + 1
            ELSE UNCHANGED <<streams, active>>
       /\ heard' = [heard EXCEPT ![l].stage = "listening",
                                 ![l].since = IF Opens(list) THEN 0 ELSE streams[active].sent]
    /\ UNCHANGED handout

\* The function it returned: the last to leave closes the subscription.  It
\* can be called again, and then finds nothing of its own.
Leave(l) ==
    /\ heard[l].stage # "new"
    /\ LET rest == IF current = 0 THEN <<>> ELSE RemoveFirst(lists[current], l)
           mine == current # 0 /\ Contains(lists[current], l)
       IN /\ lists' = IF mine THEN [lists EXCEPT ![current] = rest] ELSE lists
          /\ current' = IF rest = <<>> THEN 0 ELSE current
          /\ IF rest = <<>> /\ active # 0
               THEN streams' = [streams EXCEPT ![active].state = "closed"] /\ active' = 0
               ELSE UNCHANGED <<streams, active>>
          /\ handout' = IF mine /\ handout.list = current THEN [handout EXCEPT !.left = @ + 1] ELSE handout
    /\ heard' = [heard EXCEPT ![l].stage = "gone"]

\* The node sends a statement: the first of a batch sets the timer.
StatementComes(s) ==
    /\ ~HandingOut /\ streams[s].state = "open" /\ streams[s].sent < MaxStatements
    /\ streams' = [streams EXCEPT ![s].sent = @ + 1, ![s].batch = @ \cup {<<s, streams[s].sent + 1>>},
                                  ![s].scheduled = TRUE]
    /\ UNCHANGED <<lists, current, active, handout, heard>>

\* The subscription fails: the adapter logs it and keeps it.
StreamFails(s) ==
    /\ ~HandingOut /\ streams[s].state = "open"
    /\ streams' = [streams EXCEPT ![s].state = "failed"]
    /\ UNCHANGED <<lists, current, active, handout, heard>>

\* The next listener of the array gets the page; after the last the page is
\* through, whoever joined or left on the way.
Hands(h) ==
    IF h.next > Len(lists[h.list])
      THEN /\ handout' = NoHandout
           /\ heard' = [l \in Listener |->
                IF Contains(lists[h.list], l) /\ l \notin h.called
                  THEN [heard[l] EXCEPT !.missed = @ \cup h.page] ELSE heard[l]]
      ELSE LET l == lists[h.list][h.next] IN
           /\ handout' = [h EXCEPT !.next = @ + 1, !.called = @ \cup {l}]
           /\ heard' = [heard EXCEPT ![l].got = @ \cup h.page]

\* flush: the page goes to whoever listens now, to a later subscription's
\* listeners if those of its own have left, and nowhere if nobody listens.
Flush(s) ==
    /\ ~HandingOut /\ streams[s].scheduled
    /\ streams' = [streams EXCEPT ![s].scheduled = FALSE, ![s].batch = {}]
    /\ IF current = 0 THEN UNCHANGED <<handout, heard>>
       ELSE Hands([NoHandout EXCEPT !.page = streams[s].batch, !.list = current])
    /\ UNCHANGED <<lists, current, active>>

NextListener == HandingOut /\ Hands(handout) /\ UNCHANGED <<lists, current, streams, active>>

FeedNext ==
    \/ \E l \in Listener : Listen(l) \/ Leave(l)
    \/ \E s \in DOMAIN streams : StatementComes(s) \/ StreamFails(s) \/ Flush(s)
    \/ NextListener

FeedSpec == FeedInit /\ [][FeedNext]_feedVars

-----------------------------------------------------------------------------
(* Properties                                                              *)

FeedTypeOK ==
    /\ current \in 0..Len(lists) /\ active \in 0..Len(streams)
    /\ handout.list \in 0..Len(lists)

Listening == IF current = 0 THEN {} ELSE ToSet(lists[current])

\* What a listener of the subscription there is must have: what came since it
\* joined and is not waiting for the timer.
Due(l) == {<<active, n>> : n \in (heard[l].since + 1)..streams[active].sent} \ streams[active].batch

\* The node is subscribed to exactly while somebody listens, once.  A listener
\* has every statement since it joined, but for a page that was being handed
\* out when another left: each that leaves costs one of the others the page at
\* most (rpc.ts:85-87 iterates the array :66 removes from).
ListenersShareOneFeed ==
    /\ FeedTypeOK
    /\ {s \in DOMAIN streams : streams[s].state # "closed"} = IF current = 0 THEN {} ELSE {active}
    /\ Listening = {l \in Listener : heard[l].stage = "listening"}
    /\ current # 0 => IsInjective(lists[current])
    /\ ~HandingOut /\ active # 0 => \A l \in Listening : Due(l) \subseteq heard[l].got \cup heard[l].missed
    /\ HandingOut =>
         LET list == lists[handout.list] IN
         Cardinality({k \in DOMAIN list : k < handout.next /\ list[k] \notin handout.called}) <= handout.left
=============================================================================
