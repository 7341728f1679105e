-------------------------- MODULE TransportRequests --------------------------
(***************************************************************************)
(* Requests over the transport of host-api/src/transport.ts, between a     *)
(* product that calls (isReady, request, its abort signal, destroy) and a  *)
(* host that serves (handleRequest, the handshake handler, destroy).       *)
(*                                                                         *)
(* The provider between them is external: it carries frames in order, and  *)
(* may lose those that reach the host's window before the host listens.    *)
(***************************************************************************)
EXTENDS Naturals, Sequences

CONSTANTS
    Call,       \* calls of transport.request, each with a request id of its own
    Shake       \* bound: handshake requests, by their ids

ASSUME TransportAssumption == Call \cap Shake = {}

Id == Call \cup Shake

VARIABLES
  (* the product *)
    link,       \* handshakePromise and connectionStatus
    shakes,     \* ids of the handshakes sent
    call,       \* where each request() is; its outcome at the end
    aborted,    \* calls whose signal has fired
    disposed,
  (* the frames on their way *)
    toHost, toProduct,
  (* the host *)
    host,       \* "absent" until it listens, "up", "down" once destroyed
    compatible, \* whether it speaks the product's codec version
    inFlight,   \* calls it has not answered
    working,    \* calls whose handler has not settled
    answers     \* history: responses posted, by id

product == <<link, shakes, call, aborted, disposed>>
serving == <<inFlight, working, answers>>
vars == <<product, toHost, toProduct, host, compatible, serving>>

Outcome == {"answered", "aborted", "rejected"}

\* What a response frame carries.  `foreign' does not decode at the product.
Reply == {"value", "failure", "foreign", "cancelled", "malformed", "unsupported"}

Frame(leg, i) == [leg |-> leg, id |-> i]

Init ==
    /\ link = "idle" /\ shakes = {} /\ aborted = {} /\ disposed = FALSE
    /\ call = [c \in Call |-> "idle"]
    /\ toHost = <<>> /\ toProduct = <<>>
    /\ host = "absent" /\ compatible \in BOOLEAN
    /\ inFlight = {} /\ working = {}
    /\ answers = [i \in Id |-> 0]

\* A destroyed host no longer listens; nothing reaches it.
ToHost(frame) == IF host = "down" THEN toHost ELSE Append(toHost, frame)

ToProduct(frame) == IF disposed THEN toProduct ELSE Append(toProduct, frame)

-----------------------------------------------------------------------------
(* The handshake *)

\* isReady() opens the handshake, or joins the one under way.
Request(c) ==
    /\ call[c] = "idle"
    /\ \/ /\ disposed
          /\ call' = [call EXCEPT ![c] = "rejected"]
          /\ UNCHANGED link
       \/ /\ ~disposed
          /\ call' = [call EXCEPT ![c] = "connecting"]
          /\ link' = IF link = "idle" THEN "connecting" ELSE link
    /\ UNCHANGED <<shakes, aborted, disposed, toHost, toProduct, host, compatible, serving>>

SendHandshake(s) ==
    /\ link = "connecting" /\ s \notin shakes
    /\ shakes' = shakes \cup {s}
    /\ toHost' = ToHost(Frame("request", s))
    /\ UNCHANGED <<link, call, aborted, disposed, toProduct, host, compatible, serving>>

HandshakeTimesOut ==
    /\ link = "connecting"
    /\ link' = "disconnected"
    /\ UNCHANGED <<shakes, call, aborted, disposed, toHost, toProduct, host, compatible, serving>>

-----------------------------------------------------------------------------
(* The product's requests *)

\* Not ready, aborted while it waited, or post() throws.
Refused(c) == link = "disconnected" \/ c \in aborted \/ disposed

\* Mutant of Proceed: the request goes out while the handshake is under way.
ProceedEarly(c) ==
    /\ call[c] = "connecting"
    /\ \/ /\ Refused(c)
          /\ call' = [call EXCEPT ![c] = "rejected"]
          /\ UNCHANGED toHost
       \/ /\ ~Refused(c)
          /\ call' = [call EXCEPT ![c] = "waiting"]
          /\ toHost' = ToHost(Frame("request", c))
    /\ UNCHANGED <<link, shakes, aborted, disposed, toProduct, host, compatible, serving>>

Proceed(c) ==
    /\ call[c] = "connecting" /\ link \in {"connected", "disconnected"}
    /\ \/ /\ Refused(c)
          /\ call' = [call EXCEPT ![c] = "rejected"]
          /\ UNCHANGED toHost
       \/ /\ ~Refused(c)
          /\ call' = [call EXCEPT ![c] = "waiting"]
          /\ toHost' = ToHost(Frame("request", c))
    /\ UNCHANGED <<link, shakes, aborted, disposed, toProduct, host, compatible, serving>>

\* Mutant of Withdrawal: the host is not told.
WithdrawalSilent(c) == toHost

\* post() throws on a disposed transport, and onAbort ignores it.
Withdrawal(c) == IF disposed THEN toHost ELSE ToHost(Frame("cancel", c))

\* The signal fires, before, during or after the exchange.
Abort(c) ==
    /\ c \notin aborted
    /\ aborted' = aborted \cup {c}
    /\ IF call[c] = "waiting"
       THEN /\ call' = [call EXCEPT ![c] = "aborted"]
            /\ toHost' = Withdrawal(c)
       ELSE UNCHANGED <<call, toHost>>
    /\ UNCHANGED <<link, shakes, disposed, toProduct, host, compatible, serving>>

\* A frame for nobody is ignored: every listener compares the id.
TakeFrame ==
    /\ toProduct # <<>>
    /\ LET frame == Head(toProduct)
           i == frame.id IN
       \/ /\ i \in shakes /\ link = "connecting" /\ frame.leg # "foreign"
          /\ link' = IF frame.leg = "value" THEN "connected" ELSE "disconnected"
          /\ UNCHANGED call
       \/ /\ i \in Call /\ call[i] = "waiting"
          /\ call' = [call EXCEPT ![i] = IF frame.leg = "foreign" THEN "rejected" ELSE "answered"]
          /\ UNCHANGED link
       \/ /\ i \in shakes => link # "connecting" \/ frame.leg = "foreign"
          /\ i \in Call => call[i] # "waiting"
          /\ UNCHANGED <<link, call>>
    /\ toProduct' = Tail(toProduct)
    /\ UNCHANGED <<shakes, aborted, disposed, toHost, host, compatible, serving>>

\* The handshake is abandoned; a request that waits for its answer is not.
Destroy ==
    /\ ~disposed
    /\ disposed' = TRUE
    /\ link' = "disconnected"
    /\ toProduct' = <<>>
    /\ UNCHANGED <<shakes, call, aborted, toHost, host, compatible, serving>>

-----------------------------------------------------------------------------
(* The host *)

Listen ==
    /\ host = "absent"
    /\ host' = "up"
    /\ UNCHANGED <<product, toHost, toProduct, compatible, serving>>

\* External: nobody listens to the channel yet.
Lose ==
    /\ host = "absent" /\ toHost # <<>>
    /\ toHost' = Tail(toHost)
    /\ UNCHANGED <<product, toProduct, host, compatible, serving>>

Respond(i, reply) ==
    /\ answers' = [answers EXCEPT ![i] = @ + 1]
    /\ toProduct' = ToProduct(Frame(reply, i))

Received(leg) ==
    /\ host = "up" /\ toHost # <<>> /\ Head(toHost).leg = leg
    /\ toHost' = Tail(toHost)

\* A request for an unknown address, or one that does not decode.
RefuseRequest ==
    /\ Received("request") /\ Head(toHost).id \in Call
    /\ \E reply \in {"unsupported", "malformed"} : Respond(Head(toHost).id, reply)
    /\ UNCHANGED <<product, host, compatible, inFlight, working>>

StartHandler ==
    /\ Received("request")
    /\ inFlight' = inFlight \cup {Head(toHost).id}
    /\ working' = working \cup {Head(toHost).id}
    /\ UNCHANGED <<product, toProduct, host, compatible, answers>>

\* Mutant of Cancel: the cancelled call stays current.
CancelKeeping ==
    /\ Received("cancel")
    /\ UNCHANGED inFlight
    /\ IF Head(toHost).id \in inFlight
       THEN Respond(Head(toHost).id, "cancelled")
       ELSE UNCHANGED <<toProduct, answers>>
    /\ UNCHANGED <<product, host, compatible, working>>

Cancel ==
    /\ Received("cancel")
    /\ inFlight' = inFlight \ {Head(toHost).id}
    /\ IF Head(toHost).id \in inFlight
       THEN Respond(Head(toHost).id, "cancelled")
       ELSE UNCHANGED <<toProduct, answers>>
    /\ UNCHANGED <<product, host, compatible, working>>

Replies(i) ==
    IF i \in Call THEN {"value", "failure", "foreign"}
    ELSE {IF compatible THEN "value" ELSE "failure"}

\* Mutant of SettleHandler: a handler that rejects is only logged.
SettleHandlerValue(i) ==
    /\ i \in working
    /\ working' = working \ {i} /\ inFlight' = inFlight \ {i}
    /\ \/ /\ i \in inFlight /\ host = "up"
          /\ Respond(i, "value")
       \/ UNCHANGED <<toProduct, answers>>
    /\ UNCHANGED <<product, toHost, host, compatible>>

\* A handler resolves or rejects; its result counts while the call is current.
\* On a destroyed host the response cannot be posted.
SettleHandler(i) ==
    /\ i \in working
    /\ working' = working \ {i} /\ inFlight' = inFlight \ {i}
    /\ IF i \in inFlight /\ host = "up"
       THEN \E reply \in Replies(i) : Respond(i, reply)
       ELSE UNCHANGED <<toProduct, answers>>
    /\ UNCHANGED <<product, toHost, host, compatible>>

DestroyHost ==
    /\ host = "up"
    /\ host' = "down"
    /\ toHost' = <<>>
    /\ UNCHANGED <<product, toProduct, compatible, serving>>

TakeRequest == RefuseRequest \/ StartHandler \/ Cancel

Next ==
    \/ \E c \in Call : Request(c) \/ Proceed(c) \/ Abort(c)
    \/ \E s \in Shake : SendHandshake(s)
    \/ HandshakeTimesOut \/ TakeFrame \/ Destroy
    \/ Listen \/ Lose \/ TakeRequest \/ DestroyHost
    \/ \E i \in Id : SettleHandler(i)

Spec == Init /\ [][Next]_vars

\* Timers fire, frames arrive and handlers settle.
FairSpec ==
    /\ Spec
    /\ WF_vars(HandshakeTimesOut) /\ WF_vars(TakeFrame) /\ WF_vars(TakeRequest)
    /\ \A c \in Call : WF_vars(Proceed(c))
    /\ \A i \in Id : WF_vars(SettleHandler(i))

-----------------------------------------------------------------------------
(* Properties *)

TypeOK ==
    /\ link \in {"idle", "connecting", "connected", "disconnected"}
    /\ shakes \subseteq Shake /\ aborted \subseteq Call /\ disposed \in BOOLEAN
    /\ call \in [Call -> {"idle", "connecting", "waiting"} \cup Outcome]
    /\ toHost \in Seq([leg : {"request", "cancel"}, id : Id])
    /\ toProduct \in Seq([leg : Reply, id : Id])
    /\ host \in {"absent", "up", "down"} /\ compatible \in BOOLEAN
    /\ inFlight \subseteq working /\ working \subseteq Id
    /\ answers \in [Id -> Nat]

InTransit(channel, i, legs) ==
    \E k \in DOMAIN channel : channel[k].id = i /\ channel[k].leg \in legs

\* A request that waits is carried by something: its request frame is on the
\* way, the host works on it, or a response is on the way.  So no request is
\* posted to a host that does not listen yet, and no path through the host
\* forgets to answer.
WaitIsCarried ==
    \A c \in Call : call[c] = "waiting" /\ ~disposed /\ host # "down" =>
        \/ host = "up" /\ InTransit(toHost, c, {"request"})
        \/ c \in inFlight
        \/ InTransit(toProduct, c, Reply)

\* The host never serves a withdrawn call without the withdrawal on its way.
WithdrawalFollows ==
    \A c \in Call : call[c] = "aborted" /\ c \in inFlight /\ ~disposed /\ host # "down" =>
        InTransit(toHost, c, {"cancel"})

\* Where a request() is, as a call of RemoteCall.
Stage(pc) ==
    IF pc = "idle" THEN "idle"
    ELSE IF pc \in {"connecting", "waiting"} THEN "open"
    ELSE IF pc = "answered" THEN "answered"
    ELSE "dropped"

CallState == [c \in Call |-> Stage(call[c])]

\* The frames, the handshake and the withdrawals together do what RemoteCall
\* promises: one answer to a call, which nobody got unless it was given.
Contract == INSTANCE RemoteCall WITH state <- CallState,
                                     given <- [c \in Call |-> answers[c]]

IsRemoteCall == Contract!Spec

\* Every request ends, unless one of the two sides is destroyed while it waits
\* for an answer: nothing tells the waiting caller then.
EveryRequestEnds ==
    \A c \in Call :
        call[c] \in {"connecting", "waiting"} ~>
            call[c] \in Outcome \/ (call[c] = "waiting" /\ (disposed \/ host = "down"))
=============================================================================
