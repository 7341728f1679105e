------------------------------ MODULE HostCalls ------------------------------
(* The host container (createContainer.ts) serving a product's calls: every *)
(* method has a slot whose handler the application registers and removes,   *)
(* some slots ask a permission before each call, and whatever goes wrong    *)
(* reaches the product as one error of the method's own type (hostApi.ts    *)
(* and the wrapper).  Frames, aborts and the end of a side are the          *)
(* transport's: see TransportRequests and TransportSubscriptions.           *)
EXTENDS ProductWrapper

CONSTANTS
    Method,        \* the methods this instance calls
    Registration,  \* registrations of a handler, in any order
    Call,          \* calls of the product, requests and subscriptions
    None           \* no handler, no answer

ASSUME MethodAssumption == Method \subseteq RequestSlots \cup SubscriptionSlots
ASSUME NoneAssumption == None \notin Registration \cup [method : Method, version : Nat, removed : BOOLEAN]

VARIABLES
    slot,     \* of each method: the current handler and the version of the slot
    reg,      \* of each registration: its method and version, or None
    call,     \* of each call: how far it is, who serves it, how it ended
    granted   \* the calls whose permission the host has granted (history)

callsVars == <<slot, reg, call, granted>>

Idle == [stage |-> "idle", method |-> <<>>, tag |-> "v1", by |-> None, result |-> None]

CallsInit ==
    /\ slot = [a \in Method |-> [current |-> None, version |-> 0]]
    /\ reg = [r \in Registration |-> None]
    /\ call = [c \in Call |-> Idle]
    /\ granted = {}

-----------------------------------------------------------------------------
(* Answers                                                                  *)

Value == [ok |-> TRUE, error |-> None]
DomainFailure(error) == [ok |-> FALSE, error |-> error]

\* makeRequest: a failure below the domain layer becomes the method's error.
Folded(a, tag, answer) ==
    IF ~answer.ok /\ answer.error \in {"Unsupported", "HostFailure"}
      THEN DomainFailure(FallbackError(a, tag)) ELSE answer

\* unwrapVersionedSubscription does the same for an interrupt.
FoldedInterrupt(a, error) == IF error = "Unsupported" THEN SubscriptionFallback(a) ELSE error

\* The handler of localStorage.read works in v2; its errors are downgraded.
DowngradedKeeping(a, tag, error) == error   \* mutant: v1 callers see v2 errors
Downgraded(a, tag, error) ==
    IF a = <<"localStorage", "read">> /\ tag = "v1" THEN "StorageErr" ELSE error

LatestError(a) == IF a = <<"localStorage", "read">> THEN "StorageReadV2Err" ELSE DomainError(a, "v1")

Settled(c, answer) ==
    [c EXCEPT !.stage = "settled", !.result = Folded(c.method, c.tag, answer)]

\* The rest of a request slot: whatever handler is current now.
Serve(c) ==
    IF slot[c.method].current = None THEN Settled(c, DomainFailure("Unsupported"))
    ELSE [c EXCEPT !.stage = "serving", !.by = slot[c.method].current]

\* Mutant of Enter: the gate comes first.
EnterAsking(c) ==
    IF GateOf(c.method) # <<>> THEN [c EXCEPT !.stage = "asking"] ELSE Serve(c)

\* A gated slot without a handler does not ask; a permission nobody handles is
\* not granted.
Enter(c) ==
    LET gate == GateOf(c.method) IN
    IF gate = <<>> \/ slot[c.method].current = None THEN Serve(c)
    ELSE IF slot[gate].current = None THEN Settled(c, DomainFailure(DenialError(c.method)))
    ELSE [c EXCEPT !.stage = "asking"]

-----------------------------------------------------------------------------
(* The application registers and removes handlers                          *)

Register(r, a) ==
    /\ reg[r] = None
    /\ reg' = [reg EXCEPT ![r] = [method |-> a, version |-> slot[a].version + 1, removed |-> FALSE]]
    /\ slot' = [slot EXCEPT ![a] = [current |-> r, version |-> @.version + 1]]
    /\ UNCHANGED <<call, granted>>

\* Mutant of Restored: a late remover takes the newer handler with it.
RestoredAlways(a, version) == [slot EXCEPT ![a] = [current |-> None, version |-> @.version + 1]]

\* The function a registration returns restores the default, unless the slot
\* has been updated since.
Restored(a, version) ==
    IF version # slot[a].version THEN slot
    ELSE [slot EXCEPT ![a] = [current |-> None, version |-> @.version + 1]]

RemoveHandler(r) ==
    /\ reg[r] # None
    /\ slot' = Restored(reg[r].method, reg[r].version)
    /\ reg' = [reg EXCEPT ![r].removed = TRUE]
    /\ UNCHANGED <<call, granted>>

-----------------------------------------------------------------------------
(* The product calls                                                       *)

Requested(c, a, tag) ==
    /\ call[c] = Idle
    /\ call' = [call EXCEPT ![c] = Enter([Idle EXCEPT !.method = a, !.tag = tag])]
    /\ UNCHANGED <<slot, reg, granted>>

\* A call of the host API, or of an account function of the wrapper: each
\* makes one v1 request and strips the version from what it gets.  The internal
\* methods, which the container has slots for, are not offered to a product.
Request_(c, a) ==
    /\ a \in RequestSlots /\ ~Definition(a).internal
    /\ \E tag \in DOMAIN Definition(a).error : Requested(c, a, tag)

\* A signature costs the request of its signer.
Sign(c, type, s) ==
    /\ Offers(type, s) /\ Signer(type, s) \in Method
    /\ ~MockedLocally(type, s) /\ ~RefusedLocally(type, s)
    /\ Requested(c, Signer(type, s), "v1")

\* One that is mocked or refused costs none.
SignHere(c, type, s) ==
    /\ Offers(type, s) /\ call[c] = Idle
    /\ MockedLocally(type, s) \/ RefusedLocally(type, s)
    /\ call' = [call EXCEPT ![c].stage = "local", ![c].result = Value]
    /\ UNCHANGED <<slot, reg, granted>>

Subscribe(c, a) ==
    /\ a \in SubscriptionSlots /\ call[c] = Idle
    /\ call' = [call EXCEPT ![c] =
         IF slot[a].current # None
           THEN [Idle EXCEPT !.stage = "open", !.method = a, !.by = slot[a].current]
           ELSE [Idle EXCEPT !.stage = "settled", !.method = a,
                   !.result = DomainFailure(FoldedInterrupt(a, DefaultInterrupt(a)))]]
    /\ UNCHANGED <<slot, reg, granted>>

-----------------------------------------------------------------------------
(* The application's handlers answer                                       *)

\* After the await the slot runs the handler that is current now.
Granted(c) ==
    /\ call[c].stage = "asking"
    /\ granted' = granted \cup {c}
    /\ call' = [call EXCEPT ![c] = Serve(@)]
    /\ UNCHANGED <<slot, reg>>

\* isPermissionGranted: anything but a granted `true` is a denial.
Denied(c) ==
    /\ call[c].stage = "asking"
    /\ call' = [call EXCEPT ![c] = Settled(@, DomainFailure(DenialError(call[c].method)))]
    /\ UNCHANGED <<slot, reg, granted>>

\* A handler that throws, the permission's or the method's own, is answered by
\* the transport with HostFailure.
Throws(c) ==
    /\ call[c].stage \in {"asking", "serving"}
    /\ call' = [call EXCEPT ![c] = Settled(@, DomainFailure("HostFailure"))]
    /\ UNCHANGED <<slot, reg, granted>>

Answers(c) ==
    /\ call[c].stage = "serving"
    /\ LET a == call[c].method  tag == call[c].tag IN
       \E answer \in {Value, DomainFailure(Downgraded(a, tag, LatestError(a)))} :
         call' = [call EXCEPT ![c] = Settled(@, answer)]
    /\ UNCHANGED <<slot, reg, granted>>

\* A subscription is served by the handler that opened it until it interrupts,
\* whatever is registered meanwhile.
Interrupts(c) ==
    /\ call[c].stage = "open"
    /\ LET a == call[c].method IN
       call' = [call EXCEPT ![c].stage = "settled",
                            ![c].result = DomainFailure(FoldedInterrupt(a, DomainError(a, "v1")))]
    /\ UNCHANGED <<slot, reg, granted>>

HandlerStep ==
    \E c \in Call : Granted(c) \/ Denied(c) \/ Throws(c) \/ Answers(c)

CallsNext ==
    \/ \E r \in Registration : RemoveHandler(r) \/ \E a \in Method : Register(r, a)
    \/ \E c \in Call, a \in Method : Request_(c, a) \/ Subscribe(c, a)
    \/ \E c \in Call, type \in SignerTypes, s \in Signatures : Sign(c, type, s) \/ SignHere(c, type, s)
    \/ HandlerStep
    \/ \E c \in Call : Interrupts(c)

CallsSpec == CallsInit /\ [][CallsNext]_callsVars

-----------------------------------------------------------------------------
(* Properties                                                              *)

CallsTypeOK ==
    /\ slot \in [Method -> [current : Registration \cup {None}, version : 0..2 * Cardinality(Registration)]]
    /\ \A r \in Registration : reg[r] = None \/ reg[r].method \in Method
    /\ \A c \in Call :
         /\ call[c].stage \in {"idle", "asking", "serving", "open", "settled", "local"}
         /\ call[c].stage \in {"settled", "local"} <=> call[c].result # None
         /\ call[c].by \in Registration \cup {None}
    /\ granted \subseteq Call

\* A slot is served by its newest registration until that one is removed; the
\* remover of an older registration, called late or twice, takes nothing away.
NewestServes ==
    \A a \in Method :
      LET of == {r \in Registration : reg[r] # None /\ reg[r].method = a}
          newest == {r \in of : \A q \in of : reg[q].version <= reg[r].version}
      IN slot[a].current = IF \E r \in newest : ~reg[r].removed THEN CHOOSE r \in newest : TRUE ELSE None

\* The handler of a gated method runs only for a call that was itself granted,
\* and no call of a method nobody handles asks for a grant
\* (createContainer.ts:200-204).
GrantedFirst ==
    /\ [](\A c \in Call : call[c].by # None /\ GateOf(call[c].method) # <<>> => c \in granted)
    /\ [][\A c \in Call : call[c].stage = "idle" /\ call'[c].stage = "asking"
                            => slot[call'[c].method].current # None]_callsVars

\* A call is served by the newest registration there is, and only once the
\* gates of its own method let it through.
SlotsServe == []NewestServes /\ GrantedFirst

\* The three tables fit together: no wire address is taken twice, every product
\* request has a fallback of its own error type, so has every subscription, and
\* the container has a slot for every method but the handshake, which the
\* transport answers, and what the product serves; the wrapper reaches every
\* method a product may call, those of `Unwrapped` apart, and no internal one.
TablesAgree ==
    /\ \A a, b \in Methods : AddressKey(a) = AddressKey(b) => a = b
    /\ \A a \in ProductRequests :
         HasFallback(a) /\ \A tag \in DOMAIN Definition(a).error : FallbackError(a, tag) = DomainError(a, tag)
    /\ \A a \in ProductSubscriptions : SubscriptionFallback(a) = DomainError(a, "v1")
    /\ RequestSlots = {a \in Methods : Definition(a).kind = "request"} \ {<<"system", "handshake">>}
    /\ SubscriptionSlots = ProductSubscriptions
    /\ WrappedMethods = {a \in Methods : ~(Definition(a).kind = "request" /\ Definition(a).internal)} \ Unwrapped

\* However a call fails - no handler, a denial, a handler that throws, an error
\* of its own, an older version - the product handles one error type: that of
\* the method, in the version the call was made in (hostApi.ts:145-147).
OneErrorType ==
    /\ TablesAgree
    /\ \A c \in Call :
         call[c].stage = "settled" /\ ~call[c].result.ok
           => call[c].result.error = DomainError(call[c].method, call[c].tag)
=============================================================================
