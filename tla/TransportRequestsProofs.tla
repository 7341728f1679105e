----------------------- MODULE TransportRequestsProofs -----------------------
(***************************************************************************)
(* That the transport answers every request at most once and hands out     *)
(* only answers that were given, loses no request that waits and tells the *)
(* host of every withdrawal, for any number of calls and handshakes.       *)
(***************************************************************************)
EXTENDS TransportRequests, TLAPS

(* What inductiveness adds: an id is used once, so a request frame, the    *)
(* handler's table and the answer exclude each other; nothing gets through *)
(* before the host listens; and a cancel frame is behind its request.      *)

Posted(i) == i \in shakes \/ (i \in Call /\ call[i] \notin {"idle", "connecting"})

\* Before the host listens nothing comes back, and nobody waits for it.
Unheard ==
    host = "absent" =>
        /\ toProduct = <<>> /\ working = {} /\ link # "connected"
        /\ \A c \in Call : call[c] \notin {"waiting", "aborted"}

DownIsDeaf == host = "down" => toHost = <<>>

RequestsAreNew ==
    \A k \in DOMAIN toHost : toHost[k].leg = "request" =>
        /\ Posted(toHost[k].id)
        /\ toHost[k].id \notin working /\ answers[toHost[k].id] = 0

RequestsAreDistinct ==
    \A j, k \in DOMAIN toHost :
        toHost[j].leg = "request" /\ toHost[k].leg = "request" /\ toHost[j].id = toHost[k].id => j = k

CallsAreOpen ==
    /\ \A i \in working : Posted(i)
    /\ \A i \in inFlight : answers[i] = 0

AnswersAreFew ==
    /\ \A i \in Id : answers[i] \in 0 .. 1 /\ (answers[i] = 1 => Posted(i))
    /\ \A k \in DOMAIN toProduct : answers[toProduct[k].id] = 1
    /\ \A c \in Call : call[c] = "answered" => answers[c] = 1

CancelsAreMeant ==
    \A k \in DOMAIN toHost : toHost[k].leg = "cancel" =>
        toHost[k].id \in Call /\ call[toHost[k].id] = "aborted"

CancelFollowsRequest ==
    ~disposed => \A k \in DOMAIN toHost :
        toHost[k].leg = "request" /\ toHost[k].id \in Call /\ call[toHost[k].id] = "aborted" =>
            \E j \in DOMAIN toHost : j > k /\ toHost[j] = Frame("cancel", toHost[k].id)

IInv ==
    /\ TypeOK /\ WaitIsCarried /\ WithdrawalFollows
    /\ Unheard /\ DownIsDeaf /\ RequestsAreNew /\ RequestsAreDistinct /\ CallsAreOpen
    /\ AnswersAreFew /\ CancelsAreMeant /\ CancelFollowsRequest

-----------------------------------------------------------------------------
(* Channels: what a frame put at the end, or taken from the front, changes. *)

LEMMA Element ==
    ASSUME NEW S, NEW q \in Seq(S), NEW k \in DOMAIN q
    PROVE  q[k] \in S
OBVIOUS

LEMMA Push ==
    ASSUME NEW S, NEW q \in Seq(S), NEW e \in S
    PROVE  /\ Append(q, e) \in Seq(S)
           /\ Len(q) \in Nat /\ DOMAIN q = 1 .. Len(q)
           /\ DOMAIN Append(q, e) = 1 .. Len(q) + 1
           /\ \A k \in DOMAIN q : Append(q, e)[k] = q[k]
           /\ Append(q, e)[Len(q) + 1] = e
OBVIOUS

LEMMA Pop ==
    ASSUME NEW S, NEW q \in Seq(S), q # <<>>
    PROVE  /\ Tail(q) \in Seq(S)
           /\ Len(q) \in Nat /\ DOMAIN q = 1 .. Len(q)
           /\ 1 \in DOMAIN q /\ Head(q) = q[1] /\ Head(q) \in S
           /\ \A k \in DOMAIN Tail(q) : k + 1 \in DOMAIN q /\ Tail(q)[k] = q[k + 1] /\ k \in Nat
           /\ \A k \in DOMAIN q : k = 1 \/ (k - 1 \in DOMAIN Tail(q) /\ Tail(q)[k - 1] = q[k])
OBVIOUS

LEMMA PushTransit ==
    ASSUME NEW S, NEW q \in Seq(S), NEW e \in S, NEW i, NEW L
    PROVE  /\ InTransit(q, i, L) => InTransit(Append(q, e), i, L)
           /\ e.id = i /\ e.leg \in L => InTransit(Append(q, e), i, L)
BY Push DEF InTransit

LEMMA PopTransit ==
    ASSUME NEW S, NEW q \in Seq(S), q # <<>>, NEW i, NEW L,
           InTransit(q, i, L), ~(Head(q).id = i /\ Head(q).leg \in L)
    PROVE  InTransit(Tail(q), i, L)
<1>1. PICK k \in DOMAIN q : q[k].id = i /\ q[k].leg \in L
  BY DEF InTransit
<1>2. k # 1
  BY <1>1, Pop
<1>3. k - 1 \in DOMAIN Tail(q) /\ Tail(q)[k - 1] = q[k]
  BY <1>2, Pop
<1> QED BY <1>1, <1>3 DEF InTransit

HostFrame == [leg : {"request", "cancel"}, id : Id]
ProductFrame == [leg : Reply, id : Id]

LEMMA InitIInv == Init => IInv
<1> SUFFICES ASSUME Init PROVE IInv
  OBVIOUS
<1>1. TypeOK
  <2>1. toHost \in Seq(HostFrame) /\ toProduct \in Seq(ProductFrame)
    BY DEF Init
  <2>2. answers \in [Id -> Nat] /\ call \in [Call -> {"idle", "connecting", "waiting"} \cup Outcome]
    BY DEF Init
  <2> QED BY <2>1, <2>2 DEF Init, TypeOK, HostFrame, ProductFrame
<1>2. WaitIsCarried /\ WithdrawalFollows /\ Unheard /\ DownIsDeaf
  BY DEF Init, WaitIsCarried, WithdrawalFollows, Unheard, DownIsDeaf
<1>3. RequestsAreNew /\ RequestsAreDistinct /\ CancelsAreMeant /\ CancelFollowsRequest
  BY DEF Init, RequestsAreNew, RequestsAreDistinct, CancelsAreMeant, CancelFollowsRequest
<1>4. CallsAreOpen /\ AnswersAreFew
  BY DEF Init, CallsAreOpen, AnswersAreFew, Id
<1> QED BY <1>1, <1>2, <1>3, <1>4 DEF IInv

-----------------------------------------------------------------------------
(* One lemma per kind of step. *)

\* Steps that send nothing and take nothing.
LEMMA QuietStep ==
    ASSUME IInv,
           \/ \E c \in Call : Request(c)
           \/ HandshakeTimesOut \/ Destroy \/ Listen \/ DestroyHost
    PROVE  IInv'
<1> USE DEF IInv, TypeOK, Posted
<1>1. ASSUME NEW c \in Call, Request(c)
      PROVE  IInv'
  <2> USE <1>1 DEF Request, serving
  <2>1. TypeOK'
    BY DEF Outcome
  <2>2. \A d \in Call : call'[d] \in {"waiting", "aborted", "answered"} <=> call[d] \in {"waiting", "aborted", "answered"}
    OBVIOUS
  <2>3. \A d \in Call : call'[d] \in {"waiting", "aborted", "answered"} => call'[d] = call[d]
    OBVIOUS
  <2>4. \A i \in Id : Posted(i) => Posted(i)'
    OBVIOUS
  <2> QED BY <2>1, <2>2, <2>3, <2>4, SMTT(30)
          DEF WaitIsCarried, WithdrawalFollows, Unheard, DownIsDeaf, RequestsAreNew, InTransit,
              RequestsAreDistinct, CallsAreOpen, AnswersAreFew, CancelsAreMeant, CancelFollowsRequest
<1>2. CASE HandshakeTimesOut
  BY <1>2 DEF HandshakeTimesOut, serving, WaitIsCarried, WithdrawalFollows, Unheard, DownIsDeaf, RequestsAreNew,
              InTransit, RequestsAreDistinct, CallsAreOpen, AnswersAreFew, CancelsAreMeant, CancelFollowsRequest
<1>3. CASE Destroy
  BY <1>3 DEF Destroy, serving, WaitIsCarried, WithdrawalFollows, Unheard, DownIsDeaf, RequestsAreNew,
              InTransit, RequestsAreDistinct, CallsAreOpen, AnswersAreFew, CancelsAreMeant, CancelFollowsRequest
<1>4. CASE Listen
  BY <1>4 DEF Listen, product, serving, WaitIsCarried, WithdrawalFollows, Unheard, DownIsDeaf, RequestsAreNew,
              InTransit, RequestsAreDistinct, CallsAreOpen, AnswersAreFew, CancelsAreMeant, CancelFollowsRequest
<1>5. CASE DestroyHost
  BY <1>5 DEF DestroyHost, product, serving, WaitIsCarried, WithdrawalFollows, Unheard, DownIsDeaf, RequestsAreNew,
              InTransit, RequestsAreDistinct, CallsAreOpen, AnswersAreFew, CancelsAreMeant, CancelFollowsRequest
<1> QED BY <1>1, <1>2, <1>3, <1>4, <1>5

\* Steps of the product that put a frame on its way to the host.
LEMMA SendStep ==
    ASSUME IInv,
           \/ \E s \in Shake : SendHandshake(s)
           \/ \E c \in Call : Proceed(c) \/ Abort(c)
    PROVE  IInv'
<1> toHost \in Seq(HostFrame)
  BY DEF IInv, TypeOK, HostFrame
<1>1. ASSUME NEW s \in Shake, SendHandshake(s)
      PROVE  IInv'
  <2>1. s \in Id /\ s \notin Call
    BY TransportAssumption DEF Id
  <2>2. Frame("request", s) \in HostFrame
    BY <2>1 DEF Frame, HostFrame
  <2>3. ~Posted(s)
    BY <1>1, <2>1 DEF SendHandshake, Posted
  <2>4. /\ \A i : Posted(i) => Posted(i)'
        /\ Posted(s)'
        /\ UNCHANGED <<link, call, aborted, disposed, toProduct, host, compatible, inFlight, working, answers>>
    BY <1>1 DEF SendHandshake, Posted, serving
  <2>5. CASE host = "down"
    <3>1. toHost' = toHost
      BY <1>1, <2>5 DEF SendHandshake, ToHost
    <3> QED BY <1>1, <2>4, <3>1
            DEF SendHandshake, IInv, TypeOK, WaitIsCarried, WithdrawalFollows, Unheard, DownIsDeaf,
                RequestsAreNew, InTransit, RequestsAreDistinct, CallsAreOpen, AnswersAreFew,
                CancelsAreMeant, CancelFollowsRequest
  <2>6. CASE host # "down"
    <3>1. toHost' = Append(toHost, Frame("request", s))
      BY <1>1, <2>6 DEF SendHandshake, ToHost
    <3>2. TypeOK'
      <4>1. toHost' \in Seq(HostFrame)
        BY <2>2, <3>1, Push
      <4> QED BY <1>1, <2>4, <4>1 DEF SendHandshake, IInv, TypeOK, HostFrame
    <3>3. WaitIsCarried' /\ WithdrawalFollows'
      <4>1. \A c \in Call : \A L : InTransit(toHost, c, L) => InTransit(toHost', c, L)
        BY <2>2, <3>1, PushTransit
      <4> QED BY <2>4, <4>1 DEF IInv, WaitIsCarried, WithdrawalFollows
    <3>4. s \notin working /\ answers[s] = 0
      BY <2>1, <2>3 DEF IInv, CallsAreOpen, AnswersAreFew
    <3>5. RequestsAreNew'
      BY <2>2, <2>4, <3>1, <3>4, Push DEF IInv, RequestsAreNew, Frame
    <3>6. RequestsAreDistinct'
      BY <2>2, <2>3, <3>1, Push DEF IInv, RequestsAreDistinct, RequestsAreNew, Frame
    <3>7. CancelsAreMeant'
      BY <2>2, <2>4, <3>1, Push DEF IInv, CancelsAreMeant, Frame
    <3>8. CancelFollowsRequest'
      BY <2>1, <2>2, <2>4, <3>1, Push DEF IInv, CancelFollowsRequest, Frame
    <3>9. Unheard' /\ DownIsDeaf' /\ CallsAreOpen' /\ AnswersAreFew'
      BY <2>4, <2>6 DEF IInv, Unheard, DownIsDeaf, CallsAreOpen, AnswersAreFew
    <3> QED BY <3>2, <3>3, <3>5, <3>6, <3>7, <3>8, <3>9 DEF IInv
  <2> QED BY <2>5, <2>6
<1>2. ASSUME NEW c \in Call, Proceed(c)
      PROVE  IInv'
  <2>1. c \in Id /\ c \notin Shake
    BY TransportAssumption DEF Id
  <2>2. Frame("request", c) \in HostFrame
    BY <2>1 DEF Frame, HostFrame
  <2>3. ~Posted(c)
    BY <1>2, <2>1 DEF Proceed, Posted, IInv, TypeOK
  <2>4. /\ \A i : Posted(i) => Posted(i)'
        /\ Posted(c)'
        /\ UNCHANGED <<link, shakes, aborted, disposed, toProduct, host, compatible, inFlight, working, answers>>
        /\ \A d \in Call : d # c => call'[d] = call[d]
        /\ call' \in [Call -> {"idle", "connecting", "waiting"} \cup Outcome]
        /\ call'[c] \in {"waiting", "rejected"} /\ call[c] = "connecting"
    BY <1>2 DEF Proceed, Posted, serving, IInv, TypeOK, Outcome
  <2>5. c \notin working /\ answers[c] = 0
    BY <2>1, <2>3 DEF IInv, CallsAreOpen, AnswersAreFew
  <2>6. CASE toHost' = toHost
    <3>1. host = "down" \/ call'[c] = "rejected"
      <4>1. toHost # Append(toHost, Frame("request", c))
        BY <2>2, Push
      <4> QED BY <1>2, <2>6, <4>1 DEF Proceed, ToHost, IInv, TypeOK
    <3>2. host = "absent" => call'[c] = "rejected"
      BY <3>1
    <3> QED BY <2>4, <2>5, <2>6, <3>1, <3>2, SMTT(30)
            DEF IInv, TypeOK, WaitIsCarried, WithdrawalFollows, Unheard, DownIsDeaf,
                RequestsAreNew, InTransit, RequestsAreDistinct, CallsAreOpen, AnswersAreFew,
                CancelsAreMeant, CancelFollowsRequest
  <2>7. CASE toHost' # toHost
    <3>1. /\ toHost' = Append(toHost, Frame("request", c))
          /\ host = "up" /\ call'[c] = "waiting"
      BY <1>2, <2>7 DEF Proceed, Refused, ToHost, IInv, TypeOK, Unheard
    <3>2. TypeOK'
      BY <1>2, <2>2, <2>4, <3>1, Push DEF IInv, TypeOK, HostFrame
    <3>3. WaitIsCarried' /\ WithdrawalFollows'
      <4>1. \A d \in Call : \A L : InTransit(toHost, d, L) => InTransit(toHost', d, L)
        BY <2>2, <3>1, PushTransit
      <4>2. InTransit(toHost', c, {"request"})
        BY <2>2, <3>1, PushTransit DEF Frame
      <4> QED BY <2>4, <3>1, <4>1, <4>2 DEF IInv, WaitIsCarried, WithdrawalFollows
    <3>4. RequestsAreNew'
      BY <2>2, <2>4, <2>5, <3>1, Push DEF IInv, RequestsAreNew, Frame
    <3>5. RequestsAreDistinct'
      BY <2>2, <2>3, <3>1, Push DEF IInv, RequestsAreDistinct, RequestsAreNew, Frame
    <3>6. CancelsAreMeant'
      BY <2>2, <2>4, <3>1, Push DEF IInv, CancelsAreMeant, Frame
    <3>7. CancelFollowsRequest'
      <4> SUFFICES ASSUME ~disposed, NEW k \in DOMAIN toHost',
                          toHost'[k].leg = "request", toHost'[k].id \in Call,
                          call'[toHost'[k].id] = "aborted"
                   PROVE  \E j \in DOMAIN toHost' : j > k /\ toHost'[j] = Frame("cancel", toHost'[k].id)
        BY <2>4 DEF CancelFollowsRequest
      <4>1. toHost'[k].id # c
        BY <3>1
      <4>2. k \in DOMAIN toHost /\ toHost[k] = toHost'[k]
        BY <2>2, <3>1, <4>1, Push DEF Frame
      <4>3. PICK j \in DOMAIN toHost : j > k /\ toHost[j] = Frame("cancel", toHost[k].id)
        BY <2>4, <4>1, <4>2 DEF IInv, CancelFollowsRequest
      <4>4. j \in DOMAIN toHost' /\ toHost'[j] = toHost[j]
        BY <2>2, <3>1, Push
      <4> QED BY <4>2, <4>3, <4>4
    <3>8. Unheard' /\ DownIsDeaf' /\ CallsAreOpen' /\ AnswersAreFew'
      BY <2>4, <3>1 DEF IInv, Unheard, DownIsDeaf, CallsAreOpen, AnswersAreFew
    <3> QED BY <3>2, <3>3, <3>4, <3>5, <3>6, <3>7, <3>8 DEF IInv
  <2> QED BY <2>6, <2>7
<1>3. ASSUME NEW c \in Call, Abort(c)
      PROVE  IInv'
  <2>1. Frame("cancel", c) \in HostFrame
    BY DEF Frame, HostFrame, Id
  <2>2. /\ UNCHANGED <<link, shakes, disposed, toProduct, host, compatible, inFlight, working, answers>>
        /\ aborted' \subseteq Call
    BY <1>3 DEF Abort, serving, IInv, TypeOK
  <2>3. CASE call[c] # "waiting"
    <3>1. UNCHANGED <<call, toHost>>
      BY <1>3, <2>3 DEF Abort
    <3> QED BY <2>2, <3>1
            DEF IInv, TypeOK, WaitIsCarried, WithdrawalFollows, Unheard, DownIsDeaf, Posted,
                RequestsAreNew, InTransit, RequestsAreDistinct, CallsAreOpen, AnswersAreFew,
                CancelsAreMeant, CancelFollowsRequest
  <2>4. CASE call[c] = "waiting"
    <3>1. /\ \A i : Posted(i) => Posted(i)'
          /\ \A d \in Call : d # c => call'[d] = call[d]
          /\ call' \in [Call -> {"idle", "connecting", "waiting"} \cup Outcome]
          /\ call'[c] = "aborted" /\ host # "absent"
      BY <1>3, <2>4 DEF Abort, Posted, IInv, TypeOK, Outcome, Unheard
    <3>2. CASE disposed \/ host = "down"
      <4>1. toHost' = toHost
        BY <1>3, <2>4, <3>2 DEF Abort, Withdrawal, ToHost
      <4> QED BY <2>2, <3>1, <3>2, <4>1
              DEF IInv, TypeOK, WaitIsCarried, WithdrawalFollows, Unheard, DownIsDeaf,
                  RequestsAreNew, InTransit, RequestsAreDistinct, CallsAreOpen, AnswersAreFew,
                  CancelsAreMeant, CancelFollowsRequest
    <3>3. CASE ~disposed /\ host # "down"
      <4>1. toHost' = Append(toHost, Frame("cancel", c))
        BY <1>3, <2>4, <3>3 DEF Abort, Withdrawal, ToHost
      <4>2. TypeOK'
        BY <2>1, <2>2, <3>1, <4>1, Push DEF IInv, TypeOK, HostFrame
      <4>3. WaitIsCarried' /\ WithdrawalFollows'
        <5>1. \A d \in Call : \A L : InTransit(toHost, d, L) => InTransit(toHost', d, L)
          BY <2>1, <4>1, PushTransit
        <5>2. InTransit(toHost', c, {"cancel"})
          BY <2>1, <4>1, PushTransit DEF Frame
        <5> QED BY <2>2, <3>1, <5>1, <5>2 DEF IInv, WaitIsCarried, WithdrawalFollows
      <4>4. RequestsAreNew' /\ RequestsAreDistinct'
        BY <2>1, <2>2, <3>1, <4>1, Push DEF IInv, RequestsAreNew, RequestsAreDistinct, Frame
      <4>5. CancelsAreMeant'
        BY <2>1, <3>1, <4>1, Push DEF IInv, CancelsAreMeant, Frame
      <4>6. CancelFollowsRequest'
        BY <2>1, <2>2, <3>1, <4>1, Push, SMTT(30) DEF IInv, CancelFollowsRequest, Frame
      <4>7. Unheard' /\ DownIsDeaf' /\ CallsAreOpen' /\ AnswersAreFew'
        BY <2>2, <3>1, <3>3 DEF IInv, Unheard, DownIsDeaf, CallsAreOpen, AnswersAreFew
      <4> QED BY <4>2, <4>3, <4>4, <4>5, <4>6, <4>7 DEF IInv
    <3> QED BY <3>2, <3>3
  <2> QED BY <2>3, <2>4
<1> QED BY <1>1, <1>2, <1>3

\* What taking the first frame off the channel to the host leaves behind.
LEMMA TakenFacts ==
    ASSUME IInv, toHost # <<>>, toHost' = Tail(toHost)
    PROVE  /\ toHost' \in Seq(HostFrame)
           /\ Head(toHost) \in HostFrame
           /\ \A k \in DOMAIN toHost' : k + 1 \in DOMAIN toHost /\ toHost'[k] = toHost[k + 1] /\ k \in Nat
           /\ \A j, k \in DOMAIN toHost' :
                toHost'[j].leg = "request" /\ toHost'[k].leg = "request" /\ toHost'[j].id = toHost'[k].id
                  => j = k
           /\ Head(toHost).leg = "request" =>
                /\ Posted(Head(toHost).id)
                /\ Head(toHost).id \notin working /\ answers[Head(toHost).id] = 0
                /\ \A k \in DOMAIN toHost' : toHost'[k].leg = "request" => toHost'[k].id # Head(toHost).id
                /\ Head(toHost).id \in Call /\ call[Head(toHost).id] = "aborted" /\ ~disposed =>
                     InTransit(toHost', Head(toHost).id, {"cancel"})
           /\ Head(toHost).leg = "cancel" =>
                Head(toHost).id \in Call /\ call[Head(toHost).id] = "aborted"
           /\ ~disposed => \A k \in DOMAIN toHost' :
                toHost'[k].leg = "request" /\ toHost'[k].id \in Call /\ call[toHost'[k].id] = "aborted" =>
                  \E j \in DOMAIN toHost' : j > k /\ toHost'[j] = Frame("cancel", toHost'[k].id)
<1>1. toHost \in Seq(HostFrame)
  BY DEF IInv, TypeOK, HostFrame
<1>2. /\ toHost' \in Seq(HostFrame) /\ Head(toHost) \in HostFrame
      /\ 1 \in DOMAIN toHost /\ Head(toHost) = toHost[1]
      /\ \A k \in DOMAIN toHost' : k + 1 \in DOMAIN toHost /\ toHost'[k] = toHost[k + 1] /\ k \in Nat
      /\ \A k \in DOMAIN toHost : k \in Nat
      /\ \A k \in DOMAIN toHost : k = 1 \/ (k - 1 \in DOMAIN toHost' /\ toHost'[k - 1] = toHost[k])
  BY <1>1, Pop
<1>3. \A j, k \in DOMAIN toHost' :
        toHost'[j].leg = "request" /\ toHost'[k].leg = "request" /\ toHost'[j].id = toHost'[k].id => j = k
  <2> SUFFICES ASSUME NEW j \in DOMAIN toHost', NEW k \in DOMAIN toHost',
                      toHost'[j].leg = "request", toHost'[k].leg = "request", toHost'[j].id = toHost'[k].id
               PROVE  j = k
    OBVIOUS
  <2>1. j + 1 = k + 1
    BY <1>2 DEF IInv, RequestsAreDistinct
  <2> QED BY <1>2, <2>1
<1>4. ASSUME Head(toHost).leg = "request"
      PROVE  /\ Posted(Head(toHost).id)
             /\ Head(toHost).id \notin working /\ answers[Head(toHost).id] = 0
  BY <1>2, <1>4 DEF IInv, RequestsAreNew
<1>5. ASSUME Head(toHost).leg = "request", NEW k \in DOMAIN toHost', toHost'[k].leg = "request"
      PROVE  toHost'[k].id # Head(toHost).id
  <2>1. k + 1 # 1 /\ k + 1 \in DOMAIN toHost
    BY <1>2
  <2> QED BY <1>2, <1>5, <2>1 DEF IInv, RequestsAreDistinct
<1>6. ASSUME Head(toHost).leg = "request", Head(toHost).id \in Call, call[Head(toHost).id] = "aborted", ~disposed
      PROVE  InTransit(toHost', Head(toHost).id, {"cancel"})
  <2>1. PICK j \in DOMAIN toHost : j > 1 /\ toHost[j] = Frame("cancel", toHost[1].id)
    BY <1>2, <1>6 DEF IInv, CancelFollowsRequest
  <2>2. j - 1 \in DOMAIN toHost' /\ toHost'[j - 1] = toHost[j]
    BY <1>2, <2>1
  <2> QED BY <1>2, <2>1, <2>2, SMTT(30) DEF InTransit, Frame
<1>7. Head(toHost).leg = "cancel" => Head(toHost).id \in Call /\ call[Head(toHost).id] = "aborted"
  BY <1>2 DEF IInv, CancelsAreMeant
<1>8. ASSUME ~disposed, NEW k \in DOMAIN toHost', toHost'[k].leg = "request",
             toHost'[k].id \in Call, call[toHost'[k].id] = "aborted"
      PROVE  \E j \in DOMAIN toHost' : j > k /\ toHost'[j] = Frame("cancel", toHost'[k].id)
  <2>1. PICK j \in DOMAIN toHost : j > k + 1 /\ toHost[j] = Frame("cancel", toHost[k + 1].id)
    BY <1>2, <1>8 DEF IInv, CancelFollowsRequest
  <2>2. j # 1 /\ j - 1 > k
    BY <1>2, <2>1
  <2>3. j - 1 \in DOMAIN toHost' /\ toHost'[j - 1] = toHost[j]
    BY <1>2, <2>2
  <2> QED BY <1>2, <2>1, <2>2, <2>3
<1> QED BY <1>2, <1>3, <1>4, <1>5, <1>6, <1>7, <1>8

\* A response to a call that has none yet.
LEMMA RespondFacts ==
    ASSUME IInv, NEW i \in Id, NEW reply \in Reply, Respond(i, reply), answers[i] = 0
    PROVE  /\ answers' \in [Id -> Nat] /\ answers'[i] = 1
           /\ \A j \in Id : j # i => answers'[j] = answers[j]
           /\ toProduct' \in Seq(ProductFrame)
           /\ \A j \in Id : InTransit(toProduct, j, Reply) => InTransit(toProduct', j, Reply)
           /\ ~disposed => InTransit(toProduct', i, Reply)
           /\ \A k \in DOMAIN toProduct' : answers'[toProduct'[k].id] = 1
<1>1. toProduct \in Seq(ProductFrame) /\ Frame(reply, i) \in ProductFrame
  BY DEF IInv, TypeOK, ProductFrame, Frame
<1>2. /\ answers' \in [Id -> Nat] /\ answers'[i] = 1
      /\ \A j \in Id : j # i => answers'[j] = answers[j]
  BY DEF Respond, IInv, TypeOK
<1>3. \A k \in DOMAIN toProduct : toProduct[k].id \in Id /\ answers[toProduct[k].id] = 1
  <2> SUFFICES ASSUME NEW k \in DOMAIN toProduct
               PROVE  toProduct[k].id \in Id /\ answers[toProduct[k].id] = 1
    OBVIOUS
  <2>1. toProduct[k] \in ProductFrame
    BY <1>1, Element
  <2> QED BY <2>1 DEF IInv, AnswersAreFew, ProductFrame
<1>4. CASE disposed
  <2>1. toProduct' = toProduct
    BY <1>4 DEF Respond, ToProduct
  <2> QED BY <1>1, <1>2, <1>3, <1>4, <2>1
<1>5. CASE ~disposed
  <2>1. toProduct' = Append(toProduct, Frame(reply, i))
    BY <1>5 DEF Respond, ToProduct
  <2>2. toProduct' \in Seq(ProductFrame)
    BY <1>1, <2>1, Push
  <2>3. /\ \A j \in Id : InTransit(toProduct, j, Reply) => InTransit(toProduct', j, Reply)
        /\ InTransit(toProduct', i, Reply)
    BY <1>1, <2>1, PushTransit DEF Frame
  <2>4. ASSUME NEW k \in DOMAIN toProduct'
        PROVE  answers'[toProduct'[k].id] = 1
    <3>1. (k \in DOMAIN toProduct /\ toProduct'[k] = toProduct[k]) \/ toProduct'[k] = Frame(reply, i)
      BY <1>1, <2>1, Push
    <3> QED BY <1>2, <1>3, <3>1 DEF Frame
  <2> QED BY <1>2, <2>2, <2>3, <2>4
<1> QED BY <1>4, <1>5

\* Frames lost before the host listens.
LEMMA LoseStep ==
    ASSUME IInv, Lose
    PROVE  IInv'
<1>1. toHost # <<>> /\ toHost' = Tail(toHost)
  BY DEF Lose
<1>2. /\ host = "absent"
      /\ UNCHANGED <<link, shakes, call, aborted, disposed, toProduct, host, compatible, inFlight, working, answers>>
  BY DEF Lose, product, serving
<1>3. TypeOK'
  BY <1>1, <1>2, TakenFacts DEF IInv, TypeOK, HostFrame
<1>4. WaitIsCarried' /\ WithdrawalFollows' /\ Unheard' /\ DownIsDeaf' /\ CallsAreOpen' /\ AnswersAreFew'
  BY <1>2 DEF IInv, TypeOK, WaitIsCarried, WithdrawalFollows, Unheard, DownIsDeaf, CallsAreOpen, AnswersAreFew, Posted
<1>5. RequestsAreNew' /\ CancelsAreMeant'
  BY <1>1, <1>2, TakenFacts DEF IInv, RequestsAreNew, CancelsAreMeant, Posted
<1>6. RequestsAreDistinct' /\ CancelFollowsRequest'
  BY <1>1, <1>2, TakenFacts DEF RequestsAreDistinct, CancelFollowsRequest
<1> QED BY <1>3, <1>4, <1>5, <1>6 DEF IInv

LEMMA RefuseStep ==
    ASSUME IInv, RefuseRequest
    PROVE  IInv'
<1> DEFINE i == Head(toHost).id
<1>1. PICK reply \in Reply : Respond(i, reply)
  BY DEF RefuseRequest, Reply
<1>2. /\ toHost # <<>> /\ toHost' = Tail(toHost) /\ Head(toHost).leg = "request" /\ host = "up"
      /\ UNCHANGED <<link, shakes, call, aborted, disposed, host, compatible, inFlight, working>>
  BY DEF RefuseRequest, Received, product
<1>3. /\ i \in Id /\ Posted(i) /\ i \notin working /\ answers[i] = 0
      /\ toHost' \in Seq(HostFrame)
      /\ \A k \in DOMAIN toHost' : toHost'[k].leg = "request" => toHost'[k].id # i
  BY <1>2, TakenFacts DEF HostFrame
<1>4. TypeOK'
  BY <1>1, <1>2, <1>3, RespondFacts DEF IInv, TypeOK, HostFrame, ProductFrame
<1>5. WaitIsCarried'
  <2> SUFFICES ASSUME NEW c \in Call, call[c] = "waiting", ~disposed
               PROVE  \/ InTransit(toHost', c, {"request"}) \/ c \in inFlight
                      \/ InTransit(toProduct', c, Reply)
    BY <1>2 DEF WaitIsCarried
  <2>1. CASE c = i
    BY <1>1, <1>3, <2>1, RespondFacts
  <2>2. CASE c # i /\ InTransit(toHost, c, {"request"})
    BY <1>2, <2>2, PopTransit DEF IInv, TypeOK
  <2>3. CASE c \in inFlight \/ InTransit(toProduct, c, Reply)
    BY <1>1, <1>3, <2>3, RespondFacts DEF Id
  <2> QED BY <1>2, <2>1, <2>2, <2>3 DEF IInv, WaitIsCarried
<1>6. WithdrawalFollows'
  BY <1>2, PopTransit DEF IInv, TypeOK, WithdrawalFollows
<1>7. Unheard' /\ DownIsDeaf'
  BY <1>2 DEF Unheard, DownIsDeaf
<1>8. RequestsAreNew'
  <2> SUFFICES ASSUME NEW k \in DOMAIN toHost', toHost'[k].leg = "request"
               PROVE  Posted(toHost'[k].id) /\ toHost'[k].id \notin working /\ answers'[toHost'[k].id] = 0
    BY <1>2 DEF RequestsAreNew, Posted
  <2>1. toHost'[k].id \in Id /\ toHost'[k].id # i
    <3>1. toHost'[k] \in HostFrame
      BY <1>3, Element
    <3> QED BY <1>3, <3>1 DEF HostFrame
  <2> QED BY <1>1, <1>2, <1>3, <2>1, TakenFacts, RespondFacts DEF IInv, RequestsAreNew
<1>9. RequestsAreDistinct' /\ CancelFollowsRequest' /\ CancelsAreMeant'
  BY <1>2, TakenFacts DEF IInv, RequestsAreDistinct, CancelFollowsRequest, CancelsAreMeant
<1>10. CallsAreOpen'
  BY <1>1, <1>2, <1>3, RespondFacts DEF IInv, TypeOK, CallsAreOpen, Posted
<1>11. AnswersAreFew'
  <2>1. \A j \in Id : answers'[j] \in 0 .. 1 /\ (answers'[j] = 1 => Posted(j)')
    BY <1>1, <1>2, <1>3, RespondFacts DEF IInv, AnswersAreFew, Posted
  <2>2. \A c \in Call : call'[c] = "answered" => answers'[c] = 1
    BY <1>1, <1>2, <1>3, RespondFacts DEF IInv, AnswersAreFew, Id
  <2> QED BY <1>1, <1>3, <2>1, <2>2, RespondFacts DEF AnswersAreFew
<1> QED BY <1>4, <1>5, <1>6, <1>7, <1>8, <1>9, <1>10, <1>11 DEF IInv

LEMMA StartStep ==
    ASSUME IInv, StartHandler
    PROVE  IInv'
<1> DEFINE i == Head(toHost).id
<1>1. /\ toHost # <<>> /\ toHost' = Tail(toHost) /\ Head(toHost).leg = "request" /\ host = "up"
      /\ inFlight' = inFlight \cup {i} /\ working' = working \cup {i}
      /\ UNCHANGED <<link, shakes, call, aborted, disposed, toProduct, host, compatible, answers>>
  BY DEF StartHandler, Received, product
<1>2. /\ i \in Id /\ Posted(i) /\ i \notin working /\ answers[i] = 0
      /\ toHost' \in Seq(HostFrame)
      /\ \A k \in DOMAIN toHost' : toHost'[k].leg = "request" => toHost'[k].id # i
  BY <1>1, TakenFacts DEF HostFrame
<1>3. TypeOK'
  BY <1>1, <1>2 DEF IInv, TypeOK, HostFrame
<1>4. WaitIsCarried'
  <2> SUFFICES ASSUME NEW c \in Call, call[c] = "waiting", ~disposed
               PROVE  \/ InTransit(toHost', c, {"request"}) \/ c \in inFlight'
                      \/ InTransit(toProduct, c, Reply)
    BY <1>1 DEF WaitIsCarried
  <2>1. CASE c # i /\ InTransit(toHost, c, {"request"})
    BY <1>1, <2>1, PopTransit DEF IInv, TypeOK
  <2> QED BY <1>1, <2>1 DEF IInv, WaitIsCarried
<1>5. WithdrawalFollows'
  <2> SUFFICES ASSUME NEW c \in Call, call[c] = "aborted", c \in inFlight', ~disposed
               PROVE  InTransit(toHost', c, {"cancel"})
    BY <1>1 DEF WithdrawalFollows
  <2>1. CASE c = i
    BY <1>1, <2>1, TakenFacts
  <2>2. CASE c # i
    BY <1>1, <2>2, PopTransit DEF IInv, TypeOK, WithdrawalFollows
  <2> QED BY <2>1, <2>2
<1>6. Unheard' /\ DownIsDeaf'
  BY <1>1 DEF Unheard, DownIsDeaf
<1>7. RequestsAreNew'
  BY <1>1, <1>2, TakenFacts DEF IInv, RequestsAreNew, Posted
<1>8. RequestsAreDistinct' /\ CancelFollowsRequest' /\ CancelsAreMeant'
  BY <1>1, TakenFacts DEF IInv, RequestsAreDistinct, CancelFollowsRequest, CancelsAreMeant
<1>9. CallsAreOpen' /\ AnswersAreFew'
  BY <1>1, <1>2 DEF IInv, CallsAreOpen, AnswersAreFew, Posted
<1> QED BY <1>3, <1>4, <1>5, <1>6, <1>7, <1>8, <1>9 DEF IInv

LEMMA CancelStep ==
    ASSUME IInv, Cancel
    PROVE  IInv'
<1> DEFINE i == Head(toHost).id
<1>1. /\ toHost # <<>> /\ toHost' = Tail(toHost) /\ Head(toHost).leg = "cancel" /\ host = "up"
      /\ inFlight' = inFlight \ {i}
      /\ UNCHANGED <<link, shakes, call, aborted, disposed, host, compatible, working>>
  BY DEF Cancel, Received, product
<1>2. i \in Id /\ i \in Call /\ call[i] = "aborted" /\ toHost' \in Seq(HostFrame)
  BY <1>1, TakenFacts DEF HostFrame
<1>3. WithdrawalFollows'
  <2> SUFFICES ASSUME NEW c \in Call, call[c] = "aborted", c \in inFlight, c # i, ~disposed
               PROVE  InTransit(toHost', c, {"cancel"})
    BY <1>1 DEF WithdrawalFollows
  <2> QED BY <1>1, PopTransit DEF IInv, TypeOK, WithdrawalFollows
<1>4. Unheard' /\ DownIsDeaf'
  BY <1>1 DEF Unheard, DownIsDeaf
<1>5. RequestsAreDistinct' /\ CancelFollowsRequest' /\ CancelsAreMeant'
  BY <1>1, TakenFacts DEF IInv, RequestsAreDistinct, CancelFollowsRequest, CancelsAreMeant
<1>6. \A c \in Call : InTransit(toHost, c, {"request"}) => InTransit(toHost', c, {"request"})
  BY <1>1, PopTransit DEF IInv, TypeOK
<1>7. CASE i \notin inFlight
  <2>1. UNCHANGED <<toProduct, answers>>
    BY <1>7 DEF Cancel
  <2>2. TypeOK' /\ WaitIsCarried' /\ CallsAreOpen' /\ AnswersAreFew'
    BY <1>1, <1>2, <1>6, <1>7, <2>1
       DEF IInv, TypeOK, HostFrame, WaitIsCarried, CallsAreOpen, AnswersAreFew, Posted
  <2>3. RequestsAreNew'
    BY <1>1, <2>1, TakenFacts DEF IInv, RequestsAreNew, Posted
  <2> QED BY <1>3, <1>4, <1>5, <2>2, <2>3 DEF IInv
<1>8. CASE i \in inFlight
  <2>1. Respond(i, "cancelled") /\ "cancelled" \in Reply
    BY <1>8 DEF Cancel, Reply
  <2>2. answers[i] = 0 /\ Posted(i) /\ i \in working
    BY <1>8 DEF IInv, TypeOK, CallsAreOpen
  <2>3. TypeOK'
    BY <1>1, <1>2, <2>1, <2>2, RespondFacts DEF IInv, TypeOK, HostFrame, ProductFrame
  <2>4. WaitIsCarried'
    <3> SUFFICES ASSUME NEW c \in Call, call[c] = "waiting", ~disposed
                 PROVE  \/ InTransit(toHost', c, {"request"}) \/ c \in inFlight'
                        \/ InTransit(toProduct', c, Reply)
      BY <1>1 DEF WaitIsCarried
    <3>1. c # i /\ c \in Id
      BY <1>2 DEF Id
    <3>2. InTransit(toProduct, c, Reply) => InTransit(toProduct', c, Reply)
      BY <1>2, <2>1, <2>2, <3>1, RespondFacts
    <3> QED BY <1>1, <1>6, <3>1, <3>2 DEF IInv, WaitIsCarried
  <2>5. RequestsAreNew'
    <3> SUFFICES ASSUME NEW k \in DOMAIN toHost', toHost'[k].leg = "request"
                 PROVE  Posted(toHost'[k].id) /\ toHost'[k].id \notin working /\ answers'[toHost'[k].id] = 0
      BY <1>1 DEF RequestsAreNew, Posted
    <3>1. toHost'[k] \in HostFrame
      BY <1>2, Element
    <3>2. Posted(toHost'[k].id) /\ toHost'[k].id \notin working /\ answers[toHost'[k].id] = 0
      BY <1>1, TakenFacts DEF IInv, RequestsAreNew
    <3>3. toHost'[k].id \in Id /\ toHost'[k].id # i
      BY <2>2, <3>1, <3>2 DEF HostFrame
    <3> QED BY <1>2, <2>1, <2>2, <3>2, <3>3, RespondFacts
  <2>6. CallsAreOpen'
    BY <1>1, <1>2, <2>1, <2>2, RespondFacts DEF IInv, TypeOK, CallsAreOpen, Posted
  <2>7. AnswersAreFew'
    <3>1. \A j \in Id : answers'[j] \in 0 .. 1 /\ (answers'[j] = 1 => Posted(j)')
      BY <1>1, <1>2, <2>1, <2>2, RespondFacts DEF IInv, AnswersAreFew, Posted
    <3>2. \A c \in Call : call'[c] = "answered" => answers'[c] = 1
      BY <1>1, <1>2, <2>1, <2>2, RespondFacts DEF IInv, AnswersAreFew, Id
    <3> QED BY <1>2, <2>1, <2>2, <3>1, <3>2, RespondFacts DEF AnswersAreFew
  <2> QED BY <1>3, <1>4, <1>5, <2>3, <2>4, <2>5, <2>6, <2>7 DEF IInv
<1> QED BY <1>7, <1>8

LEMMA SettleStep ==
    ASSUME IInv, NEW i \in Id, SettleHandler(i)
    PROVE  IInv'
<1>1. /\ i \in working /\ working' = working \ {i} /\ inFlight' = inFlight \ {i}
      /\ UNCHANGED <<link, shakes, call, aborted, disposed, toHost, host, compatible>>
      /\ Posted(i) /\ host # "absent"
  BY DEF SettleHandler, product, IInv, CallsAreOpen, Unheard
<1>2. WithdrawalFollows' /\ Unheard' /\ DownIsDeaf'
  BY <1>1 DEF IInv, WithdrawalFollows, Unheard, DownIsDeaf
<1>3. RequestsAreDistinct' /\ CancelFollowsRequest' /\ CancelsAreMeant'
  BY <1>1 DEF IInv, RequestsAreDistinct, CancelFollowsRequest, CancelsAreMeant
<1>4. CASE i \notin inFlight \/ host # "up"
  <2>1. UNCHANGED <<toProduct, answers>>
    BY <1>4 DEF SettleHandler
  <2>2. WaitIsCarried'
    BY <1>1, <1>4, <2>1 DEF IInv, TypeOK, WaitIsCarried
  <2>3. TypeOK' /\ CallsAreOpen' /\ AnswersAreFew' /\ RequestsAreNew'
    BY <1>1, <2>1 DEF IInv, TypeOK, CallsAreOpen, AnswersAreFew, RequestsAreNew, Posted
  <2> QED BY <1>2, <1>3, <2>2, <2>3 DEF IInv
<1>5. CASE i \in inFlight /\ host = "up"
  <2>1. PICK reply \in Reply : Respond(i, reply)
    BY <1>5 DEF SettleHandler, Replies, Reply
  <2>2. answers[i] = 0
    BY <1>5 DEF IInv, CallsAreOpen
  <2>3. TypeOK'
    BY <1>1, <2>1, <2>2, RespondFacts DEF IInv, TypeOK, ProductFrame
  <2>4. WaitIsCarried'
    <3> SUFFICES ASSUME NEW c \in Call, call[c] = "waiting", ~disposed
                 PROVE  \/ InTransit(toHost', c, {"request"}) \/ c \in inFlight'
                        \/ InTransit(toProduct', c, Reply)
      BY <1>1, <1>5 DEF WaitIsCarried
    <3>1. c \in Id
      BY DEF Id
    <3>2. /\ InTransit(toProduct, c, Reply) => InTransit(toProduct', c, Reply)
          /\ c = i => InTransit(toProduct', c, Reply)
      BY <2>1, <2>2, <3>1, RespondFacts
    <3> QED BY <1>1, <1>5, <3>2 DEF IInv, WaitIsCarried
  <2>5. RequestsAreNew'
    <3> SUFFICES ASSUME NEW k \in DOMAIN toHost, toHost[k].leg = "request"
                 PROVE  Posted(toHost[k].id) /\ toHost[k].id \notin working' /\ answers'[toHost[k].id] = 0
      BY <1>1 DEF RequestsAreNew, Posted
    <3>1. toHost[k].id \in Id /\ toHost[k].id # i
      <4>1. toHost[k] \in HostFrame
        BY Element DEF IInv, TypeOK, HostFrame
      <4> QED BY <1>1, <4>1 DEF IInv, RequestsAreNew, HostFrame
    <3> QED BY <1>1, <2>1, <2>2, <3>1, RespondFacts DEF IInv, RequestsAreNew
  <2>6. CallsAreOpen'
    BY <1>1, <2>1, <2>2, RespondFacts DEF IInv, TypeOK, CallsAreOpen, Posted
  <2>7. AnswersAreFew'
    <3>1. \A j \in Id : answers'[j] \in 0 .. 1 /\ (answers'[j] = 1 => Posted(j)')
      BY <1>1, <2>1, <2>2, RespondFacts DEF IInv, AnswersAreFew, Posted
    <3>2. \A c \in Call : call'[c] = "answered" => answers'[c] = 1
      BY <1>1, <2>1, <2>2, RespondFacts DEF IInv, AnswersAreFew, Id
    <3> QED BY <2>1, <2>2, <3>1, <3>2, RespondFacts DEF AnswersAreFew
  <2> QED BY <1>2, <1>3, <2>3, <2>4, <2>5, <2>6, <2>7 DEF IInv
<1> QED BY <1>4, <1>5

\* A response reaches its call, or nobody.
LEMMA TakeStep ==
    ASSUME IInv, TakeFrame
    PROVE  IInv'
<1> DEFINE i == Head(toProduct).id
<1>1. /\ toProduct # <<>> /\ toProduct' = Tail(toProduct)
      /\ UNCHANGED <<shakes, aborted, disposed, toHost, host, compatible, inFlight, working, answers>>
      /\ host # "absent"
  BY DEF TakeFrame, serving, IInv, Unheard
<1>2. /\ toProduct \in Seq(ProductFrame) /\ toProduct' \in Seq(ProductFrame)
      /\ i \in Id /\ Head(toProduct).leg \in Reply /\ answers[i] = 1
      /\ \A k \in DOMAIN toProduct' : answers[toProduct'[k].id] = 1
  <2>1. toProduct \in Seq(ProductFrame)
    BY DEF IInv, TypeOK, ProductFrame
  <2>2. \A k \in DOMAIN toProduct : answers[toProduct[k].id] = 1
    BY DEF IInv, AnswersAreFew
  <2>3. /\ toProduct' \in Seq(ProductFrame) /\ Head(toProduct) \in ProductFrame
        /\ 1 \in DOMAIN toProduct /\ Head(toProduct) = toProduct[1]
    BY <1>1, <2>1, Pop
  <2>4. \A k \in DOMAIN toProduct' : answers[toProduct'[k].id] = 1
    BY <1>1, <2>1, <2>2, Pop
  <2> QED BY <2>1, <2>2, <2>3, <2>4 DEF ProductFrame
<1>3. /\ link' \in {"idle", "connecting", "connected", "disconnected"}
      /\ call' \in [Call -> {"idle", "connecting", "waiting"} \cup Outcome]
      /\ \A c \in Call : call'[c] # call[c] =>
           c = i /\ call[c] = "waiting" /\ call'[c] \in {"answered", "rejected"}
      /\ i \in Call => call'[i] # "waiting"
  BY <1>1, TransportAssumption DEF TakeFrame, IInv, TypeOK, Outcome
<1>4. TypeOK'
  BY <1>1, <1>2, <1>3 DEF IInv, TypeOK, ProductFrame
<1>5. WaitIsCarried'
  <2> SUFFICES ASSUME NEW c \in Call, call[c] = "waiting", c # i, ~disposed, host # "down"
               PROVE  \/ (host = "up" /\ InTransit(toHost, c, {"request"})) \/ c \in inFlight
                      \/ InTransit(toProduct', c, Reply)
    BY <1>1, <1>3 DEF WaitIsCarried
  <2>1. InTransit(toProduct, c, Reply) => InTransit(toProduct', c, Reply)
    BY <1>1, <1>2, PopTransit
  <2> QED BY <2>1 DEF IInv, WaitIsCarried
<1>6. WithdrawalFollows' /\ CancelFollowsRequest' /\ CancelsAreMeant'
  BY <1>1, <1>3 DEF IInv, WithdrawalFollows, CancelFollowsRequest, CancelsAreMeant
<1>7. Unheard' /\ DownIsDeaf' /\ RequestsAreDistinct'
  BY <1>1 DEF IInv, Unheard, DownIsDeaf, RequestsAreDistinct
<1>8. RequestsAreNew' /\ CallsAreOpen'
  BY <1>1, <1>3 DEF IInv, RequestsAreNew, CallsAreOpen, Posted
<1>9. AnswersAreFew'
  BY <1>1, <1>2, <1>3 DEF IInv, AnswersAreFew, Posted
<1> QED BY <1>4, <1>5, <1>6, <1>7, <1>8, <1>9 DEF IInv

-----------------------------------------------------------------------------
(* The theorems. *)

LEMMA NextIInv == IInv /\ [Next]_vars => IInv'
<1> SUFFICES ASSUME IInv, [Next]_vars PROVE IInv'
  OBVIOUS
<1>1. CASE Next
  BY <1>1, QuietStep, SendStep, TakeStep, LoseStep, RefuseStep, StartStep, CancelStep, SettleStep
     DEF Next, TakeRequest
<1>2. CASE UNCHANGED vars
  BY <1>2 DEF vars, product, serving, IInv, TypeOK, WaitIsCarried, WithdrawalFollows, Unheard, DownIsDeaf,
              RequestsAreNew, RequestsAreDistinct, CallsAreOpen, AnswersAreFew, CancelsAreMeant,
              CancelFollowsRequest, Posted, InTransit
<1> QED BY <1>1, <1>2

\* The inductive invariant holds in every reachable state of the transport,
\* for any number of calls and handshakes.
THEOREM TransportInvariant == Spec => []IInv
BY InitIInv, NextIInv, PTL DEF Spec

\* Every state the transport reaches is well typed.
THEOREM TypeCorrect == Spec => []TypeOK
BY TransportInvariant, PTL DEF IInv

\* No request waits without something that will answer it.
THEOREM WaitsAreCarried == Spec => []WaitIsCarried
BY TransportInvariant, PTL DEF IInv

\* The host serves no withdrawn call without the withdrawal on its way.
THEOREM WithdrawalsFollow == Spec => []WithdrawalFollows
BY TransportInvariant, PTL DEF IInv

-----------------------------------------------------------------------------
(* The transport implements RemoteCall. *)

Given == [c \in Call |-> answers[c]]

LEMMA InitImplements == Init => Contract!Init
BY DEF Init, Contract!Init, CallState, Stage, Id

LEMMA Stages ==
    /\ Stage("idle") = "idle" /\ Stage("connecting") = "open" /\ Stage("waiting") = "open"
    /\ Stage("answered") = "answered" /\ Stage("rejected") = "dropped" /\ Stage("aborted") = "dropped"
BY DEF Stage

\* A step that moves one call and answers none.
LEMMA OneCallMoves ==
    ASSUME IInv, NEW c \in Call, NEW pc, call' = [call EXCEPT ![c] = pc], answers' = answers
    PROVE  /\ call[c] = "idle" /\ pc = "connecting" => Contract!Open(c)
           /\ call[c] \in {"idle", "connecting", "waiting"} /\ pc \in {"rejected", "aborted"} =>
                Contract!Drop(c)
           /\ call[c] = "waiting" /\ pc = "answered" /\ answers[c] = 1 => Contract!Settle(c)
           /\ call[c] = "connecting" /\ pc = "waiting" => UNCHANGED Contract!calls
<1>1. Given' = Given /\ Given[c] = answers[c] /\ CallState[c] = Stage(call[c])
  BY DEF Given, CallState
<1>2. call'[c] = pc /\ \A d \in Call : d # c => call'[d] = call[d]
  BY DEF IInv, TypeOK
<1>3. CallState' = [CallState EXCEPT ![c] = Stage(pc)]
  <2>1. \A d \in Call : Stage(call'[d]) = IF d = c THEN Stage(pc) ELSE Stage(call[d])
    BY <1>2
  <2> QED BY <2>1 DEF CallState
<1>4. call[c] = "connecting" /\ pc = "waiting" => CallState' = CallState
  BY <1>2, Stages DEF CallState
<1>5. call[c] = "idle" /\ pc = "connecting" => Contract!Open(c)
  BY <1>1, <1>3, Stages DEF Contract!Open, Given
<1>6. call[c] \in {"idle", "connecting", "waiting"} /\ pc \in {"rejected", "aborted"} => Contract!Drop(c)
  BY <1>1, <1>3, Stages DEF Contract!Drop, Given
<1>7. call[c] = "waiting" /\ pc = "answered" /\ answers[c] = 1 => Contract!Settle(c)
  BY <1>1, <1>3, Stages DEF Contract!Settle, Given
<1>8. call[c] = "connecting" /\ pc = "waiting" => UNCHANGED Contract!calls
  BY <1>1, <1>4 DEF Contract!calls, Given
<1> QED BY <1>5, <1>6, <1>7, <1>8

\* A step that answers one call or handshake and moves none.
LEMMA OneAnswer ==
    ASSUME IInv, NEW i \in Id, NEW reply, Respond(i, reply), answers[i] = 0, Posted(i), call' = call
    PROVE  [Contract!Next]_(Contract!calls)
<1>1. CallState' = CallState
  BY DEF CallState
<1>2. CASE i \in Call
  <2>1. Given' = [Given EXCEPT ![i] = 1] /\ Given[i] = 0
    <3>1. answers'[i] = 1 /\ \A j \in Id : j # i => answers'[j] = answers[j]
      BY DEF Respond, IInv, TypeOK
    <3>2. \A d \in Call : answers'[d] = IF d = i THEN 1 ELSE answers[d]
      BY <3>1 DEF Id
    <3> QED BY <1>2, <3>2 DEF Given
  <2>2. CallState[i] # "idle"
    BY <1>2, TransportAssumption DEF Posted, CallState, Stage, IInv, TypeOK
  <2>3. Contract!Answer(i)
    BY <1>1, <2>1, <2>2 DEF Contract!Answer, Given
  <2> QED BY <1>2, <2>3 DEF Contract!Next
<1>3. CASE i \notin Call
  <2>1. Given' = Given
    BY <1>3 DEF Given, Respond, IInv, TypeOK, Id
  <2> QED BY <1>1, <2>1 DEF Contract!calls, Given
<1> QED BY <1>2, <1>3

LEMMA Stutter ==
    ASSUME call' = call, answers' = answers
    PROVE  UNCHANGED Contract!calls
BY DEF Contract!calls, CallState

LEMMA NextImplements ==
    ASSUME IInv, [Next]_vars
    PROVE  [Contract!Next]_(Contract!calls)
<1>1. ASSUME NEW c \in Call, Request(c)
      PROVE  [Contract!Next]_(Contract!calls)
  <2>1. answers' = answers /\ call[c] = "idle"
    BY <1>1 DEF Request, serving
  <2>2. CASE call' = [call EXCEPT ![c] = "rejected"]
    <3>1. Contract!Drop(c)
      BY <2>1, <2>2, OneCallMoves
    <3> QED BY <3>1 DEF Contract!Next
  <2>3. CASE call' = [call EXCEPT ![c] = "connecting"]
    <3>1. Contract!Open(c)
      BY <2>1, <2>3, OneCallMoves
    <3> QED BY <3>1 DEF Contract!Next
  <2> QED BY <1>1, <2>2, <2>3 DEF Request
<1>2. ASSUME NEW c \in Call, Proceed(c)
      PROVE  [Contract!Next]_(Contract!calls)
  <2>1. answers' = answers /\ call[c] = "connecting"
    BY <1>2 DEF Proceed, serving
  <2>2. CASE call' = [call EXCEPT ![c] = "rejected"]
    <3>1. Contract!Drop(c)
      BY <2>1, <2>2, OneCallMoves
    <3> QED BY <3>1 DEF Contract!Next
  <2>3. CASE call' = [call EXCEPT ![c] = "waiting"]
    <3>1. UNCHANGED Contract!calls
      BY <2>1, <2>3, OneCallMoves
    <3> QED BY <3>1
  <2> QED BY <1>2, <2>2, <2>3 DEF Proceed
<1>3. ASSUME NEW c \in Call, Abort(c)
      PROVE  [Contract!Next]_(Contract!calls)
  <2>1. answers' = answers
    BY <1>3 DEF Abort, serving
  <2>2. CASE call[c] = "waiting"
    <3>1. Contract!Drop(c)
      BY <1>3, <2>1, <2>2, OneCallMoves DEF Abort
    <3> QED BY <3>1 DEF Contract!Next
  <2>3. CASE call[c] # "waiting"
    BY <1>3, <2>1, <2>3, Stutter DEF Abort
  <2> QED BY <2>2, <2>3
<1>4. CASE TakeFrame
  <2> DEFINE i == Head(toProduct).id
  <2>1. answers' = answers
    BY <1>4 DEF TakeFrame, serving
  <2>2. CASE call' = call
    BY <2>1, <2>2, Stutter
  <2>3. CASE call' # call
    <3>1. /\ i \in Call /\ call[i] = "waiting"
          /\ \/ call' = [call EXCEPT ![i] = "rejected"]
             \/ call' = [call EXCEPT ![i] = "answered"]
      BY <1>4, <2>3 DEF TakeFrame
    <3>2. toProduct # <<>> /\ toProduct \in Seq(ProductFrame)
      BY <1>4 DEF TakeFrame, IInv, TypeOK, ProductFrame
    <3>3. 1 \in DOMAIN toProduct /\ Head(toProduct) = toProduct[1]
      BY <3>2, Pop
    <3>4. answers[i] = 1
      BY <3>1, <3>3 DEF IInv, AnswersAreFew
    <3>5. CASE call' = [call EXCEPT ![i] = "rejected"]
      <4>1. Contract!Drop(i)
        BY <2>1, <3>1, <3>5, OneCallMoves
      <4> QED BY <3>1, <4>1 DEF Contract!Next
    <3>6. CASE call' = [call EXCEPT ![i] = "answered"]
      <4>1. Contract!Settle(i)
        BY <2>1, <3>1, <3>4, <3>6, OneCallMoves
      <4> QED BY <3>1, <4>1 DEF Contract!Next
    <3> QED BY <3>1, <3>5, <3>6
  <2> QED BY <2>2, <2>3
<1>5. CASE RefuseRequest
  <2>1. PICK reply : Respond(Head(toHost).id, reply)
    BY <1>5 DEF RefuseRequest
  <2>2. toHost # <<>> /\ toHost' = Tail(toHost) /\ Head(toHost).leg = "request" /\ call' = call
    BY <1>5 DEF RefuseRequest, Received, product
  <2>3. Head(toHost).id \in Id /\ Posted(Head(toHost).id) /\ answers[Head(toHost).id] = 0
    BY <2>2, TakenFacts DEF HostFrame
  <2> QED BY <2>1, <2>2, <2>3, OneAnswer
<1>6. CASE Cancel
  <2>1. toHost # <<>> /\ toHost' = Tail(toHost) /\ call' = call
    BY <1>6 DEF Cancel, Received, product
  <2>2. CASE Head(toHost).id \in inFlight
    <3>1. /\ Head(toHost).id \in Id /\ Posted(Head(toHost).id) /\ answers[Head(toHost).id] = 0
          /\ Respond(Head(toHost).id, "cancelled")
      BY <1>6, <2>2 DEF Cancel, IInv, TypeOK, CallsAreOpen
    <3> QED BY <2>1, <3>1, OneAnswer
  <2>3. CASE Head(toHost).id \notin inFlight
    <3>1. answers' = answers
      BY <1>6, <2>3 DEF Cancel
    <3> QED BY <2>1, <3>1, Stutter
  <2> QED BY <2>2, <2>3
<1>7. ASSUME NEW i \in Id, SettleHandler(i)
      PROVE  [Contract!Next]_(Contract!calls)
  <2>1. call' = call
    BY <1>7 DEF SettleHandler, product
  <2>2. CASE i \in inFlight /\ host = "up"
    <3>1. PICK reply : Respond(i, reply)
      BY <1>7, <2>2 DEF SettleHandler
    <3>2. Posted(i) /\ answers[i] = 0
      BY <2>2 DEF IInv, TypeOK, CallsAreOpen
    <3> QED BY <2>1, <3>1, <3>2, OneAnswer
  <2>3. CASE ~(i \in inFlight /\ host = "up")
    <3>1. answers' = answers
      BY <1>7, <2>3 DEF SettleHandler
    <3> QED BY <2>1, <3>1, Stutter
  <2> QED BY <2>2, <2>3
<1>8. CASE \/ \E s \in Shake : SendHandshake(s)
           \/ HandshakeTimesOut \/ Destroy \/ Listen \/ Lose \/ StartHandler \/ DestroyHost
           \/ UNCHANGED vars
  <2>1. call' = call /\ answers' = answers
    BY <1>8 DEF SendHandshake, HandshakeTimesOut, Destroy, Listen, Lose, StartHandler, DestroyHost,
                vars, product, serving
  <2> QED BY <2>1, Stutter
<1> QED BY <1>1, <1>2, <1>3, <1>4, <1>5, <1>6, <1>7, <1>8 DEF Next, TakeRequest

\* The transport does what RemoteCall promises: at most one answer to a call,
\* and no caller gets one that was not given.
THEOREM Implements == Spec => IsRemoteCall
<1>1. Init => Contract!Init
  BY InitImplements
<1>2. IInv /\ [Next]_vars => [Contract!Next]_(Contract!calls)
  BY NextImplements
<1> QED BY <1>1, <1>2, TransportInvariant, PTL DEF Spec, IsRemoteCall, Contract!Spec
=============================================================================
