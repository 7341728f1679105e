--------------------- MODULE TransportSubscriptionsProofs ---------------------
(***************************************************************************)
(* That product and host agree on every stream, and that no caller loses   *)
(* its stream or a value of it, for any callers, payloads and frames.      *)
(***************************************************************************)
EXTENDS TransportSubscriptions, Integers, FiniteSetTheorems, SequenceTheorems, TLAPS

Hosted == [leg : {"start", "stop"}, id : Stream]

Reported == [leg : {"receive", "interrupt"}, id : Stream]

Used == {handle[c] : c \in Caller}

(* What inductiveness adds.  A stream nobody was given is unknown to both   *)
(* ends and to the channels between them.                                   *)

FreshStreams ==
    \A s \in Stream \ Used :
        /\ s \notin listening /\ s \notin latched /\ s \notin started
        /\ listeners[s] = {} /\ sent[s] = 0
        /\ \A k \in Key : active[k] # s
        /\ \A leg \in {"start", "stop"} : ~InTransit(toHost, leg, s)
        /\ \A leg \in {"receive", "interrupt"} : ~InTransit(toProduct, leg, s)

OneKeyPerStream ==
    \A j, k \in Key : active[j] = active[k] /\ active[j] # None => j = k

\* Only the callers that were given a stream listen to it or watch it.
ListenersHoldIt ==
    /\ \A s \in Stream : \A c \in listeners[s] : handle[c] = s
    /\ \A c \in watching : handle[c] # None
    /\ \A c \in Caller \ watching : told[c] = 0

\* A torn down end hears nothing.
TornDown ==
    /\ hostDown => ~serving
    /\ ~serving => toHost = <<>>
    /\ disposed => listening = {} /\ toProduct = <<>>

\* A start goes ahead of every other frame of its stream.
Ordered(q) ==
    \A i, j \in 1..Len(q) :
        i # j /\ q[i].id = q[j].id /\ q[j].leg = "start" => q[i].leg = "stop" /\ j < i

\* A start is on the way once, before the handler runs, and for a product that
\* listens or has sent a stop behind it.
StartsFirst ==
    /\ Ordered(toHost)
    /\ \A s \in started : ~InTransit(toHost, "start", s)
    /\ \A s \in Stream : InTransit(toHost, "start", s) /\ ~disposed =>
         s \in listening \/ InTransit(toHost, "stop", s)

\* A stop or an interrupt means the end of its stream.
EndsAreFinal ==
    /\ \A s \in listening : ~InTransit(toHost, "stop", s)
    /\ \A s \in Stream : InTransit(toProduct, "interrupt", s) =>
         s \notin registered /\ ~InTransit(toHost, "start", s)

(* Counting the values of a stream in a channel. *)

Places(q, s) == {k \in DOMAIN q : q[k] = Frame("receive", s)}

Count(q, s) == Cardinality(Places(q, s))

CountsMatch ==
    /\ \A s \in Stream : Count(toProduct, s) <= sent[s]
    /\ \A s \in Stream \ started : cleaned[s] = 0 /\ sent[s] = 0

StreamInv ==
    /\ StreamsAreServed
    /\ FreshStreams /\ OneKeyPerStream /\ ListenersHoldIt /\ TornDown
    /\ StartsFirst /\ EndsAreFinal /\ CountsMatch

-----------------------------------------------------------------------------
(* The channels: what joins one at the back, and what leaves at the front. *)

Frames == [leg : {"start", "stop", "receive", "interrupt"}, id : Stream]

LEMMA ChannelType ==
    ASSUME TypeOK
    PROVE  toHost \in Seq(Frames) /\ toProduct \in Seq(Frames)
<1>1. Hosted \subseteq Frames /\ Reported \subseteq Frames
  BY DEF Hosted, Reported, Frames
<1>2. toHost \in Seq(Hosted) /\ toProduct \in Seq(Reported)
  BY DEF TypeOK, Hosted, Reported
<1> QED BY <1>1, <1>2, SeqMonotonic

LEMMA Sent ==
    ASSUME NEW q \in Seq(Frames), NEW f \in Frames
    PROVE  /\ Len(q) \in Nat /\ DOMAIN q = 1..Len(q)
           /\ DOMAIN Append(q, f) = 1..Len(q) + 1
           /\ Append(q, f)[Len(q) + 1] = f
           /\ \A i \in 1..Len(q) : Append(q, f)[i] = q[i]
OBVIOUS

LEMMA Taken ==
    ASSUME NEW q \in Seq(Frames), q # <<>>
    PROVE  /\ Len(q) \in Nat \ {0} /\ DOMAIN q = 1..Len(q)
           /\ Head(q) = q[1] /\ Head(q) \in Frames
           /\ Tail(q) \in Seq(Frames)
           /\ DOMAIN Tail(q) = 1..Len(q) - 1
           /\ \A i \in 1..Len(q) - 1 : Tail(q)[i] = q[i + 1]
<1>1. Len(q) \in Nat \ {0} /\ Head(q) = q[1] /\ DOMAIN q = 1..Len(q)
  BY EmptySeq
<1>2. /\ Head(q) \in Frames /\ Tail(q) \in Seq(Frames) /\ Len(Tail(q)) = Len(q) - 1
      /\ \A i \in 1..Len(Tail(q)) : Tail(q)[i] = q[i + 1]
  BY HeadTailProperties
<1> QED BY <1>1, <1>2

LEMMA InTransitSent ==
    ASSUME NEW q \in Seq(Frames), NEW f \in Frames, NEW leg, NEW s
    PROVE  InTransit(Append(q, f), leg, s) <=> InTransit(q, leg, s) \/ f = Frame(leg, s)
<1> DEFINE longer == Append(q, f)
<1>1. /\ Len(q) \in Nat /\ DOMAIN q = 1..Len(q) /\ DOMAIN longer = 1..Len(q) + 1
      /\ longer[Len(q) + 1] = f /\ \A i \in 1..Len(q) : longer[i] = q[i]
  BY Sent
<1> HIDE DEF longer
<1>2. InTransit(longer, leg, s) <=> InTransit(q, leg, s) \/ f = Frame(leg, s)
  <2>1. ASSUME NEW k \in DOMAIN longer, longer[k] = Frame(leg, s)
        PROVE  InTransit(q, leg, s) \/ f = Frame(leg, s)
    BY <1>1, <2>1 DEF InTransit
  <2>2. ASSUME NEW k \in DOMAIN q, q[k] = Frame(leg, s)
        PROVE  InTransit(longer, leg, s)
    BY <1>1, <2>2 DEF InTransit
  <2>3. ASSUME f = Frame(leg, s)
        PROVE  InTransit(longer, leg, s)
    BY <1>1, <2>3 DEF InTransit
  <2> QED BY <2>1, <2>2, <2>3 DEF InTransit
<1> QED BY <1>2 DEF longer

LEMMA InTransitTaken ==
    ASSUME NEW q \in Seq(Frames), q # <<>>, NEW leg, NEW s
    PROVE  InTransit(q, leg, s) <=> InTransit(Tail(q), leg, s) \/ Head(q) = Frame(leg, s)
<1> DEFINE rest == Tail(q)
           first == Head(q)
<1>1. /\ Len(q) \in Nat \ {0} /\ DOMAIN q = 1..Len(q) /\ DOMAIN rest = 1..Len(q) - 1
      /\ first = q[1] /\ \A i \in 1..Len(q) - 1 : rest[i] = q[i + 1]
  BY Taken
<1> HIDE DEF rest, first
<1>2. ASSUME NEW k \in DOMAIN q, q[k] = Frame(leg, s)
      PROVE  InTransit(rest, leg, s) \/ first = Frame(leg, s)
  <2>1. CASE k = 1
    BY <1>1, <1>2, <2>1
  <2>2. CASE k # 1
    <3>1. k - 1 \in DOMAIN rest /\ rest[k - 1] = q[k]
      BY <1>1, <2>2
    <3> QED BY <1>2, <3>1 DEF InTransit
  <2> QED BY <2>1, <2>2
<1>3. ASSUME NEW k \in DOMAIN rest, rest[k] = Frame(leg, s)
      PROVE  InTransit(q, leg, s)
  <2>1. k + 1 \in DOMAIN q /\ q[k + 1] = rest[k]
    BY <1>1
  <2> QED BY <1>3, <2>1 DEF InTransit
<1>4. ASSUME first = Frame(leg, s)
      PROVE  InTransit(q, leg, s)
  <2>1. 1 \in DOMAIN q
    BY <1>1
  <2> QED BY <1>1, <1>4, <2>1 DEF InTransit
<1>5. InTransit(q, leg, s) <=> InTransit(rest, leg, s) \/ first = Frame(leg, s)
  BY <1>2, <1>3, <1>4 DEF InTransit
<1> QED BY <1>5 DEF rest, first

LEMMA InTransitNone == \A leg, s : ~InTransit(<<>>, leg, s)
<1>1. DOMAIN <<>> = {}
  OBVIOUS
<1> QED BY <1>1 DEF InTransit

\* A start of a fresh stream, or a stop, keeps the order.
LEMMA OrderedSent ==
    ASSUME NEW q \in Seq(Hosted), NEW f \in Hosted, Ordered(q),
           f.leg = "start" => \A leg \in {"start", "stop"} : ~InTransit(q, leg, f.id)
    PROVE  Ordered(Append(q, f))
<1> DEFINE longer == Append(q, f)
<1>1. /\ Len(q) \in Nat /\ Len(longer) = Len(q) + 1 /\ DOMAIN q = 1..Len(q)
      /\ longer[Len(q) + 1] = f /\ \A i \in 1..Len(q) : longer[i] = q[i] /\ q[i] \in Hosted
  OBVIOUS
<1> HIDE DEF longer
<1>2. f.leg = "start" => \A i \in 1..Len(q) : q[i].id # f.id
  <2> SUFFICES ASSUME f.leg = "start", NEW i \in 1..Len(q), q[i].id = f.id PROVE FALSE
    OBVIOUS
  <2>1. q[i] = Frame(q[i].leg, f.id) /\ q[i].leg \in {"start", "stop"}
    BY <1>1 DEF Hosted, Frame
  <2> QED BY <1>1, <2>1 DEF InTransit
<1>3. f.leg \in {"start", "stop"}
  BY DEF Hosted
<1>4. ASSUME NEW i \in 1..Len(longer), NEW j \in 1..Len(longer),
             i # j, longer[i].id = longer[j].id, longer[j].leg = "start"
      PROVE  longer[i].leg = "stop" /\ j < i
  <2>1. CASE i \in 1..Len(q) /\ j \in 1..Len(q)
    BY <1>1, <1>4, <2>1 DEF Ordered
  <2>2. CASE j = Len(q) + 1
    <3>1. longer[j] = f /\ i \in 1..Len(q) /\ longer[i] = q[i]
      BY <1>1, <1>4, <2>2
    <3> QED BY <1>2, <1>4, <3>1
  <2>3. CASE i = Len(q) + 1
    <3>1. longer[i] = f /\ j \in 1..Len(q) /\ longer[j] = q[j] /\ j < i
      BY <1>1, <1>4, <2>3
    <3> QED BY <1>2, <1>3, <1>4, <3>1
  <2> QED BY <1>1, <2>1, <2>2, <2>3
<1>5. Ordered(longer)
  BY <1>4 DEF Ordered
<1> QED BY <1>5 DEF longer

\* Behind the first frame no stream of that frame starts.
LEMMA OrderedTaken ==
    ASSUME NEW q \in Seq(Frames), q # <<>>, Ordered(q)
    PROVE  Ordered(Tail(q)) /\ ~InTransit(Tail(q), "start", Head(q).id)
<1> DEFINE rest == Tail(q)
           first == Head(q)
<1>1. /\ Len(q) \in Nat \ {0} /\ DOMAIN q = 1..Len(q) /\ DOMAIN rest = 1..Len(q) - 1
      /\ first = q[1] /\ \A i \in 1..Len(q) - 1 : rest[i] = q[i + 1]
      /\ Len(rest) = Len(q) - 1
  BY Taken
<1> HIDE DEF rest, first
<1>2. Ordered(rest)
  <2> SUFFICES ASSUME NEW i \in 1..Len(rest), NEW j \in 1..Len(rest),
                      i # j, rest[i].id = rest[j].id, rest[j].leg = "start"
               PROVE  rest[i].leg = "stop" /\ j < i
    BY DEF Ordered
  <2>1. /\ i + 1 \in 1..Len(q) /\ j + 1 \in 1..Len(q) /\ i + 1 # j + 1
        /\ rest[i] = q[i + 1] /\ rest[j] = q[j + 1]
    BY <1>1
  <2>2. q[i + 1].leg = "stop" /\ j + 1 < i + 1
    BY <2>1 DEF Ordered
  <2> QED BY <1>1, <2>1, <2>2
<1>3. ASSUME InTransit(rest, "start", first.id)
      PROVE  FALSE
  <2>1. PICK k \in DOMAIN rest : rest[k] = Frame("start", first.id)
    BY <1>3 DEF InTransit
  <2>2. /\ k + 1 \in 1..Len(q) /\ 1 \in 1..Len(q) /\ k + 1 # 1 /\ ~(k + 1 < 1)
        /\ q[k + 1] = Frame("start", q[1].id)
    BY <1>1, <2>1
  <2>3. q[k + 1].leg = "start" /\ q[k + 1].id = q[1].id
    BY <2>2 DEF Frame
  <2> QED BY <2>2, <2>3 DEF Ordered
<1> QED BY <1>2, <1>3 DEF rest, first

-----------------------------------------------------------------------------
(* The values of a stream in a channel. *)

LEMMA PlacesFinite ==
    ASSUME NEW q \in Seq(Frames), NEW s
    PROVE  IsFiniteSet(Places(q, s)) /\ Cardinality(Places(q, s)) \in Nat
<1>1. IsFiniteSet(1..Len(q)) /\ Places(q, s) \in SUBSET (1..Len(q))
  BY FS_Interval DEF Places
<1>2. IsFiniteSet(Places(q, s))
  BY <1>1, FS_Subset
<1> QED BY <1>2, FS_CardinalityType

LEMMA CountSent ==
    ASSUME NEW q \in Seq(Frames), NEW f \in Frames, NEW s
    PROVE  Cardinality(Places(Append(q, f), s)) =
             Cardinality(Places(q, s)) + IF f = Frame("receive", s) THEN 1 ELSE 0
<1> DEFINE longer == Append(q, f)
           n == Len(q) + 1
<1>1. /\ DOMAIN q = 1..Len(q) /\ DOMAIN longer = (1..Len(q)) \cup {n} /\ n \notin 1..Len(q)
      /\ longer[n] = f /\ \A i \in 1..Len(q) : longer[i] = q[i]
  BY Sent
<1> HIDE DEF longer, n
<1>2. n \notin Places(q, s)
  BY <1>1 DEF Places
<1>3. CASE f = Frame("receive", s)
  <2>1. Places(longer, s) = Places(q, s) \cup {n}
    BY <1>1, <1>3 DEF Places
  <2>2. Cardinality(Places(longer, s)) = Cardinality(Places(q, s)) + 1
    BY <1>2, <2>1, PlacesFinite, FS_AddElement
  <2> QED BY <1>3, <2>2 DEF longer
<1>4. CASE f # Frame("receive", s)
  <2>1. Places(longer, s) = Places(q, s)
    BY <1>1, <1>4 DEF Places
  <2> QED BY <1>4, <2>1, PlacesFinite DEF longer
<1> QED BY <1>3, <1>4

LEMMA CountTaken ==
    ASSUME NEW q \in Seq(Frames), q # <<>>, NEW s
    PROVE  Cardinality(Places(q, s)) =
             Cardinality(Places(Tail(q), s)) + IF Head(q) = Frame("receive", s) THEN 1 ELSE 0
<1> DEFINE rest == Tail(q)
           first == Head(q)
           behind == Places(q, s) \ {1}
           f == [k \in Places(rest, s) |-> k + 1]
<1>1. /\ Len(q) \in Nat \ {0} /\ DOMAIN q = 1..Len(q) /\ DOMAIN rest = 1..Len(q) - 1
      /\ first = q[1] /\ \A i \in 1..Len(q) - 1 : rest[i] = q[i + 1]
      /\ rest \in Seq(Frames)
  BY Taken
<1> HIDE DEF rest, first
<1>2. \A k \in Places(rest, s) : k \in 1..Len(q) - 1 /\ rest[k] = Frame("receive", s)
  BY <1>1 DEF Places
<1>3. \A k \in Places(rest, s) : k \in Nat /\ k + 1 \in behind
  BY <1>1, <1>2 DEF Places
<1>4. \A k \in behind : k - 1 \in Places(rest, s) /\ (k - 1) + 1 = k
  <2> TAKE k \in behind
  <2>1. k \in 1..Len(q) /\ k # 1 /\ q[k] = Frame("receive", s)
    BY <1>1 DEF Places
  <2>2. k - 1 \in 1..Len(q) - 1 /\ (k - 1) + 1 = k
    BY <1>1, <2>1
  <2> QED BY <1>1, <2>1, <2>2 DEF Places
<1> DEFINE moved == Places(rest, s)
<1> HIDE DEF behind
<1>5. ExistsBijection(moved, behind)
  <2> HIDE DEF moved
  <2> DEFINE g == [k \in moved |-> k + 1]
  <2>0. \A k \in moved : k \in Nat /\ k + 1 \in behind
    BY <1>3 DEF moved
  <2>1. g \in [moved -> behind] /\ \A k \in moved : g[k] = k + 1
    BY <2>0
  <2>2. \A j, k \in moved : g[j] = g[k] => j = k
    BY <2>0, <2>1
  <2>3. \A k \in behind : \E j \in moved : g[j] = k
    <3> TAKE k \in behind
    <3>1. k - 1 \in moved /\ g[k - 1] = k
      BY <1>4, <2>1 DEF moved
    <3> QED BY <3>1
  <2> HIDE DEF g
  <2>4. g \in Bijection(moved, behind)
    BY <2>1, <2>2, <2>3 DEF Bijection, Injection, Surjection, IsInjective
  <2> QED BY <2>4 DEF ExistsBijection
<1>6. Cardinality(behind) = Cardinality(moved)
  BY <1>1, <1>5, PlacesFinite, FS_Bijection
<1>7. /\ IsFiniteSet(Places(q, s)) /\ Cardinality(Places(q, s)) \in Nat
      /\ Cardinality(moved) \in Nat
  BY <1>1, PlacesFinite
<1>8. Cardinality(behind) =
        IF 1 \in Places(q, s) THEN Cardinality(Places(q, s)) - 1 ELSE Cardinality(Places(q, s))
  BY <1>7, FS_RemoveElement DEF behind
<1>9. 1 \in Places(q, s) <=> first = Frame("receive", s)
  BY <1>1 DEF Places
<1> HIDE DEF moved
<1>10. Cardinality(Places(q, s)) =
         Cardinality(moved) + IF first = Frame("receive", s) THEN 1 ELSE 0
  BY <1>6, <1>7, <1>8, <1>9
<1> QED BY <1>10 DEF moved, rest, first

LEMMA CountNone == \A s : Cardinality(Places(<<>>, s)) = 0
<1> TAKE s
<1>1. Places(<<>>, s) = {}
  BY DEF Places
<1> QED BY <1>1, FS_EmptySet

-----------------------------------------------------------------------------
(* What posting a frame, and taking one, do to the channels. *)

LEMMA HostedType == ASSUME TypeOK PROVE toHost \in Seq(Hosted) /\ toProduct \in Seq(Reported)
BY DEF TypeOK, Hosted, Reported

LEMMA HostGets ==
    ASSUME TypeOK, NEW leg \in {"start", "stop"}, NEW s \in Stream
    PROVE  LET q == ToHost(Frame(leg, s))
           IN  /\ q \in Seq(Hosted)
               /\ disposed \/ ~serving => q = toHost
               /\ \A l, x : InTransit(q, l, x) <=>
                     \/ InTransit(toHost, l, x)
                     \/ ~disposed /\ serving /\ l = leg /\ x = s
<1> DEFINE f == Frame(leg, s)
           q == Append(toHost, f)
<1>1. toHost \in Seq(Hosted) /\ f \in Hosted /\ toHost \in Seq(Frames) /\ f \in Frames
  BY HostedType, ChannelType DEF Hosted, Frames, Frame
<1>2. \A l, x : f = Frame(l, x) <=> l = leg /\ x = s
  BY DEF Frame
<1> HIDE DEF f
<1>3. q \in Seq(Hosted) /\ \A l, x : InTransit(q, l, x) <=> InTransit(toHost, l, x) \/ f = Frame(l, x)
  BY <1>1, InTransitSent
<1> HIDE DEF q
<1>4. CASE disposed \/ ~serving
  BY <1>1, <1>4 DEF ToHost
<1>5. CASE ~disposed /\ serving
  <2>1. ToHost(Frame(leg, s)) = q
    BY <1>5 DEF ToHost, q, f
  <2> QED BY <1>2, <1>3, <1>5, <2>1
<1> QED BY <1>4, <1>5

LEMMA ProductGets ==
    ASSUME TypeOK, NEW leg \in {"receive", "interrupt"}, NEW s \in Stream
    PROVE  LET q == ToProduct(Frame(leg, s))
           IN  /\ q \in Seq(Reported)
               /\ disposed \/ hostDown => q = toProduct
               /\ \A l, x : InTransit(q, l, x) <=>
                     \/ InTransit(toProduct, l, x)
                     \/ ~disposed /\ ~hostDown /\ l = leg /\ x = s
               /\ \A x : Count(q, x) = Count(toProduct, x) +
                     IF ~disposed /\ ~hostDown /\ leg = "receive" /\ x = s THEN 1 ELSE 0
<1> DEFINE f == Frame(leg, s)
           q == Append(toProduct, f)
<1>1. toProduct \in Seq(Reported) /\ f \in Reported /\ toProduct \in Seq(Frames) /\ f \in Frames
  BY HostedType, ChannelType DEF Reported, Frames, Frame
<1>2. \A l, x : f = Frame(l, x) <=> l = leg /\ x = s
  BY DEF Frame
<1> HIDE DEF f
<1>3. /\ q \in Seq(Reported)
      /\ \A l, x : InTransit(q, l, x) <=> InTransit(toProduct, l, x) \/ f = Frame(l, x)
  BY <1>1, InTransitSent
<1>4. \A x : Count(q, x) =
               Count(toProduct, x) + IF f = Frame("receive", x) THEN 1 ELSE 0
  BY <1>1, CountSent DEF Count
<1>5. \A x : Count(toProduct, x) \in Nat
  BY <1>1, PlacesFinite DEF Count
<1> HIDE DEF q
<1>6. CASE disposed \/ hostDown
  <2>1. ToProduct(Frame(leg, s)) = toProduct
    BY <1>6 DEF ToProduct
  <2> QED BY <1>1, <1>5, <1>6, <2>1
<1>7. CASE ~disposed /\ ~hostDown
  <2>1. ToProduct(Frame(leg, s)) = q
    BY <1>7 DEF ToProduct, q, f
  <2> QED BY <1>2, <1>3, <1>4, <1>7, <2>1
<1> QED BY <1>6, <1>7

LEMMA HostTakes ==
    ASSUME TypeOK, Ordered(toHost), toHost # <<>>
    PROVE  LET f == Head(toHost)
           IN  /\ f \in Hosted /\ f.id \in Stream /\ Tail(toHost) \in Seq(Hosted)
               /\ Ordered(Tail(toHost)) /\ ~InTransit(Tail(toHost), "start", f.id)
               /\ \A l, x : InTransit(toHost, l, x) <=>
                     InTransit(Tail(toHost), l, x) \/ (l = f.leg /\ x = f.id)
<1> DEFINE f == Head(toHost)
<1>1. toHost \in Seq(Hosted) /\ toHost \in Seq(Frames)
  BY HostedType, ChannelType
<1>2. f \in Hosted /\ Tail(toHost) \in Seq(Hosted)
  BY <1>1, HeadTailProperties
<1>3. /\ Ordered(Tail(toHost)) /\ ~InTransit(Tail(toHost), "start", f.id)
      /\ \A l, x : InTransit(toHost, l, x) <=> InTransit(Tail(toHost), l, x) \/ f = Frame(l, x)
  BY <1>1, OrderedTaken, InTransitTaken
<1> HIDE DEF f
<1>4. f.id \in Stream /\ \A l, x : f = Frame(l, x) <=> l = f.leg /\ x = f.id
  BY <1>2 DEF Hosted, Frame
<1>5. \A l, x : InTransit(toHost, l, x) <=>
               InTransit(Tail(toHost), l, x) \/ (l = f.leg /\ x = f.id)
  BY <1>3, <1>4
<1> QED BY <1>2, <1>3, <1>4, <1>5 DEF f

LEMMA ProductTakes ==
    ASSUME TypeOK, toProduct # <<>>
    PROVE  LET f == Head(toProduct)
           IN  /\ f \in Reported /\ f.id \in Stream /\ Tail(toProduct) \in Seq(Reported)
               /\ \A l, x : InTransit(toProduct, l, x) <=>
                     InTransit(Tail(toProduct), l, x) \/ (l = f.leg /\ x = f.id)
               /\ \A x : Count(toProduct, x) = Count(Tail(toProduct), x) +
                     IF f.leg = "receive" /\ x = f.id THEN 1 ELSE 0
               /\ \A x : Count(Tail(toProduct), x) \in Nat
<1> DEFINE f == Head(toProduct)
<1>1. toProduct \in Seq(Reported) /\ toProduct \in Seq(Frames)
  BY HostedType, ChannelType
<1>2. f \in Reported /\ Tail(toProduct) \in Seq(Reported) /\ Tail(toProduct) \in Seq(Frames)
  BY <1>1, HeadTailProperties
<1>3. /\ \A l, x : InTransit(toProduct, l, x) <=> InTransit(Tail(toProduct), l, x) \/ f = Frame(l, x)
      /\ \A x : Count(toProduct, x) = Count(Tail(toProduct), x) +
            IF f = Frame("receive", x) THEN 1 ELSE 0
      /\ \A x : Count(Tail(toProduct), x) \in Nat
  BY <1>1, <1>2, InTransitTaken, CountTaken, PlacesFinite DEF Count
<1> HIDE DEF f
<1>4. f.id \in Stream /\ \A l, x : f = Frame(l, x) <=> l = f.leg /\ x = f.id
  BY <1>2 DEF Reported, Frame
<1>5. /\ \A l, x : InTransit(toProduct, l, x) <=>
               InTransit(Tail(toProduct), l, x) \/ (l = f.leg /\ x = f.id)
      /\ \A x : Count(toProduct, x) = Count(Tail(toProduct), x) +
            IF f.leg = "receive" /\ x = f.id THEN 1 ELSE 0
  BY <1>3, <1>4
<1> QED BY <1>2, <1>3, <1>4, <1>5 DEF f

LEMMA OrderPosted ==
    ASSUME TypeOK, NEW leg \in {"start", "stop"}, NEW s \in Stream, Ordered(toHost),
           leg = "start" => \A l \in {"start", "stop"} : ~InTransit(toHost, l, s)
    PROVE  Ordered(ToHost(Frame(leg, s)))
<1> DEFINE f == Frame(leg, s)
<1>1. toHost \in Seq(Hosted) /\ f \in Hosted /\ f.leg = leg /\ f.id = s
  BY HostedType DEF Hosted, Frame
<1> HIDE DEF f
<1>2. Ordered(Append(toHost, f))
  BY <1>1, OrderedSent
<1> QED BY <1>2 DEF ToHost, f

LEMMA CountType ==
    ASSUME TypeOK
    PROVE  \A s : ValuesInTransit(s) = Count(toProduct, s) /\ ValuesInTransit(s) \in Nat
BY ChannelType, PlacesFinite DEF ValuesInTransit, Count, Places

-----------------------------------------------------------------------------
(* Each step keeps the strengthened invariant. *)

LEMMA UsedSame == ASSUME UNCHANGED handle PROVE Used' = Used
BY DEF Used

LEMMA UsedGrows ==
    ASSUME TypeOK, NEW c \in Caller, handle[c] = None, NEW s \in Stream,
           handle' = [handle EXCEPT ![c] = s]
    PROVE  \A x \in Stream : x \in Used' <=> (x \in Used \/ x = s)
<1>1. \A d \in Caller : handle'[d] = IF d = c THEN s ELSE handle[d]
  BY DEF TypeOK
<1>2. handle[c] \notin Stream
  BY SubscriptionAssumption
<1> QED BY <1>1, <1>2 DEF Used

LEMMA JoinStep ==
    ASSUME StreamInv, NEW c \in Caller, Join(c)
    PROVE  StreamInv'
<1>1. /\ TypeOK /\ ListenersAreServed /\ NoStreamForNobody /\ TableIsLive /\ CleanedOnce
      /\ FreshStreams /\ OneKeyPerStream /\ ListenersHoldIt /\ TornDown
      /\ StartsFirst /\ EndsAreFinal /\ CountsMatch
  BY DEF StreamInv, StreamsAreServed
<1> DEFINE s == active[KeyOf(c)]
<1>2. /\ s \in Stream /\ s \in Used /\ handle[c] = None
      /\ handle' = [handle EXCEPT ![c] = s]
      /\ listeners' = [listeners EXCEPT ![s] = @ \cup {c}]
      /\ heard' = [heard EXCEPT ![c] = sent[s] - ValuesInTransit(s)]
      /\ UNCHANGED <<active, listening, latched, watching, told, left, disposed, toHost, toProduct,
                     serving, hostDown, registered, started, threw, cleaned, sent, late>>
  BY <1>1, SubscriptionAssumption
     DEF Join, Attach, interrupts, streams, TypeOK, FreshStreams
<1> HIDE DEF s
<1>3. \A x \in Stream : x \in Used' <=> (x \in Used \/ x = s)
  BY <1>1, <1>2, UsedGrows
<1>4. sent[s] - ValuesInTransit(s) \in Nat
  BY <1>1, <1>2, CountType DEF TypeOK, CountsMatch
<1>5. TypeOK'
  BY <1>1, <1>2, <1>4 DEF TypeOK
<1>6. FreshStreams'
  BY <1>1, <1>2, <1>3 DEF FreshStreams, TypeOK
<1>7. ListenersHoldIt'
  BY <1>1, <1>2, SubscriptionAssumption DEF ListenersHoldIt, TypeOK
<1>8. /\ ListenersAreServed' /\ NoStreamForNobody' /\ TableIsLive' /\ CleanedOnce'
      /\ OneKeyPerStream' /\ TornDown' /\ StartsFirst' /\ EndsAreFinal' /\ CountsMatch'
  BY <1>1, <1>2 DEF ListenersAreServed, NoStreamForNobody, TableIsLive, CleanedOnce,
                    OneKeyPerStream, TornDown, StartsFirst, EndsAreFinal, CountsMatch
<1> QED BY <1>5, <1>6, <1>7, <1>8 DEF StreamInv, StreamsAreServed

LEMMA OpenStep ==
    ASSUME StreamInv, NEW c \in Caller, NEW s \in Stream, Open(c, s)
    PROVE  StreamInv'
<1>1. /\ TypeOK /\ ListenersAreServed /\ NoStreamForNobody /\ TableIsLive /\ CleanedOnce
      /\ FreshStreams /\ OneKeyPerStream /\ ListenersHoldIt /\ TornDown
      /\ StartsFirst /\ EndsAreFinal /\ CountsMatch
  BY DEF StreamInv, StreamsAreServed
<1>2. /\ ~disposed /\ handle[c] = None /\ active[KeyOf(c)] = None /\ s \notin Used
      /\ KeyOf(c) \in Key
      /\ handle' = [handle EXCEPT ![c] = s]
      /\ listeners' = [listeners EXCEPT ![s] = @ \cup {c}]
      /\ heard' = [heard EXCEPT ![c] = sent[s] - ValuesInTransit(s)]
      /\ active' = [active EXCEPT ![KeyOf(c)] = s]
      /\ listening' = listening \cup {s}
      /\ toHost' = ToHost(Frame("start", s))
      /\ UNCHANGED <<latched, watching, told, left, disposed, toProduct, serving, hostDown,
                     registered, started, threw, cleaned, sent, late>>
  BY SubscriptionAssumption DEF Open, Attach, interrupts, streams, Used
<1>3. \A x \in Stream : x \in Used' <=> (x \in Used \/ x = s)
  BY <1>1, <1>2, UsedGrows
<1>4. sent[s] - ValuesInTransit(s) \in Nat
  BY <1>1, <1>2, CountType, SMTT(30) DEF TypeOK, CountsMatch
<1>5. /\ toHost' \in Seq(Hosted)
      /\ ~serving => toHost' = toHost
      /\ \A l, x : InTransit(toHost', l, x) <=>
            \/ InTransit(toHost, l, x)
            \/ serving /\ l = "start" /\ x = s
  BY <1>1, <1>2, HostGets
<1>6. Ordered(toHost')
  BY <1>1, <1>2, OrderPosted DEF StartsFirst, FreshStreams
<1>7. TypeOK'
  BY <1>1, <1>2, <1>4, <1>5 DEF TypeOK, Hosted, FreshStreams
<1>8. ListenersAreServed'
  BY <1>1, <1>2, <1>5 DEF ListenersAreServed, TypeOK
<1>9. NoStreamForNobody'
  BY <1>1, <1>2, <1>5 DEF NoStreamForNobody, TypeOK
<1>10. TableIsLive'
  BY <1>1, <1>2 DEF TableIsLive, TypeOK
<1>11. FreshStreams'
  BY <1>1, <1>2, <1>3, <1>5 DEF FreshStreams, TypeOK
<1>12. OneKeyPerStream'
  BY <1>1, <1>2 DEF OneKeyPerStream, TypeOK, FreshStreams
<1>13. ListenersHoldIt'
  BY <1>1, <1>2, SubscriptionAssumption DEF ListenersHoldIt, TypeOK
<1>14. TornDown'
  BY <1>1, <1>2, <1>5 DEF TornDown, TypeOK
<1>15. StartsFirst'
  BY <1>1, <1>2, <1>5, <1>6 DEF StartsFirst, TypeOK, FreshStreams
<1>16. EndsAreFinal'
  BY <1>1, <1>2, <1>5 DEF EndsAreFinal, TypeOK, FreshStreams
<1>17. CleanedOnce' /\ CountsMatch'
  BY <1>1, <1>2 DEF CleanedOnce, CountsMatch
<1> QED BY <1>7, <1>8, <1>9, <1>10, <1>11, <1>12, <1>13, <1>14, <1>15, <1>16, <1>17 DEF StreamInv,
   StreamsAreServed

LEMMA UnsubscribeStep ==
    ASSUME StreamInv, NEW c \in Caller, Unsubscribe(c)
    PROVE  StreamInv'
<1>1. /\ TypeOK /\ ListenersAreServed /\ NoStreamForNobody /\ TableIsLive /\ CleanedOnce
      /\ FreshStreams /\ OneKeyPerStream /\ ListenersHoldIt /\ TornDown
      /\ StartsFirst /\ EndsAreFinal /\ CountsMatch
  BY DEF StreamInv, StreamsAreServed
<1> DEFINE k == KeyOf(c)
           s == active[k]
<1>2. /\ k \in Key /\ s \in Stream \cup {None} /\ left' = left \cup {c}
      /\ UNCHANGED <<handle, latched, watching, told, heard, disposed, toProduct, serving,
                     hostDown, registered, started, threw, cleaned, sent, late>>
  BY <1>1, SubscriptionAssumption DEF Unsubscribe, interrupts, streams, TypeOK
<1>3. CASE UNCHANGED <<active, listening, listeners, toHost>>
  <2>1. TypeOK'
    BY <1>1, <1>2, <1>3 DEF TypeOK
  <2>2. /\ ListenersAreServed' /\ NoStreamForNobody' /\ TableIsLive' /\ CleanedOnce'
        /\ FreshStreams' /\ OneKeyPerStream' /\ ListenersHoldIt' /\ TornDown' /\ StartsFirst'
        /\ EndsAreFinal' /\ CountsMatch'
    BY <1>1, <1>2, <1>3, UsedSame DEF ListenersAreServed, NoStreamForNobody, TableIsLive,
                                      CleanedOnce, FreshStreams, OneKeyPerStream, ListenersHoldIt,
                                      TornDown, StartsFirst, EndsAreFinal, CountsMatch
  <2> QED BY <2>1, <2>2 DEF StreamInv, StreamsAreServed
<1>4. CASE /\ s # None /\ Kill(k, s)
           /\ UNCHANGED listeners
  <2>0. /\ s \in Stream /\ active' = [active EXCEPT ![k] = None] /\ listening' = listening \ {s}
        /\ toHost' = ToHost(Frame("stop", s)) /\ UNCHANGED listeners
    BY <1>2, <1>4 DEF Kill
  <2> HIDE DEF s
  <2>1. /\ toHost' \in Seq(Hosted) /\ (~serving => toHost' = toHost)
        /\ \A l, x : InTransit(toHost', l, x) <=>
              \/ InTransit(toHost, l, x)
              \/ ~disposed /\ serving /\ l = "stop" /\ x = s
    BY <1>1, <2>0, HostGets
  <2>2. Ordered(toHost')
    BY <1>1, <2>0, OrderPosted DEF StartsFirst
  <2>3. active[k] = s /\ s \in Used /\ (~serving => \A l, x : ~InTransit(toHost, l, x))
    BY <1>1, <1>2, <2>0, InTransitNone DEF s, FreshStreams, TornDown
  <2>4. TypeOK'
    BY <1>1, <1>2, <2>0, <2>3, <2>1 DEF TypeOK, Hosted
  <2>5. ListenersAreServed'
    BY <1>1, <1>2, <2>0, <2>3, <2>1 DEF ListenersAreServed, TypeOK
  <2>6. NoStreamForNobody'
    BY <1>1, <1>2, <2>0, <2>3, <2>1 DEF NoStreamForNobody, TypeOK
  <2>7. TableIsLive'
    BY <1>1, <1>2, <2>0, <2>3 DEF TableIsLive, TypeOK, OneKeyPerStream
  <2>8. FreshStreams'
    BY <1>1, <1>2, <2>0, <2>3, <2>1, UsedSame, SubscriptionAssumption DEF FreshStreams, TypeOK
  <2>9. OneKeyPerStream'
    BY <1>1, <1>2, <2>0, <2>3 DEF OneKeyPerStream, TypeOK
  <2>10. TornDown'
    BY <1>1, <1>2, <2>0, <2>3, <2>1 DEF TornDown, TypeOK
  <2>11. StartsFirst'
    BY <1>1, <1>2, <2>0, <2>3, <2>1, <2>2 DEF StartsFirst, TypeOK
  <2>12. EndsAreFinal'
    BY <1>1, <1>2, <2>0, <2>3, <2>1 DEF EndsAreFinal, TypeOK
  <2>13. CleanedOnce' /\ ListenersHoldIt' /\ CountsMatch'
    BY <1>1, <1>2, <2>0, <2>3 DEF CleanedOnce, ListenersHoldIt, CountsMatch
  <2> QED BY <2>4, <2>5, <2>6, <2>7, <2>8, <2>9, <2>10, <2>11, <2>12, <2>13 DEF StreamInv,
     StreamsAreServed
<1>5. CASE /\ s # None /\ listeners' = [listeners EXCEPT ![s] = Remaining(c, s)]
           /\ UNCHANGED <<active, listening, toHost>>
  <2>1. s \in Stream /\ \A x \in Stream : listeners'[x] \subseteq listeners[x]
    BY <1>1, <1>2, <1>5 DEF TypeOK, Remaining
  <2>2. TypeOK'
    BY <1>1, <1>2, <1>5, <2>1 DEF TypeOK, Remaining
  <2>3. FreshStreams'
    BY <1>1, <1>2, <1>5, <2>1, UsedSame DEF FreshStreams, TypeOK
  <2>4. ListenersHoldIt'
    BY <1>1, <1>2, <1>5, <2>1 DEF ListenersHoldIt, TypeOK
  <2>5. /\ ListenersAreServed' /\ NoStreamForNobody' /\ TableIsLive' /\ CleanedOnce'
        /\ OneKeyPerStream' /\ TornDown' /\ StartsFirst' /\ EndsAreFinal' /\ CountsMatch'
    BY <1>1, <1>2, <1>5, <2>1 DEF ListenersAreServed, NoStreamForNobody, TableIsLive, CleanedOnce,
                                  OneKeyPerStream, TornDown, StartsFirst, EndsAreFinal,
                                  CountsMatch
  <2> QED BY <2>2, <2>3, <2>4, <2>5 DEF StreamInv, StreamsAreServed
<1> QED BY <1>3, <1>4, <1>5 DEF Unsubscribe

LEMMA OnInterruptStep ==
    ASSUME StreamInv, NEW c \in Caller, OnInterrupt(c)
    PROVE  StreamInv'
<1>1. /\ TypeOK /\ ListenersAreServed /\ NoStreamForNobody /\ TableIsLive /\ CleanedOnce
      /\ FreshStreams /\ OneKeyPerStream /\ ListenersHoldIt /\ TornDown
      /\ StartsFirst /\ EndsAreFinal /\ CountsMatch
  BY DEF StreamInv, StreamsAreServed
<1>2. /\ handle[c] # None /\ watching' = watching \cup {c}
      /\ told' = IF handle[c] \in latched THEN [told EXCEPT ![c] = @ + 1] ELSE told
      /\ UNCHANGED <<active, listening, listeners, handle, latched, left, heard, disposed, toHost,
                     toProduct, serving, hostDown, registered, started, threw, cleaned, sent, late>>
  BY DEF OnInterrupt, table, streams
<1>3. TypeOK'
  BY <1>1, <1>2 DEF TypeOK
<1>4. ListenersHoldIt'
  BY <1>1, <1>2 DEF ListenersHoldIt, TypeOK
<1>5. /\ ListenersAreServed' /\ NoStreamForNobody' /\ TableIsLive' /\ CleanedOnce'
      /\ FreshStreams' /\ OneKeyPerStream' /\ TornDown' /\ StartsFirst' /\ EndsAreFinal'
      /\ CountsMatch'
  BY <1>1, <1>2, UsedSame DEF ListenersAreServed, NoStreamForNobody, TableIsLive, CleanedOnce,
                              FreshStreams, OneKeyPerStream, TornDown, StartsFirst, EndsAreFinal,
                              CountsMatch
<1> QED BY <1>3, <1>4, <1>5 DEF StreamInv, StreamsAreServed

LEMMA TakeValueStep ==
    ASSUME StreamInv, TakeValue
    PROVE  StreamInv'
<1>1. /\ TypeOK /\ ListenersAreServed /\ NoStreamForNobody /\ TableIsLive /\ CleanedOnce
      /\ FreshStreams /\ OneKeyPerStream /\ ListenersHoldIt /\ TornDown
      /\ StartsFirst /\ EndsAreFinal /\ CountsMatch
  BY DEF StreamInv, StreamsAreServed
<1> DEFINE f == Head(toProduct)
<1>2. /\ toProduct # <<>> /\ f.leg = "receive" /\ toProduct' = Tail(toProduct)
      /\ heard' = [c \in Caller |->
                     IF f.id \in listening /\ c \in Hearers(f.id) THEN heard[c] + 1 ELSE heard[c]]
      /\ UNCHANGED <<active, listening, listeners, handle, latched, watching, told, left, disposed,
                     toHost, serving, hostDown, registered, started, threw, cleaned, sent, late>>
  BY DEF TakeValue, Arrives, table, interrupts, streams
<1>3. /\ f.id \in Stream /\ toProduct' \in Seq(Reported)
      /\ \A l, x : InTransit(toProduct, l, x) <=>
            (InTransit(toProduct', l, x) \/ (l = f.leg /\ x = f.id))
      /\ \A x : Count(toProduct, x) = Count(toProduct', x) +
            IF f.leg = "receive" /\ x = f.id THEN 1 ELSE 0
      /\ \A x : Count(toProduct', x) \in Nat
  BY <1>1, <1>2, ProductTakes
<1> HIDE DEF f
<1>4. /\ heard' \in [Caller -> Nat] /\ (toProduct = <<>> => toProduct' = <<>>)
  BY <1>1, <1>2 DEF TypeOK
<1>0. /\ \A x : Count(toProduct', x) <= Count(toProduct, x) /\ Count(toProduct, x) \in Nat
      /\ \A x \in Stream : sent[x] \in Nat
  <2>1. \A x : Count(toProduct', x) <= Count(toProduct, x) /\ Count(toProduct, x) \in Nat
    BY <1>3
  <2> QED BY <1>1, <2>1, SubscriptionAssumption DEF TypeOK
<1>5. TypeOK'
  BY <1>1, <1>2, <1>3, <1>4 DEF TypeOK, Reported
<1>6. ListenersAreServed'
  BY <1>1, <1>2, <1>3 DEF ListenersAreServed, TypeOK
<1>7. FreshStreams'
  BY <1>1, <1>2, <1>3, UsedSame DEF FreshStreams, TypeOK
<1>8. TornDown'
  BY <1>1, <1>2, <1>3, <1>4 DEF TornDown, TypeOK
<1>9. EndsAreFinal'
  BY <1>1, <1>2, <1>3 DEF EndsAreFinal, TypeOK
<1>10. CountsMatch'
  BY <1>1, <1>2, <1>3, <1>0 DEF CountsMatch, TypeOK
<1>11. /\ NoStreamForNobody' /\ TableIsLive' /\ CleanedOnce' /\ OneKeyPerStream'
       /\ ListenersHoldIt' /\ StartsFirst'
  BY <1>1, <1>2, <1>3 DEF NoStreamForNobody, TableIsLive, CleanedOnce, OneKeyPerStream,
                          ListenersHoldIt, StartsFirst
<1> QED BY <1>5, <1>6, <1>7, <1>8, <1>9, <1>10, <1>11 DEF StreamInv, StreamsAreServed

LEMMA TakeInterruptStep ==
    ASSUME StreamInv, TakeInterrupt
    PROVE  StreamInv'
<1>1. /\ TypeOK /\ ListenersAreServed /\ NoStreamForNobody /\ TableIsLive /\ CleanedOnce
      /\ FreshStreams /\ OneKeyPerStream /\ ListenersHoldIt /\ TornDown
      /\ StartsFirst /\ EndsAreFinal /\ CountsMatch
  BY DEF StreamInv, StreamsAreServed
<1> DEFINE f == Head(toProduct)
           s == f.id
<1>2. /\ toProduct # <<>> /\ f.leg = "interrupt" /\ toProduct' = Tail(toProduct)
      /\ UNCHANGED <<listeners, handle, left, watching, heard, disposed, toHost,
                     serving, hostDown, registered, started, threw, cleaned, sent, late>>
  BY DEF TakeInterrupt, Arrives, streams
<1>3. /\ s \in Stream /\ toProduct' \in Seq(Reported)
      /\ \A l, x : InTransit(toProduct, l, x) <=>
            (InTransit(toProduct', l, x) \/ (l = f.leg /\ x = f.id))
      /\ \A x : Count(toProduct, x) = Count(toProduct', x) +
            IF f.leg = "receive" /\ x = f.id THEN 1 ELSE 0
      /\ \A x : Count(toProduct', x) \in Nat
  BY <1>1, <1>2, ProductTakes
<1>4. CASE /\ s \in listening /\ StopSubscription(s) /\ latched' = latched \cup {s}
           /\ told' = [c \in Caller |-> IF c \in Watchers(s) THEN told[c] + 1 ELSE told[c]]
  <2> HIDE DEF f
  <2>1. /\ active' = [k \in Key |-> IF active[k] = s THEN None ELSE active[k]]
        /\ listening' = listening \ {s}
    BY <1>4 DEF StopSubscription
  <2>2. InTransit(toProduct, "interrupt", s) /\ s \in Used
    BY <1>1, <1>2, <1>3, <1>4 DEF FreshStreams
  <2>3. TypeOK'
    BY <1>1, <1>2, <1>3, <1>4, <2>1, <2>2, SMTT(30) DEF TypeOK, Reported
  <2>4. ListenersAreServed'
    BY <1>1, <1>2, <1>3, <1>4, <2>1, <2>2 DEF ListenersAreServed, TypeOK
  <2>5. NoStreamForNobody'
    BY <1>1, <1>2, <1>3, <1>4, <2>1, <2>2 DEF NoStreamForNobody, TypeOK, EndsAreFinal
  <2>6. TableIsLive'
    BY <1>1, <1>2, <1>3, <1>4, <2>1, <2>2 DEF TableIsLive, TypeOK
  <2>7. FreshStreams'
    BY <1>1, <1>2, <1>3, <1>4, <2>1, <2>2, UsedSame, SubscriptionAssumption DEF FreshStreams,
       TypeOK
  <2>8. OneKeyPerStream'
    BY <1>1, <1>2, <1>3, <1>4, <2>1, <2>2 DEF OneKeyPerStream, TypeOK
  <2>9. ListenersHoldIt'
    BY <1>1, <1>2, <1>3, <1>4, <2>1, <2>2 DEF ListenersHoldIt, TypeOK, Watchers
  <2>10. TornDown'
    BY <1>1, <1>2, <1>3, <1>4, <2>1, <2>2 DEF TornDown, TypeOK
  <2>11. StartsFirst'
    BY <1>1, <1>2, <1>3, <1>4, <2>1, <2>2 DEF StartsFirst, TypeOK, EndsAreFinal
  <2>12. EndsAreFinal'
    BY <1>1, <1>2, <1>3, <1>4, <2>1, <2>2 DEF EndsAreFinal, TypeOK
  <2>13. CountsMatch'
    BY <1>1, <1>2, <1>3, <1>4, <2>1, <2>2 DEF CountsMatch, TypeOK
  <2>14. CleanedOnce'
    BY <1>1, <1>2, <1>3, <1>4, <2>1, <2>2 DEF CleanedOnce
  <2> QED BY <2>3, <2>4, <2>5, <2>6, <2>7, <2>8, <2>9, <2>10, <2>11, <2>12, <2>13, <2>14 DEF StreamInv,
     StreamsAreServed
<1>5. CASE s \notin listening /\ UNCHANGED <<active, listening, latched, told>>
  <2> HIDE DEF f
  <2>1. TypeOK'
    BY <1>1, <1>2, <1>3, <1>5 DEF TypeOK, Reported
  <2>2. ListenersAreServed'
    BY <1>1, <1>2, <1>3, <1>5 DEF ListenersAreServed, TypeOK
  <2>3. FreshStreams'
    BY <1>1, <1>2, <1>3, <1>5, UsedSame DEF FreshStreams, TypeOK
  <2>4. TornDown'
    BY <1>1, <1>2, <1>3, <1>5 DEF TornDown, TypeOK
  <2>5. EndsAreFinal'
    BY <1>1, <1>2, <1>3, <1>5 DEF EndsAreFinal, TypeOK
  <2>6. CountsMatch'
    BY <1>1, <1>2, <1>3, <1>5 DEF CountsMatch, TypeOK
  <2>7. /\ NoStreamForNobody' /\ TableIsLive' /\ CleanedOnce' /\ OneKeyPerStream'
        /\ ListenersHoldIt' /\ StartsFirst'
    BY <1>1, <1>2, <1>3, <1>5 DEF NoStreamForNobody, TableIsLive, CleanedOnce, OneKeyPerStream,
                                  ListenersHoldIt, StartsFirst
  <2> QED BY <2>1, <2>2, <2>3, <2>4, <2>5, <2>6, <2>7 DEF StreamInv, StreamsAreServed
<1> QED BY <1>4, <1>5 DEF TakeInterrupt

LEMMA DestroyStep ==
    ASSUME StreamInv, Destroy
    PROVE  StreamInv'
<1>1. /\ TypeOK /\ ListenersAreServed /\ NoStreamForNobody /\ TableIsLive /\ CleanedOnce
      /\ FreshStreams /\ OneKeyPerStream /\ ListenersHoldIt /\ TornDown
      /\ StartsFirst /\ EndsAreFinal /\ CountsMatch
  BY DEF StreamInv, StreamsAreServed
<1>2. /\ disposed' = TRUE /\ listening' = {} /\ toProduct' = <<>>
      /\ UNCHANGED <<active, listeners, handle, latched, watching, told, left, heard, toHost,
                     serving, hostDown, registered, started, threw, cleaned, sent, late>>
  BY DEF Destroy, interrupts, streams
<1>3. /\ \A l, x : ~InTransit(<<>>, l, x)
      /\ \A x : Count(<<>>, x) = 0
  BY InTransitNone, CountNone DEF Count
<1>4. TypeOK'
  BY <1>1, <1>2, <1>3 DEF TypeOK
<1>5. ListenersAreServed'
  BY <1>1, <1>2, <1>3 DEF ListenersAreServed, TypeOK
<1>6. NoStreamForNobody'
  BY <1>1, <1>2, <1>3 DEF NoStreamForNobody, TypeOK
<1>7. TableIsLive'
  BY <1>1, <1>2, <1>3 DEF TableIsLive, TypeOK
<1>8. FreshStreams'
  BY <1>1, <1>2, <1>3, UsedSame DEF FreshStreams, TypeOK
<1>9. TornDown'
  BY <1>1, <1>2, <1>3 DEF TornDown, TypeOK
<1>10. StartsFirst'
  BY <1>1, <1>2, <1>3 DEF StartsFirst, TypeOK
<1>11. EndsAreFinal'
  BY <1>1, <1>2, <1>3 DEF EndsAreFinal, TypeOK
<1>12. CountsMatch'
  BY <1>1, <1>2, <1>3 DEF CountsMatch, TypeOK
<1>13. CleanedOnce' /\ OneKeyPerStream' /\ ListenersHoldIt'
  BY <1>1, <1>2, <1>3 DEF CleanedOnce, OneKeyPerStream, ListenersHoldIt
<1> QED BY <1>4, <1>5, <1>6, <1>7, <1>8, <1>9, <1>10, <1>11, <1>12, <1>13 DEF StreamInv,
   StreamsAreServed

LEMMA RefuseStartStep ==
    ASSUME StreamInv, RefuseStart
    PROVE  StreamInv'
<1>1. /\ TypeOK /\ ListenersAreServed /\ NoStreamForNobody /\ TableIsLive /\ CleanedOnce
      /\ FreshStreams /\ OneKeyPerStream /\ ListenersHoldIt /\ TornDown
      /\ StartsFirst /\ EndsAreFinal /\ CountsMatch
  BY DEF StreamInv, StreamsAreServed
<1> DEFINE f == Head(toHost)
           s == f.id
<1>2. /\ serving /\ toHost # <<>> /\ f.leg = "start" /\ toHost' = Tail(toHost)
      /\ toProduct' = ToProduct(Frame("interrupt", s))
      /\ UNCHANGED <<active, listening, listeners, handle, latched, watching, told, left, heard,
                     disposed, serving, hostDown, registered, started, threw, cleaned, sent, late>>
  BY DEF RefuseStart, Served, CleanUp, product, table, interrupts, streams
<1>3. /\ InTransit(toHost, "start", s)
      /\ f.id \in Stream /\ toHost' \in Seq(Hosted) /\ Ordered(toHost')
      /\ ~InTransit(toHost', "start", f.id)
      /\ \A l, x : InTransit(toHost, l, x) <=>
            (InTransit(toHost', l, x) \/ (l = f.leg /\ x = f.id))
  BY <1>1, <1>2, HostTakes DEF StartsFirst
<1>4. ~hostDown /\ s \in Used /\ s \in Stream
  BY <1>1, <1>2, <1>3 DEF TornDown, FreshStreams
<1> HIDE DEF f
<1>5. /\ toProduct' \in Seq(Reported) /\ (disposed => toProduct' = toProduct)
      /\ \A l, x : InTransit(toProduct', l, x) <=>
            \/ InTransit(toProduct, l, x)
            \/ ~disposed /\ ~hostDown /\ l = "interrupt" /\ x = s
      /\ \A x : Count(toProduct', x) = Count(toProduct, x)
      /\ \A x : Count(toProduct, x) \in Nat
  <2>1. \A x : Count(toProduct, x) \in Nat
    BY <1>1, CountType
  <2> QED BY <1>1, <1>2, <1>4, <2>1, ProductGets
<1>6. TypeOK'
  BY <1>1, <1>2, <1>3, <1>4, <1>5 DEF TypeOK, Hosted, Reported
<1>7. ListenersAreServed'
  BY <1>1, <1>2, <1>3, <1>4, <1>5 DEF ListenersAreServed, TypeOK, TornDown
<1>8. NoStreamForNobody'
  BY <1>1, <1>2, <1>3, <1>4, <1>5 DEF NoStreamForNobody, TypeOK
<1>9. FreshStreams'
  BY <1>1, <1>2, <1>3, <1>4, <1>5, UsedSame DEF FreshStreams, TypeOK
<1>10. TornDown'
  BY <1>1, <1>2, <1>3, <1>4, <1>5 DEF TornDown, TypeOK
<1>11. StartsFirst'
  BY <1>1, <1>2, <1>3, <1>4, <1>5 DEF StartsFirst, TypeOK
<1>12. EndsAreFinal'
  BY <1>1, <1>2, <1>3, <1>4, <1>5 DEF EndsAreFinal, TypeOK, StartsFirst
<1>13. CountsMatch'
  BY <1>1, <1>2, <1>3, <1>4, <1>5 DEF CountsMatch, TypeOK
<1>14. TableIsLive' /\ CleanedOnce' /\ OneKeyPerStream' /\ ListenersHoldIt'
  BY <1>1, <1>2, <1>3, <1>4, <1>5 DEF TableIsLive, CleanedOnce, OneKeyPerStream, ListenersHoldIt
<1> QED BY <1>6, <1>7, <1>8, <1>9, <1>10, <1>11, <1>12, <1>13, <1>14 DEF StreamInv,
   StreamsAreServed

LEMMA StartHandlerStep ==
    ASSUME StreamInv, StartHandler
    PROVE  StreamInv'
<1>1. /\ TypeOK /\ ListenersAreServed /\ NoStreamForNobody /\ TableIsLive /\ CleanedOnce
      /\ FreshStreams /\ OneKeyPerStream /\ ListenersHoldIt /\ TornDown
      /\ StartsFirst /\ EndsAreFinal /\ CountsMatch
  BY DEF StreamInv, StreamsAreServed
<1> DEFINE f == Head(toHost)
           s == f.id
<1>2. /\ serving /\ toHost # <<>> /\ f.leg = "start" /\ toHost' = Tail(toHost)
      /\ started' = started \cup {s}
      /\ UNCHANGED <<active, listening, listeners, handle, latched, watching, told, left, heard,
                     disposed, serving, hostDown, sent, late>>
  BY DEF StartHandler, Served, product, table, interrupts
<1>3. /\ InTransit(toHost, "start", s)
      /\ f.id \in Stream /\ toHost' \in Seq(Hosted) /\ Ordered(toHost')
      /\ ~InTransit(toHost', "start", f.id)
      /\ \A l, x : InTransit(toHost, l, x) <=>
            (InTransit(toHost', l, x) \/ (l = f.leg /\ x = f.id))
  BY <1>1, <1>2, HostTakes DEF StartsFirst
<1>4. ~hostDown /\ s \in Used /\ s \in Stream /\ s \notin started
  BY <1>1, <1>2, <1>3 DEF TornDown, FreshStreams, StartsFirst
<1>5. CASE registered' = registered \cup {s} /\ UNCHANGED <<threw, cleaned, toProduct>>
  <2> HIDE DEF f
  <2>1. TypeOK'
    BY <1>1, <1>2, <1>3, <1>4, <1>5 DEF TypeOK, Hosted
  <2>2. ListenersAreServed'
    BY <1>1, <1>2, <1>3, <1>4, <1>5 DEF ListenersAreServed, TypeOK
  <2>3. NoStreamForNobody'
    BY <1>1, <1>2, <1>3, <1>4, <1>5 DEF NoStreamForNobody, TypeOK, StartsFirst
  <2>4. CleanedOnce'
    BY <1>1, <1>2, <1>3, <1>4, <1>5 DEF CleanedOnce, TypeOK, CountsMatch
  <2>5. FreshStreams'
    BY <1>1, <1>2, <1>3, <1>4, <1>5, UsedSame DEF FreshStreams, TypeOK
  <2>6. TornDown'
    BY <1>1, <1>2, <1>3, <1>4, <1>5 DEF TornDown, TypeOK
  <2>7. StartsFirst'
    BY <1>1, <1>2, <1>3, <1>4, <1>5 DEF StartsFirst, TypeOK
  <2>8. EndsAreFinal'
    BY <1>1, <1>2, <1>3, <1>4, <1>5 DEF EndsAreFinal, TypeOK, StartsFirst
  <2>9. CountsMatch'
    BY <1>1, <1>2, <1>3, <1>4, <1>5 DEF CountsMatch, TypeOK
  <2>10. TableIsLive' /\ OneKeyPerStream' /\ ListenersHoldIt'
    BY <1>1, <1>2, <1>3, <1>4, <1>5 DEF TableIsLive, OneKeyPerStream, ListenersHoldIt
  <2> QED BY <2>1, <2>2, <2>3, <2>4, <2>5, <2>6, <2>7, <2>8, <2>9, <2>10 DEF StreamInv,
     StreamsAreServed
<1>6. CASE /\ cleaned' = [cleaned EXCEPT ![s] = @ + 1]
           /\ toProduct' = ToProduct(Frame("interrupt", s))
           /\ UNCHANGED <<registered, threw>>
  <2>1. /\ toProduct' \in Seq(Reported) /\ (disposed => toProduct' = toProduct)
        /\ \A l, x : InTransit(toProduct', l, x) <=>
              \/ InTransit(toProduct, l, x)
              \/ ~disposed /\ ~hostDown /\ l = "interrupt" /\ x = s
        /\ \A x : Count(toProduct', x) = Count(toProduct, x)
        /\ \A x : Count(toProduct, x) \in Nat
    <3>1. \A x : Count(toProduct, x) \in Nat
      BY <1>1, CountType
    <3> QED BY <1>1, <1>4, <1>6, <3>1, ProductGets
  <2>2. cleaned' \in [Stream -> Nat]
    BY <1>1, <1>4, <1>6 DEF TypeOK
  <2> HIDE DEF f
  <2>3. TypeOK'
    BY <1>1, <1>2, <1>3, <1>4, <1>6, <2>1, <2>2 DEF TypeOK, Hosted, Reported
  <2>4. ListenersAreServed'
    BY <1>1, <1>2, <1>3, <1>4, <1>6, <2>1 DEF ListenersAreServed, TypeOK, TornDown
  <2>5. NoStreamForNobody'
    BY <1>1, <1>2, <1>3, <1>4, <1>6, <2>1 DEF NoStreamForNobody, TypeOK, StartsFirst
  <2>6. CleanedOnce'
    BY <1>1, <1>2, <1>3, <1>4, <1>6, <2>1 DEF CleanedOnce, TypeOK, CountsMatch
  <2>7. FreshStreams'
    BY <1>1, <1>2, <1>3, <1>4, <1>6, <2>1, UsedSame DEF FreshStreams, TypeOK
  <2>8. TornDown'
    BY <1>1, <1>2, <1>3, <1>4, <1>6, <2>1 DEF TornDown, TypeOK
  <2>9. StartsFirst'
    BY <1>1, <1>2, <1>3, <1>4, <1>6, <2>1 DEF StartsFirst, TypeOK
  <2>10. EndsAreFinal'
    BY <1>1, <1>2, <1>3, <1>4, <1>6, <2>1 DEF EndsAreFinal, TypeOK, StartsFirst
  <2>11. CountsMatch'
    BY <1>1, <1>2, <1>3, <1>4, <1>6, <2>1 DEF CountsMatch, TypeOK
  <2>12. TableIsLive' /\ OneKeyPerStream' /\ ListenersHoldIt'
    BY <1>1, <1>2, <1>3, <1>4, <1>6, <2>1 DEF TableIsLive, OneKeyPerStream, ListenersHoldIt
  <2> QED BY <2>3, <2>4, <2>5, <2>6, <2>7, <2>8, <2>9, <2>10, <2>11, <2>12 DEF StreamInv,
     StreamsAreServed
<1>7. CASE threw' = threw \cup {s} /\ UNCHANGED <<registered, cleaned, toProduct>>
  <2> HIDE DEF f
  <2>1. TypeOK'
    BY <1>1, <1>2, <1>3, <1>4, <1>7 DEF TypeOK, Hosted
  <2>2. ListenersAreServed'
    BY <1>1, <1>2, <1>3, <1>4, <1>7 DEF ListenersAreServed, TypeOK
  <2>3. NoStreamForNobody'
    BY <1>1, <1>2, <1>3, <1>4, <1>7 DEF NoStreamForNobody, TypeOK, StartsFirst
  <2>4. CleanedOnce'
    BY <1>1, <1>2, <1>3, <1>4, <1>7 DEF CleanedOnce, TypeOK, CountsMatch
  <2>5. FreshStreams'
    BY <1>1, <1>2, <1>3, <1>4, <1>7, UsedSame DEF FreshStreams, TypeOK
  <2>6. TornDown'
    BY <1>1, <1>2, <1>3, <1>4, <1>7 DEF TornDown, TypeOK
  <2>7. StartsFirst'
    BY <1>1, <1>2, <1>3, <1>4, <1>7 DEF StartsFirst, TypeOK
  <2>8. EndsAreFinal'
    BY <1>1, <1>2, <1>3, <1>4, <1>7 DEF EndsAreFinal, TypeOK, StartsFirst
  <2>9. CountsMatch'
    BY <1>1, <1>2, <1>3, <1>4, <1>7 DEF CountsMatch, TypeOK
  <2>10. TableIsLive' /\ OneKeyPerStream' /\ ListenersHoldIt'
    BY <1>1, <1>2, <1>3, <1>4, <1>7 DEF TableIsLive, OneKeyPerStream, ListenersHoldIt
  <2> QED BY <2>1, <2>2, <2>3, <2>4, <2>5, <2>6, <2>7, <2>8, <2>9, <2>10 DEF StreamInv,
     StreamsAreServed
<1> QED BY <1>2, <1>5, <1>6, <1>7 DEF StartHandler

LEMMA StopHandlerStep ==
    ASSUME StreamInv, StopHandler
    PROVE  StreamInv'
<1>1. /\ TypeOK /\ ListenersAreServed /\ NoStreamForNobody /\ TableIsLive /\ CleanedOnce
      /\ FreshStreams /\ OneKeyPerStream /\ ListenersHoldIt /\ TornDown
      /\ StartsFirst /\ EndsAreFinal /\ CountsMatch
  BY DEF StreamInv, StreamsAreServed
<1> DEFINE f == Head(toHost)
           s == f.id
<1>2. /\ serving /\ toHost # <<>> /\ f.leg = "stop" /\ toHost' = Tail(toHost)
      /\ cleaned' = [x \in Stream |-> IF x \in {s} \cap registered THEN cleaned[x] + 1 ELSE cleaned[x]]
      /\ registered' = registered \ {s}
      /\ UNCHANGED <<active, listening, listeners, handle, latched, watching, told, left, heard,
                     disposed, toProduct, serving, hostDown, started, threw, sent, late>>
  BY DEF StopHandler, Served, CleanUp, product, table, interrupts, streams
<1>3. /\ InTransit(toHost, "stop", s)
      /\ f.id \in Stream /\ toHost' \in Seq(Hosted) /\ Ordered(toHost')
      /\ ~InTransit(toHost', "start", f.id)
      /\ \A l, x : InTransit(toHost, l, x) <=>
            (InTransit(toHost', l, x) \/ (l = f.leg /\ x = f.id))
  BY <1>1, <1>2, HostTakes DEF StartsFirst
<1>4. ~hostDown /\ s \in Used /\ s \in Stream
  BY <1>1, <1>2, <1>3 DEF TornDown, FreshStreams
<1> HIDE DEF f
<1>5. TypeOK'
  BY <1>1, <1>2, <1>3, <1>4, SMTT(30) DEF TypeOK, Hosted
<1>6. ListenersAreServed'
  BY <1>1, <1>2, <1>3, <1>4 DEF ListenersAreServed, TypeOK, EndsAreFinal
<1>7. NoStreamForNobody'
  BY <1>1, <1>2, <1>3, <1>4 DEF NoStreamForNobody, TypeOK
<1>8. CleanedOnce'
  BY <1>1, <1>2, <1>3, <1>4 DEF CleanedOnce, TypeOK
<1>9. FreshStreams'
  BY <1>1, <1>2, <1>3, <1>4, UsedSame DEF FreshStreams, TypeOK
<1>10. TornDown'
  BY <1>1, <1>2, <1>3, <1>4 DEF TornDown, TypeOK
<1>11. StartsFirst'
  BY <1>1, <1>2, <1>3, <1>4 DEF StartsFirst, TypeOK
<1>12. EndsAreFinal'
  BY <1>1, <1>2, <1>3, <1>4 DEF EndsAreFinal, TypeOK, StartsFirst
<1>13. CountsMatch'
  BY <1>1, <1>2, <1>3, <1>4 DEF CountsMatch, TypeOK
<1>14. TableIsLive' /\ OneKeyPerStream' /\ ListenersHoldIt'
  BY <1>1, <1>2, <1>3, <1>4 DEF TableIsLive, OneKeyPerStream, ListenersHoldIt
<1> QED BY <1>5, <1>6, <1>7, <1>8, <1>9, <1>10, <1>11, <1>12, <1>13, <1>14 DEF StreamInv,
   StreamsAreServed

LEMMA SendStep ==
    ASSUME StreamInv, NEW s \in Stream, Send(s)
    PROVE  StreamInv'
<1>1. /\ TypeOK /\ ListenersAreServed /\ NoStreamForNobody /\ TableIsLive /\ CleanedOnce
      /\ FreshStreams /\ OneKeyPerStream /\ ListenersHoldIt /\ TornDown
      /\ StartsFirst /\ EndsAreFinal /\ CountsMatch
  BY DEF StreamInv, StreamsAreServed
<1>2. /\ s \in started /\ ~hostDown /\ sent[s] < MaxValues
      /\ sent' = [sent EXCEPT ![s] = @ + 1]
      /\ toProduct' = ToProduct(Frame("receive", s))
      /\ UNCHANGED <<active, listening, listeners, handle, latched, watching, told, left, heard,
                     disposed, toHost, serving, hostDown, registered, started, threw, cleaned, late>>
  BY DEF Send, product, table, interrupts
<1>3. /\ toProduct' \in Seq(Reported) /\ (disposed => toProduct' = toProduct)
      /\ \A l, x : InTransit(toProduct', l, x) <=>
            \/ InTransit(toProduct, l, x)
            \/ ~disposed /\ ~hostDown /\ l = "receive" /\ x = s
      /\ \A x : Count(toProduct', x) = Count(toProduct, x) +
            IF ~disposed /\ ~hostDown /\ x = s THEN 1 ELSE 0
      /\ \A x : Count(toProduct, x) \in Nat
  <2>1. \A x : Count(toProduct, x) \in Nat
    BY <1>1, CountType
  <2> QED BY <1>1, <1>2, <2>1, ProductGets
<1>4. /\ s \in Used /\ sent[s] + 1 \in 0..MaxValues
      /\ \A x \in Stream : sent[x] \in Nat /\ sent'[x] = IF x = s THEN sent[x] + 1 ELSE sent[x]
  BY <1>1, <1>2, SubscriptionAssumption DEF FreshStreams, TypeOK
<1>5. TypeOK'
  BY <1>1, <1>2, <1>3, <1>4 DEF TypeOK, Reported
<1>6. ListenersAreServed'
  BY <1>1, <1>2, <1>3, <1>4 DEF ListenersAreServed, TypeOK
<1>7. FreshStreams'
  BY <1>1, <1>2, <1>3, <1>4, UsedSame DEF FreshStreams, TypeOK
<1>8. TornDown'
  BY <1>1, <1>2, <1>3, <1>4 DEF TornDown, TypeOK
<1>9. EndsAreFinal'
  BY <1>1, <1>2, <1>3, <1>4 DEF EndsAreFinal, TypeOK
<1>10. CountsMatch'
  BY <1>1, <1>2, <1>3, <1>4 DEF CountsMatch, TypeOK
<1>11. /\ NoStreamForNobody' /\ TableIsLive' /\ CleanedOnce' /\ OneKeyPerStream'
       /\ ListenersHoldIt' /\ StartsFirst'
  BY <1>1, <1>2, <1>3, <1>4 DEF NoStreamForNobody, TableIsLive, CleanedOnce, OneKeyPerStream,
                                ListenersHoldIt, StartsFirst
<1> QED BY <1>5, <1>6, <1>7, <1>8, <1>9, <1>10, <1>11 DEF StreamInv, StreamsAreServed

LEMMA InterruptStep ==
    ASSUME StreamInv, NEW s \in Stream, Interrupt(s)
    PROVE  StreamInv'
<1>1. /\ TypeOK /\ ListenersAreServed /\ NoStreamForNobody /\ TableIsLive /\ CleanedOnce
      /\ FreshStreams /\ OneKeyPerStream /\ ListenersHoldIt /\ TornDown
      /\ StartsFirst /\ EndsAreFinal /\ CountsMatch
  BY DEF StreamInv, StreamsAreServed
<1>2. /\ s \in registered /\ s \in started /\ s \in Used
      /\ registered' = registered \ {s}
      /\ UNCHANGED <<active, listening, listeners, handle, latched, watching, told, left, heard,
                     disposed, toHost, serving, hostDown, started, threw, sent, late>>
  BY <1>1 DEF Interrupt, CleanUp, product, table, interrupts, TypeOK, FreshStreams
<1>3. CASE ~hostDown /\ CleanUp({s}) /\ toProduct' = ToProduct(Frame("interrupt", s))
  <2>1. /\ toProduct' \in Seq(Reported) /\ (disposed => toProduct' = toProduct)
        /\ \A l, x : InTransit(toProduct', l, x) <=>
              \/ InTransit(toProduct, l, x)
              \/ ~disposed /\ ~hostDown /\ l = "interrupt" /\ x = s
        /\ \A x : Count(toProduct', x) = Count(toProduct, x)
        /\ \A x : Count(toProduct, x) \in Nat
    <3>1. \A x : Count(toProduct, x) \in Nat
      BY <1>1, CountType
    <3> QED BY <1>1, <1>3, <3>1, ProductGets
  <2>2. cleaned' = [x \in Stream |-> IF x = s THEN cleaned[x] + 1 ELSE cleaned[x]]
    BY <1>2, <1>3 DEF CleanUp
  <2>3. TypeOK'
    BY <1>1, <1>2, <1>3, <2>1, <2>2 DEF TypeOK, Reported
  <2>4. ListenersAreServed'
    BY <1>1, <1>2, <1>3, <2>1, <2>2 DEF ListenersAreServed, TypeOK, TornDown
  <2>5. NoStreamForNobody'
    BY <1>1, <1>2, <1>3, <2>1, <2>2 DEF NoStreamForNobody, TypeOK
  <2>6. CleanedOnce'
    BY <1>1, <1>2, <1>3, <2>1, <2>2 DEF CleanedOnce, TypeOK
  <2>7. FreshStreams'
    BY <1>1, <1>2, <1>3, <2>1, <2>2, UsedSame DEF FreshStreams, TypeOK
  <2>8. TornDown'
    BY <1>1, <1>2, <1>3, <2>1, <2>2 DEF TornDown, TypeOK
  <2>9. EndsAreFinal'
    BY <1>1, <1>2, <1>3, <2>1, <2>2 DEF EndsAreFinal, TypeOK, StartsFirst
  <2>10. CountsMatch'
    BY <1>1, <1>2, <1>3, <2>1, <2>2 DEF CountsMatch, TypeOK
  <2>11. TableIsLive' /\ OneKeyPerStream' /\ ListenersHoldIt' /\ StartsFirst'
    BY <1>1, <1>2, <1>3, <2>1, <2>2 DEF TableIsLive, OneKeyPerStream, ListenersHoldIt, StartsFirst
  <2> QED BY <2>3, <2>4, <2>5, <2>6, <2>7, <2>8, <2>9, <2>10, <2>11 DEF StreamInv,
     StreamsAreServed
<1>4. CASE hostDown /\ UNCHANGED <<cleaned, toProduct>>
  <2>1. TypeOK'
    BY <1>1, <1>2, <1>4 DEF TypeOK
  <2>2. ListenersAreServed'
    BY <1>1, <1>2, <1>4 DEF ListenersAreServed, TypeOK, TornDown
  <2>3. NoStreamForNobody'
    BY <1>1, <1>2, <1>4 DEF NoStreamForNobody, TypeOK
  <2>4. CleanedOnce'
    BY <1>1, <1>2, <1>4 DEF CleanedOnce, TypeOK
  <2>5. EndsAreFinal'
    BY <1>1, <1>2, <1>4 DEF EndsAreFinal, TypeOK
  <2>6. /\ TableIsLive' /\ FreshStreams' /\ OneKeyPerStream' /\ ListenersHoldIt' /\ TornDown'
        /\ StartsFirst' /\ CountsMatch'
    BY <1>1, <1>2, <1>4, UsedSame DEF TableIsLive, FreshStreams, OneKeyPerStream, ListenersHoldIt,
                                      TornDown, StartsFirst, CountsMatch
  <2> QED BY <2>1, <2>2, <2>3, <2>4, <2>5, <2>6 DEF StreamInv, StreamsAreServed
<1> QED BY <1>3, <1>4 DEF Interrupt

LEMMA InterruptAgainStep ==
    ASSUME StreamInv, NEW s \in Stream, InterruptAgain(s)
    PROVE  StreamInv'
<1>1. /\ TypeOK /\ ListenersAreServed /\ NoStreamForNobody /\ TableIsLive /\ CleanedOnce
      /\ FreshStreams /\ OneKeyPerStream /\ ListenersHoldIt /\ TornDown
      /\ StartsFirst /\ EndsAreFinal /\ CountsMatch
  BY DEF StreamInv, StreamsAreServed
<1>2. /\ s \in started /\ s \notin registered /\ ~hostDown /\ s \in Used
      /\ late' = late \cup {s} /\ toProduct' = ToProduct(Frame("interrupt", s))
      /\ UNCHANGED <<active, listening, listeners, handle, latched, watching, told, left, heard,
                     disposed, toHost, serving, hostDown, registered, started, threw, cleaned, sent>>
  BY <1>1 DEF InterruptAgain, product, table, interrupts, FreshStreams
<1>3. /\ toProduct' \in Seq(Reported) /\ (disposed => toProduct' = toProduct)
      /\ \A l, x : InTransit(toProduct', l, x) <=>
            \/ InTransit(toProduct, l, x)
            \/ ~disposed /\ ~hostDown /\ l = "interrupt" /\ x = s
      /\ \A x : Count(toProduct', x) = Count(toProduct, x)
      /\ \A x : Count(toProduct, x) \in Nat
  <2>1. \A x : Count(toProduct, x) \in Nat
    BY <1>1, CountType
  <2> QED BY <1>1, <1>2, <2>1, ProductGets
<1>4. TypeOK'
  BY <1>1, <1>2, <1>3 DEF TypeOK, Reported
<1>5. ListenersAreServed'
  BY <1>1, <1>2, <1>3 DEF ListenersAreServed, TypeOK
<1>6. FreshStreams'
  BY <1>1, <1>2, <1>3, UsedSame DEF FreshStreams, TypeOK
<1>7. TornDown'
  BY <1>1, <1>2, <1>3 DEF TornDown, TypeOK
<1>8. EndsAreFinal'
  BY <1>1, <1>2, <1>3 DEF EndsAreFinal, TypeOK, StartsFirst
<1>9. CountsMatch'
  BY <1>1, <1>2, <1>3 DEF CountsMatch, TypeOK
<1>10. /\ NoStreamForNobody' /\ TableIsLive' /\ CleanedOnce' /\ OneKeyPerStream'
       /\ ListenersHoldIt' /\ StartsFirst'
  BY <1>1, <1>2, <1>3 DEF NoStreamForNobody, TableIsLive, CleanedOnce, OneKeyPerStream,
                          ListenersHoldIt, StartsFirst
<1> QED BY <1>4, <1>5, <1>6, <1>7, <1>8, <1>9, <1>10 DEF StreamInv, StreamsAreServed

LEMMA UninstallStep ==
    ASSUME StreamInv, Uninstall
    PROVE  StreamInv'
<1>1. /\ TypeOK /\ ListenersAreServed /\ NoStreamForNobody /\ TableIsLive /\ CleanedOnce
      /\ FreshStreams /\ OneKeyPerStream /\ ListenersHoldIt /\ TornDown
      /\ StartsFirst /\ EndsAreFinal /\ CountsMatch
  BY DEF StreamInv, StreamsAreServed
<1>2. /\ serving' = FALSE /\ toHost' = <<>> /\ registered' = {}
      /\ cleaned' = [x \in Stream |-> IF x \in registered THEN cleaned[x] + 1 ELSE cleaned[x]]
      /\ UNCHANGED <<active, listening, listeners, handle, latched, watching, told, left, heard,
                     disposed, toProduct, hostDown, started, threw, sent, late>>
  BY DEF Uninstall, CleanUp, product, table, interrupts
<1>0. cleaned' \in [Stream -> Nat]
  BY <1>1, <1>2 DEF TypeOK
<1>3. (\A l, x : ~InTransit(<<>>, l, x)) /\ Ordered(<<>>) /\ <<>> \in Seq(Hosted)
  BY InTransitNone DEF Ordered
<1>4. TypeOK'
  BY <1>1, <1>2, <1>3, <1>0 DEF TypeOK, Hosted
<1>5. ListenersAreServed'
  BY <1>1, <1>2, <1>3 DEF ListenersAreServed, TypeOK
<1>6. NoStreamForNobody'
  BY <1>1, <1>2, <1>3 DEF NoStreamForNobody, TypeOK
<1>7. CleanedOnce'
  BY <1>1, <1>2, <1>3 DEF CleanedOnce, TypeOK
<1>8. FreshStreams'
  BY <1>1, <1>2, <1>3, UsedSame DEF FreshStreams, TypeOK
<1>9. TornDown'
  BY <1>1, <1>2, <1>3 DEF TornDown, TypeOK
<1>10. StartsFirst'
  BY <1>1, <1>2, <1>3 DEF StartsFirst, TypeOK
<1>11. EndsAreFinal'
  BY <1>1, <1>2, <1>3 DEF EndsAreFinal, TypeOK
<1>12. CountsMatch'
  BY <1>1, <1>2, <1>3 DEF CountsMatch, TypeOK
<1>13. TableIsLive' /\ OneKeyPerStream' /\ ListenersHoldIt'
  BY <1>1, <1>2, <1>3 DEF TableIsLive, OneKeyPerStream, ListenersHoldIt
<1> QED BY <1>4, <1>5, <1>6, <1>7, <1>8, <1>9, <1>10, <1>11, <1>12, <1>13 DEF StreamInv,
   StreamsAreServed

LEMMA DestroyHostStep ==
    ASSUME StreamInv, DestroyHost
    PROVE  StreamInv'
<1>1. /\ TypeOK /\ ListenersAreServed /\ NoStreamForNobody /\ TableIsLive /\ CleanedOnce
      /\ FreshStreams /\ OneKeyPerStream /\ ListenersHoldIt /\ TornDown
      /\ StartsFirst /\ EndsAreFinal /\ CountsMatch
  BY DEF StreamInv, StreamsAreServed
<1>2. /\ hostDown' = TRUE /\ serving' = FALSE /\ toHost' = <<>>
      /\ UNCHANGED <<active, listening, listeners, handle, latched, watching, told, left, heard,
                     disposed, toProduct, registered, started, threw, cleaned, sent, late>>
  BY DEF DestroyHost, product, table, interrupts, streams
<1>3. (\A l, x : ~InTransit(<<>>, l, x)) /\ Ordered(<<>>) /\ <<>> \in Seq(Hosted)
  BY InTransitNone DEF Ordered
<1>4. TypeOK'
  BY <1>1, <1>2, <1>3 DEF TypeOK, Hosted
<1>5. ListenersAreServed'
  BY <1>1, <1>2, <1>3 DEF ListenersAreServed, TypeOK
<1>6. NoStreamForNobody'
  BY <1>1, <1>2, <1>3 DEF NoStreamForNobody, TypeOK
<1>7. CleanedOnce'
  BY <1>1, <1>2, <1>3 DEF CleanedOnce, TypeOK
<1>8. FreshStreams'
  BY <1>1, <1>2, <1>3, UsedSame DEF FreshStreams, TypeOK
<1>9. TornDown'
  BY <1>1, <1>2, <1>3 DEF TornDown, TypeOK
<1>10. StartsFirst'
  BY <1>1, <1>2, <1>3 DEF StartsFirst, TypeOK
<1>11. EndsAreFinal'
  BY <1>1, <1>2, <1>3 DEF EndsAreFinal, TypeOK
<1>12. TableIsLive' /\ OneKeyPerStream' /\ ListenersHoldIt' /\ CountsMatch'
  BY <1>1, <1>2, <1>3 DEF TableIsLive, OneKeyPerStream, ListenersHoldIt, CountsMatch
<1> QED BY <1>4, <1>5, <1>6, <1>7, <1>8, <1>9, <1>10, <1>11, <1>12 DEF StreamInv, StreamsAreServed

LEMMA InitStreamInv == Init => StreamInv
<1> SUFFICES ASSUME Init PROVE StreamInv
  OBVIOUS
<1>1. /\ TypeOK /\ toHost = <<>> /\ toProduct = <<>>
  <2>1. /\ active \in [Key -> Stream \cup {None}] /\ handle \in [Caller -> Stream \cup {None}]
        /\ listeners \in [Stream -> SUBSET Caller] /\ told \in [Caller -> Nat]
        /\ heard \in [Caller -> Nat] /\ cleaned \in [Stream -> Nat]
        /\ sent \in [Stream -> 0..MaxValues]
    BY SubscriptionAssumption DEF Init
  <2>2. /\ listening = {} /\ latched = {} /\ watching = {} /\ left = {} /\ registered = {}
        /\ started = {} /\ threw = {} /\ late = {} /\ {disposed, serving, hostDown} \subseteq BOOLEAN
        /\ toHost = <<>> /\ toProduct = <<>>
    BY DEF Init
  <2> QED BY <2>1, <2>2 DEF TypeOK
<1>2. (\A l, x : ~InTransit(<<>>, l, x)) /\ Ordered(<<>>) /\ \A x : Count(<<>>, x) = 0
  BY InTransitNone, CountNone DEF Ordered, Count
<1>3. ListenersAreServed /\ NoStreamForNobody /\ TableIsLive /\ CleanedOnce
  BY DEF Init, ListenersAreServed, NoStreamForNobody, TableIsLive, CleanedOnce
<1>4. FreshStreams /\ OneKeyPerStream /\ ListenersHoldIt /\ TornDown
  BY <1>1, <1>2, SubscriptionAssumption
     DEF Init, FreshStreams, OneKeyPerStream, ListenersHoldIt, TornDown
<1>5. StartsFirst /\ EndsAreFinal /\ CountsMatch
  BY <1>1, <1>2 DEF Init, StartsFirst, EndsAreFinal, CountsMatch
<1> QED BY <1>1, <1>3, <1>4, <1>5 DEF StreamInv, StreamsAreServed

LEMMA StreamStutter ==
    ASSUME StreamInv, UNCHANGED vars
    PROVE  StreamInv'
<1>1. UNCHANGED <<active, listening, listeners, handle, latched, watching, told, left, heard,
                 disposed, toHost, toProduct, serving, hostDown, registered, started, threw,
                 cleaned, sent, late>>
  BY DEF vars, product, table, interrupts, streams
<1>2. TypeOK' /\ ListenersAreServed' /\ NoStreamForNobody' /\ TableIsLive' /\ CleanedOnce'
  BY <1>1 DEF StreamInv, StreamsAreServed, TypeOK, ListenersAreServed, NoStreamForNobody,
              TableIsLive, CleanedOnce
<1>3. FreshStreams' /\ OneKeyPerStream' /\ ListenersHoldIt' /\ TornDown'
  BY <1>1, UsedSame DEF StreamInv, FreshStreams, OneKeyPerStream, ListenersHoldIt, TornDown
<1>4. StartsFirst' /\ EndsAreFinal' /\ CountsMatch'
  BY <1>1 DEF StreamInv, StartsFirst, EndsAreFinal, CountsMatch
<1> QED BY <1>2, <1>3, <1>4 DEF StreamInv, StreamsAreServed

\* The strengthened invariant holds however the two ends and their frames cross.
THEOREM StreamInvariant == Spec => []StreamInv
<1>1. StreamInv /\ [Next]_vars => StreamInv'
  <2> SUFFICES ASSUME StreamInv, [Next]_vars PROVE StreamInv'
    OBVIOUS
  <2>1. CASE UNCHANGED vars
    BY <2>1, StreamStutter
  <2>2. CASE Next
    BY <2>2, JoinStep, OpenStep, UnsubscribeStep, OnInterruptStep, TakeValueStep,
       TakeInterruptStep, DestroyStep, RefuseStartStep, StartHandlerStep, StopHandlerStep,
       UninstallStep, DestroyHostStep, SendStep, InterruptStep, InterruptAgainStep DEF Next
  <2> QED BY <2>1, <2>2
<1> QED BY InitStreamInv, <1>1, PTL DEF Spec

\* Product and host agree on which streams run, for any callers, payloads,
\* streams and values, and however starts, stops, interrupts and the
\* teardown of either end cross: a stream that is listened to is served, none
\* is served for nobody, and each handler is cleaned up once.
THEOREM StreamsAlwaysServed == Spec => []StreamsAreServed
BY StreamInvariant, PTL DEF StreamInv

-----------------------------------------------------------------------------
(* The callers. *)

LEMMA Attached ==
    ASSUME StreamInv, NEW c \in Caller, handle[c] = None, NEW s \in Stream,
           handle' = [handle EXCEPT ![c] = s],
           listeners' = [listeners EXCEPT ![s] = @ \cup {c}]
    PROVE  /\ \A d \in Caller : handle'[d] = IF d = c THEN s ELSE handle[d]
           /\ \A d \in Caller, x \in Stream : d \in listeners'[x] <=>
                 \/ d \in listeners[x]
                 \/ d = c /\ x = s
           /\ c \notin watching
BY DEF StreamInv, StreamsAreServed, TypeOK, ListenersHoldIt

\* Nobody is told of an interrupt twice, or misses one it asked for.
LEMMA WatchersStep ==
    ASSUME StreamInv, WatchersAreTold, [Next]_vars
    PROVE  WatchersAreTold'
<1>1. TypeOK /\ FreshStreams /\ ListenersHoldIt
  BY DEF StreamInv, StreamsAreServed
<1>2. ASSUME NEW c \in Caller, Join(c) \/ \E s \in Stream : Open(c, s)
      PROVE  WatchersAreTold'
  <2>1. c \notin watching /\ \A d \in Caller \ {c} : handle'[d] = handle[d]
    BY <1>1, <1>2 DEF Join, Open, Attach, ListenersHoldIt, TypeOK
  <2>2. UNCHANGED <<latched, watching, told>>
    BY <1>2 DEF Join, Open, interrupts
  <2> QED BY <1>1, <2>1, <2>2 DEF WatchersAreTold, TypeOK
<1>3. ASSUME NEW c \in Caller, OnInterrupt(c)
      PROVE  WatchersAreTold'
  <2>1. /\ c \notin watching /\ watching' = watching \cup {c} /\ told[c] = 0
        /\ told' = IF handle[c] \in latched THEN [told EXCEPT ![c] = @ + 1] ELSE told
        /\ UNCHANGED <<handle, latched>>
    BY <1>1, <1>3 DEF OnInterrupt, table, ListenersHoldIt
  <2> QED BY <1>1, <2>1 DEF WatchersAreTold, TypeOK
<1>4. ASSUME TakeInterrupt
      PROVE  WatchersAreTold'
  <2> DEFINE s == Head(toProduct).id
  <2>1. CASE s \notin listening /\ UNCHANGED <<active, listening, latched, told>>
    <3>1. UNCHANGED <<handle, watching, told, latched>>
      BY <1>4, <2>1 DEF TakeInterrupt
    <3> QED BY <3>1 DEF WatchersAreTold
  <2>2. CASE /\ s \in listening /\ latched' = latched \cup {s}
             /\ told' = [c \in Caller |-> IF c \in Watchers(s) THEN told[c] + 1 ELSE told[c]]
    <3>1. UNCHANGED <<handle, watching>> /\ s \notin latched
      BY <1>1, <1>4, <2>2 DEF TakeInterrupt, TypeOK
    <3> HIDE DEF s
    <3> QED BY <1>1, <2>2, <3>1 DEF WatchersAreTold, Watchers, TypeOK
  <2> QED BY <1>4, <2>1, <2>2 DEF TakeInterrupt
<1>5. CASE UNCHANGED <<handle, latched, watching, told>>
  BY <1>5 DEF WatchersAreTold
<1>6. CASE UNCHANGED vars
  BY <1>5, <1>6 DEF vars, product, table, interrupts
<1>7. ASSUME NEW c \in Caller, Unsubscribe(c)
      PROVE  UNCHANGED <<handle, latched, watching, told>>
  BY <1>7 DEF Unsubscribe, interrupts
<1>8. ASSUME TakeValue \/ Destroy
      PROVE  UNCHANGED <<handle, latched, watching, told>>
  BY <1>8 DEF TakeValue, Destroy, table, interrupts
<1>9. ASSUME RefuseStart \/ StartHandler \/ StopHandler \/ Uninstall \/ DestroyHost
      PROVE  UNCHANGED <<handle, latched, watching, told>>
  BY <1>9 DEF RefuseStart, StartHandler, StopHandler, Uninstall, DestroyHost, product, table,
              interrupts
<1>10. ASSUME NEW s \in Stream, Send(s) \/ Interrupt(s) \/ InterruptAgain(s)
       PROVE  UNCHANGED <<handle, latched, watching, told>>
  BY <1>10 DEF Send, Interrupt, InterruptAgain, product, table, interrupts
<1> QED BY <1>2, <1>3, <1>4, <1>5, <1>6, <1>7, <1>8, <1>9, <1>10 DEF Next

\* The values a caller that listens has heard and those on their way to it.
Hears ==
    \A c \in Caller : handle[c] \in listening /\ c \in listeners[handle[c]] =>
        heard[c] + Count(toProduct, handle[c]) = sent[handle[c]]

LEMMA HearsIsHears == HearsEveryValue <=> Hears
BY DEF HearsEveryValue, Hears, ValuesInTransit, Count, Places

\* Steps that take nobody's value and send none.
LEMMA HearsKept ==
    ASSUME Hears, UNCHANGED <<handle, heard, sent>>, listening' \subseteq listening,
           listening \subseteq Stream, \A s \in Stream : listeners'[s] \subseteq listeners[s],
           \A s \in listening : Count(toProduct', s) = Count(toProduct, s) \/ s \notin listening'
    PROVE  Hears'
BY DEF Hears

LEMMA InterruptUncounted ==
    ASSUME TypeOK, NEW s \in Stream, toProduct' = ToProduct(Frame("interrupt", s))
    PROVE  \A x : Count(toProduct', x) = Count(toProduct, x)
<1>1. \A x : Count(toProduct, x) \in Nat
  BY CountType
<1> QED BY <1>1, ProductGets

LEMMA HearsStep ==
    ASSUME StreamInv, HearsEveryValue, [Next]_vars
    PROVE  HearsEveryValue'
<1>1. /\ TypeOK /\ FreshStreams /\ ListenersHoldIt /\ CountsMatch /\ TornDown /\ TableIsLive
      /\ listening \subseteq Stream /\ toHost \in Seq(Hosted)
  BY HostedType DEF StreamInv, StreamsAreServed, TypeOK
<1>2. Hears /\ (Hears' => HearsEveryValue')
  BY HearsIsHears DEF HearsEveryValue, Hears, ValuesInTransit, Count, Places
<1>3. \A x : Count(toProduct, x) = ValuesInTransit(x) /\ Count(toProduct, x) \in Nat
  BY <1>1, CountType DEF Count, Places, ValuesInTransit
<1>4. ASSUME NEW c \in Caller, Join(c) \/ \E s \in Stream : Open(c, s)
      PROVE  Hears'
  <2>1. PICK s \in Stream : /\ handle[c] = None /\ Attach(c, s)
                            /\ listening' \subseteq listening \cup {s}
                            /\ UNCHANGED <<toProduct, sent>>
                            /\ s \in listening \/ s \notin Used
    BY <1>1, <1>4, SubscriptionAssumption
       DEF Join, Open, streams, TableIsLive, TypeOK, Used
  <2>2. /\ handle' = [handle EXCEPT ![c] = s] /\ listeners' = [listeners EXCEPT ![s] = @ \cup {c}]
        /\ heard' = [heard EXCEPT ![c] = sent[s] - Count(toProduct, s)]
    BY <1>3, <2>1 DEF Attach
  <2>3. /\ \A d \in Caller : handle'[d] = IF d = c THEN s ELSE handle[d]
        /\ \A d \in Caller, x \in Stream : d \in listeners'[x] <=>
              \/ d \in listeners[x]
              \/ d = c /\ x = s
    BY <2>1, <2>2, Attached
  <2>4. /\ \A d \in Caller : heard'[d] = IF d = c THEN sent[s] - Count(toProduct, s) ELSE heard[d]
        /\ sent[s] \in Nat
    BY <1>1, <2>2, SubscriptionAssumption DEF TypeOK
  <2> SUFFICES ASSUME NEW d \in Caller, handle'[d] \in listening', d \in listeners'[handle'[d]]
               PROVE  heard'[d] + Count(toProduct', handle'[d]) = sent'[handle'[d]]
    BY DEF Hears
  <2>5. CASE d = c
    <3>1. Count(toProduct, s) \in Nat
      BY <1>3
    <3> QED BY <2>1, <2>3, <2>4, <2>5, <3>1
  <2>6. CASE d # c
    <3>1. handle'[d] = handle[d] /\ handle[d] \in Used /\ handle[d] \in Stream
      BY <1>1, <2>1, <2>3, <2>6 DEF Used
    <3>2. handle[d] \in listening /\ d \in listeners[handle[d]]
      BY <2>1, <2>3, <2>6, <3>1
    <3> QED BY <1>2, <2>1, <2>4, <2>6, <3>1, <3>2 DEF Hears
  <2> QED BY <2>5, <2>6
<1>5. ASSUME TakeValue
      PROVE  Hears'
  <2> DEFINE f == Head(toProduct)
  <2>1. /\ toProduct # <<>> /\ f.leg = "receive" /\ toProduct' = Tail(toProduct)
        /\ heard' = [c \in Caller |->
                       IF f.id \in listening /\ c \in Hearers(f.id) THEN heard[c] + 1 ELSE heard[c]]
        /\ UNCHANGED <<handle, listening, listeners, sent>>
    BY <1>5 DEF TakeValue, Arrives, table, streams
  <2>2. /\ \A x : Count(toProduct, x) = Count(toProduct', x) +
              IF f.leg = "receive" /\ x = f.id THEN 1 ELSE 0
        /\ \A x : Count(toProduct', x) \in Nat
    BY <1>1, <2>1, ProductTakes
  <2> HIDE DEF f
  <2> SUFFICES ASSUME NEW c \in Caller, handle[c] \in listening, c \in listeners[handle[c]]
               PROVE  heard'[c] + Count(toProduct', handle[c]) = sent[handle[c]]
    BY <2>1 DEF Hears
  <2>3. heard[c] + Count(toProduct, handle[c]) = sent[handle[c]] /\ heard[c] \in Nat
    BY <1>1, <1>2 DEF Hears, TypeOK
  <2>4. CASE f.id = handle[c]
    <3>1. heard'[c] = heard[c] + 1 /\ Count(toProduct, handle[c]) = Count(toProduct', handle[c]) + 1
      BY <2>1, <2>2, <2>4 DEF Hearers
    <3> QED BY <2>2, <2>3, <3>1
  <2>5. CASE f.id # handle[c]
    <3>1. f.id \in listening => c \notin listeners[f.id]
      BY <1>1, <2>5 DEF ListenersHoldIt
    <3>2. heard'[c] = heard[c]
      BY <2>1, <3>1 DEF Hearers
    <3>3. Count(toProduct, handle[c]) = Count(toProduct', handle[c]) + 0
      BY <2>2, <2>5
    <3> QED BY <2>2, <2>3, <3>2, <3>3
  <2> QED BY <2>4, <2>5
<1>6. ASSUME TakeInterrupt
      PROVE  Hears'
  <2> DEFINE f == Head(toProduct)
  <2>1. /\ toProduct # <<>> /\ f.leg = "interrupt" /\ toProduct' = Tail(toProduct)
        /\ listening' \subseteq listening /\ UNCHANGED <<handle, listeners, heard, sent>>
    BY <1>6 DEF TakeInterrupt, Arrives, streams, StopSubscription
  <2>2. \A x : Count(toProduct, x) = Count(toProduct', x) + 0 /\ Count(toProduct', x) \in Nat
    BY <1>1, <2>1, ProductTakes
  <2>3. \A x : Count(toProduct', x) = Count(toProduct, x)
    BY <2>2
  <2> HIDE DEF f
  <2> QED BY <1>1, <1>2, <2>1, <2>3, HearsKept
<1>7. ASSUME NEW c \in Caller, Unsubscribe(c)
      PROVE  Hears'
  <2>1. /\ UNCHANGED <<handle, heard, sent, toProduct>> /\ listening' \subseteq listening
        /\ \A s \in Stream : listeners'[s] \subseteq listeners[s]
    BY <1>1, <1>7 DEF Unsubscribe, Kill, streams, Remaining, TypeOK
  <2> QED BY <1>1, <1>2, <2>1, HearsKept
<1>8. ASSUME Destroy
      PROVE  Hears'
  BY <1>8 DEF Destroy, Hears
<1>9. ASSUME NEW s \in Stream, toProduct' = ToProduct(Frame("interrupt", s)) \/ UNCHANGED toProduct,
             UNCHANGED <<handle, heard, sent, listening, listeners>>
      PROVE  Hears'
  <2>1. \A x : Count(toProduct', x) = Count(toProduct, x)
    BY <1>1, <1>9, InterruptUncounted
  <2> QED BY <1>1, <1>2, <1>9, <2>1, HearsKept
<1>10. ASSUME UNCHANGED <<handle, heard, sent, listening, listeners, toProduct>>
       PROVE  Hears'
  BY <1>1, <1>2, <1>10, HearsKept
<1>11. ASSUME RefuseStart \/ StartHandler
       PROVE  Hears'
  <2>1. toHost # <<>> /\ Head(toHost).id \in Stream
    <3>1. toHost # <<>>
      BY <1>11 DEF RefuseStart, StartHandler, Served
    <3>2. Head(toHost) \in Hosted
      BY <1>1, <3>1, HeadTailProperties
    <3> QED BY <3>1, <3>2 DEF Hosted
  <2>2. /\ UNCHANGED <<handle, heard, sent, listening, listeners>>
        /\ \/ toProduct' = ToProduct(Frame("interrupt", Head(toHost).id))
           \/ UNCHANGED toProduct
    BY <1>11 DEF RefuseStart, StartHandler, product, table, streams
  <2> QED BY <1>9, <2>1, <2>2
<1>12. ASSUME NEW s \in Stream, Send(s)
       PROVE  Hears'
  <2>1. /\ ~hostDown /\ sent' = [sent EXCEPT ![s] = @ + 1]
        /\ toProduct' = ToProduct(Frame("receive", s))
        /\ UNCHANGED <<handle, heard, listening, listeners>>
    BY <1>12 DEF Send, product, table
  <2>2. \A x : Count(toProduct', x) = Count(toProduct, x) +
                 IF ~disposed /\ x = s THEN 1 ELSE 0
    BY <1>1, <2>1, ProductGets
  <2> SUFFICES ASSUME NEW c \in Caller, handle[c] \in listening, c \in listeners[handle[c]]
               PROVE  heard[c] + Count(toProduct', handle[c]) = sent'[handle[c]]
    BY <2>1 DEF Hears
  <2>3. /\ heard[c] + Count(toProduct, handle[c]) = sent[handle[c]] /\ heard[c] \in Nat
        /\ Count(toProduct, handle[c]) \in Nat /\ sent[handle[c]] \in Nat /\ ~disposed
        /\ sent'[handle[c]] = sent[handle[c]] + IF handle[c] = s THEN 1 ELSE 0
    <3>1. ~disposed
      BY <1>1 DEF TornDown
    <3>2. handle[c] \in Stream /\ heard[c] \in Nat
      BY <1>1 DEF TypeOK
    <3>3. sent \in [Stream -> Nat]
      BY <1>1, SubscriptionAssumption DEF TypeOK
    <3>4. sent'[handle[c]] = sent[handle[c]] + IF handle[c] = s THEN 1 ELSE 0
      BY <2>1, <3>2, <3>3
    <3> QED BY <1>2, <1>3, <3>1, <3>2, <3>3, <3>4 DEF Hears
  <2>4. Count(toProduct', handle[c]) =
          Count(toProduct, handle[c]) + IF handle[c] = s THEN 1 ELSE 0
    BY <2>2, <2>3
  <2> QED BY <2>3, <2>4
<1>13. ASSUME NEW s \in Stream, Interrupt(s) \/ InterruptAgain(s)
       PROVE  Hears'
  <2>1. /\ toProduct' = ToProduct(Frame("interrupt", s)) \/ UNCHANGED toProduct
        /\ UNCHANGED <<handle, heard, sent, listening, listeners>>
    BY <1>13 DEF Interrupt, InterruptAgain, product, table
  <2> QED BY <1>9, <2>1
<1>14. ASSUME NEW c \in Caller, OnInterrupt(c)
       PROVE  UNCHANGED <<handle, heard, sent, listening, listeners, toProduct>>
  BY <1>14 DEF OnInterrupt, table, streams
<1>15. ASSUME StopHandler \/ Uninstall \/ DestroyHost
       PROVE  UNCHANGED <<handle, heard, sent, listening, listeners, toProduct>>
  BY <1>15 DEF StopHandler, Uninstall, DestroyHost, product, table, streams
<1>16. ASSUME UNCHANGED vars
       PROVE  Hears'
  BY <1>10, <1>16 DEF vars, product, table, streams
<1>17. ASSUME \/ \E c \in Caller : OnInterrupt(c)
              \/ StopHandler \/ Uninstall \/ DestroyHost
       PROVE  Hears'
  <2>1. UNCHANGED <<handle, heard, sent, listening, listeners, toProduct>>
    BY <1>14, <1>15, <1>17
  <2> QED BY <1>10, <2>1
<1>18. ASSUME Next
       PROVE  Hears'
  BY <1>4, <1>5, <1>6, <1>7, <1>8, <1>11, <1>12, <1>13, <1>17, <1>18 DEF Next
<1> QED BY <1>2, <1>16, <1>18

\* No two callers of a product share one callback.
OwnCallbacks == \A c, d \in Caller : CallbackOf(c) = CallbackOf(d) => c = d

LEMMA StaysStep ==
    ASSUME StreamInv, OwnCallbacks, StaysAttached, [Next]_vars
    PROVE  StaysAttached'
<1>1. TypeOK /\ FreshStreams /\ ListenersHoldIt /\ OneKeyPerStream /\ TableIsLive
  BY DEF StreamInv, StreamsAreServed
<1>2. ASSUME NEW c \in Caller, Join(c) \/ \E s \in Stream : Open(c, s)
      PROVE  StaysAttached'
  <2>1. PICK s \in Stream : /\ handle[c] = None /\ ~disposed /\ Attach(c, s)
                            /\ listening' = listening \cup {s}
                            /\ active[KeyOf(c)] = s \/ active[KeyOf(c)] = None
                            /\ active' = [active EXCEPT ![KeyOf(c)] = s]
                            /\ UNCHANGED <<disposed, latched, left>>
    <3>1. ASSUME Join(c)
          PROVE  LET s == active[KeyOf(c)]
                 IN  /\ s \in Stream /\ ~disposed /\ handle[c] = None /\ Attach(c, s)
                     /\ listening' = listening \cup {s}
                     /\ active' = [active EXCEPT ![KeyOf(c)] = s]
                     /\ UNCHANGED <<disposed, latched, left>>
      BY <1>1, <3>1, SubscriptionAssumption DEF Join, interrupts, TableIsLive, TypeOK
    <3>2. ASSUME NEW s \in Stream, Open(c, s)
          PROVE  /\ ~disposed /\ handle[c] = None /\ Attach(c, s)
                 /\ listening' = listening \cup {s} /\ active[KeyOf(c)] = None
                 /\ active' = [active EXCEPT ![KeyOf(c)] = s]
                 /\ UNCHANGED <<disposed, latched, left>>
      BY <3>2 DEF Open, interrupts
    <3> QED BY <1>2, <3>1, <3>2
  <2>2. /\ \A d \in Caller : handle'[d] = IF d = c THEN s ELSE handle[d]
        /\ \A d \in Caller, x \in Stream : d \in listeners'[x] <=>
              \/ d \in listeners[x]
              \/ d = c /\ x = s
    <3>1. handle' = [handle EXCEPT ![c] = s] /\ listeners' = [listeners EXCEPT ![s] = @ \cup {c}]
      BY <2>1 DEF Attach
    <3> QED BY <2>1, <3>1, Attached
  <2>3. \A k \in Key : active'[k] = IF k = KeyOf(c) THEN s ELSE active[k]
    BY <1>1, <2>1 DEF TypeOK
  <2> SUFFICES ASSUME NEW d \in Caller, handle'[d] # None, d \notin left
               PROVE  \/ handle'[d] \in latched
                      \/ /\ active'[KeyOf(d)] = handle'[d] /\ handle'[d] \in listening'
                         /\ d \in listeners'[handle'[d]]
    BY <2>1 DEF StaysAttached
  <2>4. CASE d = c
    BY <2>1, <2>2, <2>3, <2>4, SubscriptionAssumption
  <2>5. CASE d # c
    <3>1. /\ handle'[d] = handle[d] /\ handle[d] \in Stream /\ KeyOf(d) \in Key
      BY <1>1, <2>2, <2>5, SubscriptionAssumption DEF TypeOK
    <3>2. \/ handle[d] \in latched
          \/ /\ active[KeyOf(d)] = handle[d] /\ handle[d] \in listening
             /\ d \in listeners[handle[d]]
      BY <2>1, <3>1 DEF StaysAttached
    <3>3. active[KeyOf(d)] = handle[d] => active'[KeyOf(d)] = handle[d]
      BY <2>1, <2>3, <3>1, SubscriptionAssumption
    <3> QED BY <2>1, <2>2, <3>1, <3>2, <3>3
  <2> QED BY <2>4, <2>5
<1>3. ASSUME NEW c \in Caller, Unsubscribe(c)
      PROVE  StaysAttached'
  <2> DEFINE k == KeyOf(c)
             s == active[k]
  <2>1. left' = left \cup {c} /\ UNCHANGED <<handle, disposed, latched>> /\ k \in Key
    BY <1>3, SubscriptionAssumption DEF Unsubscribe, interrupts
  <2> SUFFICES ASSUME NEW d \in Caller, d # c, handle[d] # None, d \notin left, ~disposed,
                      handle[d] \notin latched
               PROVE  /\ active'[KeyOf(d)] = handle[d] /\ handle[d] \in listening'
                      /\ d \in listeners'[handle[d]]
    BY <2>1 DEF StaysAttached
  <2>2. /\ active[KeyOf(d)] = handle[d] /\ handle[d] \in listening /\ d \in listeners[handle[d]]
        /\ KeyOf(d) \in Key /\ CallbackOf(d) # CallbackOf(c)
    BY SubscriptionAssumption DEF StaysAttached, OwnCallbacks
  <2>3. CASE UNCHANGED <<active, listening, listeners>>
    BY <2>2, <2>3
  <2>4. CASE s # None /\ Remaining(c, s) = {} /\ Kill(k, s) /\ UNCHANGED listeners
    <3>1. handle[d] # s
      <4>1. d \in Remaining(c, handle[d])
        BY <2>2 DEF Remaining
      <4> QED BY <2>4, <4>1
    <3>2. KeyOf(d) # k
      BY <2>2, <3>1
    <3> HIDE DEF s, k
    <3> QED BY <1>1, <2>1, <2>2, <2>4, <3>1, <3>2 DEF Kill, TypeOK
  <2>5. CASE /\ s # None /\ listeners' = [listeners EXCEPT ![s] = Remaining(c, s)]
             /\ UNCHANGED <<active, listening>>
    <3>1. s \in Stream /\ handle[d] \in Stream
      BY <1>1, <2>1, <2>5 DEF TypeOK
    <3>2. d \in Remaining(c, handle[d])
      BY <2>2 DEF Remaining
    <3> HIDE DEF s
    <3> QED BY <1>1, <2>2, <2>5, <3>1, <3>2 DEF TypeOK
  <2> QED BY <1>3, <2>3, <2>4, <2>5 DEF Unsubscribe
<1>4. ASSUME TakeInterrupt
      PROVE  StaysAttached'
  <2> DEFINE s == Head(toProduct).id
  <2>1. UNCHANGED <<listeners, handle, left, disposed>>
    BY <1>4 DEF TakeInterrupt
  <2>2. CASE UNCHANGED <<active, listening, latched>>
    BY <2>1, <2>2 DEF StaysAttached
  <2>3. CASE StopSubscription(s) /\ latched' = latched \cup {s}
    <3> HIDE DEF s
    <3> QED BY <2>1, <2>3, SubscriptionAssumption DEF StaysAttached, StopSubscription
  <2> QED BY <1>4, <2>2, <2>3 DEF TakeInterrupt
<1>5. ASSUME Destroy
      PROVE  StaysAttached'
  BY <1>5 DEF Destroy, StaysAttached
<1>6. CASE UNCHANGED <<handle, left, disposed, latched, active, listening, listeners>>
  BY <1>6 DEF StaysAttached
<1>7. CASE UNCHANGED vars
  BY <1>6, <1>7 DEF vars, product, table, interrupts
<1>8. ASSUME NEW c \in Caller, OnInterrupt(c)
      PROVE  UNCHANGED <<handle, left, disposed, latched, active, listening, listeners>>
  BY <1>8 DEF OnInterrupt, table
<1>9. ASSUME \/ TakeValue \/ RefuseStart \/ StartHandler \/ StopHandler \/ Uninstall
             \/ DestroyHost
      PROVE  UNCHANGED <<handle, left, disposed, latched, active, listening, listeners>>
  BY <1>9 DEF TakeValue, RefuseStart, StartHandler, StopHandler, Uninstall, DestroyHost,
              product, table, interrupts
<1>10. ASSUME NEW s \in Stream, Send(s) \/ Interrupt(s) \/ InterruptAgain(s)
       PROVE  UNCHANGED <<handle, left, disposed, latched, active, listening, listeners>>
  BY <1>10 DEF Send, Interrupt, InterruptAgain, product, table, interrupts
<1> QED BY <1>2, <1>3, <1>4, <1>5, <1>6, <1>7, <1>8, <1>9, <1>10 DEF Next

\* A caller whose callback is its own stays attached to the live stream of its
\* key, hears or is about to hear every value of it, and is told once of its
\* end, for any callers, payloads, streams and values.
THEOREM CallersAlwaysAttached == OwnCallbacks /\ Spec => []CallersStayAttached
<1> SUFFICES ASSUME OwnCallbacks PROVE Spec => []CallersStayAttached
  OBVIOUS
<1>1. Init => CallersStayAttached
  <2> SUFFICES ASSUME Init PROVE CallersStayAttached
    OBVIOUS
  <2>1. listening = {} /\ watching = {} /\ \A c \in Caller : handle[c] = None
    BY DEF Init
  <2>2. StaysAttached
    BY <2>1 DEF StaysAttached
  <2>3. WatchersAreTold
    BY <2>1 DEF WatchersAreTold
  <2>4. HearsEveryValue
    BY <2>1 DEF HearsEveryValue
  <2> QED BY <2>2, <2>3, <2>4 DEF CallersStayAttached
<1>2. StreamInv /\ CallersStayAttached /\ [Next]_vars => CallersStayAttached'
  BY StaysStep, WatchersStep, HearsStep DEF CallersStayAttached
<1> QED BY <1>1, <1>2, StreamInvariant, PTL DEF Spec
=============================================================================
