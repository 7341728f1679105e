--------------------------- MODULE ProductProofs ----------------------------
(***************************************************************************)
(* That every body a product draws ends once, that the functions of a       *)
(* worker sandbox end with it, that the host agrees with what the sandbox    *)
(* has asked of it, that the children of a tree are the widgets React has   *)
(* drawn, and that the follows of chains are those the host serves, for any *)
(* renderers, bodies, functions, calls, signals, trees, connections, caps,  *)
(* widgets and commits.                                                     *)
(***************************************************************************)
EXTENDS ProductRenderer, SandboxPort, SandboxCalls, ReactTree, PapiFollows, Integers, SequenceTheorems, FiniteSetTheorems, TLAPS

(* The renderer (renderer.ts).                                              *)

WireFrame == {"tree", "end", "stop"}

BodyRecord ==
    [stage : {"none", "calling", "open", "over"}, ended : BOOLEAN, interrupted : BOOLEAN,
     wire : Seq(WireFrame), cleanups : Nat, threw : BOOLEAN, broken : BOOLEAN]

(* What BodiesEndOnce says of a body, made inductive: between a handler's    *)
(* call and its return the stream may have ended already, but nothing is     *)
(* cleaned up yet, and only a broken tree ends it behind the closure's back. *)
BodySound(x) ==
    /\ x.stage = "none" => x = NotAsked
    /\ x.stage = "calling" =>
         /\ x.cleanups = 0 /\ ~x.threw
         /\ x.interrupted <=> (x.ended \/ x.broken)
         /\ Endings(x) = {} <=> ~x.interrupted
    /\ x.stage = "open" => ~x.ended /\ ~x.interrupted /\ ~x.threw /\ ~x.broken /\ x.cleanups = 0
    /\ x.stage = "over" => x.ended /\ x.cleanups = (IF x.threw THEN 0 ELSE 1) /\ Endings(x) # {}
    /\ x.stage = "open" => Endings(x) = {}
    /\ x.broken \/ Endings(x) \subseteq {Len(x.wire)}

RendererInv ==
    /\ RendererTypeOK
    /\ drawn \in [DrawnBody -> BodyRecord]
    /\ \A b \in DrawnBody : BodySound(drawn[b])
    /\ \A b \in DrawnBody : b \in calling <=> drawn[b].stage = "calling"
    /\ \A b \in DrawnBody :
         b \in openBodies <=> (drawn[b].stage \in {"calling", "open"} /\ ~drawn[b].ended)
    /\ installed = (handler # NoRenderer /\ ~unheard)
    /\ ~installed => openBodies = {}

\* A frame that is sent is the last one; the endings before it stay.
LEMMA SendsFrame ==
    ASSUME NEW x \in BodyRecord, NEW f \in WireFrame
    PROVE  /\ Sends(x, f) \in BodyRecord
           /\ Endings(Sends(x, f)) = Endings(x) \cup (IF f = "tree" THEN {} ELSE {Len(x.wire) + 1})
           /\ Sends(x, f).wire = Append(x.wire, f) /\ Len(Append(x.wire, f)) = Len(x.wire) + 1
           /\ Len(x.wire) \in Nat /\ Endings(x) \subseteq 1..Len(x.wire)
           /\ Sends(x, f).stage = x.stage /\ Sends(x, f).ended = x.ended
           /\ Sends(x, f).interrupted = x.interrupted /\ Sends(x, f).cleanups = x.cleanups
           /\ Sends(x, f).threw = x.threw /\ Sends(x, f).broken = x.broken
<1>1. x.wire \in Seq(WireFrame) /\ Sends(x, f) = [x EXCEPT !.wire = Append(x.wire, f)]
  BY DEF BodyRecord, Sends
<1>2. /\ Append(x.wire, f) \in Seq(WireFrame) /\ Len(Append(x.wire, f)) = Len(x.wire) + 1
      /\ Len(x.wire) \in Nat /\ DOMAIN x.wire = 1..Len(x.wire)
      /\ DOMAIN Append(x.wire, f) = 1..(Len(x.wire) + 1)
      /\ \A k \in 1..Len(x.wire) : Append(x.wire, f)[k] = x.wire[k]
      /\ Append(x.wire, f)[Len(x.wire) + 1] = f
  BY <1>1, AppendProperties, LenProperties
<1>3. /\ Sends(x, f) \in BodyRecord /\ Sends(x, f).wire = Append(x.wire, f)
      /\ Sends(x, f).stage = x.stage /\ Sends(x, f).ended = x.ended
      /\ Sends(x, f).interrupted = x.interrupted /\ Sends(x, f).cleanups = x.cleanups
      /\ Sends(x, f).threw = x.threw /\ Sends(x, f).broken = x.broken
  BY <1>1, <1>2 DEF BodyRecord
<1>4. Endings(x) = {k \in 1..Len(x.wire) : x.wire[k] # "tree"}
  BY <1>2 DEF Endings
<1>5. Endings(Sends(x, f)) = {k \in 1..(Len(x.wire) + 1) : Append(x.wire, f)[k] # "tree"}
  BY <1>2, <1>3 DEF Endings
<1>6. Endings(Sends(x, f)) = Endings(x) \cup (IF f = "tree" THEN {} ELSE {Len(x.wire) + 1})
  BY <1>2, <1>4, <1>5
<1> QED BY <1>2, <1>3, <1>4, <1>6

\* The endings are those of the wire.
LEMMA SameWire == \A x, y : x.wire = y.wire => Endings(x) = Endings(y)
BY DEF Endings

\* Interrupting a body that has not ended sends its one end, and cleans it up
\* unless its handler has yet to return.
LEMMA InterruptedBody ==
    ASSUME NEW x \in BodyRecord, x.stage \in {"calling", "open"}
    PROVE  LET y == Interrupted_(x) IN
           /\ y \in BodyRecord
           /\ Endings(y) = Endings(x) \cup {Len(x.wire) + 1} /\ Len(y.wire) = Len(x.wire) + 1
           /\ Len(x.wire) \in Nat /\ Endings(x) \subseteq 1..Len(x.wire)
           /\ y.interrupted /\ y.threw = x.threw /\ y.broken = x.broken
           /\ x.stage = "calling" => y.stage = "calling" /\ y.ended = x.ended /\ y.cleanups = x.cleanups
           /\ x.stage = "open" => /\ y.stage = "over" /\ y.ended
                                  /\ y.cleanups = x.cleanups + (IF x.threw THEN 0 ELSE 1)
<1> DEFINE s == Sends(x, "end")
           z == [s EXCEPT !.interrupted = TRUE]
           y == Interrupted_(x)
<1>1. /\ s \in BodyRecord /\ Endings(s) = Endings(x) \cup {Len(x.wire) + 1}
      /\ Len(s.wire) = Len(x.wire) + 1
      /\ Len(x.wire) \in Nat /\ Endings(x) \subseteq 1..Len(x.wire)
      /\ s.stage = x.stage /\ s.ended = x.ended /\ s.cleanups = x.cleanups
      /\ s.threw = x.threw /\ s.broken = x.broken
  BY SendsFrame DEF WireFrame
<1> HIDE DEF s
<1>2. /\ z \in BodyRecord /\ z.wire = s.wire /\ z.interrupted
      /\ z.stage = x.stage /\ z.ended = x.ended /\ z.cleanups = x.cleanups
      /\ z.threw = x.threw /\ z.broken = x.broken
  BY <1>1 DEF BodyRecord
<1>3. y = IF x.stage = "open" THEN CleanedUp(z) ELSE z
  BY DEF Interrupted_, s
<1> HIDE DEF z, y
<1>4. CASE x.stage = "open"
  <2> DEFINE n == x.cleanups + (IF x.threw THEN 0 ELSE 1)
  <2>1. y = [z EXCEPT !.stage = "over", !.ended = TRUE, !.cleanups = n]
    BY <1>2, <1>3, <1>4 DEF CleanedUp, BodyRecord
  <2>4. n \in Nat
    BY DEF BodyRecord
  <2> HIDE DEF n
  <2>2. /\ y \in BodyRecord /\ y.wire = s.wire /\ y.interrupted /\ y.stage = "over" /\ y.ended
        /\ y.threw = x.threw /\ y.broken = x.broken
        /\ y.cleanups = n
    BY <1>2, <2>1, <2>4 DEF BodyRecord
  <2>3. Endings(y) = Endings(s)
    BY <2>2, SameWire
  <2> QED BY <1>1, <1>4, <2>2, <2>3 DEF y, n
<1>5. CASE x.stage = "calling"
  <2>1. y = z /\ Endings(y) = Endings(s)
    BY <1>2, <1>3, <1>5, SameWire
  <2> QED BY <1>1, <1>2, <1>5, <2>1 DEF y
<1> QED BY <1>4, <1>5

\* end() leaves the body ended, and sends the end once.
LEMMA EndedBody ==
    ASSUME NEW x \in BodyRecord, BodySound(x), x.stage # "none"
    PROVE  LET y == Ended(x) IN
           /\ y \in BodyRecord /\ BodySound(y) /\ y.ended
           /\ y.stage = IF x.stage = "open" THEN "over" ELSE x.stage
           /\ y.threw = x.threw
<1> DEFINE z == [x EXCEPT !.ended = TRUE]
           y == Ended(x)
<1>1. CASE x.ended
  <2>1. y = x /\ x.stage # "open"
    BY <1>1 DEF Ended, BodySound
  <2> QED BY <1>1, <2>1
<1>2. CASE ~x.ended
  <2>1. y = Interrupted_(z) /\ x.stage \in {"calling", "open"}
    BY <1>2 DEF Ended, BodySound, BodyRecord
  <2>2. /\ z \in BodyRecord /\ z.ended /\ z.wire = x.wire /\ z.stage = x.stage
        /\ z.cleanups = x.cleanups /\ z.threw = x.threw /\ z.broken = x.broken
    BY DEF BodyRecord
  <2>3. Endings(z) = Endings(x)
    BY <2>2, SameWire
  <2> HIDE DEF z
  <2>4. /\ y \in BodyRecord
        /\ Endings(y) = Endings(x) \cup {Len(x.wire) + 1} /\ Len(y.wire) = Len(x.wire) + 1
        /\ y.interrupted /\ y.threw = x.threw /\ y.broken = x.broken
        /\ x.stage = "calling" => y.stage = "calling" /\ y.ended /\ y.cleanups = x.cleanups
        /\ x.stage = "open" => /\ y.stage = "over" /\ y.ended
                               /\ y.cleanups = x.cleanups + (IF x.threw THEN 0 ELSE 1)
    BY <2>1, <2>2, <2>3, InterruptedBody
  <2> HIDE DEF y
  <2>5. x.broken \/ Endings(x) = {}
    BY <1>2, <2>1 DEF BodySound
  <2>6. BodySound(y)
    <3>1. CASE x.stage = "open"
      BY <2>4, <2>5, <3>1 DEF BodySound
    <3>2. CASE x.stage = "calling"
      BY <2>4, <2>5, <3>2 DEF BodySound
    <3> QED BY <2>1, <3>1, <3>2
  <2> QED BY <2>1, <2>4, <2>6 DEF y
<1> QED BY <1>1, <1>2

\* What a handler's return makes of its body.
LEMMA ReturnedBody ==
    ASSUME NEW x \in BodyRecord, BodySound(x), x.stage = "calling", NEW threw \in BOOLEAN
    PROVE  LET y == Returned(IF threw THEN Ended([x EXCEPT !.threw = TRUE]) ELSE x) IN
           /\ y \in BodyRecord /\ BodySound(y)
           /\ y.stage \in {"open", "over"} /\ (y.stage = "open" <=> ~x.ended /\ ~x.broken /\ ~threw)
<1> DEFINE z == IF threw THEN Ended([x EXCEPT !.threw = TRUE]) ELSE x
           y == Returned(z)
<1>1. /\ z \in BodyRecord /\ z.stage = "calling" /\ z.cleanups = 0 /\ (z.threw <=> threw)
      /\ z.interrupted <=> (z.ended \/ z.broken)
      /\ Endings(z) = {} <=> ~z.interrupted
      /\ z.broken \/ Endings(z) \subseteq {Len(z.wire)}
      /\ z.interrupted <=> (x.ended \/ x.broken \/ threw)
  <2>1. CASE ~threw
    BY <2>1 DEF BodySound
  <2>2. CASE threw
    <3> DEFINE w == [x EXCEPT !.threw = TRUE]
    <3>1. /\ w \in BodyRecord /\ w.threw /\ w.wire = x.wire /\ w.stage = "calling"
          /\ w.ended = x.ended /\ w.interrupted = x.interrupted /\ w.broken = x.broken
          /\ w.cleanups = x.cleanups
      BY DEF BodyRecord
    <3>2. Endings(w) = Endings(x) /\ z = Ended(w)
      BY <2>2, <3>1, SameWire
    <3> HIDE DEF w, z
    <3>3. CASE x.ended
      <4>1. z = w
        BY <3>1, <3>2, <3>3 DEF Ended
      <4> QED BY <2>2, <3>1, <3>2, <3>3, <4>1 DEF BodySound
    <3>4. CASE ~x.ended
      <4> DEFINE v == [w EXCEPT !.ended = TRUE]
      <4>1. /\ v \in BodyRecord /\ v.ended /\ v.wire = x.wire /\ v.stage = "calling"
            /\ v.cleanups = x.cleanups /\ v.threw /\ v.broken = x.broken
        BY <3>1 DEF BodyRecord
      <4>2. Endings(v) = Endings(x) /\ z = Interrupted_(v)
        BY <3>1, <3>2, <3>4, <4>1, SameWire DEF Ended
      <4> HIDE DEF v
      <4>3. /\ z \in BodyRecord /\ z.interrupted /\ z.threw /\ z.broken = x.broken
            /\ z.stage = "calling" /\ z.ended /\ z.cleanups = x.cleanups
            /\ Endings(z) = Endings(x) \cup {Len(x.wire) + 1} /\ Len(z.wire) = Len(x.wire) + 1
        BY <4>1, <4>2, InterruptedBody
      <4>4. x.broken \/ Endings(x) = {}
        BY <3>4 DEF BodySound
      <4> QED BY <2>2, <4>3, <4>4 DEF BodySound
    <3> QED BY <3>3, <3>4
  <2> QED BY <2>1, <2>2
<1> HIDE DEF z
<1>2. CASE z.interrupted
  <2> DEFINE n == IF z.threw THEN 0 ELSE 1
  <2>1. y = [z EXCEPT !.stage = "over", !.ended = TRUE, !.cleanups = n]
    <3>1. z.cleanups + n = n
      BY <1>1
    <3> QED BY <1>2, <3>1 DEF Returned, CleanedUp, BodyRecord
  <2>2. n \in Nat
    OBVIOUS
  <2> HIDE DEF n, y
  <2>3. /\ y \in BodyRecord /\ y.wire = z.wire /\ y.stage = "over" /\ y.ended
        /\ y.threw = z.threw /\ y.broken = z.broken /\ y.cleanups = n
    BY <1>1, <2>1, <2>2 DEF BodyRecord
  <2>4. Endings(y) = Endings(z)
    BY <2>3, SameWire
  <2>5. BodySound(y)
    BY <1>1, <1>2, <2>3, <2>4 DEF BodySound, n
  <2> QED BY <1>1, <1>2, <2>3, <2>5 DEF y, z
<1>3. CASE ~z.interrupted
  <2>1. y = [z EXCEPT !.stage = "open"]
    BY <1>3 DEF Returned
  <2> HIDE DEF y
  <2>2. /\ y \in BodyRecord /\ y.wire = z.wire /\ y.stage = "open" /\ y.ended = z.ended
        /\ y.interrupted = z.interrupted
        /\ y.threw = z.threw /\ y.broken = z.broken /\ y.cleanups = z.cleanups
    BY <1>1, <2>1 DEF BodyRecord
  <2>3. Endings(y) = Endings(z)
    BY <2>2, SameWire
  <2>4. ~z.ended /\ ~z.broken /\ ~z.threw /\ Endings(z) = {}
    BY <1>1, <1>3
  <2>5. BodySound(y)
    BY <1>1, <1>3, <2>2, <2>3, <2>4 DEF BodySound
  <2> QED BY <1>1, <1>3, <2>2, <2>5 DEF y, z
<1> QED BY <1>2, <1>3

-----------------------------------------------------------------------------
(* The steps of the renderer. *)

\* Steps that change one body: the invariant needs that body's account only.
LEMMA OneBody ==
    ASSUME RendererInv, NEW b \in DrawnBody, NEW y \in BodyRecord, BodySound(y),
           drawn' = [drawn EXCEPT ![b] = y], UNCHANGED <<handler, installed, unheard>>,
           calling' \subseteq DrawnBody, openBodies' \subseteq DrawnBody,
           \A d \in DrawnBody \ {b} : (d \in calling' <=> d \in calling)
                                      /\ (d \in openBodies' <=> d \in openBodies),
           b \in calling' <=> y.stage = "calling",
           b \in openBodies' <=> (y.stage \in {"calling", "open"} /\ ~y.ended),
           ~installed => b \notin openBodies'
    PROVE  RendererInv'
<1>1. \A d \in DrawnBody : drawn'[d] = IF d = b THEN y ELSE drawn[d]
  BY DEF RendererInv
<1>2. drawn' \in [DrawnBody -> BodyRecord]
  BY DEF RendererInv
<1>3. \A d \in DrawnBody : BodySound(drawn'[d])
  BY <1>1 DEF RendererInv
<1>4. /\ \A d \in DrawnBody : d \in calling' <=> drawn'[d].stage = "calling"
      /\ \A d \in DrawnBody :
           d \in openBodies' <=> (drawn'[d].stage \in {"calling", "open"} /\ ~drawn'[d].ended)
  BY <1>1 DEF RendererInv
<1>5. installed' = (handler' # NoRenderer /\ ~unheard') /\ (~installed' => openBodies' = {})
  BY DEF RendererInv
<1>6. RendererTypeOK'
  BY <1>2 DEF RendererInv, RendererTypeOK, BodyRecord
<1> QED BY <1>2, <1>3, <1>4, <1>5, <1>6 DEF RendererInv

LEMMA InitRendererInv == RendererInit => RendererInv
<1> SUFFICES ASSUME RendererInit PROVE RendererInv
  OBVIOUS
<1>1. NotAsked \in BodyRecord
  BY DEF NotAsked, BodyRecord
<1>2. Endings(NotAsked) = {} /\ NotAsked.stage = "none"
  BY DEF Endings, NotAsked
<1>3. BodySound(NotAsked)
  BY <1>2 DEF BodySound
<1> QED BY <1>1, <1>2, <1>3 DEF RendererInit, RendererInv, RendererTypeOK

LEMMA UnregisterKeeps ==
    ASSUME RendererInv, NEW r \in Renderer, Unregister(r)
    PROVE  RendererInv'
<1>1. CASE UNCHANGED rendererVars
  BY <1>1 DEF rendererVars, RendererInv, RendererTypeOK
<1>2. CASE /\ drawn' = [b \in DrawnBody |-> IF b \in openBodies THEN Ended(drawn[b]) ELSE drawn[b]]
           /\ openBodies' = {} /\ installed' = FALSE /\ UNCHANGED calling
           /\ \/ handler' = NoRenderer /\ unheard' = FALSE
              \/ handler' \in Renderer /\ unheard' = TRUE
  <2>1. \A b \in DrawnBody : b \in openBodies =>
          /\ drawn'[b] \in BodyRecord /\ BodySound(drawn'[b]) /\ drawn'[b].ended
          /\ drawn'[b].stage = IF drawn[b].stage = "open" THEN "over" ELSE drawn[b].stage
    BY <1>2, EndedBody DEF RendererInv
  <2>2. \A b \in DrawnBody : b \notin openBodies => drawn'[b] = drawn[b]
    BY <1>2
  <2>3. drawn' \in [DrawnBody -> BodyRecord]
    BY <1>2, <2>1, <2>2 DEF RendererInv
  <2>4. \A b \in DrawnBody : BodySound(drawn'[b])
    BY <2>1, <2>2 DEF RendererInv
  <2>5. \A b \in DrawnBody : b \in calling <=> drawn'[b].stage = "calling"
    BY <2>1, <2>2 DEF RendererInv
  <2>6. \A b \in DrawnBody : ~(drawn'[b].stage \in {"calling", "open"} /\ ~drawn'[b].ended)
    BY <2>1, <2>2 DEF RendererInv
  <2>7. /\ installed' = (handler' # NoRenderer /\ ~unheard') /\ handler' \in Renderer \cup {NoRenderer}
        /\ unheard' \in BOOLEAN
    BY <1>2
  <2>8. RendererTypeOK'
    BY <1>2, <2>3, <2>7 DEF RendererInv, RendererTypeOK, BodyRecord
  <2> QED BY <1>2, <2>3, <2>4, <2>5, <2>6, <2>7, <2>8 DEF RendererInv
<1> QED BY <1>1, <1>2 DEF Unregister

LEMMA OnRenderKeeps ==
    ASSUME RendererInv, NEW r \in Renderer, OnRender(r)
    PROVE  RendererInv'
<1>1. /\ handler' = r /\ installed' = TRUE /\ unheard' = FALSE /\ r # NoRenderer
      /\ UNCHANGED <<calling, openBodies, drawn>>
  BY RendererAssumption DEF OnRender
<1> QED BY <1>1 DEF RendererInv, RendererTypeOK

LEMMA TreeKeeps ==
    ASSUME RendererInv, NEW b \in DrawnBody, Tree(b)
    PROVE  RendererInv'
<1> DEFINE x == drawn[b]
           y == Sends(x, "tree")
<1>1. /\ x \in BodyRecord /\ BodySound(x) /\ x.stage \in {"calling", "open"} /\ ~x.ended
      /\ UNCHANGED <<handler, installed, unheard, calling, openBodies>>
      /\ drawn' = [drawn EXCEPT ![b] = y]
      /\ calling \subseteq DrawnBody /\ openBodies \subseteq DrawnBody
  BY DEF Tree, Becomes, RendererInv, BodyRecord, BodySound, RendererTypeOK
<1>2. /\ y \in BodyRecord /\ Endings(y) = Endings(x) /\ y.stage = x.stage /\ y.ended = x.ended
      /\ y.interrupted = x.interrupted /\ y.cleanups = x.cleanups
      /\ y.threw = x.threw /\ y.broken = x.broken
    BY <1>1, SendsFrame DEF WireFrame
<1>3. x.broken \/ Endings(x) = {}
  BY <1>1 DEF BodySound
<1>4. BodySound(y)
  <2> HIDE DEF y, x
  <2> QED BY <1>1, <1>2, <1>3 DEF BodySound
<1>5. /\ b \in calling <=> x.stage = "calling"
      /\ b \in openBodies <=> (x.stage \in {"calling", "open"} /\ ~x.ended)
      /\ ~installed => b \notin openBodies
  BY DEF RendererInv
<1> HIDE DEF x, y
<1> QED BY <1>1, <1>2, <1>4, <1>5, OneBody

LEMMA BrokenTreeKeeps ==
    ASSUME RendererInv, NEW b \in DrawnBody, BrokenTree(b)
    PROVE  RendererInv'
<1> DEFINE x == drawn[b]
           w == [x EXCEPT !.broken = x.stage = "calling"]
           y == Interrupted_(w)
<1>1. /\ x \in BodyRecord /\ BodySound(x) /\ x.stage \in {"calling", "open"} /\ ~x.ended
      /\ UNCHANGED <<handler, installed, unheard, calling>>
      /\ drawn' = [drawn EXCEPT ![b] = y]
      /\ openBodies' = IF x.stage = "open" THEN openBodies \ {b} ELSE openBodies
      /\ calling \subseteq DrawnBody /\ openBodies \subseteq DrawnBody
  BY DEF BrokenTree, Becomes, Forgets, RendererInv, BodyRecord, BodySound, RendererTypeOK
<1>2. /\ w \in BodyRecord /\ w.wire = x.wire /\ w.stage = x.stage /\ w.ended = x.ended
      /\ w.cleanups = x.cleanups /\ w.threw = x.threw /\ (w.broken <=> x.stage = "calling")
  BY <1>1 DEF BodyRecord
<1>3. Endings(w) = Endings(x)
  BY <1>2, SameWire
<1> HIDE DEF x, w
<1>4. /\ y \in BodyRecord
      /\ Endings(y) = Endings(x) \cup {Len(x.wire) + 1} /\ Len(y.wire) = Len(x.wire) + 1
      /\ y.interrupted /\ y.threw = x.threw /\ y.broken = w.broken
      /\ x.stage = "calling" => y.stage = "calling" /\ y.ended = x.ended /\ y.cleanups = x.cleanups
      /\ x.stage = "open" => /\ y.stage = "over" /\ y.ended
                             /\ y.cleanups = x.cleanups + (IF x.threw THEN 0 ELSE 1)
  BY <1>1, <1>2, <1>3, InterruptedBody
<1> HIDE DEF y
<1>5. BodySound(y)
  <2>1. CASE x.stage = "open"
    BY <1>1, <1>2, <1>4, <2>1 DEF BodySound
  <2>2. CASE x.stage = "calling"
    BY <1>1, <1>2, <1>4, <2>2 DEF BodySound
  <2> QED BY <1>1, <2>1, <2>2
<1>6. /\ b \in calling <=> x.stage = "calling"
      /\ b \in openBodies <=> (x.stage \in {"calling", "open"} /\ ~x.ended)
      /\ ~installed => b \notin openBodies
  BY DEF RendererInv, x
<1> QED BY <1>1, <1>2, <1>4, <1>5, <1>6, OneBody

LEMMA EndKeeps ==
    ASSUME RendererInv, NEW b \in DrawnBody, End(b)
    PROVE  RendererInv'
<1> DEFINE x == drawn[b]
           y == Ended(x)
<1>1. /\ x \in BodyRecord /\ BodySound(x) /\ x.stage # "none"
      /\ UNCHANGED <<handler, installed, unheard, calling>>
      /\ drawn' = [drawn EXCEPT ![b] = y] /\ openBodies' = openBodies \ {b}
      /\ calling \subseteq DrawnBody /\ openBodies \subseteq DrawnBody
      /\ b \in calling <=> x.stage = "calling"
  BY DEF End, Becomes, Forgets, RendererInv, RendererTypeOK
<1> HIDE DEF x
<1>2. /\ y \in BodyRecord /\ BodySound(y) /\ y.ended
      /\ y.stage = IF x.stage = "open" THEN "over" ELSE x.stage
  BY <1>1, EndedBody
<1> HIDE DEF y
<1> QED BY <1>1, <1>2, OneBody

LEMMA StartKeeps ==
    ASSUME RendererInv, NEW b \in DrawnBody, Start(b)
    PROVE  RendererInv'
<1> DEFINE y == [NotAsked EXCEPT !.stage = "calling"]
<1>1. /\ installed /\ calling' = {b} /\ calling = {} /\ openBodies' = openBodies \cup {b}
      /\ drawn' = [drawn EXCEPT ![b] = y] /\ UNCHANGED <<handler, installed, unheard>>
      /\ openBodies \subseteq DrawnBody
  BY DEF Start, Becomes, RendererInv, RendererTypeOK
<1>2. y \in BodyRecord /\ BodySound(y) /\ y.stage = "calling" /\ ~y.ended
  <2>1. Endings(y) = {}
    BY DEF NotAsked, Endings
  <2>3. NotAsked \in BodyRecord
    BY DEF NotAsked, BodyRecord
  <2>4. ~NotAsked.ended /\ ~NotAsked.interrupted /\ ~NotAsked.threw /\ ~NotAsked.broken
        /\ NotAsked.cleanups = 0
    BY DEF NotAsked
  <2>2. /\ y \in BodyRecord /\ y.stage = "calling" /\ ~y.ended /\ ~y.interrupted /\ ~y.threw
        /\ ~y.broken /\ y.cleanups = 0
    BY <2>3, <2>4 DEF BodyRecord
  <2> HIDE DEF y
  <2> QED BY <2>1, <2>2 DEF BodySound
<1> HIDE DEF y
<1> QED BY <1>1, <1>2, OneBody

LEMMA HandlerReturnsKeeps ==
    ASSUME RendererInv, NEW b \in DrawnBody, NEW threw \in BOOLEAN, HandlerReturns(b, threw)
    PROVE  RendererInv'
<1> DEFINE x == drawn[b]
           y == Returned(IF threw THEN Ended([x EXCEPT !.threw = TRUE]) ELSE x)
<1>1. /\ calling = {b} /\ calling' = {} /\ x \in BodyRecord /\ BodySound(x) /\ x.stage = "calling"
      /\ drawn' = [drawn EXCEPT ![b] = y] /\ UNCHANGED <<handler, installed, unheard>>
      /\ openBodies' = IF y.stage = "over" THEN openBodies \ {b} ELSE openBodies
      /\ openBodies \subseteq DrawnBody
      /\ b \in openBodies <=> ~x.ended
      /\ ~installed => b \notin openBodies
  BY DEF HandlerReturns, Becomes, Forgets, RendererInv, RendererTypeOK
<1> HIDE DEF x
<1>2. /\ y \in BodyRecord /\ BodySound(y) /\ y.stage \in {"open", "over"}
      /\ y.stage = "open" => ~x.ended
  BY <1>1, ReturnedBody
<1> HIDE DEF y
<1>3. y.stage = "open" => ~y.ended
  BY <1>2 DEF BodySound
<1> QED BY <1>1, <1>2, <1>3, OneBody

LEMMA HostStopKeeps ==
    ASSUME RendererInv, NEW b \in DrawnBody, HostStop(b)
    PROVE  RendererInv'
<1>1. CASE UNCHANGED <<drawn, openBodies>>
  <2>1. UNCHANGED rendererVars
    BY <1>1 DEF HostStop, rendererVars
  <2> QED BY <2>1 DEF rendererVars, RendererInv, RendererTypeOK
<1>2. CASE drawn[b].stage = "open" /\ Becomes(b, CleanedUp(Sends(drawn[b], "stop"))) /\ Forgets(b)
  <2> DEFINE x == drawn[b]
             s == Sends(x, "stop")
             y == CleanedUp(s)
  <2>1. /\ x \in BodyRecord /\ BodySound(x) /\ x.stage = "open"
        /\ UNCHANGED <<handler, installed, unheard, calling>>
        /\ drawn' = [drawn EXCEPT ![b] = y] /\ openBodies' = openBodies \ {b}
        /\ calling \subseteq DrawnBody /\ openBodies \subseteq DrawnBody /\ b \notin calling
    BY <1>2 DEF HostStop, Becomes, Forgets, RendererInv, RendererTypeOK
  <2>2. Endings(x) = {} /\ x.cleanups = 0 /\ ~x.threw
    BY <2>1 DEF BodySound
  <2> HIDE DEF x
  <2>3. /\ s \in BodyRecord /\ Endings(s) = {Len(s.wire)}
        /\ s.cleanups = 0 /\ ~s.threw
    BY <2>1, <2>2, SendsFrame DEF WireFrame
  <2> HIDE DEF s
  <2>4. y = [s EXCEPT !.stage = "over", !.ended = TRUE, !.cleanups = 1]
    BY <2>3 DEF CleanedUp, BodyRecord
  <2> HIDE DEF y
  <2>5. /\ y \in BodyRecord /\ y.wire = s.wire /\ y.stage = "over" /\ y.ended
        /\ y.cleanups = 1 /\ ~y.threw
    BY <2>3, <2>4 DEF BodyRecord
  <2>6. Endings(y) = {Len(y.wire)}
    BY <2>3, <2>5, SameWire
  <2>7. BodySound(y)
    BY <2>5, <2>6 DEF BodySound
  <2> QED BY <2>1, <2>5, <2>7, OneBody
<1> QED BY <1>1, <1>2 DEF HostStop

LEMMA RendererInvImplies == RendererInv => BodiesEndOnce
<1> SUFFICES ASSUME RendererInv PROVE BodiesEndOnce
  OBVIOUS
<1>1. ASSUME NEW b \in DrawnBody
      PROVE  LET x == drawn[b] IN
             /\ x.cleanups = IF x.stage = "over" /\ ~x.threw THEN 1 ELSE 0
             /\ x.broken \/ Endings(x) \subseteq {Len(x.wire)}
             /\ x.stage = "open" => Endings(x) = {}
             /\ x.stage = "over" => Endings(x) # {}
             /\ b \in openBodies <=> (x.stage \in {"calling", "open"} /\ ~x.ended)
             /\ ~installed => x.stage # "open"
  <2> DEFINE x == drawn[b]
  <2>1. /\ x \in BodyRecord /\ BodySound(x)
        /\ b \in openBodies <=> (x.stage \in {"calling", "open"} /\ ~x.ended)
        /\ ~installed => b \notin openBodies
    BY DEF RendererInv
  <2> HIDE DEF x
  <2>2. x.stage \in {"none", "calling", "open", "over"}
    BY <2>1 DEF BodyRecord
  <2>3. x.cleanups = IF x.stage = "over" /\ ~x.threw THEN 1 ELSE 0
    <3>1. CASE x.stage = "none"
      BY <2>1, <3>1 DEF BodySound, NotAsked
    <3>2. CASE x.stage # "none"
      BY <2>1, <2>2, <3>2 DEF BodySound
    <3> QED BY <3>1, <3>2
  <2>4. /\ x.broken \/ Endings(x) \subseteq {Len(x.wire)}
        /\ x.stage = "open" => Endings(x) = {}
        /\ x.stage = "over" => Endings(x) # {}
        /\ x.stage = "open" => ~x.ended
    BY <2>1 DEF BodySound
  <2> QED BY <2>1, <2>3, <2>4 DEF x
<1> QED BY <1>1 DEF RendererInv, BodiesEndOnce

\* However a body ends, for any renderers, bodies and trees, and whatever
\* their number: it is cleaned up once, nothing follows the frame that ends
\* it, and the renderer keeps no body the transport has given up.
THEOREM BodiesAlwaysEndOnce == RendererSpec => []BodiesEndOnce
<1>1. RendererInv /\ [RendererNext]_rendererVars => RendererInv'
  <2> SUFFICES ASSUME RendererInv, [RendererNext]_rendererVars PROVE RendererInv'
    OBVIOUS
  <2>1. CASE UNCHANGED rendererVars
    BY <2>1 DEF rendererVars, RendererInv, RendererTypeOK
  <2>2. CASE RendererNext
    BY <2>2, OnRenderKeeps, UnregisterKeeps, TreeKeeps, BrokenTreeKeeps, EndKeeps, StartKeeps,
       HostStopKeeps, HandlerReturnsKeeps DEF RendererNext
  <2> QED BY <2>1, <2>2
<1> QED BY InitRendererInv, <1>1, RendererInvImplies, PTL DEF RendererSpec

-----------------------------------------------------------------------------
(* The port and the timers of the worker sandbox (sandbox.ts, timers.ts).   *)

HandleId == 1..Len(fnOf)

\* The handle the running call releases when it returns.
Borrowed == IF running.by \in {"timeout", "microtask"} THEN {running.handle} ELSE {}

Distinct(s) == \A i, j \in 1..Len(s) : s[i] = s[j] => i = j

(* What makes the port's properties inductive: every handle is named by one  *)
(* table only, and a microtask's also by the host's queue, which outlives    *)
(* the dispose.                                                              *)
Apart(o, L, T, I, Q, R) ==
    /\ o \notin L /\ o \notin T /\ o \notin I /\ o \notin Q /\ o \notin R
    /\ \A h : h \in L => h \notin T /\ h \notin I /\ h \notin Q /\ h \notin R
    /\ \A h : h \in T => h \notin I /\ h \notin Q /\ h \notin R
    /\ \A h : h \in I => h \notin Q /\ h \notin R
    /\ \A h : h \in Q => h \notin R

PortTypes ==
    /\ fnOf \in Seq(Function) /\ Len(fnOf) \in Nat /\ alive \subseteq HandleId
    /\ onmessage \in Nat /\ (onmessage = 0 \/ onmessage \in HandleId)
    /\ listeners \in Seq(Nat) /\ ToSet(listeners) \subseteq HandleId
    /\ timeouts \subseteq HandleId /\ intervals \subseteq HandleId
    /\ queued \in Seq(Nat) /\ ToSet(queued) \subseteq HandleId
    /\ running.by \in {"nobody", "run", "message", "timeout", "interval", "microtask", "jobs"}
    /\ Borrowed \subseteq HandleId
    /\ phase \in {"open", "disposing", "freed"}

OwnedOnce ==
    /\ \A h : h \in alive <=> \/ h = onmessage /\ h # 0
                              \/ h \in ToSet(listeners)
                              \/ h \in timeouts
                              \/ h \in intervals
                              \/ h \in pendingRefs
                              \/ h \in Borrowed
    /\ Apart(onmessage, ToSet(listeners), timeouts, intervals, ToSet(queued), Borrowed)

QueueMatches ==
    /\ Distinct(queued) /\ pendingRefs \subseteq ToSet(queued)
    /\ phase = "open" => \A h : h \in ToSet(queued) => h \in pendingRefs

ListenersDiffer ==
    /\ Len(listeners) <= MaxListeners
    /\ \A i, j \in 1..Len(listeners) : fnOf[listeners[i]] = fnOf[listeners[j]] => i = j

QuietAfterDispose == phase # "open" => running.by \in {"nobody", "jobs"}

PortInv == PortTypes /\ OwnedOnce /\ QueueMatches /\ ListenersDiffer /\ QuietAfterDispose

(* Sequences. *)

LEMMA InToSet == \A s \in Seq(Nat) : \A x : x \in ToSet(s) <=> \E i \in 1..Len(s) : s[i] = x
BY DEF ToSet

LEMMA AppendToSet ==
    ASSUME NEW s \in Seq(Nat), NEW x \in Nat
    PROVE  /\ Append(s, x) \in Seq(Nat) /\ Len(Append(s, x)) = Len(s) + 1 /\ Len(s) \in Nat
           /\ Append(s, x)[Len(s) + 1] = x /\ \A i \in 1..Len(s) : Append(s, x)[i] = s[i]
           /\ \A y : y \in ToSet(Append(s, x)) <=> (y \in ToSet(s) \/ y = x)
           /\ Distinct(s) /\ x \notin ToSet(s) => Distinct(Append(s, x))
<1>1. /\ Append(s, x) \in Seq(Nat) /\ Len(Append(s, x)) = Len(s) + 1 /\ Len(s) \in Nat
      /\ Append(s, x)[Len(s) + 1] = x /\ \A i \in 1..Len(s) : Append(s, x)[i] = s[i]
  BY AppendProperties, LenProperties
<1>2. /\ \A y : y \in ToSet(s) <=> \E i \in 1..Len(s) : s[i] = y
      /\ \A y : y \in ToSet(Append(s, x)) <=> \E i \in 1..(Len(s) + 1) : Append(s, x)[i] = y
  <2>1. \A y : y \in ToSet(s) <=> \E i \in 1..Len(s) : s[i] = y
    BY InToSet
  <2>2. \A y : y \in ToSet(Append(s, x)) <=> \E i \in 1..Len(Append(s, x)) : Append(s, x)[i] = y
    BY <1>1, InToSet, Zenon
  <2> QED BY <1>1, <2>1, <2>2
<1>3. \A y : y \in ToSet(Append(s, x)) <=> (y \in ToSet(s) \/ y = x)
  BY <1>1, <1>2
<1>4. Distinct(s) /\ x \notin ToSet(s) => Distinct(Append(s, x))
  BY <1>1, <1>2, SMTT(30) DEF Distinct
<1> QED BY <1>1, <1>3, <1>4

LEMMA TailToSet ==
    ASSUME NEW s \in Seq(Nat), s # <<>>, Distinct(s)
    PROVE  /\ Tail(s) \in Seq(Nat) /\ Head(s) \in ToSet(s) /\ Distinct(Tail(s))
           /\ \A y : y \in ToSet(Tail(s)) <=> (y \in ToSet(s) /\ y # Head(s))
<1>1. /\ Tail(s) \in Seq(Nat) /\ Len(s) \in Nat \ {0} /\ Len(Tail(s)) = Len(s) - 1
      /\ Head(s) = s[1] /\ \A i \in 1..(Len(s) - 1) : Tail(s)[i] = s[i + 1]
  BY HeadTailProperties, LenProperties, EmptySeq
<1>2. /\ \A y : y \in ToSet(s) <=> \E i \in 1..Len(s) : s[i] = y
      /\ \A y : y \in ToSet(Tail(s)) <=> \E i \in 1..(Len(s) - 1) : Tail(s)[i] = y
  <2>1. \A y : y \in ToSet(s) <=> \E i \in 1..Len(s) : s[i] = y
    BY InToSet
  <2>2. \A y : y \in ToSet(Tail(s)) <=> \E i \in 1..Len(Tail(s)) : Tail(s)[i] = y
    BY <1>1, InToSet, Zenon
  <2> QED BY <1>1, <2>1, <2>2
<1>3. Head(s) \in ToSet(s)
  BY <1>1, <1>2
<1>4. Distinct(Tail(s))
  BY <1>1 DEF Distinct
<1>5. ASSUME NEW y, y \in ToSet(Tail(s)) PROVE y \in ToSet(s) /\ y # Head(s)
  <2>1. PICK i \in 1..(Len(s) - 1) : Tail(s)[i] = y
    BY <1>2, <1>5
  <2>2. s[i + 1] = y /\ i + 1 \in 1..Len(s) /\ 1 \in 1..Len(s) /\ i + 1 # 1
    BY <1>1, <2>1
  <2>3. y # s[1]
    BY <2>2 DEF Distinct
  <2> QED BY <1>1, <1>2, <2>2, <2>3
<1>6. ASSUME NEW y, y \in ToSet(s), y # Head(s) PROVE y \in ToSet(Tail(s))
  <2>1. PICK i \in 1..Len(s) : s[i] = y
    BY <1>2, <1>6
  <2>2. i - 1 \in 1..(Len(s) - 1) /\ Tail(s)[i - 1] = y
    <3>1. i # 1
      BY <1>1, <1>6, <2>1
    <3>2. i - 1 \in 1..(Len(s) - 1) /\ (i - 1) + 1 = i
      BY <1>1, <3>1
    <3> QED BY <1>1, <2>1, <3>2
  <2> QED BY <1>2, <2>2
<1> QED BY <1>1, <1>3, <1>4, <1>5, <1>6

LEMMA Piece ==
    ASSUME NEW s \in Seq(Nat), NEW m \in Nat \ {0}, NEW n \in Nat, n <= Len(s)
    PROVE  /\ SubSeq(s, m, n) \in Seq(Nat) /\ Len(SubSeq(s, m, n)) = IF m <= n THEN n - m + 1 ELSE 0
           /\ \A k \in 1..(n - m + 1) : SubSeq(s, m, n)[k] = s[m + k - 1]
<1>1. m \in Int /\ n \in Int /\ Len(s) \in Nat
  BY LenProperties
<1>2. \A k \in m..n : s[k] \in Nat
  BY <1>1, ElementOfSeq
<1> QED BY <1>1, <1>2, SubSeqProperties

LEMMA RemoveAtToSet ==
    ASSUME NEW s \in Seq(Nat), NEW i \in 1..Len(s), Distinct(s)
    PROVE  /\ RemoveAt(s, i) \in Seq(Nat) /\ Len(RemoveAt(s, i)) = Len(s) - 1 /\ Len(s) \in Nat
           /\ \A k \in 1..(Len(s) - 1) : RemoveAt(s, i)[k] = IF k < i THEN s[k] ELSE s[k + 1]
           /\ \A y : y \in ToSet(RemoveAt(s, i)) <=> (y \in ToSet(s) /\ y # s[i])
<1> DEFINE a == SubSeq(s, 1, i - 1)
           b == SubSeq(s, i + 1, Len(s))
           r == RemoveAt(s, i)
<1>0. Len(s) \in Nat /\ r = a \o b /\ i - 1 \in 0..Len(s) /\ i + 1 \in 1..(Len(s) + 1)
  BY LenProperties DEF RemoveAt
<1>1. /\ a \in Seq(Nat) /\ Len(a) = i - 1 /\ \A k \in 1..(i - 1) : a[k] = s[k]
  <2>1. i - 1 \in Nat /\ i - 1 <= Len(s) /\ 1 \in Nat \ {0}
    BY <1>0
  <2>2. /\ a \in Seq(Nat) /\ Len(a) = IF 1 <= i - 1 THEN (i - 1) - 1 + 1 ELSE 0
        /\ \A k \in 1..((i - 1) - 1 + 1) : a[k] = s[1 + k - 1]
    BY <2>1, Piece
  <2> HIDE DEF a
  <2>3. (i - 1) - 1 + 1 = i - 1 /\ \A k \in 1..(i - 1) : 1 + k - 1 = k
    BY <1>0
  <2>4. Len(a) = i - 1
    <3>1. CASE 1 <= i - 1
      BY <2>2, <2>3, <3>1
    <3>2. CASE ~ (1 <= i - 1)
      <4>1. i - 1 = 0
        BY <2>1, <3>2
      <4> QED BY <2>2, <3>2, <4>1
    <3> QED BY <3>1, <3>2
  <2>5. ASSUME NEW k \in 1..(i - 1) PROVE a[k] = s[k]
    <3>1. k \in 1..((i - 1) - 1 + 1) /\ 1 + k - 1 = k
      BY <2>3
    <3>2. a[k] = s[1 + k - 1]
      BY <2>2, <3>1
    <3> QED BY <3>1, <3>2
  <2> QED BY <2>2, <2>4, <2>5
<1>2. /\ b \in Seq(Nat) /\ Len(b) = Len(s) - i /\ \A k \in 1..(Len(s) - i) : b[k] = s[k + i]
  <2>1. i + 1 \in Nat \ {0} /\ Len(s) <= Len(s)
    BY <1>0
  <2>2. /\ b \in Seq(Nat) /\ Len(b) = IF i + 1 <= Len(s) THEN Len(s) - (i + 1) + 1 ELSE 0
        /\ \A k \in 1..(Len(s) - (i + 1) + 1) : b[k] = s[(i + 1) + k - 1]
    BY <1>0, <2>1, Piece
  <2> HIDE DEF b
  <2>3. \A k \in 1..(Len(s) - i) : (i + 1) + k - 1 = k + i
    BY <1>0
  <2>4. Len(s) - (i + 1) + 1 = Len(s) - i
    BY <1>0
  <2>5. Len(b) = Len(s) - i
    <3>1. Len(s) \in Nat
      BY <1>0
    <3>2. CASE i + 1 <= Len(s)
      BY <2>2, <2>4, <3>2
    <3>3. CASE ~(i + 1 <= Len(s))
      <4>1. i = Len(s) /\ Len(b) = 0
        BY <2>2, <3>1, <3>3
      <4> QED BY <3>1, <4>1
    <3> QED BY <3>2, <3>3
  <2>6. \A k \in 1..(Len(s) - i) : b[k] = s[k + i]
    BY <2>2, <2>3, <2>4
  <2> QED BY <2>2, <2>5, <2>6
<1> HIDE DEF a, b, r
<1>3. /\ r \in Seq(Nat) /\ Len(r) = Len(a) + Len(b)
      /\ \A k \in 1..(Len(a) + Len(b)) : r[k] = IF k <= Len(a) THEN a[k] ELSE b[k - Len(a)]
  BY <1>0, <1>1, <1>2, ConcatProperties
<1>4. Len(r) = Len(s) - 1
  BY <1>0, <1>1, <1>2, <1>3
<1>5. ASSUME NEW k \in 1..(Len(s) - 1) PROVE r[k] = IF k < i THEN s[k] ELSE s[k + 1]
  <2>1. CASE k < i
    <3>1. k \in 1..(i - 1) /\ k \in 1..(Len(a) + Len(b)) /\ k <= Len(a)
      BY <1>0, <1>1, <1>2, <2>1
    <3> QED BY <1>1, <1>3, <2>1, <3>1
  <2>2. CASE ~(k < i)
    <3>1. /\ k - (i - 1) \in 1..(Len(s) - i) /\ (k - (i - 1)) + i = k + 1
          /\ k \in 1..(Len(a) + Len(b)) /\ ~(k <= Len(a)) /\ k - Len(a) = k - (i - 1)
      BY <1>0, <1>1, <1>2, <2>2
    <3> QED BY <1>2, <1>3, <2>2, <3>1
  <2> QED BY <2>1, <2>2
<1>6. /\ \A y : y \in ToSet(s) <=> \E k \in 1..Len(s) : s[k] = y
      /\ \A y : y \in ToSet(r) <=> \E k \in 1..(Len(s) - 1) : r[k] = y
  BY <1>3, <1>4, InToSet, ZenonT(60)
<1>7. ASSUME NEW y, y \in ToSet(r) PROVE y \in ToSet(s) /\ y # s[i]
  <2>1. PICK k \in 1..(Len(s) - 1) : r[k] = y
    BY <1>6, <1>7
  <2>2. PICK j \in 1..Len(s) : j # i /\ s[j] = y
    <3>1. CASE k < i
      <4>1. k \in 1..Len(s) /\ k # i
        BY <1>0, <3>1
      <4>2. s[k] = y
        BY <1>5, <2>1, <3>1
      <4> QED BY <4>1, <4>2
    <3>2. CASE ~(k < i)
      <4>1. k + 1 \in 1..Len(s) /\ k + 1 # i
        BY <1>0, <3>2
      <4>2. s[k + 1] = y
        BY <1>5, <2>1, <3>2
      <4> QED BY <4>1, <4>2
    <3> QED BY <3>1, <3>2
  <2> QED BY <1>6, <2>2 DEF Distinct
<1>8. ASSUME NEW y, y \in ToSet(s), y # s[i] PROVE y \in ToSet(r)
  <2>1. PICK k \in 1..Len(s) : s[k] = y /\ k # i
    BY <1>6, <1>8
  <2>2. CASE k < i
    <3>1. k \in 1..(Len(s) - 1)
      BY <1>0, <2>1, <2>2
    <3>2. r[k] = y
      BY <1>5, <2>1, <2>2, <3>1
    <3> QED BY <1>6, <3>1, <3>2
  <2>3. CASE ~(k < i)
    <3>1. k - 1 \in 1..(Len(s) - 1) /\ ~(k - 1 < i) /\ (k - 1) + 1 = k
      BY <1>0, <2>1, <2>3
    <3>2. r[k - 1] = y
      BY <1>5, <2>1, <3>1
    <3> QED BY <1>6, <3>1, <3>2
  <2> QED BY <2>2, <2>3
<1> QED BY <1>0, <1>3, <1>4, <1>5, <1>7, <1>8 DEF r

LEMMA EmptyToSet == \A y : y \notin ToSet(<<>>)
BY DEF ToSet

-----------------------------------------------------------------------------
(* The steps. *)

LEMMA DupFacts ==
    ASSUME PortInv, NEW f \in Function, Dup(f)
    PROVE  /\ fnOf' \in Seq(Function) /\ Len(fnOf') = Len(fnOf) + 1 /\ Len(fnOf) \in Nat
           /\ New = Len(fnOf) + 1 /\ New \in Nat \ {0} /\ New \notin HandleId
           /\ \A h : h \in HandleId' <=> (h \in HandleId \/ h = New)
           /\ \A h \in HandleId : fnOf'[h] = fnOf[h]
           /\ fnOf'[New] = f
           /\ \A h : h \in alive' <=> (h \in alive \/ h = New)
<1>1. fnOf' = Append(fnOf, f) /\ alive' = alive \cup {New} /\ fnOf \in Seq(Function)
  BY DEF Dup, PortInv, PortTypes
<1>2. /\ fnOf' \in Seq(Function) /\ Len(fnOf') = Len(fnOf) + 1 /\ Len(fnOf) \in Nat
      /\ fnOf'[Len(fnOf) + 1] = f /\ \A h \in 1..Len(fnOf) : fnOf'[h] = fnOf[h]
  BY <1>1, AppendProperties, LenProperties
<1> QED BY <1>1, <1>2 DEF New, HandleId

\* A handle of the host's that no table names yet.
LEMMA NewIsApart ==
    ASSUME PortInv
    PROVE  /\ New \notin HandleId /\ New # onmessage /\ New \notin ToSet(listeners)
           /\ New \notin timeouts /\ New \notin intervals /\ New \notin ToSet(queued)
           /\ New \notin pendingRefs /\ New \notin Borrowed
<1>1. New \notin HandleId /\ New # 0
  BY DEF PortInv, PortTypes, HandleId, New
<1> QED BY <1>1 DEF PortInv, PortTypes, QueueMatches

LEMMA AddEventListenerKeeps ==
    ASSUME PortInv, NEW f \in Function, AddEventListener(f)
    PROVE  PortInv'
<1>1. PortTypes /\ OwnedOnce /\ QueueMatches /\ ListenersDiffer /\ QuietAfterDispose
  BY DEF PortInv
<1>2. /\ InVm /\ ~Registered(f) /\ Len(listeners) < MaxListeners
      /\ Dup(f) /\ listeners' = Append(listeners, New)
      /\ UNCHANGED <<onmessage, timeouts, intervals, pendingRefs, queued, closed, running, jobs,
                     phase>>
      /\ Borrowed' = Borrowed
  BY DEF AddEventListener, KeepsRunning, Borrowed
<1>3. /\ fnOf' \in Seq(Function) /\ Len(fnOf') = Len(fnOf) + 1 /\ Len(fnOf) \in Nat
      /\ New = Len(fnOf) + 1 /\ New \in Nat \ {0} /\ New \notin HandleId
      /\ \A h : h \in HandleId' <=> (h \in HandleId \/ h = New)
      /\ \A h \in HandleId : fnOf'[h] = fnOf[h]
      /\ fnOf'[New] = f
      /\ \A h : h \in alive' <=> (h \in alive \/ h = New)
  BY <1>2, DupFacts
<1>4. /\ listeners' \in Seq(Nat) /\ Len(listeners') = Len(listeners) + 1 /\ Len(listeners) \in Nat
      /\ listeners'[Len(listeners) + 1] = New
      /\ \A i \in 1..Len(listeners) : listeners'[i] = listeners[i]
      /\ \A y : y \in ToSet(listeners') <=> (y \in ToSet(listeners) \/ y = New)
  BY <1>1, <1>2, <1>3, AppendToSet DEF PortTypes
<1>5. /\ New \notin HandleId /\ New # onmessage /\ New \notin ToSet(listeners)
      /\ New \notin timeouts /\ New \notin intervals /\ New \notin ToSet(queued)
      /\ New \notin pendingRefs /\ New \notin Borrowed
  BY NewIsApart
<1> DEFINE n == New
<1> HIDE DEF n
<1>6. PortTypes'
  BY <1>1, <1>2, <1>3, <1>4 DEF PortTypes
<1>7. OwnedOnce'
  BY <1>1, <1>2, <1>3, <1>4, <1>5 DEF OwnedOnce, Apart
<1>8. QueueMatches' /\ QuietAfterDispose'
  BY <1>1, <1>2 DEF QueueMatches, QuietAfterDispose
<1>9. ListenersDiffer'
  <2>1. \A i \in 1..Len(listeners) : listeners[i] \in HandleId /\ fnOf[listeners[i]] # f
    <3>1. \A i \in 1..Len(listeners) : listeners[i] \in ToSet(listeners)
      BY <1>1, InToSet DEF PortTypes
    <3>2. DOMAIN listeners = 1..Len(listeners)
      BY <1>1, LenProperties DEF PortTypes
    <3> QED BY <1>1, <1>2, <3>1, <3>2 DEF PortTypes, Registered
  <2>2. Len(listeners') <= MaxListeners
    BY <1>2, <1>4, BoundAssumption
  <2>3. \A i \in 1..Len(listeners) :
          fnOf'[listeners'[i]] = fnOf[listeners[i]] /\ fnOf'[listeners'[i]] # f
    BY <1>3, <1>4, <2>1
  <2>4. \A i \in 1..Len(listeners') : i \in 1..Len(listeners) \/ i = Len(listeners) + 1
    BY <1>4
  <2>5. fnOf'[listeners'[Len(listeners) + 1]] = f
    BY <1>3, <1>4
  <2>6. \A i, j \in 1..Len(listeners) : fnOf[listeners[i]] = fnOf[listeners[j]] => i = j
    BY <1>1 DEF ListenersDiffer
  <2>7. \A i, j \in 1..Len(listeners') : fnOf'[listeners'[i]] = fnOf'[listeners'[j]] => i = j
    BY <2>3, <2>4, <2>5, <2>6
  <2> QED BY <2>2, <2>7 DEF ListenersDiffer
<1> QED BY <1>6, <1>7, <1>8, <1>9 DEF PortInv

LEMMA ListenersAreDistinct == ASSUME PortInv PROVE Distinct(listeners)
BY DEF PortInv, ListenersDiffer, Distinct

LEMMA RemoveEventListenerKeeps ==
    ASSUME PortInv, NEW i, RemoveEventListener(i)
    PROVE  PortInv'
<1>1. PortTypes /\ OwnedOnce /\ QueueMatches /\ ListenersDiffer /\ QuietAfterDispose
  BY DEF PortInv
<1>2. /\ i \in 1..Len(listeners) /\ alive' = alive \ {listeners[i]}
      /\ listeners' = RemoveAt(listeners, i)
      /\ UNCHANGED <<fnOf, onmessage, timeouts, intervals, pendingRefs, queued, closed, running,
                     jobs,
                     phase>>
      /\ Borrowed' = Borrowed /\ HandleId' = HandleId
  BY <1>1, LenProperties DEF RemoveEventListener, Release, KeepsRunning, Borrowed, HandleId,
                             PortTypes
<1>3. /\ listeners' \in Seq(Nat) /\ Len(listeners') = Len(listeners) - 1 /\ Len(listeners) \in Nat
      /\ \A k \in 1..(Len(listeners) - 1) :
           listeners'[k] = IF k < i THEN listeners[k] ELSE listeners[k + 1]
      /\ \A y : y \in ToSet(listeners') <=> (y \in ToSet(listeners) /\ y # listeners[i])
  <2>1. listeners \in Seq(Nat) /\ Distinct(listeners)
    BY <1>1, ListenersAreDistinct DEF PortTypes
  <2> DEFINE r == RemoveAt(listeners, i)
  <2>2. /\ r \in Seq(Nat) /\ Len(r) = Len(listeners) - 1 /\ Len(listeners) \in Nat
        /\ \A k \in 1..(Len(listeners) - 1) : r[k] = IF k < i THEN listeners[k] ELSE listeners[k + 1]
        /\ \A y : y \in ToSet(r) <=> (y \in ToSet(listeners) /\ y # listeners[i])
    BY <1>2, <2>1, RemoveAtToSet
  <2> QED BY <1>2, <2>2
<1>4. listeners[i] \in ToSet(listeners)
  BY <1>1, <1>2, InToSet DEF PortTypes
<1>5. PortTypes'
  BY <1>1, <1>2, <1>3 DEF PortTypes
<1>6. OwnedOnce'
  BY <1>1, <1>2, <1>3, <1>4 DEF OwnedOnce, Apart, QueueMatches
<1>7. QueueMatches' /\ QuietAfterDispose'
  BY <1>1, <1>2 DEF QueueMatches, QuietAfterDispose
<1>8. ListenersDiffer'
  <2>1. Len(listeners') <= MaxListeners
    BY <1>1, <1>3, BoundAssumption DEF ListenersDiffer
  <2> SUFFICES ASSUME NEW j \in 1..Len(listeners'), NEW k \in 1..Len(listeners'),
                      fnOf[listeners'[j]] = fnOf[listeners'[k]]
               PROVE  j = k
    BY <1>2, <2>1 DEF ListenersDiffer
  <2> DEFINE was(m) == IF m < i THEN m ELSE m + 1
  <2>2. /\ j \in 1..(Len(listeners) - 1) /\ k \in 1..(Len(listeners) - 1)
    BY <1>3
  <2>3. was(j) \in 1..Len(listeners) /\ was(k) \in 1..Len(listeners)
    BY <1>2, <1>3, <2>2
  <2>4. listeners'[j] = listeners[was(j)] /\ listeners'[k] = listeners[was(k)]
    BY <1>3, <2>2
  <2>5. was(j) = was(k)
    <3> HIDE DEF was
    <3> QED BY <1>1, <2>3, <2>4 DEF ListenersDiffer
  <2> QED BY <1>2, <1>3, <2>2, <2>5
<1> QED BY <1>5, <1>6, <1>7, <1>8 DEF PortInv

\* Steps that leave the listeners, the queue and what runs as they are: the
\* tables trade handles among themselves, or with the new one.
LEMMA TablesTrade ==
    ASSUME PortInv, UNCHANGED <<listeners, queued, pendingRefs, running, phase>>,
           fnOf' \in Seq(Function), Len(fnOf') \in Nat, HandleId \subseteq HandleId',
           \A h \in HandleId : fnOf'[h] = fnOf[h],
           onmessage' \in Nat, onmessage' = 0 \/ onmessage' \in HandleId',
           timeouts' \subseteq HandleId', intervals' \subseteq HandleId', alive' \subseteq HandleId',
           OwnedOnce'
    PROVE  PortInv'
<1>1. PortTypes /\ OwnedOnce /\ QueueMatches /\ ListenersDiffer /\ QuietAfterDispose
  BY DEF PortInv
<1>2. Borrowed' = Borrowed
  BY DEF Borrowed
<1>3. PortTypes'
  BY <1>1, <1>2 DEF PortTypes
<1>4. QueueMatches' /\ QuietAfterDispose'
  BY <1>1 DEF QueueMatches, QuietAfterDispose
<1>5. \A i \in 1..Len(listeners) : fnOf'[listeners[i]] = fnOf[listeners[i]]
  BY <1>1, InToSet DEF PortTypes
<1>6. ListenersDiffer'
  BY <1>1, <1>5 DEF ListenersDiffer
<1> QED BY <1>3, <1>4, <1>6 DEF PortInv

LEMMA SetOnMessageKeeps ==
    ASSUME PortInv, NEW f \in Function, SetOnMessage(f)
    PROVE  PortInv'
<1>1. PortTypes /\ OwnedOnce
  BY DEF PortInv
<1>2. /\ fnOf' = Append(fnOf, f) /\ alive' = (alive \ OnMessage) \cup {New} /\ onmessage' = New
      /\ UNCHANGED <<listeners, timeouts, intervals, pendingRefs, queued, closed, running, jobs,
                     phase>>
      /\ Borrowed' = Borrowed
  BY DEF SetOnMessage, KeepsRunning, Borrowed
<1>3. /\ fnOf' \in Seq(Function) /\ Len(fnOf') = Len(fnOf) + 1 /\ Len(fnOf) \in Nat
      /\ \A h \in 1..Len(fnOf) : fnOf'[h] = fnOf[h]
  BY <1>1, <1>2, AppendProperties, LenProperties DEF PortTypes
<1>4. /\ New \in Nat \ {0} /\ \A h \in HandleId : fnOf'[h] = fnOf[h]
      /\ \A h : h \in HandleId' <=> (h \in HandleId \/ h = New)
  BY <1>3 DEF New, HandleId
<1>5. /\ New \notin HandleId /\ New # onmessage /\ New \notin ToSet(listeners)
      /\ New \notin timeouts /\ New \notin intervals /\ New \notin ToSet(queued)
      /\ New \notin pendingRefs /\ New \notin Borrowed
  BY NewIsApart
<1>6. \A h : h \in alive' <=> ((h \in alive /\ ~(h = onmessage /\ onmessage # 0)) \/ h = New)
  BY <1>2 DEF OnMessage
<1>7. pendingRefs \subseteq ToSet(queued)
  BY DEF PortInv, QueueMatches
<1>8. OwnedOnce'
  BY <1>1, <1>2, <1>4, <1>5, <1>6, <1>7 DEF OwnedOnce, Apart
<1>9. HandleId \subseteq HandleId' /\ timeouts' \subseteq HandleId' /\ intervals' \subseteq HandleId'
      /\ alive' \subseteq HandleId' /\ onmessage' \in HandleId' /\ onmessage' \in Nat
      /\ Len(fnOf') \in Nat
  BY <1>1, <1>2, <1>3, <1>4, <1>6 DEF PortTypes
<1> QED BY <1>2, <1>3, <1>4, <1>8, <1>9, TablesTrade

LEMMA ClearOnMessageKeeps ==
    ASSUME PortInv, ClearOnMessage
    PROVE  PortInv'
<1>1. PortTypes /\ OwnedOnce
  BY DEF PortInv
<1>2. /\ onmessage # 0 /\ alive' = alive \ {onmessage} /\ onmessage' = 0
      /\ UNCHANGED <<fnOf, listeners, timeouts, intervals, pendingRefs, queued, running, phase>>
      /\ Borrowed' = Borrowed /\ HandleId' = HandleId
  BY DEF ClearOnMessage, Release, KeepsRunning, Borrowed, HandleId
<1>3. pendingRefs \subseteq ToSet(queued) /\ 0 \notin HandleId
  BY DEF PortInv, QueueMatches, HandleId
<1>4. OwnedOnce'
  BY <1>1, <1>2, <1>3 DEF OwnedOnce, Apart, PortTypes
<1>5. /\ fnOf' \in Seq(Function) /\ Len(fnOf') \in Nat /\ timeouts' \subseteq HandleId'
      /\ intervals' \subseteq HandleId' /\ alive' \subseteq HandleId'
  BY <1>1, <1>2 DEF PortTypes
<1> QED BY <1>2, <1>4, <1>5, TablesTrade

LEMMA SetTimeoutKeeps ==
    ASSUME PortInv, NEW f \in Function, SetTimeout(f) \/ SetInterval(f)
    PROVE  PortInv'
<1>1. PortTypes /\ OwnedOnce /\ pendingRefs \subseteq ToSet(queued)
  BY DEF PortInv, QueueMatches
<1>2. /\ Dup(f)
      /\ UNCHANGED <<onmessage, listeners, pendingRefs, queued, running, phase>>
      /\ Borrowed' = Borrowed
      /\ \/ timeouts' = timeouts \cup {New} /\ UNCHANGED intervals
         \/ intervals' = intervals \cup {New} /\ UNCHANGED timeouts
  BY DEF SetTimeout, SetInterval, KeepsRunning, Borrowed
<1>3. /\ fnOf' \in Seq(Function) /\ Len(fnOf') = Len(fnOf) + 1 /\ Len(fnOf) \in Nat
      /\ \A h : h \in HandleId' <=> (h \in HandleId \/ h = New)
      /\ \A h \in HandleId : fnOf'[h] = fnOf[h]
      /\ New \in Nat \ {0}
      /\ \A h : h \in alive' <=> (h \in alive \/ h = New)
  BY <1>2, DupFacts
<1>4. /\ New \notin HandleId /\ New # onmessage /\ New \notin ToSet(listeners)
      /\ New \notin timeouts /\ New \notin intervals /\ New \notin ToSet(queued)
      /\ New \notin pendingRefs /\ New \notin Borrowed
  BY NewIsApart
<1>5. OwnedOnce'
  BY <1>1, <1>2, <1>3, <1>4 DEF OwnedOnce, Apart
<1>6. HandleId \subseteq HandleId' /\ timeouts' \subseteq HandleId' /\ intervals' \subseteq HandleId'
      /\ alive' \subseteq HandleId' /\ onmessage' \in Nat /\ (onmessage' = 0 \/ onmessage' \in HandleId')
      /\ Len(fnOf') \in Nat
  BY <1>1, <1>2, <1>3 DEF PortTypes
<1> QED BY <1>2, <1>3, <1>5, <1>6, TablesTrade

LEMMA ClearTimerKeeps ==
    ASSUME PortInv, NEW h, ClearTimer(h)
    PROVE  PortInv'
<1>1. PortTypes /\ OwnedOnce /\ pendingRefs \subseteq ToSet(queued)
  BY DEF PortInv, QueueMatches
<1>2. /\ h \in timeouts \cup intervals /\ alive' = alive \ {h}
      /\ timeouts' = timeouts \ {h} /\ intervals' = intervals \ {h}
      /\ UNCHANGED <<fnOf, onmessage, listeners, pendingRefs, queued, running, phase>>
      /\ Borrowed' = Borrowed /\ HandleId' = HandleId
  BY DEF ClearTimer, Release, KeepsRunning, Borrowed, HandleId
<1>3. OwnedOnce'
  BY <1>1, <1>2 DEF OwnedOnce, Apart
<1>4. /\ fnOf' \in Seq(Function) /\ Len(fnOf') \in Nat /\ timeouts' \subseteq HandleId'
      /\ intervals' \subseteq HandleId' /\ alive' \subseteq HandleId'
      /\ onmessage' \in Nat /\ (onmessage' = 0 \/ onmessage' \in HandleId')
  BY <1>1, <1>2 DEF PortTypes
<1> QED BY <1>2, <1>3, <1>4, TablesTrade

LEMMA CloseKeeps ==
    ASSUME PortInv, Close
    PROVE  PortInv'
<1>1. PortTypes /\ OwnedOnce /\ QueueMatches /\ ListenersDiffer /\ QuietAfterDispose
  BY DEF PortInv
<1>2. /\ alive' = alive \ PortHandles /\ onmessage' = 0 /\ listeners' = <<>>
      /\ UNCHANGED <<fnOf, timeouts, intervals, pendingRefs, queued, running, phase>>
      /\ Borrowed' = Borrowed /\ HandleId' = HandleId
  BY DEF Close, Release, DisposeHandles, KeepsRunning, Borrowed, HandleId
<1>3. /\ \A h : h \in PortHandles <=> (h \in ToSet(listeners) \/ (h = onmessage /\ h # 0))
      /\ 0 \notin HandleId
  BY DEF PortHandles, OnMessage, HandleId
<1>4. (\A y : y \notin ToSet(listeners')) /\ listeners' \in Seq(Nat) /\ Len(listeners') = 0
  BY <1>2, EmptyToSet
<1>5. PortTypes'
  BY <1>1, <1>2, <1>4 DEF PortTypes
<1>6. OwnedOnce'
  BY <1>1, <1>2, <1>3, <1>4 DEF OwnedOnce, Apart, QueueMatches, PortTypes
<1>7. QueueMatches' /\ QuietAfterDispose'
  BY <1>1, <1>2 DEF QueueMatches, QuietAfterDispose
<1>8. ListenersDiffer'
  BY <1>4, BoundAssumption DEF ListenersDiffer
<1> QED BY <1>5, <1>6, <1>7, <1>8 DEF PortInv

LEMMA QueueMicrotaskKeeps ==
    ASSUME PortInv, NEW f \in Function, QueueMicrotask(f)
    PROVE  PortInv'
<1>1. PortTypes /\ OwnedOnce /\ QueueMatches /\ ListenersDiffer /\ QuietAfterDispose
  BY DEF PortInv
<1>2. /\ Dup(f) /\ pendingRefs' = pendingRefs \cup {New} /\ queued' = Append(queued, New)
      /\ UNCHANGED <<onmessage, listeners, timeouts, intervals, running, phase>>
      /\ Borrowed' = Borrowed
  BY DEF QueueMicrotask, KeepsRunning, Borrowed
<1>3. /\ fnOf' \in Seq(Function) /\ Len(fnOf') = Len(fnOf) + 1 /\ Len(fnOf) \in Nat
      /\ \A h : h \in HandleId' <=> (h \in HandleId \/ h = New)
      /\ \A h \in HandleId : fnOf'[h] = fnOf[h]
      /\ New \in Nat \ {0}
      /\ \A h : h \in alive' <=> (h \in alive \/ h = New)
  BY <1>2, DupFacts
<1>4. /\ New \notin HandleId /\ New # onmessage /\ New \notin ToSet(listeners)
      /\ New \notin timeouts /\ New \notin intervals /\ New \notin ToSet(queued)
      /\ New \notin pendingRefs /\ New \notin Borrowed
  BY NewIsApart
<1>5. /\ queued' \in Seq(Nat) /\ Distinct(queued')
      /\ \A y : y \in ToSet(queued') <=> (y \in ToSet(queued) \/ y = New)
  BY <1>1, <1>2, <1>3, <1>4, AppendToSet DEF PortTypes, QueueMatches
<1>6. PortTypes'
  BY <1>1, <1>2, <1>3, <1>5 DEF PortTypes
<1>7. OwnedOnce'
  BY <1>1, <1>2, <1>3, <1>4, <1>5 DEF OwnedOnce, Apart
<1>8. QueueMatches'
  BY <1>1, <1>2, <1>5 DEF QueueMatches
<1>9. ListenersDiffer'
  <2>1. \A i \in 1..Len(listeners) : fnOf'[listeners[i]] = fnOf[listeners[i]]
    BY <1>1, <1>3, InToSet DEF PortTypes
  <2> QED BY <1>1, <1>2, <2>1 DEF ListenersDiffer
<1>10. QuietAfterDispose'
  BY <1>1, <1>2 DEF QuietAfterDispose
<1> QED BY <1>6, <1>7, <1>8, <1>9, <1>10 DEF PortInv

\* The host calls a function it holds, or none: the tables keep their handles.
LEMMA CallKeeps ==
    ASSUME PortInv, UNCHANGED <<fnOf, alive, held, phase>>, phase = "open",
           running'.by \in {"nobody", "run", "message", "interval", "jobs"}, Borrowed = {}
    PROVE  PortInv'
<1>1. PortTypes /\ OwnedOnce /\ QueueMatches /\ ListenersDiffer
  BY DEF PortInv
<1>2. UNCHANGED <<fnOf, alive, onmessage, listeners, timeouts, intervals, pendingRefs, queued,
                  phase>>
      /\ HandleId' = HandleId /\ Borrowed' = Borrowed
  BY DEF held, HandleId, Borrowed
<1>3. PortTypes' /\ OwnedOnce' /\ QueueMatches' /\ ListenersDiffer'
  BY <1>1, <1>2 DEF PortTypes, OwnedOnce, QueueMatches, ListenersDiffer
<1>4. QuietAfterDispose'
  BY <1>2 DEF QuietAfterDispose
<1> QED BY <1>3, <1>4 DEF PortInv

LEMMA IdleBorrowsNothing == ~InVm => Borrowed = {} /\ running.by = "nobody"
BY DEF InVm, Nobody, Borrowed

LEMMA HostCallsKeep ==
    ASSUME PortInv, Run \/ Deliver \/ NextHandler \/ \E h \in 1..MaxHandles : IntervalFires(h)
    PROVE  PortInv'
<1>1. CASE Run
  <2>1. /\ UNCHANGED <<fnOf, alive, held, phase>> /\ phase = "open" /\ Borrowed = {}
        /\ running'.by = "run"
    BY <1>1, IdleBorrowsNothing DEF Run, Calling, IsDisposed
  <2> QED BY <2>1, CallKeeps
<1>2. CASE Deliver
  <2>1. /\ UNCHANGED <<fnOf, alive, held, phase>> /\ phase = "open" /\ Borrowed = {}
        /\ running'.by \in {"jobs", "message"}
    BY <1>2, IdleBorrowsNothing DEF Deliver, Calling, IsDisposed
  <2> QED BY <2>1, CallKeeps
<1>3. CASE NextHandler
  <2>1. /\ UNCHANGED <<fnOf, alive, held, phase>> /\ phase = "open" /\ Borrowed = {}
        /\ running'.by \in {"nobody", "message"}
    BY <1>3 DEF NextHandler, Calling, Nobody, Borrowed, PortInv, QuietAfterDispose
  <2> QED BY <2>1, CallKeeps
<1>4. CASE \E h \in 1..MaxHandles : IntervalFires(h)
  <2>1. /\ UNCHANGED <<fnOf, alive, held, phase>> /\ phase = "open" /\ Borrowed = {}
        /\ running'.by = "interval"
    BY <1>4, IdleBorrowsNothing DEF IntervalFires, Calling, IsDisposed
  <2> QED BY <2>1, CallKeeps
<1> QED BY <1>1, <1>2, <1>3, <1>4

LEMMA TimeoutFiresKeeps ==
    ASSUME PortInv, NEW h, TimeoutFires(h)
    PROVE  PortInv'
<1>1. PortTypes /\ OwnedOnce /\ QueueMatches /\ ListenersDiffer /\ QuietAfterDispose
  BY DEF PortInv
<1>2. /\ h \in timeouts /\ timeouts' = timeouts \ {h} /\ Borrowed = {}
      /\ UNCHANGED <<fnOf, onmessage, listeners, intervals, pendingRefs, queued, phase>>
      /\ HandleId' = HandleId
  BY IdleBorrowsNothing DEF TimeoutFires, HandleId, Release
<1>3. \/ phase # "open" /\ alive' = alive \ {h} /\ UNCHANGED running /\ Borrowed' = {}
      \/ phase = "open" /\ alive' = alive /\ running'.by = "timeout" /\ Borrowed' = {h}
  BY <1>2 DEF TimeoutFires, Release, Calling, Borrowed, IsDisposed
<1>4. PortTypes'
  BY <1>1, <1>2, <1>3 DEF PortTypes
<1>5. OwnedOnce'
  BY <1>1, <1>2, <1>3 DEF OwnedOnce, Apart, QueueMatches
<1>6. QueueMatches' /\ ListenersDiffer'
  BY <1>1, <1>2 DEF QueueMatches, ListenersDiffer
<1>7. QuietAfterDispose'
  BY <1>1, <1>2, <1>3 DEF QuietAfterDispose
<1> QED BY <1>4, <1>5, <1>6, <1>7 DEF PortInv

LEMMA MicrotaskRunsKeeps ==
    ASSUME PortInv, MicrotaskRuns
    PROVE  PortInv'
<1> DEFINE h == Head(queued)
<1>1. PortTypes /\ OwnedOnce /\ QueueMatches /\ ListenersDiffer /\ QuietAfterDispose
  BY DEF PortInv
<1>2. /\ queued # <<>> /\ queued' = Tail(queued) /\ pendingRefs' = pendingRefs \ {h} /\ Borrowed = {}
      /\ UNCHANGED <<fnOf, onmessage, listeners, timeouts, intervals, phase>>
      /\ HandleId' = HandleId
  BY IdleBorrowsNothing DEF MicrotaskRuns, HandleId, Release
<1>3. \/ phase # "open" /\ alive' = alive \ {h} /\ UNCHANGED running /\ Borrowed' = {}
      \/ phase = "open" /\ alive' = alive /\ running'.by = "microtask" /\ Borrowed' = {h}
  BY <1>2 DEF MicrotaskRuns, Release, Calling, Borrowed, IsDisposed
<1>4. /\ queued' \in Seq(Nat) /\ h \in ToSet(queued) /\ Distinct(queued')
      /\ \A y : y \in ToSet(queued') <=> (y \in ToSet(queued) /\ y # h)
  BY <1>1, <1>2, TailToSet DEF PortTypes, QueueMatches
<1> HIDE DEF h
<1>5. PortTypes'
  BY <1>1, <1>2, <1>3, <1>4 DEF PortTypes
<1>6. OwnedOnce'
  BY <1>1, <1>2, <1>3, <1>4 DEF OwnedOnce, Apart, QueueMatches
<1>7. QueueMatches' /\ ListenersDiffer'
  BY <1>1, <1>2, <1>4 DEF QueueMatches, ListenersDiffer
<1>8. QuietAfterDispose'
  BY <1>1, <1>2, <1>3 DEF QuietAfterDispose
<1> QED BY <1>5, <1>6, <1>7, <1>8 DEF PortInv

LEMMA ReturnsKeeps ==
    ASSUME PortInv, Returns
    PROVE  PortInv'
<1>1. PortTypes /\ OwnedOnce /\ QueueMatches /\ ListenersDiffer /\ QuietAfterDispose
  BY DEF PortInv
<1>2. /\ alive' = alive \ Borrowed /\ running' = Nobody /\ Borrowed' = {}
      /\ UNCHANGED <<fnOf, onmessage, listeners, timeouts, intervals, pendingRefs, queued>>
      /\ HandleId' = HandleId /\ running'.by = "nobody"
      /\ phase' = IF phase = "disposing" THEN "freed" ELSE phase
  BY DEF Returns, Release, held, Borrowed, HandleId, Nobody
<1>3. PortTypes'
  BY <1>1, <1>2 DEF PortTypes
<1>4. OwnedOnce'
  BY <1>1, <1>2 DEF OwnedOnce, Apart, QueueMatches
<1>5. QueueMatches' /\ ListenersDiffer' /\ QuietAfterDispose'
  BY <1>1, <1>2 DEF QueueMatches, ListenersDiffer, QuietAfterDispose
<1> QED BY <1>3, <1>4, <1>5 DEF PortInv

LEMMA PortDisposeKeeps ==
    ASSUME PortInv, PortDispose
    PROVE  PortInv'
<1>1. PortTypes /\ OwnedOnce /\ QueueMatches /\ ListenersDiffer
  BY DEF PortInv
<1>2. /\ alive' = alive \ (timeouts \cup intervals \cup pendingRefs \cup PortHandles)
      /\ timeouts' = {} /\ intervals' = {} /\ pendingRefs' = {} /\ onmessage' = 0
      /\ listeners' = <<>> /\ Borrowed = {} /\ HandleId' = HandleId
      /\ UNCHANGED <<fnOf, queued>>
  BY IdleBorrowsNothing DEF PortDispose, Release, DisposeHandles, HandleId
<1>3. /\ running'.by \in {"nobody", "jobs"} /\ Borrowed' = {} /\ phase' \in {"disposing", "freed"}
  BY IdleBorrowsNothing DEF PortDispose, Calling, Borrowed
<1>4. /\ \A h : h \in PortHandles <=> (h \in ToSet(listeners) \/ (h = onmessage /\ h # 0))
      /\ 0 \notin HandleId
  BY DEF PortHandles, OnMessage, HandleId
<1>5. (\A y : y \notin ToSet(listeners')) /\ listeners' \in Seq(Nat) /\ Len(listeners') = 0
  BY <1>2, EmptyToSet
<1>6. PortTypes'
  BY <1>1, <1>2, <1>3, <1>5 DEF PortTypes
<1>7. OwnedOnce'
  BY <1>1, <1>2, <1>3, <1>4, <1>5 DEF OwnedOnce, Apart, PortTypes
<1>8. QueueMatches' /\ QuietAfterDispose'
  BY <1>1, <1>2, <1>3 DEF QueueMatches, QuietAfterDispose
<1>9. ListenersDiffer'
  BY <1>5, BoundAssumption DEF ListenersDiffer
<1> QED BY <1>6, <1>7, <1>8, <1>9 DEF PortInv

LEMMA InitPortInv == PortInit => PortInv
<1> SUFFICES ASSUME PortInit PROVE PortInv
  OBVIOUS
<1>1. /\ fnOf = <<>> /\ alive = {} /\ onmessage = 0 /\ listeners = <<>>
      /\ timeouts = {} /\ intervals = {} /\ pendingRefs = {} /\ queued = <<>>
      /\ running.by = "nobody" /\ Borrowed = {} /\ phase = "open"
  BY DEF PortInit, Nobody, Borrowed
<1>2. /\ \A y : y \notin ToSet(<<>>)
      /\ <<>> \in Seq(Nat) /\ <<>> \in Seq(Function) /\ Len(<<>>) = 0
  BY EmptyToSet
<1>3. PortTypes
  BY <1>1, <1>2 DEF PortTypes
<1>4. OwnedOnce
  BY <1>1, <1>2 DEF OwnedOnce, Apart
<1>5. QueueMatches /\ ListenersDiffer /\ QuietAfterDispose
  BY <1>1, <1>2, BoundAssumption DEF QueueMatches, ListenersDiffer, QuietAfterDispose, Distinct
<1> QED BY <1>3, <1>4, <1>5 DEF PortInv

LEMMA PortStep == PortInv /\ [PortNext]_portVars => PortInv'
<1> SUFFICES ASSUME PortInv, [PortNext]_portVars PROVE PortInv'
  OBVIOUS
<1>1. CASE UNCHANGED portVars
  <2>1. /\ UNCHANGED <<fnOf, alive, onmessage, listeners, timeouts, intervals, pendingRefs,
                       queued,
                       running, phase>>
        /\ HandleId' = HandleId /\ Borrowed' = Borrowed
    BY <1>1 DEF portVars, HandleId, Borrowed
  <2>2. PortTypes /\ OwnedOnce /\ QueueMatches /\ ListenersDiffer /\ QuietAfterDispose
    BY DEF PortInv
  <2>3. PortTypes' /\ OwnedOnce'
    BY <2>1, <2>2 DEF PortTypes, OwnedOnce
  <2>4. QueueMatches' /\ ListenersDiffer' /\ QuietAfterDispose'
    BY <2>1, <2>2 DEF QueueMatches, ListenersDiffer, QuietAfterDispose
  <2> QED BY <2>3, <2>4 DEF PortInv
<1>2. CASE PortNext
  BY <1>2, AddEventListenerKeeps, SetOnMessageKeeps, SetTimeoutKeeps, QueueMicrotaskKeeps,
     RemoveEventListenerKeeps, ClearTimerKeeps, TimeoutFiresKeeps, ClearOnMessageKeeps, CloseKeeps,
     HostCallsKeep, MicrotaskRunsKeeps, ReturnsKeeps, PortDisposeKeeps DEF PortNext
<1> QED BY <1>1, <1>2

LEMMA PortInvImplies == PortInv => PortTypeOK /\ HandlesAreOwned
<1> SUFFICES ASSUME PortInv PROVE PortTypeOK /\ HandlesAreOwned
  OBVIOUS
<1>1. PortTypes /\ OwnedOnce /\ QueueMatches /\ ListenersDiffer
  BY DEF PortInv
<1>2. DOMAIN fnOf = HandleId /\ DOMAIN listeners = 1..Len(listeners)
  BY <1>1, LenProperties DEF PortTypes, HandleId
<1>3. listeners \in Seq(HandleId)
  <2>1. \A i \in 1..Len(listeners) : listeners[i] \in HandleId
    BY <1>1, InToSet DEF PortTypes
  <2>2. /\ listeners = [i \in 1..Len(listeners) |-> listeners[i]]
        /\ Len(listeners) \in Nat
    BY <1>1 DEF PortTypes
  <2>3. listeners \in [1..Len(listeners) -> HandleId]
    BY <2>1, <2>2
  <2> QED BY <2>2, <2>3, SeqDef, Zenon
<1>4. PortTypeOK
  BY <1>1, <1>2, <1>3 DEF PortTypes, PortTypeOK, QueueMatches
<1>5. alive = Owned
  <2>1. \A h : h \in Owned <=> \/ h = onmessage /\ h # 0
                               \/ h \in ToSet(listeners)
                               \/ h \in timeouts
                               \/ h \in intervals
                               \/ h \in pendingRefs
                               \/ h \in Borrowed
    BY DEF Owned, PortHandles, OnMessage, Borrowed
  <2> QED BY <1>1, <2>1 DEF OwnedOnce
<1>6. HandlesAreOwned
  BY <1>1, <1>2, <1>5 DEF HandlesAreOwned, ListenersDiffer
<1> QED BY <1>4, <1>6

LEMMA DisposedStays ==
    ASSUME PortInv, [PortNext]_portVars, IsDisposed
    PROVE  running' \in {running, Nobody}
<1>1. running.by \in {"nobody", "jobs"} /\ phase # "open"
  BY DEF PortInv, QuietAfterDispose, IsDisposed
<1>2. CASE UNCHANGED portVars
  BY <1>2 DEF portVars
<1>3. ASSUME NEW f \in Function, \/ AddEventListener(f) \/ SetOnMessage(f) \/ SetTimeout(f)
                                 \/ SetInterval(f) \/ QueueMicrotask(f)
      PROVE  running' = running
  BY <1>3 DEF AddEventListener, SetOnMessage, SetTimeout, SetInterval, QueueMicrotask,
              KeepsRunning
<1>4. ASSUME NEW h, \/ RemoveEventListener(h) \/ ClearTimer(h) \/ TimeoutFires(h) \/ IntervalFires(h)
      PROVE  running' = running
  BY <1>4 DEF RemoveEventListener, ClearTimer, TimeoutFires, IntervalFires, KeepsRunning
<1>5. ASSUME ClearOnMessage \/ Close \/ MicrotaskRuns
      PROVE  running' = running
  BY <1>5 DEF ClearOnMessage, Close, MicrotaskRuns, KeepsRunning
<1>6. ~Run /\ ~Deliver /\ ~NextHandler /\ ~PortDispose
  BY <1>1 DEF Run, Deliver, NextHandler, PortDispose
<1>7. Returns => running' = Nobody
  BY DEF Returns
<1>8. CASE PortNext
  BY <1>3, <1>4, <1>5, <1>6, <1>7, <1>8 DEF PortNext
<1> QED BY <1>2, <1>8

\* The host holds the handles its tables name and no other, and calls no
\* function of a sandbox it has disposed, for any functions and caps, whatever
\* the product calls and whenever timers, microtasks and messages come.
THEOREM HandlesAlwaysEnd == PortSpec => HandlesEndWithTheSandbox
<1>1. PortSpec => []PortInv
  BY InitPortInv, PortStep, PTL DEF PortSpec
<1>2. PortInv /\ [PortNext]_portVars => [IsDisposed => running' \in {running, Nobody}]_portVars
  BY DisposedStays
<1> QED BY <1>1, <1>2, PortInvImplies, PTL DEF PortSpec, HandlesEndWithTheSandbox, DisposeIsFinal

-----------------------------------------------------------------------------
(* React and the tree (ReactTree).                                            *)

\* A set of numbers has a least one.
LEMMA LeastOf ==
    ASSUME NEW S, S \subseteq Nat, S # {}
    PROVE  \E m \in S : \A x \in S : m <= x
<1> DEFINE R == {ss \in Nat \X Nat : ss[1] < ss[2]}
<1>1. IsWellFoundedOn(R, Nat)
  BY NatLessThanWellFounded DEF OpToRel
<1>2. PICK m \in S : \A x \in S : <<x, m>> \notin R
  <2> HIDE DEF R
  <2> QED BY <1>1, WFMin, Zenon
<1>3. ASSUME NEW x \in S PROVE m <= x
  <2>1. <<x, m>> \in Nat \X Nat /\ <<x, m>> \notin R
    BY <1>2
  <2>2. ~(<<x, m>>[1] < <<x, m>>[2])
    BY <2>1, Zenon
  <2> QED BY <2>1, <2>2
<1> QED BY <1>3

\* RemoveAt, index by index.
LEMMA OneLess ==
    ASSUME NEW S, NEW s \in Seq(S), NEW i \in 1..Len(s)
    PROVE  /\ RemoveAt(s, i) \in Seq(S) /\ Len(RemoveAt(s, i)) = Len(s) - 1
           /\ \A j \in 1..(Len(s) - 1) : RemoveAt(s, i)[j] = IF j < i THEN s[j] ELSE s[j + 1]
<1> DEFINE a == SubSeq(s, 1, i - 1)
           b == SubSeq(s, i + 1, Len(s))
<1>0. Len(s) \in Nat /\ i \in Nat /\ 1 <= i /\ i <= Len(s)
  BY LenProperties
<1>1. a \in Seq(S) /\ Len(a) = i - 1 /\ \A j \in 1..(i - 1) : a[j] = s[j]
  <2>1. 1 \in 1..(Len(s) + 1) /\ i - 1 \in (1 - 1)..Len(s)
    BY <1>0
  <2> QED BY <1>0, <2>1, SubSeqProperties
<1>2. b \in Seq(S) /\ Len(b) = Len(s) - i /\ \A j \in 1..(Len(s) - i) : b[j] = s[i + j]
  <2>1. i + 1 \in 1..(Len(s) + 1) /\ Len(s) \in (i + 1 - 1)..Len(s)
    BY <1>0
  <2>2. /\ b \in Seq(S)
        /\ Len(b) = IF i + 1 <= Len(s) THEN Len(s) - (i + 1) + 1 ELSE 0
        /\ \A j \in 1..(Len(s) - (i + 1) + 1) : b[j] = s[i + 1 + j - 1]
    BY <2>1, SubSeqProperties
  <2> QED BY <1>0, <2>2
<1> HIDE DEF a, b
<1>3. /\ a \o b \in Seq(S) /\ Len(a \o b) = Len(a) + Len(b)
      /\ \A j \in 1..(Len(a) + Len(b)) : (a \o b)[j] = IF j <= Len(a) THEN a[j] ELSE b[j - Len(a)]
  BY <1>1, <1>2, ConcatProperties
<1>4. Len(a) + Len(b) = Len(s) - 1
  BY <1>0, <1>1, <1>2
<1>5. ASSUME NEW j \in 1..(Len(s) - 1)
      PROVE  (a \o b)[j] = IF j < i THEN s[j] ELSE s[j + 1]
  <2>1. CASE j < i
    BY <1>0, <1>1, <1>3, <1>4, <2>1
  <2>2. CASE ~(j < i)
    <3>1. j - (i - 1) \in 1..(Len(s) - i) /\ i + (j - (i - 1)) = j + 1
      BY <1>0, <2>2
    <3>2. b[j - (i - 1)] = s[j + 1]
      BY <1>2, <3>1
    <3> QED BY <1>0, <1>1, <1>3, <1>4, <2>2, <3>2
  <2> QED BY <2>1, <2>2
<1>6. RemoveAt(s, i) = a \o b
  BY DEF RemoveAt, a, b
<1> QED BY <1>3, <1>4, <1>5, <1>6

\* r is s without what is at i.
OneOut(s, r, i) ==
    Len(r) = Len(s) - 1 /\ \A j \in 1..(Len(s) - 1) : r[j] = IF j < i THEN s[j] ELSE s[j + 1]

LEMMA LeftFacts ==
    ASSUME NEW S, NEW s \in Seq(S), IsInjective(s), NEW i \in 1..Len(s), NEW r \in Seq(S), OneOut(s, r, i)
    PROVE  IsInjective(r) /\ ToSet(r) = ToSet(s) \ {s[i]}
<1> USE DEF OneOut
<1>0. Len(s) \in Nat /\ i \in Nat /\ Len(r) \in Nat /\ DOMAIN s = 1..Len(s) /\ DOMAIN r = 1..Len(r)
  BY LenProperties
<1> DEFINE at(n) == IF n < i THEN n ELSE n + 1
<1>1. \A n \in 1..Len(r) : at(n) \in 1..Len(s) /\ at(n) # i /\ r[n] = s[at(n)]
  BY <1>0
<1>2. \A n \in 1..Len(s) : n # i => \E m \in 1..Len(r) : at(m) = n
  <2> SUFFICES ASSUME NEW n \in 1..Len(s), n # i PROVE \E m \in 1..Len(r) : at(m) = n
    OBVIOUS
  <2>1. CASE n < i
    <3>1. n \in 1..Len(r) /\ at(n) = n
      BY <1>0, <2>1
    <3> QED BY <3>1
  <2>2. CASE ~(n < i)
    <3>1. n - 1 \in 1..Len(r) /\ at(n - 1) = n
      BY <1>0, <2>2
    <3> QED BY <3>1
  <2> QED BY <2>1, <2>2
<1>3. \A m, n \in 1..Len(r) : at(m) = at(n) => m = n
  BY <1>0
<1> HIDE DEF at
<1>4. IsInjective(r)
  <2> SUFFICES ASSUME NEW m \in 1..Len(r), NEW n \in 1..Len(r), r[m] = r[n] PROVE m = n
    BY <1>0 DEF IsInjective
  <2>1. at(m) = at(n)
    BY <1>0, <1>1 DEF IsInjective
  <2> QED BY <1>3, <2>1
<1>5. ToSet(s) = {s[n] : n \in 1..Len(s)} /\ ToSet(r) = {r[n] : n \in 1..Len(r)}
  BY <1>0 DEF ToSet
<1>6. \A x \in ToSet(r) : x \in ToSet(s) /\ x # s[i]
  <2> SUFFICES ASSUME NEW n \in 1..Len(r) PROVE r[n] \in ToSet(s) /\ r[n] # s[i]
    BY <1>5
  <2>1. at(n) \in 1..Len(s) /\ at(n) # i /\ r[n] = s[at(n)]
    BY <1>1
  <2>2. s[at(n)] # s[i]
    BY <1>0, <2>1 DEF IsInjective
  <2> QED BY <1>5, <2>1, <2>2
<1>7. \A x \in ToSet(s) : x # s[i] => x \in ToSet(r)
  <2> SUFFICES ASSUME NEW n \in 1..Len(s), s[n] # s[i] PROVE s[n] \in ToSet(r)
    BY <1>5
  <2>1. PICK m \in 1..Len(r) : at(m) = n
    BY <1>2
  <2> QED BY <1>1, <1>5, <2>1
<1> QED BY <1>4, <1>6, <1>7

\* A nonempty set of numbers up to n has a greatest element.
LEMMA MaxOf ==
    ASSUME NEW n \in Nat, NEW s \in SUBSET (1..n), s # {}
    PROVE  Max(s) \in s /\ \A x \in s : x <= Max(s)
<1> DEFINE bounds == {k \in 0..n : \A x \in s : x <= k}
<1>1. bounds \subseteq Nat /\ n \in bounds
  OBVIOUS
<1>2. PICK m \in bounds : \A k \in bounds : m <= k
  BY <1>1, LeastOf
<1>3. m \in s
  <2> SUFFICES ASSUME m \notin s PROVE FALSE
    OBVIOUS
  <2>1. PICK x \in s : x \in 1..n
    OBVIOUS
  <2>2. m \in 0..n /\ m # 0 /\ \A y \in s : y <= m
    BY <1>2, <2>1
  <2>3. \A y \in s : y <= m - 1
    BY <2>2
  <2>4. m - 1 \in bounds
    BY <2>2, <2>3
  <2> QED BY <1>2, <2>2, <2>4
<1>4. \A x \in s : x <= m /\ m >= x
  BY <1>2
<1>5. \A x \in s : x \in Nat
  OBVIOUS
<1> HIDE DEF bounds
<1>6. Max(s) \in s /\ \A y \in s : Max(s) >= y
  BY <1>3, <1>4 DEF Max
<1> QED BY <1>5, <1>6

\* The values along the sets of indexes, by which a fold is defined.
Turns(h, n, base, F) ==
    \A s \in SUBSET (1..n) : h[s] = IF s = {} THEN base ELSE F[<<h[s \ {Max(s)}], Max(s)>>]

\* What turns a value into the next, index by index, does so in turn: there is
\* the sequence of values the fold over the indexes is defined by.
LEMMA InTurn ==
    ASSUME NEW n \in Nat, NEW X, NEW base \in X, NEW F \in [X \X (1..n) -> X]
    PROVE  \E h \in [SUBSET (1..n) -> X] : Turns(h, n, base, F)
<1> DEFINE All == SUBSET (1..n)
           Value(h, s) == IF s = {} THEN base ELSE F[<<h[s \ {Max(s)}], Max(s)>>]
           Upto(h, k) == h \in [All -> X] /\ \A s \in SUBSET (1..k) : h[s] = Value(h, s)
           without == {k \in 0..n : ~\E h : Upto(h, k)}
<1>0. \A s \in All : s # {} => Max(s) \in s /\ (\A x \in s : x <= Max(s)) /\ s \ {Max(s)} \in All
  BY MaxOf
<1>1. ASSUME NEW h \in [All -> X], NEW s \in All PROVE Value(h, s) \in X
  BY <1>0
<1>2. CASE without # {}
  <2>1. without \subseteq Nat
    OBVIOUS
  <2>2. PICK m \in without : \A k \in without : m <= k
    BY <1>2, <2>1, LeastOf
  <2>3. m \in 0..n
    BY <2>2
  <2>4. m # 0
    <3> SUFFICES ASSUME m = 0 PROVE FALSE
      OBVIOUS
    <3> DEFINE h == [s \in All |-> base]
    <3>1. Upto(h, 0)
      <4>1. \A s \in SUBSET (1..0) : s = {} /\ s \in All
        OBVIOUS
      <4>2. h \in [All -> X] /\ \A s \in SUBSET (1..0) : h[s] = Value(h, s)
        BY <4>1
      <4> QED BY <4>2
    <3> QED BY <2>2, <3>1
  <2>5. m - 1 \in 0..n /\ m - 1 \notin without
    <3>1. m - 1 \in 0..n /\ ~(m <= m - 1)
      BY <2>3, <2>4
    <3> HIDE DEF without
    <3> QED BY <2>2, <3>1
  <2>6. PICK h : Upto(h, m - 1)
    BY <2>5
  <2> DEFINE g == [s \in All |-> IF s \subseteq 1..(m - 1) THEN h[s] ELSE Value(h, s)]
  <2>7. ASSUME NEW s \in SUBSET (1..m) PROVE g[s] = Value(g, s)
    <3>0. s \in All
      BY <2>3
    <3>1. CASE s = {}
      <4>1. g[s] = h[s] /\ h[s] = Value(h, s)
        BY <2>6, <3>0, <3>1
      <4> QED BY <3>1, <4>1
    <3>2. CASE s # {}
      <4> DEFINE rest == s \ {Max(s)}
      <4>1. rest \in SUBSET (1..(m - 1)) /\ rest \in All
        <5>1. PICK q : q = Max(s)
          OBVIOUS
        <5>2. q \in 1..m /\ (\A x \in s : x <= q) /\ s \ {q} \in All
          BY <1>0, <3>0, <3>2, <5>1
        <5>3. ASSUME NEW x \in s, x # q PROVE x \in 1..(m - 1)
          <6>1. x \in 1..m /\ x <= q
            BY <5>2
          <6> QED BY <2>3, <5>2, <5>3, <6>1
        <5> QED BY <5>1, <5>2, <5>3
      <4> HIDE DEF rest
      <4>2. g[rest] = h[rest]
        BY <4>1
      <4>3. g[s] = Value(h, s)
        BY <2>6, <3>0
      <4> QED BY <3>2, <4>2, <4>3 DEF rest
    <3> QED BY <3>1, <3>2
  <2>8. g \in [All -> X]
    <3> HIDE DEF Value
    <3> QED BY <1>1, <2>6
  <2> HIDE DEF g
  <2>9. Upto(g, m)
    BY <2>7, <2>8
  <2> QED BY <2>2, <2>9
<1>3. CASE without = {}
  <2>1. n \in 0..n
    OBVIOUS
  <2>2. PICK h : Upto(h, n)
    BY <1>3, <2>1
  <2> QED BY <2>2 DEF Turns
<1> QED BY <1>2, <1>3

\* The sets of the first indexes, which the value is unfolded along.
LEMMA FirstIndexes ==
    ASSUME NEW n \in Nat, NEW i \in 1..n
    PROVE  /\ 1..i \in SUBSET (1..n) /\ 1..i # {} /\ Max(1..i) = i /\ 1..i \ {i} = 1..(i - 1)
<1>1. 1..i \in SUBSET (1..n) /\ i \in 1..i /\ i \in Nat /\ 1..i # {}
  OBVIOUS
<1>2. Max(1..i) \in 1..i /\ \A x \in 1..i : x <= Max(1..i)
  BY <1>1, MaxOf
<1>3. Max(1..i) = i
  BY <1>1, <1>2
<1> QED BY <1>1, <1>3

(* Lists of widgets.                                                          *)

\* The pairs of a list are in the order of another.
InOrderOf(t, s) ==
    \A p, q \in 1..Len(t) : p < q => \E u, v \in 1..Len(s) : u < v /\ s[u] = t[p] /\ s[v] = t[q]

\* The domain and the members of a list.
LEMMA ListFacts ==
    ASSUME NEW S, NEW s \in Seq(S)
    PROVE  /\ Len(s) \in Nat /\ DOMAIN s = 1..Len(s) /\ ToSet(s) = {s[i] : i \in 1..Len(s)} /\ ToSet(s) \subseteq S
           /\ \A w : Contains(s, w) <=> w \in ToSet(s)
<1>1. Len(s) \in Nat /\ DOMAIN s = 1..Len(s) /\ \A i \in 1..Len(s) : s[i] \in S
  BY LenProperties, ElementOfSeq
<1> QED BY <1>1 DEF ToSet, Contains

\* Min is the least member.
LEMMA MinOf ==
    ASSUME NEW s, s \subseteq Nat, s # {}
    PROVE  Min(s) \in s /\ \A x \in s : Min(s) <= x
<1>1. PICK m \in s : \A x \in s : m <= x
  BY LeastOf
<1> QED BY <1>1 DEF Min

\* indexOf finds a widget that is there.
LEMMA PlaceFacts ==
    ASSUME NEW S, NEW s \in Seq(S), NEW w
    PROVE  /\ w \in ToSet(s) => PlaceOf(s, w) \in 1..Len(s) /\ s[PlaceOf(s, w)] = w
           /\ w \notin ToSet(s) => PlaceOf(s, w) = 0
<1> DEFINE at == {i \in 1..Len(s) : s[i] = w}
<1>1. at \subseteq Nat
  OBVIOUS
<1>2. PlaceOf(s, w) = IF at # {} THEN Min(at) ELSE 0
  BY DEF PlaceOf, SelectInSeq
<1>3. w \in ToSet(s) <=> at # {}
  BY ListFacts
<1>4. at # {} => Min(at) \in at
  BY <1>1, MinOf
<1> QED BY <1>2, <1>3, <1>4

\* In a list without repetitions each widget is where it is found.
LEMMA PlaceInList ==
    ASSUME NEW S, NEW s \in Seq(S), IsInjective(s), NEW i \in 1..Len(s)
    PROVE  PlaceOf(s, s[i]) = i
<1>1. s[i] \in ToSet(s) /\ DOMAIN s = 1..Len(s)
  BY ListFacts
<1>2. PlaceOf(s, s[i]) \in 1..Len(s) /\ s[PlaceOf(s, s[i])] = s[i]
  BY <1>1, PlaceFacts
<1> QED BY <1>1, <1>2 DEF IsInjective

\* A list with one out keeps the others, in their order.
LEMMA OthersStay ==
    ASSUME NEW S, NEW s \in Seq(S), NEW i \in 1..Len(s), NEW r \in Seq(S), OneOut(s, r, i)
    PROVE  /\ ToSet(r) \subseteq ToSet(s) /\ \A v \in ToSet(s) : v # s[i] => v \in ToSet(r)
           /\ InOrderOf(r, s)
<1> USE DEF OneOut
<1>0. Len(s) \in Nat /\ i \in Nat /\ Len(r) \in Nat
  BY LenProperties
<1> DEFINE at(n) == IF n < i THEN n ELSE n + 1
<1>1. \A n \in 1..Len(r) : at(n) \in 1..Len(s) /\ r[n] = s[at(n)]
  BY <1>0
<1>2. \A m, n \in 1..Len(r) : m < n => at(m) < at(n)
  BY <1>0
<1>3. \A n \in 1..Len(s) : n # i => \E m \in 1..Len(r) : at(m) = n
  <2> SUFFICES ASSUME NEW n \in 1..Len(s), n # i PROVE \E m \in 1..Len(r) : at(m) = n
    OBVIOUS
  <2>1. CASE n < i
    <3>1. n \in 1..Len(r) /\ at(n) = n
      BY <1>0, <2>1
    <3> QED BY <3>1
  <2>2. CASE ~(n < i)
    <3>1. n - 1 \in 1..Len(r) /\ at(n - 1) = n
      BY <1>0, <2>2
    <3> QED BY <3>1
  <2> QED BY <2>1, <2>2
<1> HIDE DEF at
<1>4. ToSet(s) = {s[n] : n \in 1..Len(s)} /\ ToSet(r) = {r[n] : n \in 1..Len(r)}
  BY ListFacts
<1>5. InOrderOf(r, s)
  <2> SUFFICES ASSUME NEW p \in 1..Len(r), NEW q \in 1..Len(r), p < q
               PROVE  \E u, v \in 1..Len(s) : u < v /\ s[u] = r[p] /\ s[v] = r[q]
    BY DEF InOrderOf
  <2>1. at(p) \in 1..Len(s) /\ at(q) \in 1..Len(s) /\ at(p) < at(q) /\ s[at(p)] = r[p] /\ s[at(q)] = r[q]
    BY <1>1, <1>2
  <2> QED BY <2>1
<1>6. ToSet(r) \subseteq ToSet(s)
  BY <1>1, <1>4
<1>7. ASSUME NEW v \in ToSet(s), v # s[i] PROVE v \in ToSet(r)
  <2>1. PICK n \in 1..Len(s) : v = s[n]
    BY <1>4
  <2>2. PICK m \in 1..Len(r) : at(m) = n
    BY <1>3, <1>7, <2>1
  <2>3. r[m] = v
    BY <1>1, <2>1, <2>2
  <2> QED BY <1>4, <2>3
<1> QED BY <1>5, <1>6, <1>7

\* removeChild, whether the child is there or not.
LEMMA RemovedFacts ==
    ASSUME NEW S, NEW s \in Seq(S), NEW w
    PROVE  /\ RemoveChild(s, w) \in Seq(S)
           /\ ToSet(RemoveChild(s, w)) \subseteq ToSet(s)
           /\ \A v \in ToSet(s) : v # w => v \in ToSet(RemoveChild(s, w))
           /\ InOrderOf(RemoveChild(s, w), s)
           /\ IsInjective(s) => IsInjective(RemoveChild(s, w)) /\ w \notin ToSet(RemoveChild(s, w))
<1>1. CASE w \in ToSet(s)
  <2> DEFINE i == PlaceOf(s, w)
  <2>1. i \in 1..Len(s) /\ s[i] = w
    BY <1>1, PlaceFacts
  <2>2. RemoveChild(s, w) = RemoveAt(s, i)
    BY <1>1, ListFacts DEF RemoveChild
  <2> HIDE DEF i
  <2>3. RemoveAt(s, i) \in Seq(S) /\ OneOut(s, RemoveAt(s, i), i)
    BY <2>1, OneLess DEF OneOut
  <2> DEFINE r == RemoveAt(s, i)
  <2> HIDE DEF r
  <2>4. r \in Seq(S) /\ OneOut(s, r, i)
    BY <2>3 DEF r
  <2>5. ToSet(r) \subseteq ToSet(s) /\ (\A v \in ToSet(s) : v # s[i] => v \in ToSet(r)) /\ InOrderOf(r, s)
    BY <2>1, <2>4, OthersStay
  <2>6. IsInjective(s) => IsInjective(r) /\ ToSet(r) = ToSet(s) \ {s[i]}
    BY <2>1, <2>4, LeftFacts
  <2>7. r = RemoveChild(s, w)
    BY <2>2 DEF r
  <2> QED BY <2>1, <2>4, <2>5, <2>6, <2>7
<1>2. CASE w \notin ToSet(s)
  <2>1. RemoveChild(s, w) = s
    BY <1>2, ListFacts DEF RemoveChild
  <2>2. InOrderOf(s, s)
    BY DEF InOrderOf
  <2> QED BY <1>2, <2>1, <2>2
<1> QED BY <1>1, <1>2

\* A widget is put before what is at x.
OneIn(r, c, x, w) ==
    Len(c) = Len(r) + 1 /\ \A j \in 1..(Len(r) + 1) : c[j] = IF j < x THEN r[j] ELSE IF j = x THEN w ELSE r[j - 1]

LEMMA InsertedFacts ==
    ASSUME NEW S, NEW r \in Seq(S), NEW x \in 1..Len(r), NEW w \in S
    PROVE  InsertAt(r, x, w) \in Seq(S) /\ OneIn(r, InsertAt(r, x, w), x, w)
<1> DEFINE a == SubSeq(r, 1, x - 1)
           b == SubSeq(r, x, Len(r))
<1>0. Len(r) \in Nat /\ x \in Nat /\ 1 <= x /\ x <= Len(r)
  BY LenProperties
<1>1. a \in Seq(S) /\ Len(a) = x - 1 /\ \A j \in 1..(x - 1) : a[j] = r[j]
  <2>1. 1 \in 1..(Len(r) + 1) /\ x - 1 \in (1 - 1)..Len(r)
    BY <1>0
  <2> QED BY <1>0, <2>1, SubSeqProperties
<1>2. b \in Seq(S) /\ Len(b) = Len(r) - x + 1 /\ \A j \in 1..(Len(r) - x + 1) : b[j] = r[x + j - 1]
  <2>1. x \in 1..(Len(r) + 1) /\ Len(r) \in (x - 1)..Len(r)
    BY <1>0
  <2>2. /\ b \in Seq(S)
        /\ Len(b) = IF x <= Len(r) THEN Len(r) - x + 1 ELSE 0
        /\ \A j \in 1..(Len(r) - x + 1) : b[j] = r[x + j - 1]
    BY <2>1, SubSeqProperties
  <2> QED BY <1>0, <2>2
<1> HIDE DEF a, b
<1> DEFINE one == <<w>>
           front == a \o one
<1>3. one \in Seq(S) /\ Len(one) = 1 /\ one[1] = w
  OBVIOUS
<1> HIDE DEF one
<1>4. /\ front \in Seq(S) /\ Len(front) = x
      /\ \A j \in 1..x : front[j] = IF j < x THEN r[j] ELSE w
  <2>1. /\ front \in Seq(S) /\ Len(front) = Len(a) + Len(one)
        /\ \A j \in 1..(Len(a) + Len(one)) : front[j] = IF j <= Len(a) THEN a[j] ELSE one[j - Len(a)]
    BY <1>1, <1>3, ConcatProperties
  <2> QED BY <1>0, <1>1, <1>3, <2>1
<1> HIDE DEF front
<1>5. /\ front \o b \in Seq(S) /\ Len(front \o b) = Len(front) + Len(b)
      /\ \A j \in 1..(Len(front) + Len(b)) : (front \o b)[j] = IF j <= Len(front) THEN front[j] ELSE b[j - Len(front)]
  BY <1>2, <1>4, ConcatProperties
<1>6. Len(front) + Len(b) = Len(r) + 1
  BY <1>0, <1>2, <1>4
<1>7. ASSUME NEW j \in 1..(Len(r) + 1)
      PROVE  (front \o b)[j] = IF j < x THEN r[j] ELSE IF j = x THEN w ELSE r[j - 1]
  <2>1. CASE j <= x
    BY <1>0, <1>4, <1>5, <1>6, <2>1
  <2>2. CASE ~(j <= x)
    <3>1. j - x \in 1..(Len(r) - x + 1) /\ x + (j - x) - 1 = j - 1
      BY <1>0, <2>2
    <3>2. b[j - x] = r[j - 1]
      BY <1>2, <3>1
    <3> QED BY <1>0, <1>4, <1>5, <1>6, <2>2, <3>2
  <2> QED BY <2>1, <2>2
<1>8. InsertAt(r, x, w) = front \o b
  BY DEF InsertAt, front, one, a, b
<1> QED BY <1>5, <1>6, <1>7, <1>8 DEF OneIn

\* A list with one put in keeps the others, in their order.
LEMMA OneInFacts ==
    ASSUME NEW S, NEW r \in Seq(S), NEW x \in 1..Len(r), NEW w \in S, NEW d \in Seq(S), OneIn(r, d, x, w)
    PROVE  /\ ToSet(d) = ToSet(r) \cup {w}
           /\ IsInjective(r) /\ w \notin ToSet(r) => IsInjective(d)
           /\ \A p, q \in 1..Len(d) : p < q /\ p # x /\ q # x =>
                \E u, v \in 1..Len(r) : u < v /\ r[u] = d[p] /\ r[v] = d[q]
<1> USE DEF OneIn
<1>0. Len(r) \in Nat /\ x \in Nat /\ Len(d) = Len(r) + 1 /\ Len(d) \in Nat /\ DOMAIN d = 1..Len(d) /\ DOMAIN r = 1..Len(r)
  BY LenProperties
<1> DEFINE at(n) == IF n < x THEN n ELSE n - 1
<1>1. \A n \in 1..Len(d) : n # x => at(n) \in 1..Len(r) /\ d[n] = r[at(n)]
  BY <1>0
<1>2. \A m, n \in 1..Len(d) : m < n /\ m # x /\ n # x => at(m) < at(n)
  BY <1>0
<1>3. \A n \in 1..Len(r) : \E m \in 1..Len(d) : m # x /\ at(m) = n
  <2> SUFFICES ASSUME NEW n \in 1..Len(r) PROVE \E m \in 1..Len(d) : m # x /\ at(m) = n
    OBVIOUS
  <2>1. CASE n < x
    <3>1. n \in 1..Len(d) /\ at(n) = n /\ n # x
      BY <1>0, <2>1
    <3> QED BY <3>1
  <2>2. CASE ~(n < x)
    <3>1. n + 1 \in 1..Len(d) /\ at(n + 1) = n /\ n + 1 # x
      BY <1>0, <2>2
    <3> QED BY <3>1
  <2> QED BY <2>1, <2>2
<1>4. x \in 1..Len(d) /\ d[x] = w
  BY <1>0
<1>5. \A m, n \in 1..Len(d) : m # x /\ n # x /\ at(m) = at(n) => m = n
  BY <1>0
<1> HIDE DEF at
<1>6. ToSet(d) = {d[n] : n \in 1..Len(d)} /\ ToSet(r) = {r[n] : n \in 1..Len(r)}
  BY ListFacts
<1>7. ToSet(d) \subseteq ToSet(r) \cup {w}
  <2> SUFFICES ASSUME NEW n \in 1..Len(d) PROVE d[n] \in ToSet(r) \cup {w}
    BY <1>6
  <2> QED BY <1>1, <1>4, <1>6
<1>8. ToSet(r) \cup {w} \subseteq ToSet(d)
  <2>1. ASSUME NEW n \in 1..Len(r) PROVE r[n] \in ToSet(d)
    <3>1. PICK m \in 1..Len(d) : m # x /\ at(m) = n
      BY <1>3
    <3> QED BY <1>1, <1>6, <3>1
  <2> QED BY <1>4, <1>6, <2>1
<1>9. ASSUME IsInjective(r), w \notin ToSet(r) PROVE IsInjective(d)
  <2> SUFFICES ASSUME NEW m \in 1..Len(d), NEW n \in 1..Len(d), d[m] = d[n] PROVE m = n
    BY <1>0 DEF IsInjective
  <2>1. ASSUME NEW k \in 1..Len(d), k # x PROVE d[k] # w
    BY <1>1, <1>6, <1>9, <2>1
  <2>2. CASE m = x \/ n = x
    BY <1>4, <2>1, <2>2
  <2>3. CASE m # x /\ n # x
    <3>1. r[at(m)] = r[at(n)] /\ at(m) \in 1..Len(r) /\ at(n) \in 1..Len(r)
      BY <1>1, <2>3
    <3>2. at(m) = at(n)
      BY <1>0, <1>9, <3>1 DEF IsInjective
    <3> QED BY <1>5, <2>3, <3>2
  <2> QED BY <2>2, <2>3
<1>10. ASSUME NEW p \in 1..Len(d), NEW q \in 1..Len(d), p < q, p # x, q # x
       PROVE  \E u, v \in 1..Len(r) : u < v /\ r[u] = d[p] /\ r[v] = d[q]
  <2>1. at(p) \in 1..Len(r) /\ at(q) \in 1..Len(r) /\ at(p) < at(q) /\ r[at(p)] = d[p] /\ r[at(q)] = d[q]
    BY <1>1, <1>2, <1>10
  <2> QED BY <2>1
<1> QED BY <1>7, <1>8, <1>9, <1>10

\* A list with one appended.
LEMMA AddedFacts ==
    ASSUME NEW S, NEW c \in Seq(S), NEW w \in S
    PROVE  /\ Append(c, w) \in Seq(S) /\ Len(Append(c, w)) = Len(c) + 1 /\ Append(c, w)[Len(c) + 1] = w
           /\ \A i \in 1..Len(c) : Append(c, w)[i] = c[i]
           /\ ToSet(Append(c, w)) = ToSet(c) \cup {w}
           /\ IsInjective(c) /\ w \notin ToSet(c) => IsInjective(Append(c, w))
<1> DEFINE t == Append(c, w)
<1>1. /\ t \in Seq(S) /\ Len(t) = Len(c) + 1 /\ Len(c) \in Nat /\ t[Len(c) + 1] = w
      /\ \A i \in 1..Len(c) : t[i] = c[i]
  BY AppendProperties, LenProperties
<1> HIDE DEF t
<1>2. DOMAIN c = 1..Len(c) /\ DOMAIN t = 1..Len(c) \cup {Len(c) + 1}
  BY <1>1, LenProperties
<1>3. ToSet(t) = ToSet(c) \cup {w}
  <2>1. ToSet(c) = {c[n] : n \in 1..Len(c)} /\ ToSet(t) = {t[n] : n \in 1..Len(c)} \cup {t[Len(c) + 1]}
    BY <1>2 DEF ToSet
  <2> QED BY <1>1, <2>1
<1>4. ASSUME IsInjective(c), w \notin ToSet(c) PROVE IsInjective(t)
  <2>1. \A i \in 1..Len(c) : c[i] # w
    BY <1>2, <1>4 DEF ToSet
  <2> QED BY <1>1, <1>2, <1>4, <2>1 DEF IsInjective
<1> QED BY <1>1, <1>3, <1>4 DEF t

\* Being in the order of a list is transitive.
LEMMA InOrderOfTrans ==
    ASSUME NEW r, NEW t, NEW s, InOrderOf(r, t), InOrderOf(t, s)
    PROVE  InOrderOf(r, s)
<1> SUFFICES ASSUME NEW p \in 1..Len(r), NEW q \in 1..Len(r), p < q
             PROVE  \E u, v \in 1..Len(s) : u < v /\ s[u] = r[p] /\ s[v] = r[q]
  BY DEF InOrderOf
<1>1. PICK k, l \in 1..Len(t) : k < l /\ t[k] = r[p] /\ t[l] = r[q]
  BY DEF InOrderOf
<1>2. PICK u, v \in 1..Len(s) : u < v /\ s[u] = t[k] /\ s[v] = t[l]
  BY <1>1 DEF InOrderOf
<1> QED BY <1>1, <1>2

\* Two lists that hold the same widgets in the same order are the same.
LEMMA SameList ==
    ASSUME NEW S, NEW c \in Seq(S), NEW s \in Seq(S), IsInjective(c), IsInjective(s), ToSet(c) = ToSet(s),
           \A p, q \in 1..Len(c), j, k \in 1..Len(s) : p < q /\ c[p] = s[j] /\ c[q] = s[k] => j < k
    PROVE  c = s
<1> DEFINE m == Len(c)
           n == Len(s)
<1>0. m \in Nat /\ n \in Nat /\ DOMAIN c = 1..m /\ DOMAIN s = 1..n
  BY LenProperties
<1>a. ToSet(c) = {c[p] : p \in 1..m} /\ ToSet(s) = {s[j] : j \in 1..n}
  BY ListFacts
<1> HIDE DEF m, n
<1>1. \A p \in 1..m : \E j \in 1..n : c[p] = s[j]
  BY <1>a
<1>2. \A j \in 1..n : \E p \in 1..m : c[p] = s[j]
  BY <1>a
<1> DEFINE wrong == {p \in 1..m : ~(p \in 1..n /\ c[p] = s[p])}
<1>3. wrong = {}
  <2> SUFFICES ASSUME wrong # {} PROVE FALSE
    OBVIOUS
  <2>1. wrong \subseteq Nat
    BY <1>0
  <2>2. PICK p \in wrong : \A x \in wrong : p <= x
    BY <2>1, LeastOf
  <2>3. p \in 1..m /\ \A x \in 1..m : x < p => x \in 1..n /\ c[x] = s[x]
    BY <1>0, <2>2
  <2>4. PICK j \in 1..n : c[p] = s[j]
    BY <1>1, <2>3
  <2>5. j >= p
    <3> SUFFICES ASSUME j < p PROVE FALSE
      BY <1>0, <2>3
    <3>1. j \in 1..m /\ c[j] = s[j]
      BY <1>0, <2>3
    <3> QED BY <1>0, <2>3, <2>4, <3>1 DEF IsInjective
  <2>6. p \in 1..n /\ j # p
    BY <1>0, <2>2, <2>3, <2>4, <2>5
  <2>7. PICK q \in 1..m : c[q] = s[p]
    BY <1>2, <2>6
  <2>8. q < p
    <3> SUFFICES ASSUME p <= q PROVE FALSE
      BY <1>0, <2>3
    <3>1. q # p
      <4> SUFFICES ASSUME q = p PROVE FALSE
        OBVIOUS
      <4> QED BY <1>0, <2>4, <2>6, <2>7 DEF IsInjective
    <3>2. p < q
      BY <1>0, <2>3, <3>1
    <3>3. j < p
      BY <2>3, <2>4, <2>6, <2>7, <3>2 DEF m, n
    <3> QED BY <1>0, <2>5, <2>6, <3>3
  <2>9. c[q] = s[q] /\ q \in 1..n
    BY <2>3, <2>8
  <2>10. q = p
    BY <1>0, <2>6, <2>7, <2>9 DEF IsInjective
  <2> QED BY <1>0, <2>3, <2>8, <2>10
<1>4. \A p \in 1..m : p \in 1..n /\ c[p] = s[p]
  BY <1>3
<1>5. m = n
  <2>1. m <= n
    <3>1. CASE m = 0
      BY <1>0, <3>1
    <3>2. CASE m # 0
      BY <1>0, <1>4, <3>2
    <3> QED BY <3>1, <3>2
  <2>2. n <= m
    <3> SUFFICES ASSUME m < n PROVE FALSE
      BY <1>0
    <3>1. n \in 1..n
      BY <1>0
    <3>2. PICK p \in 1..m : c[p] = s[n]
      BY <1>2, <3>1
    <3>3. p \in 1..n /\ s[p] = s[n]
      BY <1>4, <3>2
    <3>4. p = n
      BY <1>0, <3>1, <3>3 DEF IsInjective
    <3> QED BY <1>0, <3>2, <3>4
  <2> QED BY <1>0, <2>1, <2>2
<1>6. \A p \in 1..Len(c) : c[p] = s[p]
  BY <1>4 DEF m
<1>7. Len(c) = Len(s)
  BY <1>5 DEF m, n
<1> QED BY <1>6, <1>7, SeqEqual

(* From one list to the next.                                                 *)

Lists(old, next) == old \in Seq(Widget) /\ IsInjective(old) /\ next \in Seq(Widget) /\ IsInjective(next)

TreeRecord == [children : Seq(Widget), props : [Widget -> Nat], doubled : BOOLEAN]

Common(old, next) == ToSet(old) \cap ToSet(next)
Reached(next, i) == {next[j] : j \in 1..i}

\* The widget that is to be at j has its place once the first i are placed.
Settled(old, next, i, j) == j <= i \/ next[j] \in Stays(old, next)

\* Those that have their place are in the order of the next list.
Sorted(c, old, next, i) ==
    \A p, q \in 1..Len(c), j, k \in 1..Len(next) :
      (p < q /\ c[p] = next[j] /\ c[q] = next[k] /\ Settled(old, next, i, j) /\ Settled(old, next, i, k)) => j < k

\* A widget that stays is in both lists, and no earlier one of the next list
\* comes from further down.
LEMMA StaysFacts ==
    ASSUME NEW old, NEW next, Lists(old, next)
    PROVE  /\ Stays(old, next) \subseteq Common(old, next) /\ Common(old, next) \subseteq Widget
           /\ \A u, v \in 1..Len(old), j, k \in 1..Len(next) :
                (old[u] = next[j] /\ old[v] = next[k] /\ next[j] \in Stays(old, next) /\ k < j) => v <= u
<1>1. Len(next) \in Nat /\ ToSet(old) = {old[i] : i \in 1..Len(old)} /\ ToSet(old) \subseteq Widget
  BY ListFacts DEF Lists
<1>2. ASSUME NEW u \in 1..Len(old), NEW v \in 1..Len(old), NEW j \in 1..Len(next), NEW k \in 1..Len(next),
             old[u] = next[j], old[v] = next[k], next[j] \in Stays(old, next), k < j
      PROVE  v <= u
  <2>1. PlaceOf(next, next[j]) = j /\ PlaceOf(next, next[k]) = k
    BY PlaceInList DEF Lists
  <2>2. PlaceOf(old, old[u]) = u /\ PlaceOf(old, old[v]) = v
    BY PlaceInList DEF Lists
  <2>3. old[v] \in ToSet(old)
    BY <1>1
  <2>4. PlaceOf(next, old[v]) # 0 /\ PlaceOf(next, old[v]) < PlaceOf(next, old[u]) => PlaceOf(old, old[v]) <= PlaceOf(old, old[u])
    BY <1>2, <2>3 DEF Stays
  <2> QED BY <1>1, <1>2, <2>1, <2>2, <2>4
<1> QED BY <1>1, <1>2 DEF Stays, Common

\* What is left of the old list has those that stay in the next list's order.
LEMMA StaysSorted ==
    ASSUME NEW old, NEW next, Lists(old, next), NEW c \in Seq(Widget), InOrderOf(c, old)
    PROVE  Sorted(c, old, next, 0)
<1> SUFFICES ASSUME NEW p \in 1..Len(c), NEW q \in 1..Len(c), NEW j \in 1..Len(next), NEW k \in 1..Len(next),
                    p < q, c[p] = next[j], c[q] = next[k], Settled(old, next, 0, j), Settled(old, next, 0, k)
             PROVE  j < k
  BY DEF Sorted
<1>0. Len(next) \in Nat /\ Len(old) \in Nat /\ DOMAIN old = 1..Len(old)
  BY LenProperties DEF Lists
<1>1. PICK u, v \in 1..Len(old) : u < v /\ old[u] = c[p] /\ old[v] = c[q]
  BY DEF InOrderOf
<1>2. next[j] \in Stays(old, next)
  BY <1>0 DEF Settled
<1>3. ~(k < j)
  <2> SUFFICES ASSUME k < j PROVE FALSE
    OBVIOUS
  <2>1. v <= u
    BY <1>1, <1>2, StaysFacts
  <2> QED BY <1>0, <1>1, <2>1
<1>4. j # k
  <2> SUFFICES ASSUME j = k PROVE FALSE
    OBVIOUS
  <2>1. u = v
    BY <1>0, <1>1 DEF Lists, IsInjective
  <2> QED BY <1>0, <1>1, <2>1
<1> QED BY <1>0, <1>3, <1>4

\* What has its place has it one widget earlier, but for that widget.
LEMMA SettledBefore ==
    ASSUME NEW old, NEW next, NEW i \in Nat, NEW j \in Nat, j # i, Settled(old, next, i, j)
    PROVE  Settled(old, next, i - 1, j) /\ (i < j => next[j] \in Stays(old, next))
BY DEF Settled

\* A widget that is put before the next one that stays is in order.
LEMMA PutBefore ==
    ASSUME NEW old, NEW next, Lists(old, next), NEW i \in 1..Len(next), NEW c \in Seq(Widget), IsInjective(c),
           Sorted(c, old, next, i - 1), NEW s \in StayingAfter(old, next, i),
           \A j \in StayingAfter(old, next, i) : s <= j, next[s] \in ToSet(c)
    PROVE  LET d == InsertBefore(c, next[i], next[s]) IN
           /\ d \in Seq(Widget) /\ ToSet(d) = ToSet(c) \cup {next[i]} /\ IsInjective(d) /\ Sorted(d, old, next, i)
<1> DEFINE w == next[i]
           r == RemoveChild(c, w)
           x == PlaceOf(r, next[s])
           d == InsertAt(r, x, w)
<1>0. /\ Len(next) \in Nat /\ DOMAIN next = 1..Len(next) /\ i \in Nat /\ s \in 1..Len(next) /\ s \in Nat
      /\ i < s /\ next[s] \in Stays(old, next) /\ w \in Widget
  <2>1. Len(next) \in Nat /\ DOMAIN next = 1..Len(next) /\ w \in Widget
    BY LenProperties, ElementOfSeq DEF Lists
  <2> QED BY <2>1 DEF StayingAfter
<1>1. \A j \in 1..Len(next) : next[j] = w => j = i
  BY <1>0 DEF Lists, IsInjective
<1>2. /\ r \in Seq(Widget) /\ ToSet(r) \subseteq ToSet(c) /\ (\A v \in ToSet(c) : v # w => v \in ToSet(r))
      /\ InOrderOf(r, c) /\ IsInjective(r) /\ w \notin ToSet(r)
  BY RemovedFacts
<1>3. next[s] \in ToSet(r)
  BY <1>0, <1>1, <1>2
<1> HIDE DEF r
<1>4. x \in 1..Len(r) /\ r[x] = next[s]
  BY <1>2, <1>3, PlaceFacts
<1> HIDE DEF x
<1>5. d \in Seq(Widget) /\ OneIn(r, d, x, w)
  BY <1>0, <1>2, <1>4, InsertedFacts
<1>6. InsertBefore(c, next[i], next[s]) = d
  BY <1>4 DEF InsertBefore, d, x, r
<1> HIDE DEF d
<1>7. /\ ToSet(d) = ToSet(r) \cup {w} /\ IsInjective(d)
      /\ \A p, q \in 1..Len(d) : p < q /\ p # x /\ q # x =>
           \E u, v \in 1..Len(r) : u < v /\ r[u] = d[p] /\ r[v] = d[q]
  BY <1>0, <1>2, <1>4, <1>5, OneInFacts
<1>8. /\ Len(r) \in Nat /\ Len(d) = Len(r) + 1 /\ d[x] = w /\ x \in Nat /\ x \in 1..Len(d)
      /\ \A n \in 1..Len(d) : n < x => n \in 1..Len(r) /\ d[n] = r[n]
      /\ \A n \in 1..Len(d) : n > x => n - 1 \in 1..Len(r) /\ d[n] = r[n - 1]
  <2>1. Len(r) \in Nat
    BY <1>2, LenProperties
  <2>2. Len(d) = Len(r) + 1 /\ x \in Nat /\ x \in 1..Len(d) /\ x \in 1..(Len(r) + 1)
    BY <1>4, <1>5, <2>1 DEF OneIn
  <2>3. \A j \in 1..(Len(r) + 1) : d[j] = IF j < x THEN r[j] ELSE IF j = x THEN w ELSE r[j - 1]
    BY <1>5 DEF OneIn
  <2>4. d[x] = w
    BY <2>2, <2>3
  <2>5. ASSUME NEW n \in 1..Len(d), n < x PROVE n \in 1..Len(r) /\ d[n] = r[n]
    BY <1>4, <2>1, <2>2, <2>3, <2>5
  <2>6. ASSUME NEW n \in 1..Len(d), n > x PROVE n - 1 \in 1..Len(r) /\ d[n] = r[n - 1]
    BY <1>4, <2>1, <2>2, <2>3, <2>6
  <2> QED BY <2>1, <2>2, <2>4, <2>5, <2>6
<1>9. \A n \in 1..Len(r) : r[n] # w
  BY <1>2, ListFacts
\* What was in order with the widget out.
<1>10. ASSUME NEW p \in 1..Len(r), NEW q \in 1..Len(r), p < q, NEW j \in 1..Len(next), NEW k \in 1..Len(next),
              r[p] = next[j], r[q] = next[k], Settled(old, next, i, j), Settled(old, next, i, k)
       PROVE  j < k
  <2>1. j # i /\ k # i
    BY <1>9, <1>10
  <2>2. Settled(old, next, i - 1, j) /\ Settled(old, next, i - 1, k)
    BY <1>0, <1>10, <2>1, SettledBefore
  <2>3. PICK u, v \in 1..Len(c) : u < v /\ c[u] = r[p] /\ c[v] = r[q]
    BY <1>2, <1>10 DEF InOrderOf
  <2> QED BY <1>10, <2>2, <2>3 DEF Sorted
<1>11. Settled(old, next, i, s)
  BY <1>0 DEF Settled
<1>12. Sorted(d, old, next, i)
  <2> SUFFICES ASSUME NEW p \in 1..Len(d), NEW q \in 1..Len(d), NEW j \in 1..Len(next), NEW k \in 1..Len(next),
                      p < q, d[p] = next[j], d[q] = next[k], Settled(old, next, i, j), Settled(old, next, i, k)
               PROVE  j < k
    BY DEF Sorted
  <2>1. CASE p # x /\ q # x
    <3>1. PICK u, v \in 1..Len(r) : u < v /\ r[u] = d[p] /\ r[v] = d[q]
      BY <1>7, <2>1
    <3> QED BY <1>10, <3>1
  <2>2. CASE p = x
    <3>1. j = i /\ q - 1 \in 1..Len(r) /\ r[q - 1] = next[k] /\ x <= q - 1
      BY <1>1, <1>8, <2>2
    <3>2. CASE x = q - 1
      <4>1. k = s
        BY <1>0, <1>4, <3>1, <3>2 DEF Lists, IsInjective
      <4> QED BY <1>0, <3>1, <4>1
    <3>3. CASE x # q - 1
      <4>1. x < q - 1
        BY <1>8, <3>1, <3>3
      <4>2. s < k
        BY <1>0, <1>4, <1>10, <1>11, <3>1, <4>1
      <4> QED BY <1>0, <3>1, <4>2
    <3> QED BY <3>2, <3>3
  <2>3. CASE q = x
    <3>1. k = i /\ p \in 1..Len(r) /\ r[p] = next[j] /\ p < x
      BY <1>1, <1>8, <2>3
    <3>2. j < s
      BY <1>0, <1>4, <1>10, <1>11, <3>1
    <3>3. j # i
      BY <1>9, <3>1
    <3>4. ~(i < j)
      <4> SUFFICES ASSUME i < j PROVE FALSE
        OBVIOUS
      <4>1. next[j] \in Stays(old, next)
        BY <1>0, <3>3, SettledBefore
      <4>2. j \in StayingAfter(old, next, i)
        BY <1>0, <4>1 DEF StayingAfter
      <4> QED BY <1>0, <3>2, <4>2
    <3> QED BY <1>0, <3>1, <3>3, <3>4
  <2> QED BY <2>1, <2>2, <2>3
<1>13. ToSet(d) = ToSet(c) \cup {w}
  BY <1>2, <1>7
<1> QED BY <1>5, <1>6, <1>7, <1>12, <1>13

\* So is one that comes last, when nothing after it stays.
LEMMA PutLast ==
    ASSUME NEW old, NEW next, Lists(old, next), NEW i \in 1..Len(next), NEW c \in Seq(Widget),
           Sorted(c, old, next, i - 1), StayingAfter(old, next, i) = {}, next[i] \notin ToSet(c)
    PROVE  Sorted(Append(c, next[i]), old, next, i)
<1> DEFINE w == next[i]
           d == Append(c, w)
<1>0. Len(next) \in Nat /\ DOMAIN next = 1..Len(next) /\ i \in Nat /\ w \in Widget
  BY LenProperties, ElementOfSeq DEF Lists
<1>1. Len(d) = Len(c) + 1 /\ Len(c) \in Nat /\ d[Len(c) + 1] = w /\ \A n \in 1..Len(c) : d[n] = c[n]
  BY <1>0, AddedFacts, LenProperties
<1> HIDE DEF d
<1>2. \A j \in 1..Len(next) : next[j] = w => j = i
  BY <1>0 DEF Lists, IsInjective
<1>3. \A n \in 1..Len(c) : c[n] # w
  BY ListFacts
<1> SUFFICES ASSUME NEW p \in 1..Len(d), NEW q \in 1..Len(d), NEW j \in 1..Len(next), NEW k \in 1..Len(next),
                    p < q, d[p] = next[j], d[q] = next[k], Settled(old, next, i, j), Settled(old, next, i, k)
             PROVE  j < k
  BY DEF Sorted, d
<1>4. p \in 1..Len(c) /\ c[p] = next[j] /\ j # i
  BY <1>1, <1>3
<1>b. j \in Nat /\ k \in Nat
  BY <1>0
<1>5. Settled(old, next, i - 1, j) /\ (i < j => next[j] \in Stays(old, next))
  BY <1>0, <1>4, <1>b, SettledBefore
<1>6. CASE q = Len(c) + 1
  <2>1. k = i
    BY <1>1, <1>2, <1>6
  <2>2. ~(i < j)
    <3> SUFFICES ASSUME i < j PROVE FALSE
      OBVIOUS
    <3>1. j \in StayingAfter(old, next, i)
      BY <1>0, <1>5 DEF StayingAfter
    <3> QED BY <3>1
  <2> QED BY <1>0, <1>4, <2>1, <2>2
<1>7. CASE q # Len(c) + 1
  <2>1. q \in 1..Len(c) /\ c[q] = next[k]
    BY <1>1, <1>7
  <2>2. k # i
    BY <1>3, <2>1
  <2>3. Settled(old, next, i - 1, k)
    BY <1>0, <1>b, <2>2, SettledBefore
  <2> QED BY <1>4, <1>5, <2>1, <2>3 DEF Sorted
<1> QED BY <1>6, <1>7

(* What one step of a commit makes of the tree.                               *)

\* Trees whose children hold what both lists have: a widget to be put before is
\* there.
TreesOver(old, next) == {t \in TreeRecord : Common(old, next) \subseteq ToSet(t.children)}

\* The tree once the first i widgets of the next list are placed.
PlacedOK(tree, t, old, next, i) ==
    /\ t \in TreesOver(old, next) /\ t.props = tree.props /\ (~t.doubled => ~tree.doubled)
    /\ Reached(next, i) \subseteq ToSet(t.children)
    /\ ~t.doubled =>
         /\ IsInjective(t.children) /\ ToSet(t.children) \subseteq Common(old, next) \cup Reached(next, i)
         /\ Sorted(t.children, old, next, i)

\* The widgets reached, one by one.
LEMMA ReachedFacts ==
    ASSUME NEW next, NEW i \in Nat, i # 0
    PROVE  Reached(next, i) = Reached(next, i - 1) \cup {next[i]}
<1>1. 1..i = 1..(i - 1) \cup {i}
  OBVIOUS
<1> QED BY <1>1 DEF Reached

\* The next widget that stays is a child.
LEMMA NextStays ==
    ASSUME NEW old, NEW next, Lists(old, next), NEW i \in 1..Len(next), StayingAfter(old, next, i) # {},
           NEW c \in Seq(Widget), Common(old, next) \subseteq ToSet(c)
    PROVE  LET s == Min(StayingAfter(old, next, i)) IN
           /\ s \in StayingAfter(old, next, i) /\ \A j \in StayingAfter(old, next, i) : s <= j
           /\ next[s] \in ToSet(c) /\ s \in 1..Len(next) /\ s # i
<1>0. Len(next) \in Nat
  BY LenProperties DEF Lists
<1>1. StayingAfter(old, next, i) \subseteq Nat
  BY <1>0 DEF StayingAfter
<1> DEFINE s == Min(StayingAfter(old, next, i))
<1>2. s \in StayingAfter(old, next, i) /\ \A j \in StayingAfter(old, next, i) : s <= j
  BY <1>1, MinOf
<1> HIDE DEF s
<1>3. s \in 1..Len(next) /\ s # i /\ next[s] \in Stays(old, next)
  BY <1>0, <1>2 DEF StayingAfter
<1> QED BY <1>2, <1>3, StaysFacts DEF s

\* Placing a widget makes it a child and takes no other out.
LEMMA PlacedFacts ==
    ASSUME NEW old, NEW next, Lists(old, next), NEW i \in 1..Len(next), NEW t \in TreesOver(old, next)
    PROVE  /\ Placed(t, old, next, i) \in TreesOver(old, next)
           /\ Placed(t, old, next, i).props = t.props
           /\ ToSet(t.children) \cup {next[i]} \subseteq ToSet(Placed(t, old, next, i).children)
           /\ ~Placed(t, old, next, i).doubled => ~t.doubled
<1> DEFINE w == next[i]
           c == t.children
           p == Placed(t, old, next, i)
<1>0. /\ Len(next) \in Nat /\ DOMAIN next = 1..Len(next) /\ w \in Widget /\ w \in ToSet(next)
      /\ t \in TreeRecord /\ c \in Seq(Widget) /\ Common(old, next) \subseteq ToSet(c) /\ t.doubled \in BOOLEAN
  <2>1. next \in Seq(Widget)
    BY DEF Lists
  <2>2. Len(next) \in Nat /\ DOMAIN next = 1..Len(next) /\ ToSet(next) = {next[j] : j \in 1..Len(next)}
    BY <2>1, ListFacts
  <2>3. w \in Widget
    BY <2>1, ElementOfSeq
  <2>4. w \in ToSet(next)
    BY <2>2
  <2>5. /\ t \in TreeRecord /\ c \in Seq(Widget) /\ t.doubled \in BOOLEAN
        /\ Common(old, next) \subseteq ToSet(c)
    BY DEF TreesOver, TreeRecord
  <2> QED BY <2>2, <2>3, <2>4, <2>5
<1>1. CASE w \in Stays(old, next)
  <2>1. p = t
    BY <1>1 DEF Placed
  <2>2. w \in ToSet(c)
    BY <1>0, <1>1, StaysFacts
  <2> QED BY <2>1, <2>2
<1>2. CASE w \notin Stays(old, next) /\ StayingAfter(old, next, i) # {}
  <2> DEFINE s == Min(StayingAfter(old, next, i))
             d == InsertBefore(c, w, next[s])
  <2>1. next[s] \in ToSet(c) /\ s \in 1..Len(next) /\ s # i
    BY <1>0, <1>2, NextStays
  <2>2. p = [t EXCEPT !.children = d]
    BY <1>2 DEF Placed
  <2> HIDE DEF s
  <2>3. next[s] # w
    BY <1>0, <2>1 DEF Lists, IsInjective
  <2> DEFINE r == RemoveChild(c, w)
             x == PlaceOf(r, next[s])
  <2>4. r \in Seq(Widget) /\ \A v \in ToSet(c) : v # w => v \in ToSet(r)
    BY <1>0, RemovedFacts
  <2> HIDE DEF r
  <2>5. x \in 1..Len(r)
    BY <2>1, <2>3, <2>4, PlaceFacts
  <2> HIDE DEF x
  <2>6. d = InsertAt(r, x, w)
    BY <2>5 DEF InsertBefore, d, x, r
  <2> HIDE DEF d
  <2>7. d \in Seq(Widget) /\ OneIn(r, d, x, w)
    BY <1>0, <2>4, <2>5, <2>6, InsertedFacts
  <2>8. ToSet(d) = ToSet(r) \cup {w}
    BY <1>0, <2>4, <2>5, <2>7, OneInFacts
  <2>9. p \in TreeRecord /\ p.children = d /\ p.props = t.props /\ p.doubled = t.doubled
    <3> DEFINE u == [t EXCEPT !.children = d]
    <3>1. u \in TreeRecord /\ u.children = d /\ u.props = t.props /\ u.doubled = t.doubled
      BY <1>0, <2>7 DEF TreeRecord
    <3> QED BY <2>2, <3>1
  <2> HIDE DEF p
  <2>10. ToSet(c) \cup {w} \subseteq ToSet(p.children)
    BY <2>4, <2>8, <2>9
  <2> QED BY <1>0, <2>9, <2>10 DEF TreesOver, p
<1>3. CASE w \notin Stays(old, next) /\ StayingAfter(old, next, i) = {}
  <2> DEFINE d == Append(c, w)
             b == t.doubled \/ Contains(c, w)
  <2>1. p = [t EXCEPT !.children = d, !.doubled = b]
    BY <1>3 DEF Placed, AppendChild
  <2>2. d \in Seq(Widget) /\ ToSet(d) = ToSet(c) \cup {w} /\ b \in BOOLEAN
    BY <1>0, AddedFacts
  <2> HIDE DEF d, b
  <2>3. p \in TreeRecord /\ p.children = d /\ p.props = t.props /\ p.doubled = b
    <3> DEFINE u == [t EXCEPT !.children = d, !.doubled = b]
    <3>1. u \in TreeRecord /\ u.children = d /\ u.props = t.props /\ u.doubled = b
      BY <1>0, <2>2 DEF TreeRecord
    <3> QED BY <2>1, <3>1
  <2> HIDE DEF p
  <2> QED BY <1>0, <2>2, <2>3 DEF TreesOver, p, b
<1> QED BY <1>1, <1>2, <1>3

\* Placing the next widget keeps what is placed in order.
LEMMA PlacedStep ==
    ASSUME NEW tree, NEW t, NEW old, NEW next, Lists(old, next), NEW i \in 1..Len(next),
           PlacedOK(tree, t, old, next, i - 1)
    PROVE  PlacedOK(tree, Placed(t, old, next, i), old, next, i)
<1> DEFINE w == next[i]
           c == t.children
           p == Placed(t, old, next, i)
<1>0. /\ t \in TreesOver(old, next) /\ t \in TreeRecord /\ c \in Seq(Widget) /\ t.doubled \in BOOLEAN
      /\ Common(old, next) \subseteq ToSet(c) /\ i \in Nat /\ i # 0 /\ Len(next) \in Nat /\ w \in Widget
      /\ w \in ToSet(next)
  BY ListFacts, ElementOfSeq DEF Lists, PlacedOK, TreesOver, TreeRecord
<1>1. /\ p \in TreesOver(old, next) /\ p.props = t.props /\ ToSet(c) \cup {w} \subseteq ToSet(p.children)
      /\ ~p.doubled => ~t.doubled
  <2>1. t \in TreesOver(old, next) /\ i \in 1..Len(next) /\ Lists(old, next)
    BY <1>0
  <2>2. /\ Placed(t, old, next, i) \in TreesOver(old, next)
        /\ Placed(t, old, next, i).props = t.props
        /\ ToSet(t.children) \cup {next[i]} \subseteq ToSet(Placed(t, old, next, i).children)
        /\ ~Placed(t, old, next, i).doubled => ~t.doubled
    BY <2>1, PlacedFacts, Zenon
  <2> QED BY <2>2
<1>2. Reached(next, i) = Reached(next, i - 1) \cup {w}
  BY <1>0, ReachedFacts
<1>3. ASSUME ~p.doubled
      PROVE  /\ IsInjective(p.children) /\ ToSet(p.children) \subseteq Common(old, next) \cup Reached(next, i)
             /\ Sorted(p.children, old, next, i)
  <2>1. /\ IsInjective(c) /\ ToSet(c) \subseteq Common(old, next) \cup Reached(next, i - 1)
        /\ Sorted(c, old, next, i - 1)
    BY <1>1, <1>3 DEF PlacedOK
  <2>2. CASE w \in Stays(old, next)
    <3>1. p = t
      BY <2>2 DEF Placed
    <3>2. ASSUME NEW j \in 1..Len(next), Settled(old, next, i, j) PROVE Settled(old, next, i - 1, j)
      BY <1>0, <2>2, <3>2 DEF Settled
    <3>3. Sorted(c, old, next, i)
      BY <2>1, <3>2 DEF Sorted
    <3> QED BY <1>2, <2>1, <3>1, <3>3
  <2>3. CASE w \notin Stays(old, next) /\ StayingAfter(old, next, i) # {}
    <3> DEFINE s == Min(StayingAfter(old, next, i))
               d == InsertBefore(c, w, next[s])
    <3>1. /\ s \in StayingAfter(old, next, i) /\ (\A j \in StayingAfter(old, next, i) : s <= j)
          /\ next[s] \in ToSet(c)
      BY <1>0, <2>3, NextStays
    <3>2. p = [t EXCEPT !.children = d]
      BY <2>3 DEF Placed
    <3> HIDE DEF s
    <3>3. d \in Seq(Widget) /\ ToSet(d) = ToSet(c) \cup {w} /\ IsInjective(d) /\ Sorted(d, old, next, i)
      BY <1>0, <2>1, <3>1, PutBefore
    <3> HIDE DEF d
    <3>4. p.children = d
      <4>1. [t EXCEPT !.children = d].children = d
        BY <1>0 DEF TreeRecord
      <4> QED BY <3>2, <4>1
    <3> QED BY <1>2, <2>1, <3>3, <3>4
  <2>4. CASE w \notin Stays(old, next) /\ StayingAfter(old, next, i) = {}
    <3> DEFINE d == Append(c, w)
               b == t.doubled \/ Contains(c, w)
    <3>1. p = [t EXCEPT !.children = d, !.doubled = b]
      BY <2>4 DEF Placed, AppendChild
    <3>2. d \in Seq(Widget) /\ ToSet(d) = ToSet(c) \cup {w} /\ b \in BOOLEAN
      BY <1>0, AddedFacts
    <3> HIDE DEF b
    <3>3. p.children = d /\ p.doubled = b
      <4> DEFINE u == [t EXCEPT !.children = d, !.doubled = b]
      <4> HIDE DEF d
      <4>1. u.children = d /\ u.doubled = b
        BY <1>0 DEF TreeRecord
      <4> QED BY <3>1, <4>1
    <3>4. ~Contains(c, w)
      BY <1>3, <3>3 DEF b
    <3>5. w \notin ToSet(c)
      BY <1>0, <3>4, ListFacts
    <3>6. IsInjective(d)
      BY <1>0, <2>1, <3>5, AddedFacts
    <3>7. Sorted(d, old, next, i)
      BY <1>0, <2>1, <2>4, <3>5, PutLast
    <3> QED BY <1>2, <2>1, <3>2, <3>3, <3>6, <3>7
  <2> QED BY <2>2, <2>3, <2>4
<1> HIDE DEF p
<1>4. p.props = tree.props /\ Reached(next, i) \subseteq ToSet(p.children) /\ (~p.doubled => ~tree.doubled)
  BY <1>1, <1>2 DEF PlacedOK
<1> QED BY <1>1, <1>3, <1>4 DEF PlacedOK, p

\* The list once the first i widgets of the old list were looked at.
KeptOK(children, t, old, next, i) ==
    /\ t \in Seq(Widget) /\ Common(old, next) \subseteq ToSet(t)
    /\ children = old =>
         /\ IsInjective(t) /\ InOrderOf(t, old)
         /\ \A k \in 1..Len(t) : t[k] \in Common(old, next) \/ \E j \in (i + 1)..Len(old) : t[k] = old[j]

\* A deletion leaves the common widgets, in their order.
LEMMA KeptStep ==
    ASSUME NEW children, NEW t, NEW old, NEW next, Lists(old, next), NEW i \in 1..Len(old),
           KeptOK(children, t, old, next, i - 1)
    PROVE  KeptOK(children, Kept(t, old[i], next), old, next, i)
<1> DEFINE w == old[i]
<1>0. /\ Len(old) \in Nat /\ w \in ToSet(old) /\ i \in Nat /\ t \in Seq(Widget)
      /\ Contains(next, w) <=> w \in ToSet(next)
  BY ListFacts DEF Lists, KeptOK
<1>1. \A v : (v \in Common(old, next) \/ \E j \in i..Len(old) : v = old[j])
           => (v \in Common(old, next) \/ v = w \/ \E j \in (i + 1)..Len(old) : v = old[j])
  <2>1. \A j \in i..Len(old) : j = i \/ j \in (i + 1)..Len(old)
    BY <1>0
  <2> QED BY <2>1
<1>2. i - 1 + 1 = i
  BY <1>0
<1>3. CASE w \in ToSet(next)
  <2>1. Kept(t, w, next) = t
    BY <1>0, <1>3 DEF Kept
  <2>2. w \in Common(old, next)
    BY <1>0, <1>3 DEF Common
  <2> QED BY <1>1, <1>2, <2>1, <2>2 DEF KeptOK
<1>4. CASE w \notin ToSet(next)
  <2> DEFINE r == RemoveChild(t, w)
  <2>1. Kept(t, w, next) = r
    BY <1>0, <1>4 DEF Kept
  <2>2. /\ r \in Seq(Widget) /\ ToSet(r) \subseteq ToSet(t) /\ (\A v \in ToSet(t) : v # w => v \in ToSet(r))
        /\ InOrderOf(r, t) /\ (IsInjective(t) => IsInjective(r) /\ w \notin ToSet(r))
    BY <1>0, RemovedFacts
  <2> HIDE DEF r
  <2>3. Common(old, next) \subseteq ToSet(r)
    BY <1>4, <2>2 DEF KeptOK, Common
  <2>4. ASSUME children = old
        PROVE  /\ IsInjective(r) /\ InOrderOf(r, old)
               /\ \A k \in 1..Len(r) : r[k] \in Common(old, next) \/ \E j \in (i + 1)..Len(old) : r[k] = old[j]
    <3>1. /\ IsInjective(t) /\ InOrderOf(t, old)
          /\ \A k \in 1..Len(t) : t[k] \in Common(old, next) \/ \E j \in i..Len(old) : t[k] = old[j]
      BY <1>2, <2>4 DEF KeptOK
    <3>2. InOrderOf(r, old)
      BY <2>2, <3>1, InOrderOfTrans
    <3>3. ASSUME NEW k \in 1..Len(r)
          PROVE  r[k] \in Common(old, next) \/ \E j \in (i + 1)..Len(old) : r[k] = old[j]
      <4>1. r[k] \in ToSet(r) /\ r[k] # w
        BY <2>2, <3>1, ListFacts
      <4>2. PICK l \in 1..Len(t) : r[k] = t[l]
        BY <1>0, <2>2, <4>1, ListFacts
      <4> QED BY <1>1, <3>1, <4>1, <4>2
    <3> QED BY <2>2, <3>1, <3>2, <3>3
  <2> QED BY <2>1, <2>2, <2>3, <2>4 DEF KeptOK
<1> QED BY <1>3, <1>4

\* What is left of the children, and the tree once all are placed.
LeftOver(children, old, next) == FoldLeft(LAMBDA t, w : Kept(t, w, next), children, old)
AllPlaced(base, old, next) == FoldLeft(LAMBDA t, i : Placed(t, old, next, i), base, [i \in DOMAIN next |-> i])

\* The folds of a commit, step by step.
LEMMA KeptInTurn ==
    ASSUME NEW children \in Seq(Widget), NEW old \in Seq(Widget), NEW next
    PROVE  \E after : /\ after[0] = children
                      /\ LeftOver(children, old, next) = after[Len(old)]
                      /\ \A i \in 1..Len(old) : after[i] = Kept(after[i - 1], old[i], next)
<1> DEFINE n == Len(old)
           X == Seq(Widget)
           F == [xi \in X \X (1..n) |-> Kept(xi[1], old[xi[2]], next)]
           D(h) == [s \in SUBSET (1..n) |-> IF s = {} THEN children ELSE Kept(h[s \ {Max(s)}], old[Max(s)], next)]
<1>0. n \in Nat /\ DOMAIN old = 1..n
  BY LenProperties
<1>1. F \in [X \X (1..n) -> X]
  <2>1. \A t \in X, i \in 1..n : Kept(t, old[i], next) \in X
    BY RemovedFacts DEF Kept
  <2> QED BY <2>1
<1>2. PICK h \in [SUBSET (1..n) -> X] : Turns(h, n, children, F)
  <2> HIDE DEF F, X, n
  <2>1. children \in X
    BY DEF X
  <2> HIDE DEF D
  <2>2. n \in Nat
    BY <1>0
  <2> QED BY <1>1, <2>1, <2>2, InTurn
<1>3. h = D(h)
  <2>1. ASSUME NEW s \in SUBSET (1..n), s # {}
        PROVE  h[s] = Kept(h[s \ {Max(s)}], old[Max(s)], next)
    <3>1. Max(s) \in 1..n /\ s \ {Max(s)} \in SUBSET (1..n)
      BY <1>0, <2>1, MaxOf
    <3>2. <<h[s \ {Max(s)}], Max(s)>> \in X \X (1..n)
      BY <3>1
    <3>3. h[s] = F[<<h[s \ {Max(s)}], Max(s)>>]
      BY <1>2, <2>1 DEF Turns
    <3> QED BY <3>2, <3>3
  <2>2. \A s \in SUBSET (1..n) : h[s] = IF s = {} THEN children ELSE Kept(h[s \ {Max(s)}], old[Max(s)], next)
    BY <1>2, <2>1 DEF Turns
  <2> HIDE DEF X, F
  <2> QED BY <2>2
<1>4. PICK f : f = CHOOSE g : g = D(g)
  OBVIOUS
<1>5. f = D(f)
  BY <1>3, <1>4
<1>6. LeftOver(children, old, next) = f[1..n]
  BY <1>0, <1>4 DEF LeftOver, FoldLeft, MapThenFoldSet
<1> DEFINE after == [i \in 0..n |-> f[1..i]]
<1>7. after[0] = children
  <2>1. 1..0 = {} /\ {} \in SUBSET (1..n)
    OBVIOUS
  <2>2. f[{}] = children
    BY <1>5, <2>1
  <2> QED BY <1>0, <2>1, <2>2
<1>8. ASSUME NEW i \in 1..n PROVE after[i] = Kept(after[i - 1], old[i], next)
  <2>1. 1..i \in SUBSET (1..n) /\ 1..i # {} /\ Max(1..i) = i /\ 1..i \ {i} = 1..(i - 1)
    BY <1>0, FirstIndexes
  <2>2. f[1..i] = Kept(f[1..i \ {Max(1..i)}], old[Max(1..i)], next)
    BY <1>5, <2>1
  <2>3. i \in 0..n /\ i - 1 \in 0..n
    BY <1>0
  <2> QED BY <2>1, <2>2, <2>3
<1>9. after[n] = f[1..n]
  BY <1>0
<1> HIDE DEF after, F, D, X
<1> QED BY <1>6, <1>7, <1>8, <1>9

\* The second fold, widget by widget.
LEMMA PlacedInTurn ==
    ASSUME NEW old, NEW next, Lists(old, next), NEW base \in TreesOver(old, next)
    PROVE  \E after : /\ after[0] = base
                      /\ AllPlaced(base, old, next) = after[Len(next)]
                      /\ \A i \in 1..Len(next) : after[i] = Placed(after[i - 1], old, next, i)
<1> DEFINE n == Len(next)
           ids == [i \in DOMAIN next |-> i]
           X == TreesOver(old, next)
           F == [xi \in X \X (1..n) |-> Placed(xi[1], old, next, xi[2])]
           D(h) == [s \in SUBSET (1..n) |-> IF s = {} THEN base ELSE Placed(h[s \ {Max(s)}], old, next, ids[Max(s)])]
<1>0. n \in Nat /\ DOMAIN ids = 1..n /\ \A i \in 1..n : ids[i] = i
  BY LenProperties DEF Lists
<1>1. F \in [X \X (1..n) -> X]
  <2>1. \A t \in X, i \in 1..n : Placed(t, old, next, i) \in X
    BY PlacedFacts
  <2> HIDE DEF X
  <2> QED BY <2>1
<1>2. PICK h \in [SUBSET (1..n) -> X] : Turns(h, n, base, F)
  <2> HIDE DEF F, n, D
  <2>1. base \in X
    OBVIOUS
  <2> HIDE DEF X
  <2>2. n \in Nat
    BY <1>0
  <2> QED BY <1>1, <2>1, <2>2, InTurn
<1> HIDE DEF X
<1>3. h = D(h)
  <2>1. ASSUME NEW s \in SUBSET (1..n), s # {}
        PROVE  h[s] = Placed(h[s \ {Max(s)}], old, next, ids[Max(s)])
    <3>1. Max(s) \in 1..n /\ s \ {Max(s)} \in SUBSET (1..n) /\ ids[Max(s)] = Max(s)
      BY <1>0, <2>1, MaxOf
    <3>2. <<h[s \ {Max(s)}], Max(s)>> \in X \X (1..n)
      BY <3>1
    <3>3. h[s] = F[<<h[s \ {Max(s)}], Max(s)>>]
      BY <1>2, <2>1 DEF Turns
    <3> QED BY <3>1, <3>2, <3>3
  <2>2. \A s \in SUBSET (1..n) : h[s] = IF s = {} THEN base ELSE Placed(h[s \ {Max(s)}], old, next, ids[Max(s)])
    BY <1>2, <2>1 DEF Turns
  <2> HIDE DEF F, ids
  <2> QED BY <2>2
<1>4. PICK f : f = CHOOSE g : g = D(g)
  OBVIOUS
<1>5. f = D(f)
  BY <1>3, <1>4
<1>6. AllPlaced(base, old, next) = f[1..n]
  <2>1. AllPlaced(base, old, next) = FoldLeft(LAMBDA t, i : Placed(t, old, next, i), base, ids)
    BY DEF AllPlaced
  <2> HIDE DEF ids
  <2>2. FoldLeft(LAMBDA t, i : Placed(t, old, next, i), base, ids) = f[1..n]
    BY <1>0, <1>4 DEF FoldLeft, MapThenFoldSet
  <2> QED BY <2>1, <2>2
<1> DEFINE after == [i \in 0..n |-> f[1..i]]
<1>7. after[0] = base
  <2>1. 1..0 = {} /\ {} \in SUBSET (1..n)
    OBVIOUS
  <2>2. f[{}] = base
    BY <1>5, <2>1
  <2> QED BY <1>0, <2>1, <2>2
<1>8. ASSUME NEW i \in 1..n PROVE after[i] = Placed(after[i - 1], old, next, i)
  <2>1. 1..i \in SUBSET (1..n) /\ 1..i # {} /\ Max(1..i) = i /\ 1..i \ {i} = 1..(i - 1) /\ ids[i] = i
    BY <1>0, FirstIndexes
  <2>2. f[1..i] = Placed(f[1..i \ {Max(1..i)}], old, next, ids[Max(1..i)])
    BY <1>5, <2>1
  <2>3. i \in 0..n /\ i - 1 \in 0..n
    BY <1>0
  <2> QED BY <2>1, <2>2, <2>3
<1>9. after[n] = f[1..n]
  BY <1>0
<1> HIDE DEF after, F, D
<1> QED BY <1>6, <1>7, <1>8, <1>9

\* After the deletions the common widgets are left, in their order.
LEMMA LeftOverFacts ==
    ASSUME NEW children \in Seq(Widget), NEW old, NEW next, Lists(old, next), ToSet(old) \subseteq ToSet(children)
    PROVE  KeptOK(children, LeftOver(children, old, next), old, next, Len(old))
<1> DEFINE n == Len(old)
<1>0. n \in Nat /\ old \in Seq(Widget)
  BY LenProperties DEF Lists
<1>1. PICK after : /\ after[0] = children
                   /\ LeftOver(children, old, next) = after[n]
                   /\ \A i \in 1..n : after[i] = Kept(after[i - 1], old[i], next)
  <2> HIDE DEF n
  <2>0. children \in Seq(Widget) /\ old \in Seq(Widget)
    BY <1>0
  <2>1. \E after : /\ after[0] = children
                   /\ LeftOver(children, old, next) = after[Len(old)]
                   /\ \A i \in 1..Len(old) : after[i] = Kept(after[i - 1], old[i], next)
    BY ONLY <2>0, KeptInTurn, SMT
  <2> QED BY <2>1, Zenon DEF n
<1> DEFINE wrong == {i \in 0..n : ~KeptOK(children, after[i], old, next, i)}
<1>2. wrong = {}
  <2> SUFFICES ASSUME wrong # {} PROVE FALSE
    OBVIOUS
  <2>1. wrong \subseteq Nat
    OBVIOUS
  <2>2. PICK m \in wrong : \A k \in wrong : m <= k
    BY <2>1, LeastOf
  <2>3. m \in 0..n /\ ~KeptOK(children, after[m], old, next, m)
    BY <2>2
  <2>4. m # 0
    <3>1. \A k \in 1..Len(children) : children = old => \E j \in (0 + 1)..Len(old) : children[k] = old[j]
      OBVIOUS
    <3>2. InOrderOf(children, children)
      BY DEF InOrderOf
    <3>3. KeptOK(children, children, old, next, 0)
      BY <3>1, <3>2 DEF KeptOK, Common, Lists
    <3> QED BY <1>1, <2>3, <3>3
  <2>5. m \in 1..n /\ m - 1 \in 0..n /\ m - 1 \notin wrong
    <3>1. m \in 1..n /\ m - 1 \in 0..n /\ ~(m <= m - 1)
      BY <1>0, <2>3, <2>4
    <3> HIDE DEF wrong
    <3> QED BY <2>2, <3>1
  <2>6. KeptOK(children, after[m - 1], old, next, m - 1)
    BY <2>5
  <2> HIDE DEF wrong
  <2>7. KeptOK(children, Kept(after[m - 1], old[m], next), old, next, m)
    BY <2>5, <2>6, KeptStep
  <2> QED BY <1>1, <2>3, <2>5, <2>7
<1>3. n \in 0..n
  BY <1>0
<1>4. KeptOK(children, after[n], old, next, n)
  BY <1>2, <1>3
<1> HIDE DEF wrong
<1> QED BY <1>1, <1>4

\* A commit leaves the next list, unless a child was doubled.
LEMMA CommittedFacts ==
    ASSUME NEW tree \in TreeRecord, NEW old, NEW next, Lists(old, next), ToSet(old) \subseteq ToSet(tree.children),
           ~tree.doubled => tree.children = old
    PROVE  LET t == Committed(tree, old, next) IN
           /\ t \in TreeRecord /\ t.props = tree.props /\ ToSet(next) \subseteq ToSet(t.children)
           /\ ~t.doubled => t.children = next /\ ~tree.doubled
<1> DEFINE left == LeftOver(tree.children, old, next)
           base == [tree EXCEPT !.children = left]
           n == Len(next)
<1>0. n \in Nat /\ DOMAIN next = 1..n /\ Len(old) \in Nat /\ tree.children \in Seq(Widget)
  BY LenProperties DEF Lists, TreeRecord
<1>1. KeptOK(tree.children, left, old, next, Len(old))
  BY <1>0, LeftOverFacts
<1>2. Committed(tree, old, next) = AllPlaced(base, old, next)
  BY DEF Committed, LeftOver, AllPlaced
<1> HIDE DEF left
<1>3. left \in Seq(Widget) /\ Common(old, next) \subseteq ToSet(left)
  BY <1>1 DEF KeptOK
<1>4. base \in TreeRecord /\ base.children = left /\ base.props = tree.props /\ base.doubled = tree.doubled
  BY <1>3 DEF TreeRecord
<1> HIDE DEF base
<1>5. base \in TreesOver(old, next)
  BY <1>3, <1>4 DEF TreesOver
<1>6. PICK after : /\ after[0] = base
                   /\ Committed(tree, old, next) = after[n]
                   /\ \A i \in 1..n : after[i] = Placed(after[i - 1], old, next, i)
  BY <1>2, <1>5, PlacedInTurn
<1>7. PlacedOK(tree, base, old, next, 0)
  <2>1. Reached(next, 0) = {}
    BY DEF Reached
  <2>2. ASSUME ~base.doubled
        PROVE  /\ IsInjective(left) /\ ToSet(left) \subseteq Common(old, next) /\ Sorted(left, old, next, 0)
    <3>1. /\ IsInjective(left) /\ InOrderOf(left, old)
          /\ \A k \in 1..Len(left) : left[k] \in Common(old, next) \/ \E j \in (Len(old) + 1)..Len(old) : left[k] = old[j]
      BY <1>1, <1>4, <2>2 DEF KeptOK
    <3>2. \A k \in 1..Len(left) : left[k] \in Common(old, next)
      BY <1>0, <3>1
    <3>3. ToSet(left) \subseteq Common(old, next)
      BY <1>3, <3>2, ListFacts
    <3> QED BY <1>3, <3>1, <3>3, StaysSorted
  <2> QED BY <1>4, <1>5, <2>1, <2>2 DEF PlacedOK
<1> DEFINE wrong == {i \in 0..n : ~PlacedOK(tree, after[i], old, next, i)}
<1>8. wrong = {}
  <2> SUFFICES ASSUME wrong # {} PROVE FALSE
    OBVIOUS
  <2>1. wrong \subseteq Nat
    OBVIOUS
  <2>2. PICK m \in wrong : \A k \in wrong : m <= k
    BY <2>1, LeastOf
  <2>3. m \in 0..n /\ ~PlacedOK(tree, after[m], old, next, m)
    BY <2>2
  <2>4. m # 0
    BY <1>6, <1>7, <2>3
  <2>5. m \in 1..n /\ m - 1 \in 0..n /\ m - 1 \notin wrong
    <3>1. m \in 1..n /\ m - 1 \in 0..n /\ ~(m <= m - 1)
      BY <1>0, <2>3, <2>4
    <3> HIDE DEF wrong
    <3> QED BY <2>2, <3>1
  <2>6. PlacedOK(tree, after[m - 1], old, next, m - 1)
    BY <2>5
  <2> HIDE DEF wrong
  <2>7. PlacedOK(tree, Placed(after[m - 1], old, next, m), old, next, m)
    BY <2>5, <2>6, PlacedStep
  <2> QED BY <1>6, <2>3, <2>5, <2>7
<1> DEFINE t == after[n]
<1>9. PlacedOK(tree, t, old, next, n)
  <2>1. n \in 0..n
    BY <1>0
  <2> QED BY <1>8, <2>1
<1> HIDE DEF wrong, t
<1>10. Reached(next, n) = ToSet(next)
  BY <1>0 DEF Reached, ToSet
<1>11. ASSUME ~t.doubled PROVE t.children = next
  <2>1. /\ IsInjective(t.children) /\ ToSet(t.children) = ToSet(next) /\ Sorted(t.children, old, next, n)
        /\ t.children \in Seq(Widget)
    BY <1>9, <1>10, <1>11 DEF PlacedOK, TreesOver, TreeRecord, Common
  <2>2. \A j \in 1..Len(next) : Settled(old, next, n, j)
    BY <1>0 DEF Settled
  <2>3. \A p, q \in 1..Len(t.children), j, k \in 1..Len(next) :
          p < q /\ t.children[p] = next[j] /\ t.children[q] = next[k] => j < k
    BY <2>1, <2>2 DEF Sorted
  <2> DEFINE c == t.children
  <2> HIDE DEF c
  <2>4. c \in Seq(Widget) /\ next \in Seq(Widget) /\ IsInjective(c) /\ IsInjective(next) /\ ToSet(c) = ToSet(next)
    BY <2>1 DEF Lists, c
  <2>5. \A p, q \in 1..Len(c), j, k \in 1..Len(next) : p < q /\ c[p] = next[j] /\ c[q] = next[k] => j < k
    BY <2>3 DEF c
  <2>6. c = next
    BY <2>4, <2>5, SameList
  <2> QED BY <2>6 DEF c
<1>12. /\ t \in TreeRecord /\ t.props = tree.props /\ ToSet(next) \subseteq ToSet(t.children)
       /\ ~t.doubled => ~tree.doubled
  BY <1>9, <1>10 DEF PlacedOK, TreesOver
<1>13. Committed(tree, old, next) = t
  BY <1>6 DEF t
<1> QED BY <1>11, <1>12, <1>13

(* The invariant.                                                             *)

FiberRecord ==
    [keys : Seq(Widget), props : [Widget -> Nat], callback : [Widget -> Nat], commits : Nat,
     stage : {"new", "mounted", "unmounted"}]

ActionRecord == [registered : SUBSET Widget, waiting : BOOLEAN, called : SUBSET [ran : Nat, newest : Nat]]

FiberOK ==
    /\ fiber \in FiberRecord /\ IsInjective(fiber.keys)
    /\ fiber.stage = "unmounted" => fiber.keys = <<>>

ActionsOK == actions \in ActionRecord /\ \A c \in actions.called : c.ran = c.newest

\* All that React has drawn is a child, and the children are just that unless
\* one was doubled.
DrawnOK ==
    /\ instances \in TreeRecord /\ ToSet(fiber.keys) \subseteq ToSet(instances.children)
    /\ ~instances.doubled =>
         /\ instances.children = fiber.keys
         /\ \A w \in ToSet(fiber.keys) : instances.props[w] = fiber.props[w]
         /\ frame = [i \in DOMAIN fiber.keys |-> <<fiber.keys[i], fiber.props[fiber.keys[i]]>>]

TreeIInv == FiberOK /\ ActionsOK /\ DrawnOK

LEMMA TreeInitIInv == TreeInit => TreeIInv
<1> SUFFICES ASSUME TreeInit PROVE TreeIInv
  OBVIOUS
<1>1. fiber \in FiberRecord /\ fiber.keys = <<>>
  BY DEF TreeInit, FiberRecord
<1>2. IsInjective(fiber.keys) /\ ToSet(fiber.keys) = {}
  BY <1>1 DEF IsInjective, ToSet
<1>3. instances \in TreeRecord /\ instances.children = <<>>
  BY DEF TreeInit, TreeRecord
<1>4. frame = [i \in DOMAIN fiber.keys |-> <<fiber.keys[i], fiber.props[fiber.keys[i]]>>]
  <2>1. \A f : f = <<>> => <<>> = [i \in DOMAIN f |-> <<f[i], fiber.props[f[i]]>>]
    OBVIOUS
  <2> QED BY <1>1, <2>1 DEF TreeInit
<1>5. ActionsOK
  BY DEF TreeInit, ActionsOK, ActionRecord
<1> QED BY <1>1, <1>2, <1>3, <1>4, <1>5 DEF TreeIInv, FiberOK, DrawnOK

LEMMA EffectsAreWidgets ==
    ASSUME TreeIInv PROVE EffectsRun \subseteq Widget
<1>1. fiber.keys \in Seq(Widget) /\ actions.registered \subseteq Widget
  BY DEF TreeIInv, FiberOK, FiberRecord, ActionsOK, ActionRecord
<1> QED BY <1>1, ListFacts DEF EffectsRun

\* One commit, from the list React had to the next.
LEMMA DrawsStep ==
    ASSUME TreeIInv, NEW next \in Seq(Widget), IsInjective(next), NEW changed \in SUBSET Widget,
           ToSet(next) \ ToSet(fiber.keys) \subseteq changed, NEW stage \in {"mounted", "unmounted"},
           stage = "unmounted" => next = <<>>, Draws(next, changed, stage)
    PROVE  TreeIInv'
<1> DEFINE old == fiber.keys
           t == Committed(instances, old, next)
           Props(f) == [w \in Widget |-> IF w \in changed THEN fiber.commits + 1 ELSE f[w]]
<1>0. /\ old \in Seq(Widget) /\ IsInjective(old) /\ fiber.commits \in Nat /\ fiber.props \in [Widget -> Nat]
      /\ fiber.callback \in [Widget -> Nat] /\ instances \in TreeRecord /\ instances.props \in [Widget -> Nat]
  BY DEF TreeIInv, FiberOK, FiberRecord, DrawnOK, TreeRecord
<1>1. /\ t \in TreeRecord /\ t.props = instances.props /\ ToSet(next) \subseteq ToSet(t.children)
      /\ ~t.doubled => t.children = next /\ ~instances.doubled
  <2>1. Lists(old, next)
    BY <1>0 DEF Lists
  <2>2. ToSet(old) \subseteq ToSet(instances.children) /\ (~instances.doubled => instances.children = old)
    BY DEF TreeIInv, DrawnOK
  <2> HIDE DEF old
  <2> QED BY <1>0, <2>1, <2>2, CommittedFacts
<1>2. /\ fiber' \in FiberRecord /\ fiber'.keys = next /\ fiber'.stage = stage
      /\ fiber'.props = Props(fiber.props)
  <2>1. Props(fiber.props) \in [Widget -> Nat]
    BY <1>0
  <2> DEFINE p == Props(fiber.props)
             b == [w \in Widget |-> IF Contains(next, w) THEN fiber.commits + 1 ELSE fiber.callback[w]]
  <2>2. b \in [Widget -> Nat] /\ fiber.commits + 1 \in Nat
    BY <1>0
  <2>3. fiber' = [fiber EXCEPT !.keys = next, !.commits = @ + 1, !.stage = stage, !.props = p, !.callback = b]
    BY <1>0 DEF Draws
  <2>4. p \in [Widget -> Nat]
    BY <2>1
  <2>5. fiber \in FiberRecord
    BY DEF TreeIInv, FiberOK
  <2> HIDE DEF p, b
  <2>6. fiber' \in FiberRecord /\ fiber'.keys = next /\ fiber'.stage = stage /\ fiber'.props = p
    BY <2>2, <2>3, <2>4, <2>5 DEF FiberRecord
  <2> QED BY <2>6 DEF p
<1>3. /\ instances' \in TreeRecord /\ instances'.children = t.children /\ instances'.doubled = t.doubled
      /\ instances'.props = Props(instances.props)
  <2> DEFINE p == Props(instances.props)
  <2>1. p \in [Widget -> Nat]
    BY <1>0
  <2>2. instances' = [t EXCEPT !.props = p]
    BY <1>1 DEF Draws, CommitUpdate
  <2> HIDE DEF p, t
  <2>3. instances' \in TreeRecord /\ instances'.children = t.children /\ instances'.doubled = t.doubled /\ instances'.props = p
    BY <1>1, <2>1, <2>2 DEF TreeRecord
  <2> QED BY <2>3 DEF p
<1> HIDE DEF t
<1>4. FiberOK'
  BY <1>2 DEF FiberOK
<1>5. ActionsOK'
  <2>1. actions \in ActionRecord /\ \A c \in actions.called : c.ran = c.newest
    BY DEF TreeIInv, ActionsOK
  <2>2. EffectsRun \in SUBSET Widget
    BY EffectsAreWidgets
  <2>3. actions' = [actions EXCEPT !.registered = EffectsRun, !.waiting = TRUE]
    BY DEF Draws
  <2>4. actions' \in ActionRecord /\ actions'.called = actions.called
    BY <2>1, <2>2, <2>3 DEF ActionRecord
  <2> QED BY <2>1, <2>4 DEF ActionsOK
<1>6. DrawnOK'
  <2>1. instances' \in TreeRecord /\ ToSet(fiber'.keys) \subseteq ToSet(instances'.children)
    BY <1>1, <1>2, <1>3
  <2>2. ASSUME ~instances'.doubled
        PROVE  /\ instances'.children = fiber'.keys
               /\ \A w \in ToSet(fiber'.keys) : instances'.props[w] = fiber'.props[w]
               /\ frame' = [i \in DOMAIN fiber'.keys |-> <<fiber'.keys[i], fiber'.props[fiber'.keys[i]]>>]
    <3>1. instances'.children = next /\ ~instances.doubled
      BY <1>1, <1>3, <2>2
    <3>2. ASSUME NEW w \in ToSet(next) PROVE instances'.props[w] = fiber'.props[w]
      <4>1. w \in Widget
        BY ListFacts
      <4>2. w \notin changed => instances.props[w] = fiber.props[w]
        BY <3>1 DEF TreeIInv, DrawnOK
      <4> QED BY <1>2, <1>3, <4>1, <4>2
    <3>3. frame' = [i \in DOMAIN next |-> <<next[i], instances'.props[next[i]]>>]
      BY <3>1 DEF Draws, Serialized
    <3>4. \A i \in DOMAIN next : instances'.props[next[i]] = fiber'.props[next[i]]
      BY <3>2 DEF ToSet
    <3>5. frame' = [i \in DOMAIN next |-> <<next[i], fiber'.props[next[i]]>>]
      BY <3>3, <3>4
    <3> QED BY <1>2, <3>1, <3>2, <3>5
  <2> QED BY <2>1, <2>2 DEF DrawnOK
<1> QED BY <1>4, <1>5, <1>6 DEF TreeIInv

LEMMA CommitStep ==
    ASSUME TreeIInv, Commit PROVE TreeIInv'
<1>1. PICK set \in {s \in SUBSET Widget : IsFiniteSet(s)} : \E next \in SetToSeqs(set), changed \in SUBSET set :
        set \ ToSet(fiber.keys) \subseteq changed /\ Draws(next, changed, "mounted")
  BY DEF Commit
<1>2. PICK next \in SetToSeqs(set), changed \in SUBSET set :
        set \ ToSet(fiber.keys) \subseteq changed /\ Draws(next, changed, "mounted")
  BY <1>1
<1>3. Cardinality(set) \in Nat /\ set \subseteq Widget
  BY FS_CardinalityType
<1>4. next \in [1..Cardinality(set) -> set] /\ \A i, j \in 1..Cardinality(set) : i # j => next[i] # next[j]
  BY DEF SetToSeqs
<1>5. next \in Seq(set)
  BY <1>3, <1>4, SeqDef
<1>6. next \in Seq(Widget) /\ ToSet(next) \subseteq set
  <2>1. next \in [1..Cardinality(set) -> Widget]
    BY <1>3, <1>4
  <2> QED BY <1>3, <1>4, <2>1, SeqDef DEF ToSet
<1>7. IsInjective(next)
  BY <1>4 DEF IsInjective
<1>8. ToSet(next) \ ToSet(fiber.keys) \subseteq changed /\ changed \in SUBSET Widget
  BY <1>2, <1>3, <1>6
<1> QED BY <1>2, <1>6, <1>7, <1>8, DrawsStep

LEMMA UnmountStep ==
    ASSUME TreeIInv, Unmount PROVE TreeIInv'
<1>1. <<>> \in Seq(Widget) /\ IsInjective(<<>>) /\ ToSet(<<>>) = {}
  BY DEF IsInjective, ToSet
<1>2. Draws(<<>>, {}, "unmounted")
  BY DEF Unmount
<1>3. {} \in SUBSET Widget /\ ToSet(<<>>) \ ToSet(fiber.keys) \subseteq {}
  BY <1>1
<1> QED BY <1>1, <1>2, <1>3, DrawsStep

LEMMA TreeActionSteps ==
    ASSUME TreeIInv, RunEffects \/ \E w \in Widget : Dispatch(w) PROVE TreeIInv'
<1>0. actions \in ActionRecord /\ \A c \in actions.called : c.ran = c.newest
  BY DEF TreeIInv, ActionsOK
<1>1. UNCHANGED <<fiber, instances, frame>>
  BY DEF RunEffects, Dispatch
<1>2. ActionsOK'
  <2>1. CASE RunEffects
    <3>1. EffectsRun \in SUBSET Widget /\ actions' = [actions EXCEPT !.registered = EffectsRun, !.waiting = FALSE]
      BY <2>1, EffectsAreWidgets DEF RunEffects
    <3>2. actions' \in ActionRecord /\ actions'.called = actions.called
      BY <1>0, <3>1 DEF ActionRecord
    <3> QED BY <1>0, <3>2 DEF ActionsOK
  <2>2. CASE \E w \in Widget : Dispatch(w)
    <3>1. PICK w \in Widget : Dispatch(w)
      BY <2>2
    <3> DEFINE calls == {[ran |-> CallbackOf(v), newest |-> fiber.callback[v]] : v \in {w} \cap actions.registered}
    <3>2. actions' = [actions EXCEPT !.called = calls]
      BY <3>1 DEF Dispatch
    <3>3. fiber.callback \in [Widget -> Nat]
      BY DEF TreeIInv, FiberOK, FiberRecord
    <3>4. calls \subseteq [ran : Nat, newest : Nat] /\ \A c \in calls : c.ran = c.newest
      BY <3>3 DEF CallbackOf
    <3> HIDE DEF calls
    <3>5. actions' \in ActionRecord /\ actions'.called = calls
      BY <1>0, <3>2, <3>4 DEF ActionRecord
    <3> QED BY <3>4, <3>5 DEF ActionsOK
  <2> QED BY <2>1, <2>2
<1>3. FiberOK' /\ DrawnOK'
  BY <1>1 DEF TreeIInv, FiberOK, DrawnOK
<1> QED BY <1>2, <1>3 DEF TreeIInv

\* Whatever is added, removed, moved and changed, the widgets and the frame are
\* those React has drawn unless one was doubled, and an action runs the newest
\* callback, for any widgets and any number of commits.
THEOREM TreeAlwaysDrawn == TreeSpec => []TreeIsDrawn
<1>1. TreeIInv /\ [TreeNext]_treeVars => TreeIInv'
  <2> SUFFICES ASSUME TreeIInv, [TreeNext]_treeVars PROVE TreeIInv'
    OBVIOUS
  <2>1. CASE UNCHANGED treeVars
    BY <2>1 DEF treeVars, TreeIInv, FiberOK, ActionsOK, DrawnOK
  <2>2. CASE TreeNext
    BY <2>2, CommitStep, UnmountStep, TreeActionSteps DEF TreeNext
  <2> QED BY <2>1, <2>2
<1>2. TreeIInv => TreeIsDrawn
  <2> SUFFICES ASSUME TreeIInv PROVE TreeIsDrawn
    OBVIOUS
  <2>1. instances.children \in Seq(Widget) /\ actions.registered \subseteq Widget
    BY DEF TreeIInv, DrawnOK, TreeRecord, ActionsOK, ActionRecord
  <2>2. ToSet(instances.children) \subseteq Widget
    BY <2>1, ListFacts
  <2>3. TreeTypeOK
    BY <2>1, <2>2 DEF TreeTypeOK, TreeIInv, FiberOK
  <2> QED BY <2>3 DEF TreeIsDrawn, TreeIInv, ActionsOK, DrawnOK
<1> QED BY TreeInitIInv, <1>1, <1>2, PTL DEF TreeSpec

(* The follows of a product's chain provider (papiProvider.ts).               *)

StreamRecord == [listeners : Seq(Follow_), ended : {"no", "host", "product"}]

FeedRecord ==
    [next : [Connection -> Nat \ {0}], active : SUBSET Follow_, stops : [Follow_ -> Nat],
     streams : Seq(StreamRecord), current : [Payload -> Nat]]

Feeds == {d \in FeedRecord : \A p \in Payload : d.current[p] <= Len(d.streams)}

PayloadOf(f) == WithRuntime(f[1])

\* Those who hear a stream, and whether it is served: the stream the host has
\* just stopped is until its listeners are told.
Heard(d, s) == ToSet(d.streams[s].listeners)
Serves(d, s, dying) == d.streams[s].ended = "no" \/ (s = dying /\ d.streams[s].ended = "host")

\* The follows that are not out and the streams that are served are each
\* other's, a payload has one stream.
Wired(d, out, dying) ==
    /\ \A p \in Payload : d.current[p] # 0 => Serves(d, d.current[p], dying)
    /\ \A p, q \in Payload : d.current[p] # 0 /\ d.current[p] = d.current[q] => p = q
    /\ \A s \in 1..Len(d.streams) : Serves(d, s, dying) =>
         /\ Heard(d, s) # {} /\ IsInjective(d.streams[s].listeners)
         /\ \A f \in Heard(d, s) : f \in d.active \ out /\ d.current[PayloadOf(f)] = s
    /\ \A f \in d.active \ out : d.current[PayloadOf(f)] # 0 /\ f \in Heard(d, d.current[PayloadOf(f)])

\* A number is used once, a follow that is active has not been told of its end,
\* and an eager consumer has one at a time.
Numbered(d) ==
    /\ \A f \in d.active : f[2] < d.next[f[1]] /\ d.stops[f] = 0
    /\ \A f \in Follow_ : d.stops[f] <= 1 /\ (d.next[f[1]] <= f[2] => d.stops[f] = 0)
    /\ \A f, g \in d.active : f[1] = g[1] /\ f[1] \in Eager => f = g

LEMMA FollowFacts ==
    \A f \in Follow_ : f[1] \in Connection /\ f[2] \in 1..MaxFollows /\ f = <<f[1], f[2]>> /\ PayloadOf(f) \in Payload
BY FollowsAssumption DEF Follow_, PayloadOf, Payload

\* A feed, field by field.
LEMMA FeedFields ==
    ASSUME NEW d \in Feeds
    PROVE  /\ d \in FeedRecord /\ d.next \in [Connection -> Nat \ {0}] /\ d.active \in SUBSET Follow_
           /\ d.stops \in [Follow_ -> Nat] /\ d.streams \in Seq(StreamRecord) /\ d.current \in [Payload -> Nat]
           /\ Len(d.streams) \in Nat /\ DOMAIN d.streams = 1..Len(d.streams)
           /\ \A p \in Payload : d.current[p] \in 0..Len(d.streams)
           /\ \A s \in 1..Len(d.streams) : /\ d.streams[s] \in StreamRecord /\ d.streams[s].listeners \in Seq(Follow_)
                                           /\ d.streams[s].ended \in {"no", "host", "product"}
                                           /\ Heard(d, s) \subseteq Follow_
<1>1. /\ d \in FeedRecord /\ d.next \in [Connection -> Nat \ {0}] /\ d.active \in SUBSET Follow_
      /\ d.stops \in [Follow_ -> Nat] /\ d.streams \in Seq(StreamRecord) /\ d.current \in [Payload -> Nat]
      /\ \A p \in Payload : d.current[p] <= Len(d.streams)
  BY DEF Feeds, FeedRecord
<1>2. /\ Len(d.streams) \in Nat /\ DOMAIN d.streams = 1..Len(d.streams)
      /\ \A s \in 1..Len(d.streams) : d.streams[s] \in StreamRecord
  BY <1>1, LenProperties, ElementOfSeq
<1>3. \A p \in Payload : d.current[p] \in 0..Len(d.streams)
  BY <1>1, <1>2
<1>4. \A x \in StreamRecord : x.listeners \in Seq(Follow_) /\ x.ended \in {"no", "host", "product"}
  BY DEF StreamRecord
<1>5. \A s \in 1..Len(d.streams) : Heard(d, s) \subseteq Follow_
  BY <1>2, <1>4, ListFacts DEF Heard
<1> QED BY <1>1, <1>2, <1>3, <1>4, <1>5

\* The wiring is of the streams and of the follows that are not out.
LEMMA SameWiring ==
    ASSUME NEW d, NEW u, NEW out, NEW away, NEW dying, Wired(d, out, dying),
           u.streams = d.streams, u.current = d.current, u.active \ away = d.active \ out
    PROVE  Wired(u, away, dying)
BY DEF Wired, Serves, Heard

\* What Append and the list of one are.
LEMMA JoinedList ==
    ASSUME NEW S, NEW l \in Seq(S), NEW f \in S
    PROVE  /\ Append(l, f) \in Seq(S) /\ ToSet(Append(l, f)) = ToSet(l) \cup {f}
           /\ IsInjective(l) /\ f \notin ToSet(l) => IsInjective(Append(l, f))
<1>1. /\ Append(l, f) \in Seq(S) /\ Len(Append(l, f)) = Len(l) + 1 /\ Len(l) \in Nat /\ Append(l, f)[Len(l) + 1] = f
      /\ \A k \in 1..Len(l) : Append(l, f)[k] = l[k]
  BY AppendProperties, LenProperties
<1>2. /\ ToSet(Append(l, f)) = {Append(l, f)[k] : k \in 1..(Len(l) + 1)} /\ ToSet(l) = {l[k] : k \in 1..Len(l)}
      /\ DOMAIN Append(l, f) = 1..(Len(l) + 1) /\ DOMAIN l = 1..Len(l)
  BY <1>1, ListFacts
<1>3. ToSet(Append(l, f)) = ToSet(l) \cup {f}
  <2>1. 1..(Len(l) + 1) = 1..Len(l) \cup {Len(l) + 1}
    BY <1>1
  <2> QED BY <1>1, <1>2, <2>1
<1>4. ASSUME IsInjective(l), f \notin ToSet(l) PROVE IsInjective(Append(l, f))
  <2> SUFFICES ASSUME NEW i \in 1..(Len(l) + 1), NEW j \in 1..(Len(l) + 1), Append(l, f)[i] = Append(l, f)[j]
               PROVE  i = j
    BY <1>2 DEF IsInjective
  <2>1. \A k \in 1..(Len(l) + 1) : k = Len(l) + 1 \/ k \in 1..Len(l)
    BY <1>1
  <2>2. \A k \in 1..Len(l) : l[k] # f
    BY <1>2, <1>4
  <2> QED BY <1>1, <1>2, <1>4, <2>1, <2>2 DEF IsInjective
<1> QED BY <1>1, <1>3, <1>4

LEMMA ListOfOne == \A f : ToSet(<<f>>) = {f} /\ IsInjective(<<f>>)
<1> SUFFICES ASSUME NEW f PROVE ToSet(<<f>>) = {f} /\ IsInjective(<<f>>)
  OBVIOUS
<1>1. DOMAIN <<f>> = {1} /\ <<f>>[1] = f
  OBVIOUS
<1> QED BY <1>1 DEF ToSet, IsInjective

\* subscribe: the follow joins the stream of its payload, which is opened if
\* there is none.
Joins(d, u, p, f) ==
    LET t == u.current[p] IN
    /\ u.next = d.next /\ u.active = d.active /\ u.stops = d.stops
    /\ t \in 1..Len(u.streams) /\ 1..Len(u.streams) = 1..Len(d.streams) \cup {t}
    /\ \A q \in Payload : q # p => u.current[q] = d.current[q]
    /\ \A s \in 1..Len(d.streams) : s # t => u.streams[s] = d.streams[s]
    /\ d.current[p] # 0 => /\ t = d.current[p] /\ u.streams[t].ended = d.streams[t].ended
                           /\ u.streams[t].listeners = Append(d.streams[t].listeners, f)
    /\ d.current[p] = 0 => /\ t \notin 1..Len(d.streams) /\ u.streams[t].ended = "no"
                           /\ u.streams[t].listeners = <<f>>

LEMMA SubscribedFacts ==
    ASSUME NEW d \in Feeds, NEW c \in Connection, NEW f \in Follow_
    PROVE  Subscribed(d, c, f) \in Feeds /\ Joins(d, Subscribed(d, c, f), WithRuntime(c), f)
<1> DEFINE p == WithRuntime(c)
           s == d.current[p]
           n == Len(d.streams)
           u == Subscribed(d, c, f)
<1>0. p \in Payload /\ d.current \in [Payload -> Nat] /\ d.streams \in Seq(StreamRecord) /\ n \in Nat /\ s \in 0..n
  BY FollowsAssumption, FeedFields DEF Payload
<1> HIDE DEF p
<1>1. CASE s # 0
  <2> DEFINE x == [d.streams[s] EXCEPT !.listeners = Append(d.streams[s].listeners, f)]
             v == [d.streams EXCEPT ![s] = x]
  <2>0. s \in 1..n
    BY <1>0, <1>1
  <2>1. d.streams[s] \in StreamRecord /\ Append(d.streams[s].listeners, f) \in Seq(Follow_)
    BY <2>0, FeedFields, JoinedList
  <2>2. x \in StreamRecord /\ x.ended = d.streams[s].ended /\ x.listeners = Append(d.streams[s].listeners, f)
    BY <2>1 DEF StreamRecord
  <2>3. u = [d EXCEPT !.streams = v]
    BY <1>1 DEF Subscribed, p
  <2> HIDE DEF x, u
  <2>4. /\ v \in Seq(StreamRecord) /\ Len(v) = n /\ v[s] = x
        /\ \A t \in 1..n : t # s => v[t] = d.streams[t]
    BY <1>0, <2>0, <2>2, ExceptSeq
  <2> HIDE DEF v
  <2>5. u \in FeedRecord /\ u.streams = v /\ u.next = d.next /\ u.active = d.active /\ u.stops = d.stops /\ u.current = d.current
    BY <2>3, <2>4, FeedFields DEF FeedRecord
  <2>6. u \in Feeds
    BY <1>0, <2>4, <2>5, FeedFields DEF Feeds
  <2>7. Joins(d, u, p, f)
    <3> HIDE DEF n
    <3>1. u.current[p] = s /\ Len(u.streams) = n /\ 1..n = 1..n \cup {s}
      BY <2>0, <2>4, <2>5
    <3> QED BY <1>1, <2>0, <2>2, <2>4, <2>5, <3>1 DEF Joins, n
  <2> QED BY <2>6, <2>7 DEF u, p
<1>2. CASE s = 0
  <2> DEFINE x == [listeners |-> <<f>>, ended |-> "no"]
             v == Append(d.streams, x)
             w == [d.current EXCEPT ![p] = n + 1]
  <2>1. <<f>> \in Seq(Follow_) /\ x \in StreamRecord /\ x.listeners = <<f>> /\ x.ended = "no"
    BY DEF StreamRecord
  <2>2. u = [d EXCEPT !.streams = v, !.current = w]
    BY <1>2 DEF Subscribed, p
  <2> HIDE DEF x, u
  <2>3. /\ v \in Seq(StreamRecord) /\ Len(v) = n + 1 /\ v[n + 1] = x
        /\ \A t \in 1..n : v[t] = d.streams[t]
    BY <1>0, <2>1, AppendProperties
  <2>4. w \in [Payload -> Nat] /\ w[p] = n + 1 /\ \A q \in Payload : q # p => w[q] = d.current[q]
    BY <1>0
  <2> HIDE DEF v, w
  <2>5. u \in FeedRecord /\ u.streams = v /\ u.next = d.next /\ u.active = d.active /\ u.stops = d.stops /\ u.current = w
    BY <2>2, <2>3, <2>4, FeedFields DEF FeedRecord
  <2>6. u \in Feeds
    <3>1. \A q \in Payload : w[q] <= n + 1
      <4>1. \A q \in Payload : d.current[q] \in 0..n
        BY FeedFields
      <4> QED BY <1>0, <2>4, <4>1
    <3> QED BY <2>3, <2>5, <3>1 DEF Feeds
  <2>7. Joins(d, u, p, f)
    <3>1. u.current[p] = n + 1 /\ Len(u.streams) = n + 1 /\ 1..(n + 1) = 1..n \cup {n + 1} /\ n + 1 \notin 1..n
      BY <1>0, <2>3, <2>4, <2>5
    <3>2. n + 1 \in 1..(n + 1)
      BY <1>0
    <3> QED BY <1>2, <2>1, <2>3, <2>4, <2>5, <3>1, <3>2 DEF Joins
  <2> QED BY <2>6, <2>7 DEF u, p
<1> QED BY <1>0, <1>1, <1>2

LEMMA EmptyList == \A S : \A l \in Seq(S) : l = <<>> <=> ToSet(l) = {}
<1> SUFFICES ASSUME NEW S, NEW l \in Seq(S) PROVE l = <<>> <=> ToSet(l) = {}
  OBVIOUS
<1>1. Len(l) \in Nat /\ ToSet(l) = {l[i] : i \in 1..Len(l)}
  BY ListFacts
<1>2. l = <<>> <=> Len(l) = 0
  BY EmptySeq
<1> QED BY <1>1, <1>2

\* A follow that joins is wired, and so is the rest.
LEMMA JoinsWired ==
    ASSUME NEW d \in Feeds, NEW f \in Follow_, NEW u \in Feeds, Joins(d, u, PayloadOf(f), f), NEW out, NEW dying,
           Wired(d, out, dying), f \notin d.active, f \notin out,
           NEW v \in Feeds, v.streams = u.streams, v.current = u.current, v.active = d.active \cup {f}
    PROVE  Wired(v, out, dying)
<1> DEFINE p == PayloadOf(f)
           t == u.current[p]
           n == Len(d.streams)
<1>1. \A g \in d.active : PayloadOf(g) \in Payload
  BY FollowFacts, FeedFields
<1>2. /\ p \in Payload /\ t \in 1..Len(u.streams) /\ 1..Len(u.streams) = 1..n \cup {t}
      /\ \A q \in Payload : q # p => u.current[q] = d.current[q]
      /\ \A s \in 1..n : s # t => u.streams[s] = d.streams[s]
      /\ d.current[p] # 0 => /\ t = d.current[p] /\ u.streams[t].ended = d.streams[t].ended
                             /\ u.streams[t].listeners = Append(d.streams[t].listeners, f)
      /\ d.current[p] = 0 => /\ t \notin 1..n /\ u.streams[t].ended = "no"
                             /\ u.streams[t].listeners = <<f>>
  BY FollowFacts DEF Joins
<1>3. n \in Nat /\ \A q \in Payload : d.current[q] \in 0..n
  BY FeedFields
<1>4. d.current[p] # 0 => t \in 1..n
  BY <1>2, <1>3
<1>5. t # 0 /\ \A q \in Payload : d.current[q] # 0 => d.current[q] \in 1..n
  <2>1. Len(u.streams) \in Nat
    BY FeedFields
  <2> QED BY <1>2, <1>3, <2>1
<1>6. /\ d.current[p] # 0 => /\ Heard(u, t) = Heard(d, t) \cup {f}
                             /\ IsInjective(d.streams[t].listeners) /\ f \notin Heard(d, t) => IsInjective(u.streams[t].listeners)
      /\ d.current[p] = 0 => Heard(u, t) = {f} /\ IsInjective(u.streams[t].listeners)
  <2>1. d.current[p] # 0 => d.streams[t].listeners \in Seq(Follow_)
    BY <1>4, FeedFields
  <2>2. CASE d.current[p] # 0
    <3> DEFINE l == d.streams[t].listeners
    <3>1. l \in Seq(Follow_) /\ u.streams[t].listeners = Append(l, f)
      BY <1>2, <2>1, <2>2
    <3> HIDE DEF l
    <3>2. ToSet(Append(l, f)) = ToSet(l) \cup {f} /\ (IsInjective(l) /\ f \notin ToSet(l) => IsInjective(Append(l, f)))
      BY <3>1, JoinedList
    <3> QED BY <2>2, <3>1, <3>2 DEF Heard, l
  <2>3. CASE d.current[p] = 0
    <3>1. ToSet(<<f>>) = {f} /\ IsInjective(<<f>>) /\ u.streams[t].listeners = <<f>>
      BY <1>2, <2>3, ListOfOne
    <3> QED BY <2>3, <3>1 DEF Heard
  <2> QED BY <2>2, <2>3
<1>7. \A s \in 1..n : s # t => Heard(u, s) = Heard(d, s)
  BY <1>2 DEF Heard
<1> HIDE DEF p, t
<1>7a. \A q \in Payload : q # p /\ d.current[q] # 0 => d.current[q] # t
  <2> SUFFICES ASSUME NEW q \in Payload, q # p, d.current[q] # 0, d.current[q] = t PROVE FALSE
    OBVIOUS
  <2>1. t \in 1..n
    BY <1>5
  <2>2. d.current[p] = d.current[q]
    BY <1>2, <2>1
  <2>3. p \in Payload
    BY <1>2
  <2> QED BY <2>2, <2>3 DEF Wired
<1>8. \A q \in Payload : u.current[q] # 0 => Serves(u, u.current[q], dying)
  <2> SUFFICES ASSUME NEW q \in Payload, u.current[q] # 0 PROVE Serves(u, u.current[q], dying)
    OBVIOUS
  <2>1. CASE q = p
    <3>1. u.current[q] = t
      BY <2>1 DEF t
    <3>2. CASE d.current[p] = 0
      BY <1>2, <3>1, <3>2 DEF Serves
    <3>3. CASE d.current[p] # 0
      <4>1. Serves(d, t, dying)
        BY <1>2, <3>3 DEF Wired
      <4> QED BY <1>2, <3>1, <3>3, <4>1 DEF Serves
    <3> QED BY <3>2, <3>3
  <2>2. CASE q # p
    <3>1. u.current[q] = d.current[q] /\ d.current[q] \in 1..n /\ Serves(d, d.current[q], dying)
      BY <1>2, <1>5, <2>2 DEF Wired
    <3>2. d.current[q] # t
      BY <1>2, <1>7a, <2>2
    <3> QED BY <1>2, <3>1, <3>2 DEF Serves
  <2> QED BY <2>1, <2>2
<1>9. \A q, r \in Payload : u.current[q] # 0 /\ u.current[q] = u.current[r] => q = r
  <2>1. \A q \in Payload : q # p => u.current[q] # t \/ u.current[q] = 0
    BY <1>2, <1>7a
  <2>2. u.current[p] = t
    BY DEF t
  <2> QED BY <1>2, <2>1, <2>2 DEF Wired
<1>10. ASSUME NEW s \in 1..Len(u.streams), Serves(u, s, dying)
       PROVE  /\ Heard(u, s) # {} /\ IsInjective(u.streams[s].listeners)
              /\ \A g \in Heard(u, s) : g \in v.active \ out /\ u.current[PayloadOf(g)] = s
  <2>1. CASE s = t
    <3>1. u.current[PayloadOf(f)] = t /\ f \in v.active \ out
      BY DEF t, p
    <3>2. CASE d.current[p] = 0
      BY <1>6, <2>1, <3>1, <3>2
    <3>3. CASE d.current[p] # 0
      <4>1. t \in 1..n /\ Serves(d, t, dying)
        BY <1>2, <1>4, <3>3 DEF Wired
      <4>2. /\ Heard(d, t) # {} /\ IsInjective(d.streams[t].listeners)
            /\ \A g \in Heard(d, t) : g \in d.active \ out /\ d.current[PayloadOf(g)] = t
        BY <4>1 DEF Wired
      <4>3. \A g \in Heard(d, t) : u.current[PayloadOf(g)] = t
        <5> SUFFICES ASSUME NEW g \in Heard(d, t) PROVE u.current[PayloadOf(g)] = t
          OBVIOUS
        <5>1. PayloadOf(g) \in Payload /\ d.current[PayloadOf(g)] = t /\ u.current[p] = t
          BY <1>1, <4>2 DEF t
        <5> QED BY <1>2, <5>1
      <4>4. f \notin Heard(d, t)
        BY <4>2
      <4> QED BY <1>6, <2>1, <3>1, <3>3, <4>2, <4>3, <4>4
    <3> QED BY <3>2, <3>3
  <2>2. CASE s # t
    <3>1. s \in 1..n /\ u.streams[s] = d.streams[s]
      BY <1>2, <2>2
    <3>2. Serves(d, s, dying)
      BY <1>10, <3>1 DEF Serves
    <3>3. /\ Heard(d, s) # {} /\ IsInjective(d.streams[s].listeners)
          /\ \A g \in Heard(d, s) : g \in d.active \ out /\ d.current[PayloadOf(g)] = s
      BY <3>1, <3>2 DEF Wired
    <3>4. \A g \in Heard(d, s) : PayloadOf(g) # p
      <4> SUFFICES ASSUME NEW g \in Heard(d, s), PayloadOf(g) = p PROVE FALSE
        OBVIOUS
      <4>1. d.current[p] = s /\ s # 0
        BY <1>3, <3>1, <3>3
      <4> QED BY <1>2, <2>2, <4>1
    <3>5. \A g \in Heard(d, s) : u.current[PayloadOf(g)] = s
      BY <1>1, <1>2, <3>3, <3>4
    <3> QED BY <1>7, <2>2, <3>1, <3>3, <3>5
  <2> QED BY <2>1, <2>2
<1>11. ASSUME NEW g \in v.active \ out
       PROVE  u.current[PayloadOf(g)] # 0 /\ g \in Heard(u, u.current[PayloadOf(g)])
  <2>1. CASE g = f
    BY <1>5, <1>6, <2>1 DEF t, p
  <2>2. CASE g # f
    <3>1. /\ g \in d.active \ out /\ PayloadOf(g) \in Payload
          /\ d.current[PayloadOf(g)] # 0 /\ g \in Heard(d, d.current[PayloadOf(g)])
      BY <1>1, <2>2 DEF Wired
    <3>2. CASE PayloadOf(g) = p
      <4>1. u.current[PayloadOf(g)] = t /\ d.current[p] # 0 /\ t = d.current[p]
        BY <1>2, <3>1, <3>2 DEF t
      <4> QED BY <1>5, <1>6, <3>1, <3>2, <4>1
    <3>3. CASE PayloadOf(g) # p
      <4>1. u.current[PayloadOf(g)] = d.current[PayloadOf(g)] /\ d.current[PayloadOf(g)] \in 1..n
        BY <1>2, <1>5, <3>1, <3>3
      <4>2. d.current[PayloadOf(g)] # t
        BY <1>7a, <3>1, <3>3
      <4> QED BY <1>7, <3>1, <4>1, <4>2
    <3> QED BY <3>2, <3>3
  <2> QED BY <2>1, <2>2
<1>12. \A s : Serves(v, s, dying) <=> Serves(u, s, dying)
  BY DEF Serves
<1>13. \A s : Heard(v, s) = Heard(u, s)
  BY DEF Heard
<1> QED BY <1>8, <1>9, <1>10, <1>11, <1>12, <1>13 DEF Wired

\* The follow a consumer asks for.
LEMMA FollowedFacts ==
    ASSUME NEW d \in Feeds, NEW c \in Connection, CanFollow(d, c)
    PROVE  \E f \in Follow_, u \in Feeds :
             /\ f = <<c, d.next[c]>> /\ Joins(d, u, PayloadOf(f), f)
             /\ Followed(d, c) = [u EXCEPT !.active = d.active \cup {f}, !.next = [d.next EXCEPT ![c] = d.next[c] + 1]]
             /\ Followed(d, c) \in Feeds /\ Followed(d, c).streams = u.streams /\ Followed(d, c).current = u.current
             /\ Followed(d, c).active = d.active \cup {f} /\ Followed(d, c).stops = d.stops
             /\ Followed(d, c).next = [d.next EXCEPT ![c] = d.next[c] + 1]
<1> DEFINE f == <<c, d.next[c]>>
           u == Subscribed(d, c, f)
           next == [d.next EXCEPT ![c] = d.next[c] + 1]
           v == Followed(d, c)
<1>1. f \in Follow_ /\ f[1] = c /\ d.next \in [Connection -> Nat \ {0}]
  BY FeedFields, FollowsAssumption DEF CanFollow, Follow_
<1>2. u \in Feeds /\ Joins(d, u, WithRuntime(c), f)
  BY <1>1, SubscribedFacts
<1>3. PayloadOf(f) = WithRuntime(c) /\ u.next = d.next /\ u.active = d.active /\ u.stops = d.stops
  BY <1>1, <1>2 DEF Joins, PayloadOf
<1>4. next \in [Connection -> Nat \ {0}]
  BY <1>1
<1>5. v = [u EXCEPT !.active = d.active \cup {f}, !.next = next]
  BY <1>3 DEF Followed
<1> HIDE DEF f, u, next, v
<1>6. d.active \cup {f} \in SUBSET Follow_
  BY <1>1, FeedFields
<1>7. u \in FeedRecord /\ \A p \in Payload : u.current[p] <= Len(u.streams)
  BY <1>2 DEF Feeds
<1>8. /\ v \in FeedRecord /\ v.streams = u.streams /\ v.current = u.current /\ v.active = d.active \cup {f}
      /\ v.stops = u.stops /\ v.next = next
  BY <1>4, <1>5, <1>6, <1>7 DEF FeedRecord
<1>9. v \in Feeds
  BY <1>7, <1>8 DEF Feeds
<1> QED BY <1>1, <1>2, <1>3, <1>5, <1>8, <1>9 DEF f, next, v

\* A follow is a new one: it is wired, and the rest stays.
FollowsOn(d, v, c) ==
    \E f \in Follow_ : /\ f[1] = c /\ f \notin d.active /\ v.active = d.active \cup {f}
                       /\ \A s \in 1..Len(d.streams) : s # d.current[PayloadOf(f)] =>
                            s \in 1..Len(v.streams) /\ v.streams[s] = d.streams[s]

LEMMA FollowedKeeps ==
    ASSUME NEW d \in Feeds, NEW c \in Connection, CanFollow(d, c), NEW out \in SUBSET d.active, NEW dying,
           Numbered(d), Wired(d, out, dying), c \in Eager => \A g \in d.active : g[1] # c
    PROVE  /\ Followed(d, c) \in Feeds /\ Numbered(Followed(d, c)) /\ Wired(Followed(d, c), out, dying)
           /\ FollowsOn(d, Followed(d, c), c)
<1> DEFINE v == Followed(d, c)
<1>1. PICK f \in Follow_, u \in Feeds :
             /\ f = <<c, d.next[c]>> /\ Joins(d, u, PayloadOf(f), f)
             /\ v \in Feeds /\ v.streams = u.streams /\ v.current = u.current
             /\ v.active = d.active \cup {f} /\ v.stops = d.stops
             /\ v.next = [d.next EXCEPT ![c] = d.next[c] + 1]
  BY FollowedFacts
<1> HIDE DEF v
<1>2. f[1] = c /\ f[2] = d.next[c] /\ d.next \in [Connection -> Nat \ {0}] /\ d.next[c] \in Nat
  BY <1>1, FeedFields
<1>3. f \notin d.active
  <2> SUFFICES ASSUME f \in d.active PROVE FALSE
    OBVIOUS
  <2>1. f[2] < d.next[f[1]]
    BY DEF Numbered
  <2> QED BY <1>2, <2>1
<1>4. f \notin out
  BY <1>3
<1>5. Wired(v, out, dying)
  BY <1>1, <1>3, <1>4, JoinsWired
<1>6. v.next[c] = d.next[c] + 1 /\ \A e \in Connection : v.next[e] \in Nat /\ d.next[e] \in Nat /\ d.next[e] <= v.next[e]
  BY <1>1, <1>2
<1>7. \A g \in Follow_ : g[1] \in Connection /\ g[2] \in Nat
  BY FollowFacts
<1>8. \A g \in v.active : g[2] < v.next[g[1]] /\ v.stops[g] = 0
  <2>1. f[2] < v.next[f[1]] /\ d.stops[f] = 0
    BY <1>2, <1>6 DEF Numbered
  <2>2. ASSUME NEW g \in d.active PROVE g[2] < v.next[g[1]] /\ d.stops[g] = 0
    <3>1. g[2] < d.next[g[1]] /\ d.stops[g] = 0 /\ g \in Follow_
      BY FeedFields DEF Numbered
    <3> QED BY <1>6, <1>7, <3>1
  <2> QED BY <1>1, <2>1, <2>2
<1>9. \A g \in Follow_ : v.stops[g] <= 1 /\ (v.next[g[1]] <= g[2] => v.stops[g] = 0)
  <2> SUFFICES ASSUME NEW g \in Follow_ PROVE d.stops[g] <= 1 /\ (v.next[g[1]] <= g[2] => d.stops[g] = 0)
    BY <1>1
  <2>1. d.stops[g] <= 1 /\ (d.next[g[1]] <= g[2] => d.stops[g] = 0)
    BY DEF Numbered
  <2> QED BY <1>6, <1>7, <2>1
<1>10. \A g, h \in v.active : g[1] = h[1] /\ g[1] \in Eager => g = h
  BY <1>1, <1>2 DEF Numbered
<1>11. FollowsOn(d, v, c)
  <2>1. \A s \in 1..Len(d.streams) : s # d.current[PayloadOf(f)] => s \in 1..Len(u.streams) /\ u.streams[s] = d.streams[s]
    <3> SUFFICES ASSUME NEW s \in 1..Len(d.streams), s # d.current[PayloadOf(f)]
                 PROVE  s \in 1..Len(u.streams) /\ u.streams[s] = d.streams[s]
      OBVIOUS
    <3>1. s # u.current[PayloadOf(f)] /\ s \in 1..Len(u.streams)
      BY <1>1 DEF Joins
    <3> QED BY <1>1, <3>1 DEF Joins
  <2> QED BY <1>1, <1>2, <1>3, <2>1 DEF FollowsOn
<1> QED BY <1>1, <1>5, <1>8, <1>9, <1>10, <1>11 DEF Numbered, v

\* unsubscribe: the follow leaves the stream of its payload, which is killed by
\* its last one.
LEMMA WithoutFacts ==
    ASSUME NEW S, NEW l \in Seq(S), NEW f
    PROVE  /\ Without(l, f) \in Seq(S)
           /\ IsInjective(l) => IsInjective(Without(l, f)) /\ ToSet(Without(l, f)) = ToSet(l) \ {f}
           /\ Without(l, f) = <<>> <=> ToSet(Without(l, f)) = {}
<1>1. Without(l, f) = RemoveChild(l, f)
  BY DEF Without, RemoveChild, PlaceOf
<1>2. /\ RemoveChild(l, f) \in Seq(S) /\ ToSet(RemoveChild(l, f)) \subseteq ToSet(l)
      /\ \A v \in ToSet(l) : v # f => v \in ToSet(RemoveChild(l, f))
      /\ IsInjective(l) => IsInjective(RemoveChild(l, f)) /\ f \notin ToSet(RemoveChild(l, f))
  BY RemovedFacts
<1>3. Without(l, f) = <<>> <=> ToSet(Without(l, f)) = {}
  BY <1>1, <1>2, EmptyList
<1> QED BY <1>1, <1>2, <1>3

LeavesStream(d, u, p, f) ==
    LET s == d.current[p]  rest == Without(d.streams[s].listeners, f) IN
    /\ Len(u.streams) = Len(d.streams)
    /\ \A q \in Payload : q # p => u.current[q] = d.current[q]
    /\ \A t \in 1..Len(d.streams) : t # s => u.streams[t] = d.streams[t]
    /\ rest = <<>> => u.current[p] = 0 /\ u.streams[s].ended = "product" /\ u.streams[s].listeners = <<>>
    /\ rest # <<>> => /\ u.current[p] = s /\ u.streams[s].ended = d.streams[s].ended
                      /\ u.streams[s].listeners = rest

Leaves(d, u, p, f) ==
    /\ u.next = d.next /\ u.active = d.active /\ u.stops = d.stops
    /\ d.current[p] = 0 => u = d
    /\ d.current[p] # 0 => LeavesStream(d, u, p, f)

LEMMA UnsubscribedFacts ==
    ASSUME NEW d \in Feeds, NEW f \in Follow_
    PROVE  Unsubscribed(d, f) \in Feeds /\ Leaves(d, Unsubscribed(d, f), PayloadOf(f), f)
<1> DEFINE p == PayloadOf(f)
           s == d.current[p]
           n == Len(d.streams)
           l == d.streams[s].listeners
           rest == Without(l, f)
           u == Unsubscribed(d, f)
<1>0. p \in Payload /\ d.current \in [Payload -> Nat] /\ d.streams \in Seq(StreamRecord) /\ n \in Nat /\ s \in 0..n
  BY FollowFacts, FeedFields
<1>1. CASE s = 0
  <2>1. u = d
    BY <1>1 DEF Unsubscribed, PayloadOf
  <2> HIDE DEF u
  <2> QED BY <1>1, <2>1 DEF u, Leaves
<1>2. CASE s # 0
  <2>1. s \in 1..n
    BY <1>0, <1>2
  <2>2. d.streams[s] \in StreamRecord /\ l \in Seq(Follow_) /\ rest \in Seq(Follow_)
    <3>1. d.streams[s] \in StreamRecord /\ l \in Seq(Follow_)
      BY <2>1, FeedFields
    <3> HIDE DEF l
    <3> QED BY <3>1, WithoutFacts
  <2>3. CASE rest = <<>>
    <3> DEFINE x == [listeners |-> <<>>, ended |-> "product"]
               w == [d.current EXCEPT ![p] = 0]
               v == [d.streams EXCEPT ![s] = x]
    <3>1. x \in StreamRecord /\ x.listeners = <<>> /\ x.ended = "product"
      BY DEF StreamRecord
    <3>2. u = [d EXCEPT !.current = w, !.streams = v]
      BY <1>2, <2>3 DEF Unsubscribed, PayloadOf
    <3> HIDE DEF x, u, rest
    <3>3. v \in Seq(StreamRecord) /\ Len(v) = n /\ v[s] = x /\ \A t \in 1..n : t # s => v[t] = d.streams[t]
      BY <1>0, <2>1, <3>1, ExceptSeq
    <3>4. w \in [Payload -> Nat] /\ w[p] = 0 /\ \A q \in Payload : q # p => w[q] = d.current[q]
      BY <1>0
    <3> HIDE DEF v, w
    <3>5. u \in FeedRecord /\ u.streams = v /\ u.next = d.next /\ u.active = d.active /\ u.stops = d.stops /\ u.current = w
      BY <3>2, <3>3, <3>4, FeedFields DEF FeedRecord
    <3>6. \A q \in Payload : w[q] <= n
      BY <1>0, <3>4, FeedFields
    <3>7. u \in Feeds
      BY <3>3, <3>5, <3>6 DEF Feeds
    <3>8. Leaves(d, u, p, f)
      BY <1>2, <2>3, <3>1, <3>3, <3>4, <3>5 DEF Leaves, LeavesStream, rest
    <3> QED BY <3>7, <3>8 DEF u
  <2>4. CASE rest # <<>>
    <3> DEFINE x == [d.streams[s] EXCEPT !.listeners = rest]
               v == [d.streams EXCEPT ![s] = x]
    <3>0. u = [d EXCEPT !.streams = v]
      BY <1>2, <2>4 DEF Unsubscribed, PayloadOf
    <3> HIDE DEF u, rest
    <3>1. x \in StreamRecord /\ x.listeners = rest /\ x.ended = d.streams[s].ended
      BY <2>2 DEF StreamRecord
    <3> HIDE DEF x
    <3>3. v \in Seq(StreamRecord) /\ Len(v) = n /\ v[s] = x /\ \A t \in 1..n : t # s => v[t] = d.streams[t]
      BY <1>0, <2>1, <3>1, ExceptSeq
    <3> HIDE DEF v
    <3>5. u \in FeedRecord /\ u.streams = v /\ u.next = d.next /\ u.active = d.active /\ u.stops = d.stops /\ u.current = d.current
      BY <3>0, <3>3, FeedFields DEF FeedRecord
    <3>7. u \in Feeds
      BY <1>0, <3>3, <3>5, FeedFields DEF Feeds
    <3>8. Leaves(d, u, p, f)
      BY <1>2, <2>4, <3>1, <3>3, <3>5 DEF Leaves, LeavesStream, rest
    <3> QED BY <3>7, <3>8 DEF u
  <2> QED BY <2>3, <2>4
<1> QED BY <1>1, <1>2

LEMMA LeavesWired ==
    ASSUME NEW d \in Feeds, NEW f \in Follow_, NEW u \in Feeds, LeavesStream(d, u, PayloadOf(f), f), NEW out, NEW dying,
           Wired(d, out, dying), f \in d.active \ out,
           NEW v \in Feeds, v.streams = u.streams, v.current = u.current,
           NEW away, v.active \ away = (d.active \ out) \ {f}
    PROVE  Wired(v, away, dying)
<1> DEFINE p == PayloadOf(f)
           s == d.current[p]
           n == Len(d.streams)
           l == d.streams[s].listeners
           rest == Without(l, f)
<1>1. /\ p \in Payload /\ s # 0 /\ f \in Heard(d, s) /\ Serves(d, s, dying)
      /\ \A g \in d.active : PayloadOf(g) \in Payload
  BY FollowFacts, FeedFields DEF Wired
<1>2. s \in 1..n /\ n \in Nat /\ Len(u.streams) = n /\ \A q \in Payload : d.current[q] \in 0..n
  BY <1>1, FeedFields DEF LeavesStream
<1>3. /\ \A q \in Payload : q # p => u.current[q] = d.current[q]
      /\ \A t \in 1..n : t # s => u.streams[t] = d.streams[t]
      /\ rest = <<>> => u.current[p] = 0 /\ u.streams[s].ended = "product" /\ u.streams[s].listeners = <<>>
      /\ rest # <<>> => /\ u.current[p] = s /\ u.streams[s].ended = d.streams[s].ended
                        /\ u.streams[s].listeners = rest
  BY <1>1 DEF LeavesStream
<1>4. IsInjective(l) /\ \A g \in Heard(d, s) : g \in d.active \ out /\ d.current[PayloadOf(g)] = s
  BY <1>1, <1>2 DEF Wired
<1>5. IsInjective(rest) /\ ToSet(rest) = Heard(d, s) \ {f} /\ (rest = <<>> <=> ToSet(rest) = {})
  <2>1. l \in Seq(Follow_)
    BY <1>2, FeedFields
  <2> HIDE DEF l
  <2>2. IsInjective(rest) /\ ToSet(rest) = ToSet(l) \ {f} /\ (rest = <<>> <=> ToSet(rest) = {})
    BY <1>4, <2>1, WithoutFacts
  <2> QED BY <2>2 DEF Heard, l
<1> HIDE DEF p, s, rest, l
<1>6. \A q \in Payload : q # p /\ d.current[q] # 0 => d.current[q] # s /\ d.current[q] \in 1..n
  <2>1. \A q \in Payload : d.current[q] # 0 => d.current[q] \in 1..n
    BY <1>2
  <2>2. \A q \in Payload : q # p /\ d.current[q] # 0 => d.current[q] # d.current[p]
    BY <1>1 DEF Wired
  <2> QED BY <2>1, <2>2 DEF s
<1>7. \A g \in Heard(d, s) : PayloadOf(g) = p
  <2> SUFFICES ASSUME NEW g \in Heard(d, s) PROVE PayloadOf(g) = p
    OBVIOUS
  <2>1. PayloadOf(g) \in Payload /\ d.current[PayloadOf(g)] = s
    BY <1>1, <1>4
  <2> QED BY <1>1, <1>6, <2>1
<1>8. \A t \in 1..n : t # s => Heard(u, t) = Heard(d, t)
  BY <1>3 DEF Heard
<1>9. rest # <<>> => Heard(u, s) = Heard(d, s) \ {f}
  BY <1>3, <1>5 DEF Heard
<1>10. \A q \in Payload : u.current[q] # 0 => Serves(u, u.current[q], dying)
  <2> SUFFICES ASSUME NEW q \in Payload, u.current[q] # 0 PROVE Serves(u, u.current[q], dying)
    OBVIOUS
  <2>1. CASE q = p
    BY <1>1, <1>3, <2>1 DEF Serves
  <2>2. CASE q # p
    <3>1. u.current[q] = d.current[q] /\ d.current[q] # s /\ d.current[q] \in 1..n
      BY <1>3, <1>6, <2>2
    <3>2. Serves(d, d.current[q], dying)
      BY <3>1 DEF Wired
    <3> QED BY <1>3, <3>1, <3>2 DEF Serves
  <2> QED BY <2>1, <2>2
<1>11. \A q, r \in Payload : u.current[q] # 0 /\ u.current[q] = u.current[r] => q = r
  <2>1. \A q \in Payload : u.current[q] # 0 => u.current[q] = d.current[q]
    BY <1>3 DEF s
  <2> QED BY <2>1 DEF Wired
<1>12. ASSUME NEW t \in 1..Len(u.streams), Serves(u, t, dying)
       PROVE  /\ Heard(u, t) # {} /\ IsInjective(u.streams[t].listeners)
              /\ \A g \in Heard(u, t) : g \in v.active \ away /\ u.current[PayloadOf(g)] = t
  <2>0. t \in 1..n
    BY <1>2
  <2>1. CASE t = s
    <3>1. rest # <<>>
      BY <1>3, <1>12, <2>1 DEF Serves
    <3>2. u.streams[s].listeners = rest /\ u.current[p] = s /\ Heard(u, s) = Heard(d, s) \ {f} /\ Heard(u, s) = ToSet(rest)
      BY <1>3, <1>9, <3>1 DEF Heard
    <3>3. Heard(u, t) # {} /\ IsInjective(u.streams[t].listeners)
      BY <1>5, <2>1, <3>1, <3>2
    <3>4. \A g \in Heard(u, t) : g \in v.active \ away /\ u.current[PayloadOf(g)] = t
      BY <1>4, <1>7, <2>1, <3>2
    <3> QED BY <3>3, <3>4
  <2>2. CASE t # s
    <3>1. u.streams[t] = d.streams[t] /\ Heard(u, t) = Heard(d, t)
      BY <1>3, <1>8, <2>0, <2>2
    <3>2. Serves(d, t, dying)
      BY <1>12, <3>1 DEF Serves
    <3>3. /\ Heard(d, t) # {} /\ IsInjective(d.streams[t].listeners)
          /\ \A g \in Heard(d, t) : g \in d.active \ out /\ d.current[PayloadOf(g)] = t
      BY <2>0, <3>2 DEF Wired
    <3>4. ASSUME NEW g \in Heard(d, t) PROVE g # f /\ u.current[PayloadOf(g)] = t
      <4>1. PayloadOf(g) \in Payload /\ d.current[PayloadOf(g)] = t
        BY <1>1, <3>3
      <4>2. PayloadOf(g) # p
        BY <2>2, <4>1 DEF s
      <4> QED BY <1>3, <4>1, <4>2 DEF p
    <3> QED BY <3>1, <3>3, <3>4
  <2> QED BY <2>1, <2>2
<1>13. ASSUME NEW g \in v.active \ away
       PROVE  u.current[PayloadOf(g)] # 0 /\ g \in Heard(u, u.current[PayloadOf(g)])
  <2>1. g \in d.active \ out /\ g # f /\ PayloadOf(g) \in Payload
    BY <1>1
  <2>2. d.current[PayloadOf(g)] # 0 /\ g \in Heard(d, d.current[PayloadOf(g)])
    BY <2>1 DEF Wired
  <2>3. CASE PayloadOf(g) = p
    <3>1. g \in Heard(d, s) \ {f}
      BY <2>1, <2>2, <2>3 DEF s
    <3>2. rest # <<>>
      BY <1>5, <3>1
    <3> QED BY <1>1, <1>3, <1>9, <2>3, <3>1, <3>2
  <2>4. CASE PayloadOf(g) # p
    <3>1. d.current[PayloadOf(g)] # s /\ d.current[PayloadOf(g)] \in 1..n /\ u.current[PayloadOf(g)] = d.current[PayloadOf(g)]
      BY <1>3, <1>6, <2>1, <2>2, <2>4
    <3> QED BY <1>8, <2>2, <3>1
  <2> QED BY <2>3, <2>4
<1>14. \A t : Serves(v, t, dying) <=> Serves(u, t, dying)
  BY DEF Serves
<1>15. \A t : Heard(v, t) = Heard(u, t)
  BY DEF Heard
<1> QED BY <1>10, <1>11, <1>12, <1>13, <1>14, <1>15 DEF Wired

LEMMA UnsubscribedKeeps ==
    ASSUME NEW d \in Feeds, NEW f \in d.active, NEW out, f \notin out, NEW dying, Wired(d, out, dying)
    PROVE  LET u == Unsubscribed(d, f) IN
           /\ u \in Feeds /\ u.next = d.next /\ u.active = d.active /\ u.stops = d.stops
           /\ Wired(u, out \cup {f}, dying) /\ Len(u.streams) = Len(d.streams)
<1> DEFINE u == Unsubscribed(d, f)
<1>1. f \in Follow_
  BY FeedFields
<1>2. u \in Feeds /\ Leaves(d, u, PayloadOf(f), f)
  BY <1>1, UnsubscribedFacts
<1> HIDE DEF u
<1>0. d.current[PayloadOf(f)] # 0
  BY DEF Wired
<1>3. /\ u.next = d.next /\ u.active = d.active /\ u.stops = d.stops /\ Len(u.streams) = Len(d.streams)
      /\ LeavesStream(d, u, PayloadOf(f), f)
  BY <1>0, <1>2 DEF Leaves, LeavesStream
<1>4. u.active \ (out \cup {f}) = (d.active \ out) \ {f}
  BY <1>3
<1>5. Wired(u, out \cup {f}, dying)
  BY <1>1, <1>2, <1>3, <1>4, LeavesWired
<1> QED BY <1>2, <1>3, <1>5 DEF u

\* Who hears a stream that is served afterwards heard it before.
LEMMA LeavesHeard ==
    ASSUME NEW d \in Feeds, NEW f \in Follow_, NEW u \in Feeds, LeavesStream(d, u, PayloadOf(f), f), NEW dying,
           NEW t \in 1..Len(d.streams), Serves(u, t, dying), d.current[PayloadOf(f)] # 0
    PROVE  Serves(d, t, dying) /\ Heard(u, t) \subseteq Heard(d, t)
<1> DEFINE s == d.current[PayloadOf(f)]
           l == d.streams[s].listeners
           rest == Without(l, f)
<1>1. /\ t # s => u.streams[t] = d.streams[t]
      /\ rest = <<>> => u.streams[s].ended = "product"
      /\ rest # <<>> => u.streams[s].ended = d.streams[s].ended /\ u.streams[s].listeners = rest
  BY DEF LeavesStream
<1>2. CASE t # s
  BY <1>1, <1>2 DEF Serves, Heard
<1>3. CASE t = s
  <2>1. l \in Seq(Follow_)
    BY <1>3, FeedFields
  <2>2. rest # <<>>
    BY <1>1, <1>3 DEF Serves
  <2> HIDE DEF l
  <2>3. \A v \in ToSet(rest) : v \in ToSet(l)
    <3>1. Without(l, f) = RemoveChild(l, f)
      BY DEF Without, RemoveChild, PlaceOf
    <3>2. ToSet(RemoveChild(l, f)) \subseteq ToSet(l)
      BY <2>1, RemovedFacts
    <3> QED BY <3>1, <3>2
  <2> HIDE DEF rest
  <2> QED BY <1>1, <1>3, <2>2, <2>3 DEF Serves, Heard, l
<1> QED BY <1>2, <1>3

\* The end of a follow, counted.
Told1(d, f) == [d EXCEPT !.stops = [d.stops EXCEPT ![f] = d.stops[f] + 1]]

LEMMA Told1Facts ==
    ASSUME NEW d \in Feeds, NEW f \in Follow_
    PROVE  LET v == Told1(d, f) IN
           /\ v \in Feeds /\ v.next = d.next /\ v.active = d.active /\ v.streams = d.streams /\ v.current = d.current
           /\ v.stops = [d.stops EXCEPT ![f] = d.stops[f] + 1]
           /\ Told(d, f) = IF f[1] \in Eager /\ CanFollow(d, f[1]) THEN Followed(v, f[1]) ELSE v
<1> DEFINE stops == [d.stops EXCEPT ![f] = d.stops[f] + 1]
           v == Told1(d, f)
<1>1. stops \in [Follow_ -> Nat]
  BY FeedFields
<1>2. v = [d EXCEPT !.stops = stops]
  BY DEF Told1
<1>3. Told(d, f) = IF f[1] \in Eager /\ CanFollow(d, f[1]) THEN Followed(v, f[1]) ELSE v
  BY DEF Told, Told1
<1> HIDE DEF stops, v
<1>4. /\ v \in FeedRecord /\ v.next = d.next /\ v.active = d.active /\ v.streams = d.streams /\ v.current = d.current
      /\ v.stops = stops
  BY <1>1, <1>2, FeedFields DEF FeedRecord
<1>5. v \in Feeds
  BY <1>4, FeedFields DEF Feeds
<1> QED BY <1>3, <1>4, <1>5 DEF stops, v

LEMMA ToldTyped == \A d \in Feeds, f \in Follow_ : Told(d, f) \in Feeds
<1> SUFFICES ASSUME NEW d \in Feeds, NEW f \in Follow_ PROVE Told(d, f) \in Feeds
  OBVIOUS
<1> DEFINE v == Told1(d, f)
<1>1. v \in Feeds /\ Told(d, f) = IF f[1] \in Eager /\ CanFollow(d, f[1]) THEN Followed(v, f[1]) ELSE v
  BY Told1Facts
<1> HIDE DEF v
<1>2. ASSUME CanFollow(d, f[1]) PROVE Followed(v, f[1]) \in Feeds
  <2>1. f[1] \in Connection /\ CanFollow(v, f[1])
    BY <1>2, FollowFacts, Told1Facts DEF CanFollow, v
  <2> QED BY <1>1, <1>2, <2>1, FollowedFacts
<1> QED BY <1>1, <1>2

\* What a consumer does when it is told.
Hears(d, u, f) ==
    /\ d.active \subseteq u.active /\ f \notin u.active
    /\ \A g \in u.active : g \notin d.active => g[1] = f[1]
    /\ \A s \in 1..Len(d.streams) : (f[1] \in Eager => s # d.current[PayloadOf(f)]) =>
         s \in 1..Len(u.streams) /\ u.streams[s] = d.streams[s]

LEMMA ToldKeeps ==
    ASSUME NEW d \in Feeds, NEW f \in Follow_, f \notin d.active, d.stops[f] = 0, f[2] < d.next[f[1]],
           NEW out \in SUBSET d.active, NEW dying, Numbered(d), Wired(d, out, dying),
           f[1] \in Eager => \A g \in d.active : g[1] # f[1]
    PROVE  /\ Told(d, f) \in Feeds /\ Numbered(Told(d, f)) /\ Wired(Told(d, f), out, dying)
           /\ Hears(d, Told(d, f), f)
<1> DEFINE v == Told1(d, f)
           c == f[1]
<1>1. /\ v \in Feeds /\ v.next = d.next /\ v.active = d.active /\ v.streams = d.streams /\ v.current = d.current
      /\ v.stops = [d.stops EXCEPT ![f] = d.stops[f] + 1]
      /\ Told(d, f) = IF c \in Eager /\ CanFollow(d, c) THEN Followed(v, c) ELSE v
  BY Told1Facts
<1> HIDE DEF v
<1>2. c \in Connection /\ f[2] \in Nat /\ d.next[c] \in Nat
  BY FollowFacts, FeedFields
<1>3. Numbered(v)
  <2>1. v.stops[f] = 1 /\ \A g \in Follow_ : g # f => v.stops[g] = d.stops[g]
    BY <1>1, FeedFields
  <2>2. \A g \in v.active : g[2] < v.next[g[1]] /\ v.stops[g] = 0
    BY <1>1, <2>1, FeedFields DEF Numbered
  <2>3. \A g \in Follow_ : v.stops[g] <= 1 /\ (v.next[g[1]] <= g[2] => v.stops[g] = 0)
    <3> SUFFICES ASSUME NEW g \in Follow_ PROVE v.stops[g] <= 1 /\ (v.next[g[1]] <= g[2] => v.stops[g] = 0)
      OBVIOUS
    <3>1. CASE g = f
      <4>1. ~(d.next[c] <= f[2])
        BY <1>2
      <4> QED BY <1>1, <2>1, <3>1, <4>1
    <3>2. CASE g # f
      BY <1>1, <2>1, <3>2 DEF Numbered
    <3> QED BY <3>1, <3>2
  <2> QED BY <1>1, <2>2, <2>3 DEF Numbered
<1>4. Wired(v, out, dying)
  BY <1>1, SameWiring
<1>5. CASE c \in Eager /\ CanFollow(d, c)
  <2>0. CanFollow(v, c)
    BY <1>1, <1>5 DEF CanFollow
  <2>1. out \in SUBSET v.active /\ (c \in Eager => \A g \in v.active : g[1] # c)
    BY <1>1
  <2>2. /\ Followed(v, c) \in Feeds /\ Numbered(Followed(v, c)) /\ Wired(Followed(v, c), out, dying)
        /\ FollowsOn(v, Followed(v, c), c)
    BY <1>1, <1>2, <1>3, <1>4, <1>5, <2>0, <2>1, FollowedKeeps
  <2>3. PICK u : u = Followed(v, c)
    OBVIOUS
  <2>4. PICK g \in Follow_ : /\ g[1] = c /\ g \notin v.active /\ u.active = v.active \cup {g}
                             /\ \A s \in 1..Len(v.streams) : s # v.current[PayloadOf(g)] =>
                                  s \in 1..Len(u.streams) /\ u.streams[s] = v.streams[s]
    BY <2>2, <2>3 DEF FollowsOn
  <2>5. PayloadOf(g) = PayloadOf(f)
    BY <2>4 DEF PayloadOf
  <2>6. g # f
    <3> SUFFICES ASSUME g = f PROVE FALSE
      OBVIOUS
    <3>1. Numbered(u)
      BY <2>2, <2>3
    <3>2. f \in u.active /\ u.stops[f] = 0
      BY <2>4, <3>1 DEF Numbered
    <3>3. u.stops = v.stops
      BY <1>1, <1>2, <2>0, <2>3, FollowedFacts
    <3>4. v.stops[f] = 1
      BY <1>1, FeedFields
    <3> QED BY <3>2, <3>3, <3>4
  <2>7. Hears(d, u, f)
    BY <1>1, <1>5, <2>4, <2>5, <2>6 DEF Hears
  <2> QED BY <1>1, <1>5, <2>2, <2>3, <2>7
<1>6. CASE ~(c \in Eager /\ CanFollow(d, c))
  <2>1. Hears(d, v, f)
    BY <1>1 DEF Hears
  <2> QED BY <1>1, <1>3, <1>4, <1>6, <2>1
<1> QED BY <1>5, <1>6

\* Without its listener, a feed is a feed.
Inactive(d, f) == [d EXCEPT !.active = d.active \ {f}]

LEMMA InactiveFacts ==
    ASSUME NEW d \in Feeds, NEW f
    PROVE  LET v == Inactive(d, f) IN
           /\ v \in Feeds /\ v.next = d.next /\ v.active = d.active \ {f} /\ v.stops = d.stops
           /\ v.streams = d.streams /\ v.current = d.current
           /\ Stopped(d, f) = IF f \in d.active THEN Told(Unsubscribed(v, f), f) ELSE Told(d, f)
           /\ Interrupted(d, f) = IF f \in d.active THEN Told(v, f) ELSE d
<1> DEFINE v == Inactive(d, f)
           rest == d.active \ {f}
<1>1. /\ v = [d EXCEPT !.active = rest]
      /\ Stopped(d, f) = IF f \in d.active THEN Told(Unsubscribed(v, f), f) ELSE Told(d, f)
      /\ Interrupted(d, f) = IF f \in d.active THEN Told(v, f) ELSE d
  BY DEF Inactive, Stopped, Interrupted
<1>2. rest \in SUBSET Follow_
  BY FeedFields
<1> HIDE DEF rest, v
<1>3. /\ v \in FeedRecord /\ v.next = d.next /\ v.active = rest /\ v.stops = d.stops
      /\ v.streams = d.streams /\ v.current = d.current
  BY <1>1, <1>2, FeedFields DEF FeedRecord
<1>4. v \in Feeds
  BY <1>3, FeedFields DEF Feeds
<1> QED BY <1>1, <1>3, <1>4 DEF rest, v

LEMMA StoppedTyped == \A d \in Feeds, f \in Follow_ : Stopped(d, f) \in Feeds
<1> SUFFICES ASSUME NEW d \in Feeds, NEW f \in Follow_ PROVE Stopped(d, f) \in Feeds
  OBVIOUS
<1> DEFINE v == Inactive(d, f)
<1>1. v \in Feeds /\ Stopped(d, f) = IF f \in d.active THEN Told(Unsubscribed(v, f), f) ELSE Told(d, f)
  BY InactiveFacts
<1> HIDE DEF v
<1>2. Unsubscribed(v, f) \in Feeds
  BY <1>1, UnsubscribedFacts
<1> QED BY <1>1, <1>2, ToldTyped

LEMMA InterruptedTyped == \A d \in Feeds, f \in Follow_ : Interrupted(d, f) \in Feeds
<1> SUFFICES ASSUME NEW d \in Feeds, NEW f \in Follow_ PROVE Interrupted(d, f) \in Feeds
  OBVIOUS
<1> DEFINE v == Inactive(d, f)
<1>1. v \in Feeds /\ Interrupted(d, f) = IF f \in d.active THEN Told(v, f) ELSE d
  BY InactiveFacts
<1> HIDE DEF v
<1> QED BY <1>1, ToldTyped

\* What is numbered stays so without a follow, which can be told.
LEMMA InactiveNumbered ==
    ASSUME NEW d \in Feeds, Numbered(d), NEW f \in d.active,
           NEW v, v.next = d.next, v.stops = d.stops, v.active = d.active \ {f}
    PROVE  /\ Numbered(v) /\ f \notin v.active /\ v.stops[f] = 0 /\ f[2] < v.next[f[1]]
           /\ f[1] \in Eager => \A g \in v.active : g[1] # f[1]
<1>1. f \in Follow_ /\ f[2] < d.next[f[1]] /\ d.stops[f] = 0
  BY FeedFields DEF Numbered
<1> QED BY <1>1 DEF Numbered

(* The host stops a stream: its listeners are told in turn.                   *)

EagerAlone == \A c \in Eager, d \in Connection : WithRuntime(d) = WithRuntime(c) => d = c

StopsAt(d, s, rest, origin) ==
    /\ d \in Feeds /\ Numbered(d) /\ Wired(d, {}, s) /\ s \in 1..Len(d.streams)
    /\ rest \subseteq d.active
    /\ Serves(d, s, s) => Heard(d, s) \subseteq rest
    /\ \A g \in d.active : \E h \in origin : h[1] = g[1]

LEMMA StoppedStep ==
    ASSUME EagerAlone, NEW d, NEW s, NEW rest, NEW origin, StopsAt(d, s, rest, origin), NEW f \in rest
    PROVE  StopsAt(Stopped(d, f), s, rest \ {f}, origin)
<1> DEFINE v == Inactive(d, f)
           u == Unsubscribed(v, f)
           p == PayloadOf(f)
           t == Told(u, f)
<1>1. /\ d \in Feeds /\ Numbered(d) /\ Wired(d, {}, s) /\ s \in 1..Len(d.streams)
      /\ rest \subseteq d.active /\ f \in d.active /\ f \in Follow_
  BY FeedFields DEF StopsAt
<1>2. /\ v \in Feeds /\ v.next = d.next /\ v.active = d.active \ {f} /\ v.stops = d.stops
      /\ v.streams = d.streams /\ v.current = d.current /\ Stopped(d, f) = t
  BY <1>1, InactiveFacts
<1> HIDE DEF v, t
<1>3. u \in Feeds /\ Leaves(v, u, p, f)
  BY <1>1, <1>2, UnsubscribedFacts
<1> HIDE DEF u
<1>4. d.current[p] # 0
  BY <1>1 DEF Wired
<1>5. u.next = d.next /\ u.stops = d.stops /\ u.active = d.active \ {f} /\ LeavesStream(d, u, p, f) /\ Len(u.streams) = Len(d.streams)
  BY <1>2, <1>3, <1>4 DEF Leaves, LeavesStream
<1>6. Wired(u, {}, s)
  <2>1. f \in d.active \ {} /\ u.active \ {} = (d.active \ {}) \ {f}
    BY <1>1, <1>5
  <2> QED BY <1>1, <1>3, <1>5, <2>1, LeavesWired
<1>7. /\ Numbered(u) /\ f \notin u.active /\ u.stops[f] = 0 /\ f[2] < u.next[f[1]]
      /\ f[1] \in Eager => \A g \in u.active : g[1] # f[1]
  BY <1>1, <1>5, InactiveNumbered
<1>8. t \in Feeds /\ Numbered(t) /\ Wired(t, {}, s) /\ Hears(u, t, f)
  <2>1. {} \in SUBSET u.active
    OBVIOUS
  <2> QED BY <1>1, <1>3, <1>6, <1>7, <2>1, ToldKeeps DEF t
<1>9. s \in 1..Len(u.streams) /\ (Serves(u, s, s) => Heard(u, s) \subseteq rest \ {f})
  <2>1. ASSUME Serves(u, s, s) PROVE Heard(u, s) \subseteq rest \ {f}
    <3>1. Serves(d, s, s) /\ Heard(u, s) \subseteq Heard(d, s)
      BY <1>1, <1>3, <1>4, <1>5, <2>1, LeavesHeard
    <3>2. Heard(d, s) \subseteq rest
      BY <3>1 DEF StopsAt
    <3>3. \A g \in Heard(u, s) : g \in u.active
      BY <1>1, <1>5, <1>6, <2>1 DEF Wired
    <3> QED BY <1>7, <3>1, <3>2, <3>3
  <2> QED BY <1>1, <1>5, <2>1
<1>10. f[1] \in Eager => s # u.current[p]
  <2> SUFFICES ASSUME f[1] \in Eager, u.current[p] = s PROVE FALSE
    OBVIOUS
  <2>1. p \in Payload /\ s # 0 /\ \A g \in u.active : g[1] \in Connection /\ PayloadOf(g) \in Payload
    <3>1. Len(u.streams) \in Nat /\ u.active \subseteq Follow_
      BY <1>3, FeedFields
    <3> QED BY <1>1, <1>9, <3>1, FollowFacts
  <2>2. Serves(u, s, s)
    BY <1>6, <2>1 DEF Wired
  <2>3. Heard(u, s) # {} /\ \A g \in Heard(u, s) : g \in u.active /\ u.current[PayloadOf(g)] = s
    BY <1>6, <1>9, <2>2 DEF Wired
  <2>4. PICK g \in u.active : u.current[PayloadOf(g)] = s
    BY <2>3
  <2>5. PayloadOf(g) = p
    BY <1>6, <2>1, <2>4 DEF Wired
  <2>6. g[1] = f[1]
    BY <2>1, <2>5 DEF PayloadOf, EagerAlone
  <2> QED BY <1>7, <2>6
<1>11. s \in 1..Len(t.streams) /\ t.streams[s] = u.streams[s]
  BY <1>8, <1>9, <1>10 DEF Hears
<1>12. Serves(t, s, s) => Heard(t, s) \subseteq rest \ {f}
  BY <1>9, <1>11 DEF Serves, Heard
<1>13. rest \ {f} \subseteq t.active
  BY <1>1, <1>5, <1>8 DEF Hears
<1>14. ASSUME NEW g \in t.active PROVE \E h \in origin : h[1] = g[1]
  <2>1. PICK k \in d.active : k[1] = g[1]
    BY <1>1, <1>5, <1>8 DEF Hears
  <2> QED BY <2>1 DEF StopsAt
<1> QED BY <1>2, <1>8, <1>11, <1>12, <1>13, <1>14 DEF StopsAt

(* The host interrupts a stream: those who are not told yet are out.          *)

InterruptsAt(d, rest, origin) ==
    /\ d \in Feeds /\ Numbered(d) /\ Wired(d, rest, 0) /\ rest \subseteq d.active
    /\ \A g \in d.active : \E h \in origin : h[1] = g[1]

LEMMA InterruptedStep ==
    ASSUME NEW d, NEW rest, NEW origin, InterruptsAt(d, rest, origin), NEW f \in rest
    PROVE  InterruptsAt(Interrupted(d, f), rest \ {f}, origin)
<1> DEFINE v == Inactive(d, f)
           t == Told(v, f)
           out == rest \ {f}
<1>1. d \in Feeds /\ Numbered(d) /\ Wired(d, rest, 0) /\ rest \subseteq d.active /\ f \in d.active /\ f \in Follow_
  BY FeedFields DEF InterruptsAt
<1>2. /\ v \in Feeds /\ v.next = d.next /\ v.active = d.active \ {f} /\ v.stops = d.stops
      /\ v.streams = d.streams /\ v.current = d.current /\ Interrupted(d, f) = t
  BY <1>1, InactiveFacts
<1> HIDE DEF v, t
<1>3. out \in SUBSET v.active /\ v.active \ out = d.active \ rest
  BY <1>1, <1>2
<1> HIDE DEF out
<1>4. Wired(v, out, 0)
  BY <1>1, <1>2, <1>3, SameWiring
<1>5. /\ Numbered(v) /\ f \notin v.active /\ v.stops[f] = 0 /\ f[2] < v.next[f[1]]
      /\ f[1] \in Eager => \A g \in v.active : g[1] # f[1]
  BY <1>1, <1>2, InactiveNumbered
<1>6. t \in Feeds /\ Numbered(t) /\ Wired(t, out, 0) /\ Hears(v, t, f)
  BY <1>1, <1>2, <1>3, <1>4, <1>5, ToldKeeps DEF t
<1>7. out \subseteq t.active
  BY <1>3, <1>6 DEF Hears
<1>8. ASSUME NEW g \in t.active PROVE \E h \in origin : h[1] = g[1]
  <2>1. PICK k \in d.active : k[1] = g[1]
    BY <1>1, <1>2, <1>6 DEF Hears
  <2> QED BY <2>1 DEF InterruptsAt
<1> QED BY <1>2, <1>6, <1>7, <1>8 DEF InterruptsAt, out

(* The folds over the listeners and the follows, step by step.                *)

AllStopped(base, seq) == FoldLeft(Stopped, base, seq)
AllInterrupted(base, seq) == FoldLeft(Interrupted, base, seq)
AllUnsubscribed(base, seq) == FoldLeft(Unsubscribed, base, seq)

\* One listener after another is told of a stop.
LEMMA StoppedInTurn ==
    ASSUME NEW base \in Feeds, NEW seq \in Seq(Follow_)
    PROVE  \E after : /\ after[0] = base /\ AllStopped(base, seq) = after[Len(seq)]
                      /\ \A i \in 1..Len(seq) : after[i] = Stopped(after[i - 1], seq[i])
<1> DEFINE n == Len(seq)
           F == [di \in Feeds \X (1..n) |-> Stopped(di[1], seq[di[2]])]
           D(h) == [s \in SUBSET (1..n) |-> IF s = {} THEN base ELSE Stopped(h[s \ {Max(s)}], seq[Max(s)])]
<1>0. n \in Nat /\ DOMAIN seq = 1..n /\ \A i \in 1..n : seq[i] \in Follow_
  BY LenProperties, ElementOfSeq
<1>1. F \in [Feeds \X (1..n) -> Feeds]
  <2>1. \A d \in Feeds, i \in 1..n : Stopped(d, seq[i]) \in Feeds
    BY <1>0, StoppedTyped
  <2> QED BY <2>1
<1>2. PICK h \in [SUBSET (1..n) -> Feeds] : Turns(h, n, base, F)
  <2> HIDE DEF F, n, D
  <2> QED BY <1>0, <1>1, InTurn
<1>3. h = D(h)
  <2>1. ASSUME NEW s \in SUBSET (1..n), s # {}
        PROVE  h[s] = Stopped(h[s \ {Max(s)}], seq[Max(s)])
    <3>1. Max(s) \in 1..n /\ s \ {Max(s)} \in SUBSET (1..n)
      BY <1>0, <2>1, MaxOf
    <3>2. <<h[s \ {Max(s)}], Max(s)>> \in Feeds \X (1..n)
      BY <3>1
    <3>3. h[s] = F[<<h[s \ {Max(s)}], Max(s)>>]
      BY <1>2, <2>1 DEF Turns
    <3> QED BY <3>2, <3>3
  <2>2. \A s \in SUBSET (1..n) : h[s] = IF s = {} THEN base ELSE Stopped(h[s \ {Max(s)}], seq[Max(s)])
    BY <1>2, <2>1 DEF Turns
  <2> HIDE DEF F
  <2> QED BY <2>2
<1>4. PICK f : f = CHOOSE g : g = D(g)
  OBVIOUS
<1>5. f = D(f)
  BY <1>3, <1>4
<1>6. AllStopped(base, seq) = f[1..n]
  BY <1>0, <1>4 DEF AllStopped, FoldLeft, MapThenFoldSet
<1> DEFINE after == [i \in 0..n |-> f[1..i]]
<1>7. after[0] = base
  <2>1. 1..0 = {} /\ {} \in SUBSET (1..n)
    OBVIOUS
  <2>2. f[{}] = base
    BY <1>5, <2>1
  <2> QED BY <1>0, <2>1, <2>2
<1>8. ASSUME NEW i \in 1..n PROVE after[i] = Stopped(after[i - 1], seq[i])
  <2>1. 1..i \in SUBSET (1..n) /\ 1..i # {} /\ Max(1..i) = i /\ 1..i \ {i} = 1..(i - 1)
    BY <1>0, FirstIndexes
  <2>2. f[1..i] = Stopped(f[1..i \ {Max(1..i)}], seq[Max(1..i)])
    BY <1>5, <2>1
  <2>3. i \in 0..n /\ i - 1 \in 0..n
    BY <1>0
  <2> QED BY <2>1, <2>2, <2>3
<1>9. after[n] = f[1..n]
  BY <1>0
<1> HIDE DEF after, F, D
<1> QED BY <1>6, <1>7, <1>8, <1>9

\* One listener after another is told of an interrupt.
LEMMA InterruptedInTurn ==
    ASSUME NEW base \in Feeds, NEW seq \in Seq(Follow_)
    PROVE  \E after : /\ after[0] = base /\ AllInterrupted(base, seq) = after[Len(seq)]
                      /\ \A i \in 1..Len(seq) : after[i] = Interrupted(after[i - 1], seq[i])
<1> DEFINE n == Len(seq)
           F == [di \in Feeds \X (1..n) |-> Interrupted(di[1], seq[di[2]])]
           D(h) == [s \in SUBSET (1..n) |-> IF s = {} THEN base ELSE Interrupted(h[s \ {Max(s)}], seq[Max(s)])]
<1>0. n \in Nat /\ DOMAIN seq = 1..n /\ \A i \in 1..n : seq[i] \in Follow_
  BY LenProperties, ElementOfSeq
<1>1. F \in [Feeds \X (1..n) -> Feeds]
  <2>1. \A d \in Feeds, i \in 1..n : Interrupted(d, seq[i]) \in Feeds
    BY <1>0, InterruptedTyped
  <2> QED BY <2>1
<1>2. PICK h \in [SUBSET (1..n) -> Feeds] : Turns(h, n, base, F)
  <2> HIDE DEF F, n, D
  <2> QED BY <1>0, <1>1, InTurn
<1>3. h = D(h)
  <2>1. ASSUME NEW s \in SUBSET (1..n), s # {}
        PROVE  h[s] = Interrupted(h[s \ {Max(s)}], seq[Max(s)])
    <3>1. Max(s) \in 1..n /\ s \ {Max(s)} \in SUBSET (1..n)
      BY <1>0, <2>1, MaxOf
    <3>2. <<h[s \ {Max(s)}], Max(s)>> \in Feeds \X (1..n)
      BY <3>1
    <3>3. h[s] = F[<<h[s \ {Max(s)}], Max(s)>>]
      BY <1>2, <2>1 DEF Turns
    <3> QED BY <3>2, <3>3
  <2>2. \A s \in SUBSET (1..n) : h[s] = IF s = {} THEN base ELSE Interrupted(h[s \ {Max(s)}], seq[Max(s)])
    BY <1>2, <2>1 DEF Turns
  <2> HIDE DEF F
  <2> QED BY <2>2
<1>4. PICK f : f = CHOOSE g : g = D(g)
  OBVIOUS
<1>5. f = D(f)
  BY <1>3, <1>4
<1>6. AllInterrupted(base, seq) = f[1..n]
  BY <1>0, <1>4 DEF AllInterrupted, FoldLeft, MapThenFoldSet
<1> DEFINE after == [i \in 0..n |-> f[1..i]]
<1>7. after[0] = base
  <2>1. 1..0 = {} /\ {} \in SUBSET (1..n)
    OBVIOUS
  <2>2. f[{}] = base
    BY <1>5, <2>1
  <2> QED BY <1>0, <2>1, <2>2
<1>8. ASSUME NEW i \in 1..n PROVE after[i] = Interrupted(after[i - 1], seq[i])
  <2>1. 1..i \in SUBSET (1..n) /\ 1..i # {} /\ Max(1..i) = i /\ 1..i \ {i} = 1..(i - 1)
    BY <1>0, FirstIndexes
  <2>2. f[1..i] = Interrupted(f[1..i \ {Max(1..i)}], seq[Max(1..i)])
    BY <1>5, <2>1
  <2>3. i \in 0..n /\ i - 1 \in 0..n
    BY <1>0
  <2> QED BY <2>1, <2>2, <2>3
<1>9. after[n] = f[1..n]
  BY <1>0
<1> HIDE DEF after, F, D
<1> QED BY <1>6, <1>7, <1>8, <1>9

\* One follow after another is unsubscribed.
LEMMA UnsubscribedInTurn ==
    ASSUME NEW base \in Feeds, NEW seq \in Seq(Follow_)
    PROVE  \E after : /\ after[0] = base /\ AllUnsubscribed(base, seq) = after[Len(seq)]
                      /\ \A i \in 1..Len(seq) : after[i] = Unsubscribed(after[i - 1], seq[i])
<1> DEFINE n == Len(seq)
           F == [di \in Feeds \X (1..n) |-> Unsubscribed(di[1], seq[di[2]])]
           D(h) == [s \in SUBSET (1..n) |-> IF s = {} THEN base ELSE Unsubscribed(h[s \ {Max(s)}], seq[Max(s)])]
<1>0. n \in Nat /\ DOMAIN seq = 1..n /\ \A i \in 1..n : seq[i] \in Follow_
  BY LenProperties, ElementOfSeq
<1>1. F \in [Feeds \X (1..n) -> Feeds]
  <2>1. \A d \in Feeds, i \in 1..n : Unsubscribed(d, seq[i]) \in Feeds
    BY <1>0, UnsubscribedFacts
  <2> QED BY <2>1
<1>2. PICK h \in [SUBSET (1..n) -> Feeds] : Turns(h, n, base, F)
  <2> HIDE DEF F, n, D
  <2> QED BY <1>0, <1>1, InTurn
<1>3. h = D(h)
  <2>1. ASSUME NEW s \in SUBSET (1..n), s # {}
        PROVE  h[s] = Unsubscribed(h[s \ {Max(s)}], seq[Max(s)])
    <3>1. Max(s) \in 1..n /\ s \ {Max(s)} \in SUBSET (1..n)
      BY <1>0, <2>1, MaxOf
    <3>2. <<h[s \ {Max(s)}], Max(s)>> \in Feeds \X (1..n)
      BY <3>1
    <3>3. h[s] = F[<<h[s \ {Max(s)}], Max(s)>>]
      BY <1>2, <2>1 DEF Turns
    <3> QED BY <3>2, <3>3
  <2>2. \A s \in SUBSET (1..n) : h[s] = IF s = {} THEN base ELSE Unsubscribed(h[s \ {Max(s)}], seq[Max(s)])
    BY <1>2, <2>1 DEF Turns
  <2> HIDE DEF F
  <2> QED BY <2>2
<1>4. PICK f : f = CHOOSE g : g = D(g)
  OBVIOUS
<1>5. f = D(f)
  BY <1>3, <1>4
<1>6. AllUnsubscribed(base, seq) = f[1..n]
  BY <1>0, <1>4 DEF AllUnsubscribed, FoldLeft, MapThenFoldSet
<1> DEFINE after == [i \in 0..n |-> f[1..i]]
<1>7. after[0] = base
  <2>1. 1..0 = {} /\ {} \in SUBSET (1..n)
    OBVIOUS
  <2>2. f[{}] = base
    BY <1>5, <2>1
  <2> QED BY <1>0, <2>1, <2>2
<1>8. ASSUME NEW i \in 1..n PROVE after[i] = Unsubscribed(after[i - 1], seq[i])
  <2>1. 1..i \in SUBSET (1..n) /\ 1..i # {} /\ Max(1..i) = i /\ 1..i \ {i} = 1..(i - 1)
    BY <1>0, FirstIndexes
  <2>2. f[1..i] = Unsubscribed(f[1..i \ {Max(1..i)}], seq[Max(1..i)])
    BY <1>5, <2>1
  <2>3. i \in 0..n /\ i - 1 \in 0..n
    BY <1>0
  <2> QED BY <2>1, <2>2, <2>3
<1>9. after[n] = f[1..n]
  BY <1>0
<1> HIDE DEF after, F, D
<1> QED BY <1>6, <1>7, <1>8, <1>9

\* Those who are left from the next on.
From(seq, i) == {seq[j] : j \in i..Len(seq)}

LEMMA FromFacts ==
    ASSUME NEW S, NEW seq \in Seq(S), IsInjective(seq)
    PROVE  /\ From(seq, 1) = ToSet(seq) /\ From(seq, Len(seq) + 1) = {}
           /\ \A i \in 1..Len(seq) : seq[i] \in From(seq, i) /\ From(seq, i) \ {seq[i]} = From(seq, i + 1)
<1>1. Len(seq) \in Nat /\ DOMAIN seq = 1..Len(seq) /\ ToSet(seq) = {seq[i] : i \in 1..Len(seq)}
  BY ListFacts
<1>2. \A i, j \in 1..Len(seq) : seq[i] = seq[j] => i = j
  BY <1>1 DEF IsInjective
<1>3. ASSUME NEW i \in 1..Len(seq) PROVE seq[i] \in From(seq, i) /\ From(seq, i) \ {seq[i]} = From(seq, i + 1)
  <2>1. i..Len(seq) = {i} \cup (i + 1)..Len(seq) /\ i \in i..Len(seq) /\ i \notin (i + 1)..Len(seq)
    BY <1>1
  <2>2. \A j \in (i + 1)..Len(seq) : seq[j] # seq[i]
    <3> SUFFICES ASSUME NEW j \in (i + 1)..Len(seq), seq[j] = seq[i] PROVE FALSE
      OBVIOUS
    <3>1. j \in 1..Len(seq) /\ j # i
      BY <1>1, <2>1
    <3> QED BY <1>2, <3>1
  <2> QED BY <2>1, <2>2 DEF From
<1>4. (Len(seq) + 1)..Len(seq) = {}
  BY <1>1
<1> QED BY <1>1, <1>3, <1>4 DEF From

LEMMA StopsAll ==
    ASSUME EagerAlone, NEW d, NEW s, NEW seq \in Seq(Follow_), IsInjective(seq), NEW origin,
           StopsAt(d, s, ToSet(seq), origin)
    PROVE  StopsAt(AllStopped(d, seq), s, {}, origin)
<1>1. d \in Feeds /\ Len(seq) \in Nat
  BY LenProperties DEF StopsAt
<1>2. PICK after : /\ after[0] = d /\ AllStopped(d, seq) = after[Len(seq)]
                   /\ \A i \in 1..Len(seq) : after[i] = Stopped(after[i - 1], seq[i])
  BY <1>1, StoppedInTurn
<1> DEFINE wrong == {i \in 0..Len(seq) : ~StopsAt(after[i], s, From(seq, i + 1), origin)}
<1>3. wrong = {}
  <2> SUFFICES ASSUME wrong # {} PROVE FALSE
    OBVIOUS
  <2>1. wrong \subseteq Nat
    OBVIOUS
  <2>2. PICK m \in wrong : \A k \in wrong : m <= k
    BY <2>1, LeastOf
  <2>3. m \in 0..Len(seq) /\ ~StopsAt(after[m], s, From(seq, m + 1), origin)
    BY <2>2
  <2>4. m # 0
    <3>1. 0 + 1 = 1 /\ StopsAt(after[0], s, From(seq, 0 + 1), origin)
      BY <1>2, FromFacts
    <3> QED BY <2>3, <3>1
  <2>5. m \in 1..Len(seq) /\ m - 1 \in 0..Len(seq) /\ (m - 1) + 1 = m /\ ~(m <= m - 1)
    BY <1>1, <2>3, <2>4
  <2>6. StopsAt(after[m - 1], s, From(seq, m), origin)
    BY <2>2, <2>5
  <2>7. StopsAt(after[m], s, From(seq, m) \ {seq[m]}, origin)
    <3>1. seq[m] \in From(seq, m) /\ after[m] = Stopped(after[m - 1], seq[m])
      BY <1>2, <2>5, FromFacts
    <3> QED BY <2>6, <3>1, StoppedStep
  <2> QED BY <2>3, <2>5, <2>7, FromFacts
<1>4. Len(seq) \in 0..Len(seq)
  BY <1>1
<1> QED BY <1>2, <1>3, <1>4, FromFacts

LEMMA InterruptsAll ==
    ASSUME NEW d, NEW seq \in Seq(Follow_), IsInjective(seq), NEW origin, InterruptsAt(d, ToSet(seq), origin)
    PROVE  InterruptsAt(AllInterrupted(d, seq), {}, origin)
<1>1. d \in Feeds /\ Len(seq) \in Nat
  BY LenProperties DEF InterruptsAt
<1>2. PICK after : /\ after[0] = d /\ AllInterrupted(d, seq) = after[Len(seq)]
                   /\ \A i \in 1..Len(seq) : after[i] = Interrupted(after[i - 1], seq[i])
  BY <1>1, InterruptedInTurn
<1> DEFINE wrong == {i \in 0..Len(seq) : ~InterruptsAt(after[i], From(seq, i + 1), origin)}
<1>3. wrong = {}
  <2> SUFFICES ASSUME wrong # {} PROVE FALSE
    OBVIOUS
  <2>1. wrong \subseteq Nat
    OBVIOUS
  <2>2. PICK m \in wrong : \A k \in wrong : m <= k
    BY <2>1, LeastOf
  <2>3. m \in 0..Len(seq) /\ ~InterruptsAt(after[m], From(seq, m + 1), origin)
    BY <2>2
  <2>4. m # 0
    <3>1. 0 + 1 = 1 /\ InterruptsAt(after[0], From(seq, 0 + 1), origin)
      BY <1>2, FromFacts
    <3> QED BY <2>3, <3>1
  <2>5. m \in 1..Len(seq) /\ m - 1 \in 0..Len(seq) /\ (m - 1) + 1 = m /\ ~(m <= m - 1)
    BY <1>1, <2>3, <2>4
  <2>6. InterruptsAt(after[m - 1], From(seq, m), origin)
    BY <2>2, <2>5
  <2>7. InterruptsAt(after[m], From(seq, m) \ {seq[m]}, origin)
    <3>1. seq[m] \in From(seq, m) /\ after[m] = Interrupted(after[m - 1], seq[m])
      BY <1>2, <2>5, FromFacts
    <3> QED BY <2>6, <3>1, InterruptedStep
  <2> QED BY <2>3, <2>5, <2>7, FromFacts
<1>4. Len(seq) \in 0..Len(seq)
  BY <1>1
<1> QED BY <1>2, <1>3, <1>4, FromFacts

(* A connection goes: its follows are unsubscribed in turn.                   *)

\* Those of the list who are not unsubscribed yet are on their streams.
ReleasesAt(d, d0, seq, i) ==
    /\ d \in Feeds /\ d.next = d0.next /\ d.active = d0.active /\ d.stops = d0.stops
    /\ Wired(d, ToSet(seq) \ From(seq, i), 0)

LEMMA ReleasesAll ==
    ASSUME NEW d \in Feeds, Wired(d, {}, 0), NEW seq \in Seq(Follow_), IsInjective(seq), ToSet(seq) \subseteq d.active
    PROVE  LET u == AllUnsubscribed(d, seq) IN
           /\ u \in Feeds /\ u.next = d.next /\ u.active = d.active /\ u.stops = d.stops
           /\ Wired(u, ToSet(seq), 0)
<1>1. Len(seq) \in Nat
  BY LenProperties
<1>2. PICK after : /\ after[0] = d /\ AllUnsubscribed(d, seq) = after[Len(seq)]
                   /\ \A i \in 1..Len(seq) : after[i] = Unsubscribed(after[i - 1], seq[i])
  BY UnsubscribedInTurn
<1> DEFINE wrong == {i \in 0..Len(seq) : ~ReleasesAt(after[i], d, seq, i + 1)}
<1>3. wrong = {}
  <2> SUFFICES ASSUME wrong # {} PROVE FALSE
    OBVIOUS
  <2>1. wrong \subseteq Nat
    OBVIOUS
  <2>2. PICK m \in wrong : \A k \in wrong : m <= k
    BY <2>1, LeastOf
  <2>3. m \in 0..Len(seq) /\ ~ReleasesAt(after[m], d, seq, m + 1)
    BY <2>2
  <2>4. m # 0
    <3>1. 0 + 1 = 1 /\ ToSet(seq) \ From(seq, 1) = {}
      BY FromFacts
    <3>2. ReleasesAt(after[0], d, seq, 0 + 1)
      BY <1>2, <3>1 DEF ReleasesAt
    <3> QED BY <2>3, <3>2
  <2>5. m \in 1..Len(seq) /\ m - 1 \in 0..Len(seq) /\ (m - 1) + 1 = m /\ ~(m <= m - 1)
    BY <1>1, <2>3, <2>4
  <2>6. ReleasesAt(after[m - 1], d, seq, m)
    BY <2>2, <2>5
  <2> DEFINE f == seq[m]
             out == ToSet(seq) \ From(seq, m)
             b == after[m - 1]
             u == Unsubscribed(b, f)
  <2>7. f \in From(seq, m) /\ From(seq, m) \ {f} = From(seq, m + 1) /\ after[m] = u /\ f \in ToSet(seq)
    BY <1>2, <2>5, FromFacts, ListFacts
  <2>8. out \cup {f} = ToSet(seq) \ From(seq, m + 1) /\ f \notin out
    BY <2>7
  <2>9. b \in Feeds /\ b.next = d.next /\ b.active = d.active /\ b.stops = d.stops /\ Wired(b, out, 0) /\ f \in b.active
    BY <2>6, <2>7 DEF ReleasesAt
  <2> HIDE DEF f, out, b
  <2>10. u \in Feeds /\ u.next = b.next /\ u.active = b.active /\ u.stops = b.stops /\ Wired(u, out \cup {f}, 0)
    BY <2>8, <2>9, UnsubscribedKeeps
  <2> HIDE DEF u
  <2>11. ReleasesAt(u, d, seq, m + 1)
    BY <2>8, <2>9, <2>10 DEF ReleasesAt
  <2> QED BY <2>3, <2>7, <2>11
<1>4. Len(seq) \in 0..Len(seq) /\ ToSet(seq) \ From(seq, Len(seq) + 1) = ToSet(seq)
  BY <1>1, FromFacts
<1>5. ReleasesAt(after[Len(seq)], d, seq, Len(seq) + 1)
  BY <1>3, <1>4
<1> QED BY <1>2, <1>4, <1>5 DEF ReleasesAt

\* What the host ends: the stream, and with an interrupt the payloads that have it.
EndedAt(d, s) == [d EXCEPT !.streams = [d.streams EXCEPT ![s] = [d.streams[s] EXCEPT !.ended = "host"]]]
Cleared(d, s) == [EndedAt(d, s) EXCEPT !.current = [p \in Payload |-> IF d.current[p] = s THEN 0 ELSE d.current[p]]]

LEMMA EndedFacts ==
    ASSUME NEW d \in Feeds, NEW s \in 1..Len(d.streams)
    PROVE  LET u == EndedAt(d, s) IN
           /\ u \in Feeds /\ u.next = d.next /\ u.active = d.active /\ u.stops = d.stops /\ u.current = d.current
           /\ Len(u.streams) = Len(d.streams) /\ \A t \in 1..Len(d.streams) : t # s => u.streams[t] = d.streams[t]
           /\ u.streams[s].ended = "host" /\ u.streams[s].listeners = d.streams[s].listeners
<1> DEFINE x == [d.streams[s] EXCEPT !.ended = "host"]
           v == [d.streams EXCEPT ![s] = x]
           u == EndedAt(d, s)
<1>1. d.streams[s] \in StreamRecord /\ d.streams \in Seq(StreamRecord) /\ Len(d.streams) \in Nat
  BY FeedFields
<1>2. x \in StreamRecord /\ x.ended = "host" /\ x.listeners = d.streams[s].listeners
  BY <1>1 DEF StreamRecord
<1>3. u = [d EXCEPT !.streams = v]
  BY DEF EndedAt
<1> HIDE DEF x, u
<1>4. v \in Seq(StreamRecord) /\ Len(v) = Len(d.streams) /\ v[s] = x /\ \A t \in 1..Len(d.streams) : t # s => v[t] = d.streams[t]
  BY <1>1, <1>2, ExceptSeq
<1> HIDE DEF v
<1>5. /\ u \in FeedRecord /\ u.streams = v /\ u.next = d.next /\ u.active = d.active /\ u.stops = d.stops
      /\ u.current = d.current
  BY <1>3, <1>4, FeedFields DEF FeedRecord
<1>6. u \in Feeds
  BY <1>4, <1>5, FeedFields DEF Feeds
<1> QED BY <1>2, <1>4, <1>5, <1>6 DEF u

LEMMA ClearedFacts ==
    ASSUME NEW d \in Feeds, NEW s \in 1..Len(d.streams)
    PROVE  LET u == Cleared(d, s) IN
           /\ u \in Feeds /\ u.next = d.next /\ u.active = d.active /\ u.stops = d.stops
           /\ \A p \in Payload : u.current[p] = IF d.current[p] = s THEN 0 ELSE d.current[p]
           /\ u.streams = EndedAt(d, s).streams
<1> DEFINE e == EndedAt(d, s)
           w == [p \in Payload |-> IF d.current[p] = s THEN 0 ELSE d.current[p]]
           u == Cleared(d, s)
<1>1. e \in Feeds /\ e.next = d.next /\ e.active = d.active /\ e.stops = d.stops /\ e.current = d.current
  BY EndedFacts
<1>2. w \in [Payload -> Nat] /\ \A p \in Payload : w[p] = IF d.current[p] = s THEN 0 ELSE d.current[p]
  BY FeedFields
<1>3. u = [e EXCEPT !.current = w]
  BY DEF Cleared
<1> HIDE DEF e, w, u
<1>4. e \in FeedRecord /\ Len(e.streams) \in Nat /\ \A p \in Payload : e.current[p] <= Len(e.streams)
  BY <1>1, FeedFields DEF Feeds
<1>5. /\ u \in FeedRecord /\ u.streams = e.streams /\ u.next = e.next /\ u.active = e.active /\ u.stops = e.stops
      /\ u.current = w
  BY <1>2, <1>3, <1>4 DEF FeedRecord
<1>6. \A p \in Payload : w[p] <= Len(e.streams)
  BY <1>1, <1>2, <1>4
<1>7. u \in Feeds
  BY <1>5, <1>6 DEF Feeds
<1> QED BY <1>1, <1>2, <1>5, <1>7 DEF e, u

LEMMA EndedStops ==
    ASSUME NEW d \in Feeds, Numbered(d), Wired(d, {}, 0), NEW s \in 1..Len(d.streams), d.streams[s].ended = "no"
    PROVE  /\ StopsAt(EndedAt(d, s), s, Heard(d, s), d.active)
           /\ InterruptsAt(Cleared(d, s), Heard(d, s), d.active)
<1> DEFINE u == EndedAt(d, s)
           w == Cleared(d, s)
<1>1. /\ u \in Feeds /\ u.next = d.next /\ u.active = d.active /\ u.stops = d.stops /\ u.current = d.current
      /\ Len(u.streams) = Len(d.streams) /\ \A t \in 1..Len(d.streams) : t # s => u.streams[t] = d.streams[t]
      /\ u.streams[s].ended = "host" /\ u.streams[s].listeners = d.streams[s].listeners
  BY EndedFacts
<1>2. /\ w \in Feeds /\ w.next = d.next /\ w.active = d.active /\ w.stops = d.stops
      /\ \A p \in Payload : w.current[p] = IF d.current[p] = s THEN 0 ELSE d.current[p]
      /\ w.streams = u.streams
  BY ClearedFacts
<1> HIDE DEF u, w
<1>3. Numbered(u) /\ Numbered(w)
  BY <1>1, <1>2 DEF Numbered
<1>4. \A t : Heard(u, t) = Heard(w, t)
  BY <1>2 DEF Heard
<1>5. \A t \in 1..Len(d.streams) : Heard(u, t) = Heard(d, t)
  BY <1>1 DEF Heard
<1>6. /\ Heard(d, s) \subseteq d.active
      /\ \A f \in Heard(d, s) : d.current[PayloadOf(f)] = s
  BY DEF Wired, Serves
<1>7. s \in Nat /\ s # 0 /\ Len(d.streams) \in Nat
  BY FeedFields
<1>8. \A t \in 1..Len(d.streams) : Serves(u, t, s) <=> Serves(d, t, 0)
  BY <1>1, <1>7 DEF Serves
<1>9. \A t \in 1..Len(d.streams) : Serves(w, t, 0) <=> Serves(d, t, 0) /\ t # s
  BY <1>1, <1>2, <1>7 DEF Serves
<1>10. \A t \in 1..Len(d.streams) : IsInjective(d.streams[t].listeners) => IsInjective(u.streams[t].listeners)
  BY <1>1
<1>11. /\ \A p \in Payload : d.current[p] # 0 => d.current[p] \in 1..Len(d.streams)
       /\ \A f \in d.active : PayloadOf(f) \in Payload
  BY <1>7, FeedFields, FollowFacts
<1>12. Wired(u, {}, s)
  <2>1. \A p \in Payload : u.current[p] # 0 => Serves(u, u.current[p], s)
    BY <1>1, <1>8, <1>11 DEF Wired
  <2>2. \A t \in 1..Len(u.streams) : Serves(u, t, s) =>
         /\ Heard(u, t) # {} /\ IsInjective(u.streams[t].listeners)
         /\ \A f \in Heard(u, t) : f \in u.active \ {} /\ u.current[PayloadOf(f)] = t
    BY <1>1, <1>5, <1>8, <1>10 DEF Wired
  <2>3. \A f \in u.active \ {} : u.current[PayloadOf(f)] # 0 /\ f \in Heard(u, u.current[PayloadOf(f)])
    BY <1>1, <1>5, <1>11 DEF Wired
  <2>4. \A p, q \in Payload : u.current[p] # 0 /\ u.current[p] = u.current[q] => p = q
    BY <1>1 DEF Wired
  <2> QED BY <2>1, <2>2, <2>3, <2>4 DEF Wired
<1>13. Wired(w, Heard(d, s), 0)
  <2>1. \A p \in Payload : w.current[p] # 0 => Serves(w, w.current[p], 0)
    BY <1>2, <1>9, <1>11 DEF Wired
  <2>2. ASSUME NEW t \in 1..Len(w.streams), Serves(w, t, 0)
        PROVE  /\ Heard(w, t) # {} /\ IsInjective(w.streams[t].listeners)
               /\ \A f \in Heard(w, t) : f \in w.active \ Heard(d, s) /\ w.current[PayloadOf(f)] = t
    <3>1. t \in 1..Len(d.streams) /\ t # s /\ Serves(d, t, 0)
      BY <1>1, <1>2, <1>9, <2>2
    <3>2. /\ Heard(d, t) # {} /\ IsInjective(d.streams[t].listeners)
          /\ \A f \in Heard(d, t) : f \in d.active /\ d.current[PayloadOf(f)] = t
      BY <3>1 DEF Wired
    <3>3. Heard(w, t) = Heard(d, t) /\ IsInjective(w.streams[t].listeners)
      BY <1>2, <1>4, <1>5, <1>10, <3>1, <3>2
    <3>4. \A f \in Heard(d, t) : f \notin Heard(d, s) /\ w.current[PayloadOf(f)] = t
      BY <1>2, <1>6, <1>11, <3>1, <3>2
    <3> QED BY <1>2, <3>2, <3>3, <3>4
  <2>3. ASSUME NEW f \in w.active \ Heard(d, s)
        PROVE  w.current[PayloadOf(f)] # 0 /\ f \in Heard(w, w.current[PayloadOf(f)])
    <3>1. f \in d.active /\ PayloadOf(f) \in Payload
      BY <1>2, <1>11
    <3>2. d.current[PayloadOf(f)] # 0 /\ f \in Heard(d, d.current[PayloadOf(f)])
      BY <3>1 DEF Wired
    <3>3. d.current[PayloadOf(f)] # s
      BY <3>2
    <3> QED BY <1>2, <1>4, <1>5, <1>11, <3>1, <3>2, <3>3
  <2>4. \A p, q \in Payload : w.current[p] # 0 /\ w.current[p] = w.current[q] => p = q
    BY <1>2 DEF Wired
  <2> QED BY <2>1, <2>2, <2>3, <2>4 DEF Wired
<1>14. \A g \in d.active : \E h \in d.active : h[1] = g[1]
  OBVIOUS
<1>15. StopsAt(u, s, Heard(d, s), d.active)
  BY <1>1, <1>3, <1>5, <1>6, <1>12, <1>14 DEF StopsAt
<1>16. InterruptsAt(w, Heard(d, s), d.active)
  BY <1>2, <1>3, <1>6, <1>13, <1>14 DEF InterruptsAt
<1> QED BY <1>15, <1>16 DEF u, w

(* The invariant.                                                             *)

ProviderStage == {"checking", "typed", "fallback", "inert", "closed"}

FollowsInv ==
    /\ feed \in Feeds /\ Numbered(feed) /\ Wired(feed, {}, 0)
    /\ provider \in [Connection -> ProviderStage]
    /\ \A f \in feed.active : provider[f[1]] = "typed"
    /\ rpc \in [Rpc -> [stage : {"none", "call", "broadcast", "refused", "result", "error"}, conn : Connection \cup {"none"}]]
    /\ broadcast \in [Rpc -> {"none", "known", "stopped", "orphaned"}]
    /\ \A r \in Rpc : rpc[r].stage # "none" => rpc[r].conn \in Connection /\ provider[rpc[r].conn] \in {"typed", "closed"}
    /\ \A r \in Rpc : broadcast[r] = "known" => rpc[r].stage = "result" /\ provider[rpc[r].conn] = "typed"

LEMMA FollowsInvImplies == FollowsInv => FollowsTypeOK /\ FollowsAreServed
<1> SUFFICES ASSUME FollowsInv PROVE FollowsTypeOK /\ FollowsAreServed
  OBVIOUS
<1>1. feed \in Feeds /\ Numbered(feed) /\ Wired(feed, {}, 0)
  BY DEF FollowsInv
<1>2. /\ DOMAIN feed.streams = 1..Len(feed.streams) /\ feed.active \in SUBSET Follow_
      /\ \A p \in Payload : feed.current[p] \in 0..Len(feed.streams)
      /\ \A s \in 1..Len(feed.streams) : feed.streams[s].listeners \in Seq(Follow_)
  BY <1>1, FeedFields
<1>3. \A f \in feed.active : /\ PayloadOf(f) \in Payload /\ feed.current[PayloadOf(f)] # 0
                             /\ f \in Heard(feed, feed.current[PayloadOf(f)])
                             /\ Serves(feed, feed.current[PayloadOf(f)], 0)
  BY <1>1, <1>2, FollowFacts DEF Wired
<1>4. \A s : Serves(feed, s, 0) /\ s # 0 => Live(s)
  BY DEF Serves, Live
<1>5. FollowsTypeOK
  BY <1>2 DEF FollowsTypeOK, FollowsInv, ProviderStage
<1>6. RefollowReachesTheHost
  BY <1>3, <1>4 DEF RefollowReachesTheHost, PayloadOf
<1>7. ASSUME NEW s \in DOMAIN feed.streams, Live(s)
      PROVE  LET heard == feed.streams[s].listeners IN
             /\ heard # <<>> /\ IsInjective(heard)
             /\ \A k \in DOMAIN heard : heard[k] \in feed.active /\ feed.current[WithRuntime(heard[k][1])] = s
  <2> DEFINE heard == feed.streams[s].listeners
  <2>1. s \in 1..Len(feed.streams) /\ Serves(feed, s, 0)
    BY <1>2, <1>7 DEF Live, Serves
  <2>2. /\ Heard(feed, s) # {} /\ IsInjective(heard)
        /\ \A f \in Heard(feed, s) : f \in feed.active \ {} /\ feed.current[PayloadOf(f)] = s
    BY <1>1, <2>1 DEF Wired
  <2>3. heard \in Seq(Follow_) /\ Heard(feed, s) = ToSet(heard)
    BY <1>2, <2>1 DEF Heard
  <2> HIDE DEF heard
  <2>4. heard # <<>> /\ \A k \in DOMAIN heard : heard[k] \in Heard(feed, s)
    <3>1. DOMAIN heard = 1..Len(heard) /\ ToSet(heard) = {heard[k] : k \in 1..Len(heard)}
      BY <2>3, ListFacts
    <3> QED BY <2>2, <2>3, <3>1, EmptyList
  <2> QED BY <2>2, <2>4 DEF heard, PayloadOf
<1>8. \A f \in Follow_ : feed.stops[f] <= 1
  BY <1>1 DEF Numbered
<1>9. \A f \in feed.active :
         /\ provider[f[1]] = "typed" /\ feed.stops[f] = 0
         /\ f \in ToSet(feed.streams[feed.current[WithRuntime(f[1])]].listeners)
  BY <1>1, <1>3 DEF FollowsInv, Numbered, Heard, PayloadOf
<1>10. \A r \in Rpc : broadcast[r] = "known" => provider[rpc[r].conn] = "typed"
  BY DEF FollowsInv
<1> QED BY <1>5, <1>6, <1>7, <1>8, <1>9, <1>10 DEF FollowsAreServed

LEMMA FollowsInitInv == FollowsInit => FollowsInv
<1> SUFFICES ASSUME FollowsInit PROVE FollowsInv
  OBVIOUS
<1>1. /\ feed.next = [c \in Connection |-> 1] /\ feed.active = {} /\ feed.stops = [f \in Follow_ |-> 0]
      /\ feed.streams = <<>> /\ feed.current = [p \in Payload |-> 0]
  BY DEF FollowsInit
<1>2. <<>> \in Seq(StreamRecord) /\ Len(<<>>) = 0
  OBVIOUS
<1>3. feed \in FeedRecord
  BY <1>2 DEF FollowsInit, FeedRecord
<1>4. feed \in Feeds
  BY <1>1, <1>2, <1>3 DEF Feeds
<1>5. Numbered(feed)
  BY <1>1 DEF Numbered
<1>6. Wired(feed, {}, 0)
  <2>1. 1..Len(feed.streams) = {}
    BY <1>1, <1>2
  <2> QED BY <1>1, <2>1 DEF Wired
<1>7. /\ provider = [c \in Connection |-> "checking"] /\ broadcast = [r \in Rpc |-> "none"]
      /\ rpc = [r \in Rpc |-> [stage |-> "none", conn |-> "none"]]
  BY DEF FollowsInit
<1> QED BY <1>1, <1>4, <1>5, <1>6, <1>7 DEF FollowsInv, ProviderStage

\* A step of the feed alone, after which who follows followed before.
LEMMA FeedStep ==
    ASSUME FollowsInv, UNCHANGED <<provider, rpc, broadcast>>,
           feed' \in Feeds, Numbered(feed'), Wired(feed', {}, 0),
           \A g \in feed'.active : provider[g[1]] = "typed"
    PROVE  FollowsInv'
BY DEF FollowsInv

LEMMA StartsStep ==
    ASSUME FollowsInv, NEW c \in Connection, Starts(c)
    PROVE  FollowsInv'
<1>1. PICK as \in {"typed", "fallback", "inert"} : provider' = [provider EXCEPT ![c] = as]
  BY DEF Starts
<1>2. UNCHANGED <<feed, rpc, broadcast>> /\ provider[c] = "checking" /\ provider \in [Connection -> ProviderStage]
  BY DEF Starts, FollowsInv
<1>3. /\ provider' \in [Connection -> ProviderStage]
      /\ \A e \in Connection : provider[e] # "checking" => provider'[e] = provider[e]
  BY <1>1, <1>2 DEF ProviderStage
<1>4. \A f \in feed.active : f[1] \in Connection
  BY FeedFields, FollowFacts DEF FollowsInv
<1>5. \A f \in feed'.active : provider'[f[1]] = "typed"
  BY <1>2, <1>3, <1>4 DEF FollowsInv
<1>6. \A r \in Rpc : rpc'[r].stage # "none" => rpc'[r].conn \in Connection /\ provider'[rpc'[r].conn] \in {"typed", "closed"}
  BY <1>2, <1>3 DEF FollowsInv
<1>7. \A r \in Rpc : broadcast'[r] = "known" => rpc'[r].stage = "result" /\ provider'[rpc'[r].conn] = "typed"
  <2> SUFFICES ASSUME NEW r \in Rpc, broadcast[r] = "known"
               PROVE  rpc[r].stage = "result" /\ provider'[rpc[r].conn] = "typed"
    BY <1>2
  <2>1. rpc[r].stage = "result" /\ provider[rpc[r].conn] = "typed" /\ rpc[r].conn \in Connection
    BY DEF FollowsInv
  <2> QED BY <1>3, <2>1
<1> QED BY <1>2, <1>3, <1>5, <1>6, <1>7 DEF FollowsInv

LEMMA FollowsAnewStep ==
    ASSUME FollowsInv, NEW c \in Connection, FollowsAnew(c)
    PROVE  FollowsInv'
<1>1. /\ provider[c] = "typed" /\ CanFollow(feed, c) /\ UNCHANGED <<provider, rpc, broadcast>>
      /\ c \in Eager => \A g \in feed.active : g[1] # c
      /\ feed' = Followed(feed, c)
  BY DEF FollowsAnew, FollowsOf
<1>2. feed \in Feeds /\ Numbered(feed) /\ Wired(feed, {}, 0) /\ {} \in SUBSET feed.active
  BY DEF FollowsInv
<1>3. /\ Followed(feed, c) \in Feeds /\ Numbered(Followed(feed, c)) /\ Wired(Followed(feed, c), {}, 0)
      /\ FollowsOn(feed, Followed(feed, c), c)
  BY <1>1, <1>2, FollowedKeeps
<1>4. \A g \in Followed(feed, c).active : provider[g[1]] = "typed"
  BY <1>1, <1>3 DEF FollowsOn, FollowsInv
<1> QED BY <1>1, <1>3, <1>4, FeedStep

LEMMA UnfollowStep ==
    ASSUME FollowsInv, NEW f \in Follow_, Unfollow(f)
    PROVE  FollowsInv'
<1> DEFINE u == Unsubscribed(feed, f)
           v == Inactive(u, f)
<1>1. /\ UNCHANGED <<provider, rpc, broadcast>>
      /\ feed' = IF f \in feed.active THEN [u EXCEPT !.active = @ \ {f}] ELSE feed
  BY DEF Unfollow
<1>2. feed \in Feeds /\ Numbered(feed) /\ Wired(feed, {}, 0)
  BY DEF FollowsInv
<1>3. CASE f \in feed.active
  <2>1. feed' = v
    BY <1>1, <1>3 DEF Inactive
  <2>2. /\ u \in Feeds /\ u.next = feed.next /\ u.active = feed.active /\ u.stops = feed.stops
        /\ Wired(u, {} \cup {f}, 0)
    BY <1>2, <1>3, UnsubscribedKeeps
  <2> HIDE DEF u, v
  <2>3. /\ v \in Feeds /\ v.next = u.next /\ v.active = u.active \ {f} /\ v.stops = u.stops
        /\ v.streams = u.streams /\ v.current = u.current
    BY <2>2, InactiveFacts DEF v
  <2>4. v.active \ {} = u.active \ ({} \cup {f})
    BY <2>3
  <2>5. Wired(v, {}, 0)
    BY <2>2, <2>3, <2>4, SameWiring
  <2>6. Numbered(v)
    BY <1>2, <1>3, <2>2, <2>3, InactiveNumbered
  <2>7. \A g \in v.active : provider[g[1]] = "typed"
    BY <2>2, <2>3 DEF FollowsInv
  <2> QED BY <1>1, <2>1, <2>3, <2>5, <2>6, <2>7, FeedStep
<1>4. CASE f \notin feed.active
  <2>1. feed' = feed
    BY <1>1, <1>4
  <2> QED BY <1>1, <2>1 DEF FollowsInv
<1> QED BY <1>3, <1>4

LEMMA AskStep ==
    ASSUME FollowsInv, NEW c \in Connection, NEW r \in Rpc, Ask(c, r)
    PROVE  FollowsInv'
<1>1. PICK kind \in {"call", "broadcast", "refused"} : rpc' = [rpc EXCEPT ![r] = [stage |-> kind, conn |-> c]]
  BY DEF Ask
<1>2. UNCHANGED <<provider, feed, broadcast>> /\ provider[c] = "typed" /\ rpc[r].stage = "none"
  BY DEF Ask
<1>3. rpc \in [Rpc -> [stage : {"none", "call", "broadcast", "refused", "result", "error"}, conn : Connection \cup {"none"}]]
  BY DEF FollowsInv
<1>4. /\ rpc' \in [Rpc -> [stage : {"none", "call", "broadcast", "refused", "result", "error"}, conn : Connection \cup {"none"}]]
      /\ rpc'[r].stage # "none" /\ rpc'[r].conn = c /\ \A q \in Rpc : q # r => rpc'[q] = rpc[q]
  BY <1>1, <1>3
<1>5. broadcast[r] # "known"
  BY <1>2 DEF FollowsInv
<1> QED BY <1>2, <1>4, <1>5 DEF FollowsInv

LEMMA AnsweredStep ==
    ASSUME FollowsInv, NEW r \in Rpc, Answered(r)
    PROVE  FollowsInv'
<1> DEFINE next(stage) == IF rpc[r].stage # "broadcast" \/ stage = "error" THEN broadcast[r]
                          ELSE IF provider[rpc[r].conn] = "closed" THEN "orphaned" ELSE "known"
<1>1. PICK stage \in {"result", "error"} :
        /\ rpc' = [rpc EXCEPT ![r].stage = stage]
        /\ broadcast' = [broadcast EXCEPT ![r] = next(stage)]
  BY DEF Answered
<1>2. UNCHANGED <<provider, feed>> /\ rpc[r].stage \in {"call", "broadcast"}
  BY DEF Answered
<1>3. /\ rpc \in [Rpc -> [stage : {"none", "call", "broadcast", "refused", "result", "error"}, conn : Connection \cup {"none"}]]
      /\ broadcast \in [Rpc -> {"none", "known", "stopped", "orphaned"}]
      /\ rpc[r].conn \in Connection /\ provider[rpc[r].conn] \in {"typed", "closed"} /\ broadcast[r] # "known"
  BY <1>2 DEF FollowsInv
<1>4. /\ rpc' \in [Rpc -> [stage : {"none", "call", "broadcast", "refused", "result", "error"}, conn : Connection \cup {"none"}]]
      /\ rpc'[r].stage = stage /\ rpc'[r].conn = rpc[r].conn /\ \A q \in Rpc : q # r => rpc'[q] = rpc[q]
  BY <1>1, <1>3
<1>5. next(stage) \in {"none", "known", "stopped", "orphaned"} /\ (next(stage) = "known" => stage = "result" /\ provider[rpc[r].conn] = "typed")
  BY <1>3
<1> HIDE DEF next
<1>6. /\ broadcast' \in [Rpc -> {"none", "known", "stopped", "orphaned"}] /\ broadcast'[r] = next(stage)
      /\ \A q \in Rpc : q # r => broadcast'[q] = broadcast[q]
  BY <1>1, <1>3, <1>5
<1> QED BY <1>2, <1>3, <1>4, <1>5, <1>6 DEF FollowsInv

LEMMA StopBroadcastStep ==
    ASSUME FollowsInv, NEW r \in Rpc, StopBroadcast(r)
    PROVE  FollowsInv'
<1>1. UNCHANGED <<provider, feed, rpc>> /\ broadcast' = [broadcast EXCEPT ![r] = "stopped"]
  BY DEF StopBroadcast
<1>2. broadcast \in [Rpc -> {"none", "known", "stopped", "orphaned"}]
  BY DEF FollowsInv
<1>3. /\ broadcast' \in [Rpc -> {"none", "known", "stopped", "orphaned"}]
      /\ \A q \in Rpc : broadcast'[q] = "known" => broadcast[q] = "known"
  BY <1>1, <1>2
<1> QED BY <1>1, <1>3 DEF FollowsInv

\* The follows of a connection make a list.
LEMMA FollowsListed ==
    ASSUME FollowsInv, NEW c \in Connection
    PROVE  LET seq == SetToSeq(FollowsOf(c)) IN
           seq \in Seq(Follow_) /\ IsInjective(seq) /\ ToSet(seq) = FollowsOf(c)
<1> DEFINE F == FollowsOf(c)
           n == Cardinality(F)
<1>1. F \subseteq Follow_ /\ \A f \in F : f[1] = c /\ f[2] \in 1..MaxFollows
  BY FeedFields, FollowFacts DEF FollowsInv, FollowsOf
<1>2. IsFiniteSet(F)
  <2>1. IsFiniteSet(1..MaxFollows)
    BY FollowsAssumption, FS_Interval
  <2>2. IsFiniteSet({c} \X (1..MaxFollows))
    BY <2>1, FS_Singleton, FS_Product
  <2>3. F \subseteq {c} \X (1..MaxFollows)
    <3> SUFFICES ASSUME NEW f \in F PROVE f \in {c} \X (1..MaxFollows)
      OBVIOUS
    <3>1. f = <<f[1], f[2]>> /\ f[1] = c /\ f[2] \in 1..MaxFollows
      BY <1>1, FollowFacts
    <3> QED BY <3>1
  <2> QED BY <2>2, <2>3, FS_Subset
<1> HIDE DEF F
<1>3. n \in Nat /\ ExistsBijection(1..n, F)
  BY <1>2, FS_CardinalityType
<1>4. PICK g \in Bijection(1..n, F) : TRUE
  BY <1>3 DEF ExistsBijection
<1>5. g \in [1..n -> F] /\ IsInjective(g)
  BY <1>4 DEF Bijection, Injection, IsInjective
<1>6. PICK seq : seq = SetToSeq(F)
  OBVIOUS
<1>7. seq = CHOOSE f \in [1..n -> F] : IsInjective(f)
  BY <1>6 DEF SetToSeq
<1>8. seq \in [1..n -> F] /\ IsInjective(seq)
  BY <1>5, <1>7
<1>9. seq \in Seq(F)
  BY <1>3, <1>8, SeqDef
<1>10. seq \in Surjection(1..n, F)
  <2>1. seq \in Injection(1..n, F)
    BY <1>8 DEF Injection
  <2>2. n = Cardinality(1..n)
    BY <1>3, FS_Interval
  <2> QED BY <1>2, <2>1, <2>2, FS_Injection
<1>11. ToSet(seq) = F
  <2>1. DOMAIN seq = 1..n /\ ToSet(seq) = {seq[i] : i \in 1..n}
    BY <1>8 DEF ToSet
  <2> QED BY <1>8, <1>10, <2>1 DEF Surjection
<1>12. seq \in Seq(Follow_)
  <2>1. seq \in [1..n -> Follow_]
    BY <1>1, <1>8
  <2> QED BY <1>3, <2>1, SeqDef
<1> QED BY <1>6, <1>8, <1>11, <1>12 DEF F

LEMMA DisconnectStep ==
    ASSUME FollowsInv, NEW c \in Connection, Disconnect(c)
    PROVE  FollowsInv'
<1> DEFINE F == FollowsOf(c)
<1>1. PICK seq : seq = SetToSeq(F)
  OBVIOUS
<1>2. seq \in Seq(Follow_) /\ IsInjective(seq) /\ ToSet(seq) = F
  BY <1>1, FollowsListed
<1>3. feed \in Feeds /\ Numbered(feed) /\ Wired(feed, {}, 0) /\ feed.active \subseteq Follow_
  BY FeedFields DEF FollowsInv
<1>4. F \subseteq feed.active /\ \A f \in feed.active : f \notin F => f[1] # c
  BY DEF FollowsOf
<1> DEFINE u == AllUnsubscribed(feed, seq)
           rest == u.active \ F
           v == [u EXCEPT !.active = rest]
<1>5. feed' = v
  BY <1>1 DEF Disconnect, AllReleased, AllUnsubscribed
<1> HIDE DEF F
<1>6. u \in Feeds /\ u.next = feed.next /\ u.active = feed.active /\ u.stops = feed.stops /\ Wired(u, F, 0)
  BY <1>2, <1>3, <1>4, ReleasesAll
<1> HIDE DEF u, v
<1>7. rest \in SUBSET Follow_
  BY <1>3, <1>6
<1> HIDE DEF rest
<1>8. /\ v \in FeedRecord /\ v.streams = u.streams /\ v.current = u.current /\ v.next = u.next /\ v.stops = u.stops
      /\ v.active = rest
  BY <1>6, <1>7, FeedFields DEF FeedRecord, v
<1>9. v \in Feeds
  BY <1>6, <1>8, FeedFields DEF Feeds
<1>10. v.active \ {} = u.active \ F /\ v.active = feed.active \ F
  BY <1>6, <1>8 DEF rest
<1>11. Wired(v, {}, 0)
  BY <1>6, <1>8, <1>10, SameWiring
<1>12. Numbered(v)
  BY <1>3, <1>6, <1>8, <1>10 DEF Numbered
<1>13. /\ UNCHANGED rpc /\ provider[c] = "typed" /\ provider' = [provider EXCEPT ![c] = "closed"]
       /\ broadcast' = [r \in Rpc |-> IF rpc[r].conn = c /\ broadcast[r] = "known" THEN "stopped" ELSE broadcast[r]]
  BY DEF Disconnect
<1>14. /\ provider' \in [Connection -> ProviderStage] /\ provider'[c] = "closed"
       /\ \A e \in Connection : e # c => provider'[e] = provider[e]
  BY <1>13 DEF FollowsInv, ProviderStage
<1>15. \A f \in v.active : provider'[f[1]] = "typed"
  <2> SUFFICES ASSUME NEW f \in feed.active, f \notin F PROVE provider'[f[1]] = "typed"
    BY <1>10
  <2>1. f[1] \in Connection /\ f[1] # c /\ provider[f[1]] = "typed"
    BY <1>3, <1>4, FollowFacts DEF FollowsInv
  <2> QED BY <1>14, <2>1
<1>16. \A r \in Rpc : rpc'[r].stage # "none" => rpc'[r].conn \in Connection /\ provider'[rpc'[r].conn] \in {"typed", "closed"}
  BY <1>13, <1>14 DEF FollowsInv
<1>17. /\ broadcast' \in [Rpc -> {"none", "known", "stopped", "orphaned"}]
       /\ \A r \in Rpc : broadcast'[r] = "known" => broadcast[r] = "known" /\ rpc[r].conn # c
  BY <1>13 DEF FollowsInv
<1>18. \A r \in Rpc : broadcast'[r] = "known" => rpc'[r].stage = "result" /\ provider'[rpc'[r].conn] = "typed"
  <2> SUFFICES ASSUME NEW r \in Rpc, broadcast'[r] = "known"
               PROVE  rpc[r].stage = "result" /\ provider'[rpc[r].conn] = "typed"
    BY <1>13
  <2>1. broadcast[r] = "known" /\ rpc[r].conn # c
    BY <1>17
  <2>2. rpc[r].stage = "result" /\ provider[rpc[r].conn] = "typed" /\ rpc[r].conn \in Connection
    BY <2>1 DEF FollowsInv
  <2> QED BY <1>14, <2>1, <2>2
<1>19. rpc' \in [Rpc -> [stage : {"none", "call", "broadcast", "refused", "result", "error"}, conn : Connection \cup {"none"}]]
  BY <1>13 DEF FollowsInv
<1>20. \A f \in feed'.active : provider'[f[1]] = "typed"
  BY <1>5, <1>15
<1>21. feed' \in Feeds /\ Numbered(feed') /\ Wired(feed', {}, 0)
  BY <1>5, <1>9, <1>11, <1>12
<1> QED BY <1>14, <1>16, <1>17, <1>18, <1>19, <1>20, <1>21 DEF FollowsInv

\* The stream the host ends and those who hear it.
LEMMA LiveStream ==
    ASSUME FollowsInv, NEW s \in DOMAIN feed.streams, Live(s)
    PROVE  LET heard == feed.streams[s].listeners IN
           /\ s \in 1..Len(feed.streams) /\ feed.streams[s].ended = "no"
           /\ heard \in Seq(Follow_) /\ IsInjective(heard) /\ ToSet(heard) = Heard(feed, s)
<1>1. feed \in Feeds /\ Wired(feed, {}, 0)
  BY DEF FollowsInv
<1>2. s \in 1..Len(feed.streams) /\ feed.streams[s].listeners \in Seq(Follow_)
  BY <1>1, FeedFields
<1>3. Serves(feed, s, 0) /\ feed.streams[s].ended = "no"
  BY DEF Live, Serves
<1> QED BY <1>1, <1>2, <1>3 DEF Wired, Heard

LEMMA HostStopsStep ==
    ASSUME EagerAlone, FollowsInv, NEW s \in DOMAIN feed.streams, HostStops(s)
    PROVE  FollowsInv'
<1> DEFINE heard == feed.streams[s].listeners
           u == AllStopped(EndedAt(feed, s), heard)
<1>1. UNCHANGED <<provider, rpc, broadcast>> /\ Live(s) /\ feed' = u
  BY DEF HostStops, AllStopped, EndedAt
<1>2. /\ s \in 1..Len(feed.streams) /\ feed.streams[s].ended = "no"
      /\ heard \in Seq(Follow_) /\ IsInjective(heard) /\ ToSet(heard) = Heard(feed, s)
  BY <1>1, LiveStream
<1>3. feed \in Feeds /\ Numbered(feed) /\ Wired(feed, {}, 0)
  BY DEF FollowsInv
<1>4. StopsAt(EndedAt(feed, s), s, ToSet(heard), feed.active)
  BY <1>2, <1>3, EndedStops
<1> HIDE DEF heard
<1>5. StopsAt(u, s, {}, feed.active)
  BY <1>2, <1>4, StopsAll
<1> HIDE DEF u
<1>6. /\ u \in Feeds /\ Numbered(u) /\ Wired(u, {}, s) /\ s \in 1..Len(u.streams)
      /\ Serves(u, s, s) => Heard(u, s) = {}
      /\ \A g \in u.active : \E h \in feed.active : h[1] = g[1]
  BY <1>5 DEF StopsAt
<1>7. ~Serves(u, s, s)
  BY <1>6 DEF Wired
<1>8. Wired(u, {}, 0)
  <2>1. Len(u.streams) \in Nat /\ s # 0
    BY <1>6, FeedFields
  <2>2. \A t \in 1..Len(u.streams) : Serves(u, t, 0) => Serves(u, t, s)
    BY <2>1 DEF Serves
  <2>3. \A t : Serves(u, t, s) => Serves(u, t, 0)
    BY <1>7 DEF Serves
  <2> QED BY <1>6, <2>2, <2>3 DEF Wired
<1>9. \A g \in u.active : provider[g[1]] = "typed"
  BY <1>6 DEF FollowsInv
<1> QED BY <1>1, <1>6, <1>8, <1>9, FeedStep

LEMMA HostInterruptsStep ==
    ASSUME FollowsInv, NEW s \in DOMAIN feed.streams, HostInterrupts(s)
    PROVE  FollowsInv'
<1> DEFINE heard == feed.streams[s].listeners
           u == AllInterrupted(Cleared(feed, s), heard)
<1>1. UNCHANGED <<provider, rpc, broadcast>> /\ Live(s) /\ feed' = u
  BY DEF HostInterrupts, AllInterrupted, Cleared, EndedAt
<1>2. /\ s \in 1..Len(feed.streams) /\ feed.streams[s].ended = "no"
      /\ heard \in Seq(Follow_) /\ IsInjective(heard) /\ ToSet(heard) = Heard(feed, s)
  BY <1>1, LiveStream
<1>3. feed \in Feeds /\ Numbered(feed) /\ Wired(feed, {}, 0)
  BY DEF FollowsInv
<1>4. InterruptsAt(Cleared(feed, s), ToSet(heard), feed.active)
  BY <1>2, <1>3, EndedStops
<1> HIDE DEF heard
<1>5. InterruptsAt(u, {}, feed.active)
  BY <1>2, <1>4, InterruptsAll
<1> HIDE DEF u
<1>6. u \in Feeds /\ Numbered(u) /\ Wired(u, {}, 0) /\ \A g \in u.active : \E h \in feed.active : h[1] = g[1]
  BY <1>5 DEF InterruptsAt
<1>7. \A g \in u.active : provider[g[1]] = "typed"
  BY <1>6 DEF FollowsInv
<1> QED BY <1>1, <1>6, <1>7, FeedStep

\* If a connection with an eager consumer shares its streams with no other, the
\* follows that are active are exactly the listeners of the streams the host
\* serves, whatever is followed, unfollowed, stopped, interrupted and closed.
THEOREM FollowsAlwaysServed == EagerAlone => (FollowsSpec => []FollowsAreServed)
<1> SUFFICES ASSUME EagerAlone PROVE FollowsSpec => []FollowsAreServed
  OBVIOUS
<1>1. FollowsInv /\ [FollowsNext]_followVars => FollowsInv'
  <2> SUFFICES ASSUME FollowsInv, [FollowsNext]_followVars PROVE FollowsInv'
    OBVIOUS
  <2>1. CASE UNCHANGED followVars
    BY <2>1 DEF followVars, FollowsInv
  <2>2. CASE FollowsNext
    BY <2>2, StartsStep, FollowsAnewStep, DisconnectStep, AskStep, UnfollowStep, AnsweredStep, StopBroadcastStep,
       HostStopsStep, HostInterruptsStep DEF FollowsNext
  <2> QED BY <2>1, <2>2
<1>2. FollowsInv => FollowsAreServed
  BY FollowsInvImplies
<1> QED BY FollowsInitInv, <1>1, <1>2, PTL DEF FollowsSpec

-----------------------------------------------------------------------------
(* The sandbox's calls to its host (SandboxCalls).                           *)
(* What inductiveness adds: while an abort goes through its listeners, what  *)
(* has yet to hear of it is still in line, and only that; until then a       *)
(* derived signal listens to all its sources and a fetch to its signal.      *)

Hearer == Nat \cup HostCall

HostCallRecord ==
    [stage : {"idle", "inflight", "answered", "settled", "dropped", "unknown key"},
     aborted : BOOLEAN, signal : Nat, key : Nat, late : BOOLEAN]

SignalsShape ==
    /\ sources \in Seq(SUBSET Nat) /\ bucket \in [Signal -> Seq(Hearer)] /\ fired \in [Signal -> Nat]
    /\ pending \in Seq(Hearer) /\ aborted \subseteq Signal

CallsShape ==
    /\ hostCall \in [HostCall -> HostCallRecord] /\ \A c \in HostCall : hostCall[c].signal \in Signal \cup {0}
    /\ used \subseteq Body /\ lifetime \in {"open", "closing", "gone"}

KeysShape == keys \in Nat /\ registry \cup wrappers \subseteq 1..keys

ModulesShape == loading \in Import \cup {NoSource} /\ entries \in [File -> Source \cup {NoSource}]

SignalsWired ==
    /\ \A d \in Signal : sources[d] \subseteq Signal
    /\ \A s, d \in Signal : d \in ToSet(bucket[s]) => s \in sources[d]
    /\ \A s \in Signal : ToSet(bucket[s]) \subseteq Signal \cup HostCall
    /\ ToSet(pending) \subseteq Signal \cup HostCall
    /\ \A d \in Signal : d \in ToSet(pending) => sources[d] \cap aborted # {}

AbortsPass ==
    /\ \A s \in Signal : fired[s] = IF s \in aborted THEN 1 ELSE 0
    /\ \A d \in Signal : d \notin aborted =>
         \A s \in sources[d] : IF s \in aborted THEN d \in ToSet(pending) ELSE d \in ToSet(bucket[s])
    /\ \A d \in aborted : sources[d] # {} => sources[d] \cap aborted # {}

UnderWay(c) == IsFetch(c) /\ hostCall[c].stage = "inflight"

FetchesHear ==
    \A c \in HostCall : UnderWay(c) =>
      IF hostCall[c].signal \in aborted THEN hostCall[c].aborted \/ c \in ToSet(pending)
      ELSE c \in ToSet(bucket[hostCall[c].signal])

TornDown ==
    /\ lifetime = "gone" => pending = <<>>
    /\ lifetime # "open" => \A c \in HostCall : UnderWay(c) => hostCall[c].aborted \/ hostCall[c].late

SignalsInv == SignalsShape /\ SignalsWired /\ AbortsPass

BridgeInv ==
    /\ SignalsInv /\ CallsShape /\ KeysShape /\ ModulesShape
    /\ FetchesHear /\ TornDown /\ KeysOutliveTheirWrappers

-----------------------------------------------------------------------------

\* removeEventListener takes one listener out and leaves the others.
LEMMA RemovedListener ==
    ASSUME NEW S, NEW l \in Seq(S), NEW f
    PROVE  /\ RemoveFirst(l, f) \in Seq(S) /\ ToSet(RemoveFirst(l, f)) \subseteq ToSet(l)
           /\ \A x \in ToSet(l) : x # f => x \in ToSet(RemoveFirst(l, f))
<1>1. RemoveFirst(l, f) = RemoveChild(l, f)
  BY DEF RemoveFirst, RemoveChild, PlaceOf, Contains
<1> QED BY <1>1, RemovedFacts

LEMMA HeadAndTail ==
    ASSUME NEW S, NEW l \in Seq(S), l # <<>>
    PROVE  /\ Tail(l) \in Seq(S) /\ Head(l) \in S /\ Head(l) \in ToSet(l)
           /\ ToSet(l) = {Head(l)} \cup ToSet(Tail(l))
<1>1. /\ Tail(l) \in Seq(S) /\ Len(l) \in Nat \ {0} /\ Len(Tail(l)) = Len(l) - 1
      /\ Head(l) = l[1] /\ \A i \in 1..(Len(l) - 1) : Tail(l)[i] = l[i + 1]
  BY HeadTailProperties, LenProperties, EmptySeq
<1>2. ToSet(l) = {l[i] : i \in 1..Len(l)} /\ ToSet(Tail(l)) = {Tail(l)[i] : i \in 1..(Len(l) - 1)} /\ ToSet(l) \subseteq S
  BY <1>1, ListFacts
<1>3. 1 \in 1..Len(l) /\ \A i \in 1..Len(l) : i = 1 \/ i - 1 \in 1..(Len(l) - 1)
  BY <1>1
<1>4. ASSUME NEW x \in ToSet(l) PROVE x = Head(l) \/ x \in ToSet(Tail(l))
  <2>1. PICK i \in 1..Len(l) : x = l[i]
    BY <1>2
  <2>2. i # 1 => Tail(l)[i - 1] = x
    BY <1>1, <1>3, <2>1
  <2> QED BY <1>1, <1>2, <1>3, <2>1, <2>2
<1>5. ASSUME NEW x \in ToSet(Tail(l)) PROVE x \in ToSet(l)
  <2>1. PICK i \in 1..(Len(l) - 1) : x = Tail(l)[i]
    BY <1>2
  <2>2. i + 1 \in 1..Len(l)
    BY <1>1
  <2> QED BY <1>1, <1>2, <2>1, <2>2
<1> QED BY <1>1, <1>2, <1>3, <1>4, <1>5

LEMMA ConcatSets ==
    ASSUME NEW S, NEW a \in Seq(S), NEW b \in Seq(S)
    PROVE  a \o b \in Seq(S) /\ ToSet(a \o b) = ToSet(a) \cup ToSet(b)
<1>1. /\ a \o b \in Seq(S) /\ Len(a \o b) = Len(a) + Len(b) /\ Len(a) \in Nat /\ Len(b) \in Nat
      /\ \A i \in 1..(Len(a) + Len(b)) : (a \o b)[i] = IF i <= Len(a) THEN a[i] ELSE b[i - Len(a)]
  BY ConcatProperties, LenProperties
<1>2. /\ ToSet(a) = {a[i] : i \in 1..Len(a)} /\ ToSet(b) = {b[i] : i \in 1..Len(b)}
      /\ ToSet(a \o b) = {(a \o b)[i] : i \in 1..(Len(a) + Len(b))}
  BY <1>1, ListFacts
<1> DEFINE c == a \o b
<1>3. \A i \in 1..Len(a) : i \in 1..(Len(a) + Len(b)) /\ c[i] = a[i]
  BY <1>1
<1>4. \A i \in 1..Len(b) : i + Len(a) \in 1..(Len(a) + Len(b)) /\ c[i + Len(a)] = b[i]
  BY <1>1
<1>5. \A i \in 1..(Len(a) + Len(b)) :
        (i \in 1..Len(a) /\ c[i] = a[i]) \/ (i - Len(a) \in 1..Len(b) /\ c[i] = b[i - Len(a)])
  BY <1>1
<1> HIDE DEF c
<1>6. {c[i] : i \in 1..(Len(a) + Len(b))} = {a[i] : i \in 1..Len(a)} \cup {b[i] : i \in 1..Len(b)}
  <2>1. ASSUME NEW x \in {c[i] : i \in 1..(Len(a) + Len(b))}
        PROVE  x \in {a[i] : i \in 1..Len(a)} \cup {b[i] : i \in 1..Len(b)}
    <3>1. PICK i \in 1..(Len(a) + Len(b)) : x = c[i]
      OBVIOUS
    <3>2. (i \in 1..Len(a) /\ x = a[i]) \/ (i - Len(a) \in 1..Len(b) /\ x = b[i - Len(a)])
      BY <1>5, <3>1
    <3> QED BY <3>2
  <2>2. ASSUME NEW i \in 1..Len(a) PROVE a[i] \in {c[j] : j \in 1..(Len(a) + Len(b))}
    BY <1>3
  <2>3. ASSUME NEW i \in 1..Len(b) PROVE b[i] \in {c[j] : j \in 1..(Len(a) + Len(b))}
    <3>1. i + Len(a) \in 1..(Len(a) + Len(b)) /\ c[i + Len(a)] = b[i]
      BY <1>4
    <3> QED BY <3>1
  <2> QED BY <2>1, <2>2, <2>3
<1> QED BY <1>1, <1>2, <1>6 DEF c

\* A list with one more.
LEMMA OneMoreIn ==
    ASSUME NEW S, NEW f \in Seq(S), NEW x \in S
    PROVE  /\ Append(f, x) \in Seq(S) /\ Len(f) \in Nat /\ DOMAIN Append(f, x) = 1..(Len(f) + 1)
           /\ Append(f, x) \in [1..(Len(f) + 1) -> S] /\ Append(f, x)[Len(f) + 1] = x
           /\ \A i \in 1..Len(f) : Append(f, x)[i] = f[i]
<1>1. /\ Append(f, x) \in Seq(S) /\ Len(Append(f, x)) = Len(f) + 1 /\ Append(f, x)[Len(f) + 1] = x
      /\ \A i \in 1..Len(f) : Append(f, x)[i] = f[i]
  BY AppendProperties
<1>2. Append(f, x) \in [1..(Len(f) + 1) -> S] /\ DOMAIN Append(f, x) = 1..(Len(f) + 1)
  BY <1>1, LenProperties, ElementOfSeq
<1> QED BY <1>1, <1>2, LenProperties

LEMMA ListOf ==
    ASSUME NEW S, NEW n \in Nat, NEW f, f \in [1..n -> S]
    PROVE  f \in Seq(S) /\ Len(f) = n
OBVIOUS

LEMMA SignalNumbers ==
    ASSUME SignalsShape
    PROVE  Len(sources) \in Nat /\ Signal = 1..Len(sources) /\ Signal \subseteq Nat /\ 0 \notin Signal
<1>1. Len(sources) \in Nat /\ DOMAIN sources = 1..Len(sources)
  BY LenProperties DEF SignalsShape
<1> QED BY <1>1 DEF Signal

LEMMA CallsAreNoSignals == ASSUME SignalsShape PROVE HostCall \cap Signal = {}
BY SignalNumbers, CallBoundAssumption

LEMMA NobodyWaits == pending = <<>> => ToSet(pending) = {}
BY EmptyToSet

\* No signal hears of anything: the rest of the state stays as it is.
LEMMA SignalsStay == SignalsInv /\ UNCHANGED signalVars => SignalsInv'
BY DEF SignalsInv, SignalsShape, SignalsWired, AbortsPass, signalVars, Signal

LEMMA KeysStay ==
    ASSUME KeysShape, KeysOutliveTheirWrappers, UNCHANGED <<hostCall, keyVars, lifetime>>
    PROVE  KeysShape' /\ KeysOutliveTheirWrappers'
BY DEF KeysShape, KeysOutliveTheirWrappers, keyVars

LEMMA ModulesStay == ModulesShape /\ UNCHANGED moduleVars => ModulesShape'
BY DEF ModulesShape, moduleVars

LEMMA MakeSignalKeeps ==
    ASSUME BridgeInv, NEW from \in SUBSET Signal, MakeSignal(from)
    PROVE  BridgeInv'
<1> DEFINE n == Len(sources)  d == n + 1
           B == [s \in Signal |-> IF s \in from THEN Append(bucket[s], d) ELSE bucket[s]]
<1>1. /\ pending = <<>>
      /\ sources' = Append(sources, from)
      /\ from \cap aborted # {} => /\ aborted' = aborted \cup {d} /\ fired' = Append(fired, 1)
                                   /\ bucket' = Append(bucket, <<>>)
      /\ from \cap aborted = {} => /\ aborted' = aborted /\ fired' = Append(fired, 0)
                                   /\ bucket' = Append(B, <<>>)
      /\ UNCHANGED <<pending, used, hostCall, keyVars, moduleVars, lifetime>>
  BY DEF MakeSignal, InProduct
<1>2. n \in Nat /\ Signal = 1..n /\ d \in Nat /\ d \notin Signal /\ 1..(n + 1) = Signal \cup {d} /\ d # 0
  BY SignalNumbers DEF BridgeInv, SignalsInv
<1>3. /\ sources \in Seq(SUBSET Nat) /\ Len(sources) = n /\ bucket \in [1..n -> Seq(Hearer)] /\ fired \in [1..n -> Nat]
      /\ aborted \subseteq Signal /\ from \in SUBSET Nat /\ <<>> \in Seq(Hearer) /\ d \in Hearer
  BY <1>2, EmptySeq DEF BridgeInv, SignalsInv, SignalsShape, Hearer
<1>4. /\ B \in [1..n -> Seq(Hearer)]
      /\ \A s \in Signal : ToSet(B[s]) = ToSet(bucket[s]) \cup (IF s \in from THEN {d} ELSE {})
  <2>1. \A s \in Signal : Append(bucket[s], d) \in Seq(Hearer) /\ ToSet(Append(bucket[s], d)) = ToSet(bucket[s]) \cup {d}
    BY <1>2, <1>3, JoinedList
  <2> QED BY <1>2, <1>3, <2>1
<1> HIDE DEF B, n, d
<1>5. /\ sources' \in [1..(n + 1) -> SUBSET Nat] /\ sources'[d] = from
      /\ \A i \in Signal : sources'[i] = sources[i]
  <2> DEFINE S == SUBSET Nat
  <2>1. sources \in Seq(S) /\ from \in S
    BY <1>3
  <2> HIDE DEF S
  <2>2. /\ Append(sources, from) \in [1..(n + 1) -> S] /\ Append(sources, from)[n + 1] = from
        /\ \A i \in 1..n : Append(sources, from)[i] = sources[i]
    BY <1>3, <2>1, OneMoreIn
  <2> QED BY <1>1, <1>2, <2>2 DEF d, S
<1>6. sources' \in Seq(SUBSET Nat) /\ Signal' = Signal \cup {d}
  <2>1. sources' \in Seq(SUBSET Nat)
    BY <1>1, <1>3, AppendProperties DEF BridgeInv, SignalsInv, SignalsShape
  <2> QED BY <1>2, <1>5, <2>1 DEF Signal
<1>7. /\ bucket' \in [Signal' -> Seq(Hearer)] /\ bucket'[d] = <<>>
      /\ \A s \in Signal : ToSet(bucket'[s]) = ToSet(bucket[s]) \cup (IF s \in from /\ from \cap aborted = {} THEN {d} ELSE {})
  <2>1. CASE from \cap aborted # {}
    <3> DEFINE S == Seq(Hearer)  x == <<>>  m == Append(bucket, <<>>)
    <3>0. /\ m \in [1..(n + 1) -> Seq(Hearer)] /\ m[n + 1] = <<>>
          /\ \A i \in 1..n : m[i] = bucket[i]
      <4>1. bucket \in Seq(S) /\ Len(bucket) = n /\ x \in S /\ m = Append(bucket, x)
        BY <1>2, <1>3, <1>4, EmptySeq
      <4> HIDE DEF S, x, m
      <4>2. m \in [1..(n + 1) -> S] /\ m[n + 1] = x /\ \A i \in 1..n : m[i] = bucket[i]
        BY <4>1, OneMoreIn
      <4> QED BY <4>2 DEF S, x
    <3>1. /\ bucket' \in [1..(n + 1) -> Seq(Hearer)] /\ bucket'[n + 1] = <<>>
          /\ \A i \in 1..n : bucket'[i] = bucket[i]
      BY <1>1, <2>1, <3>0
    <3> QED BY <1>2, <1>6, <2>1, <3>1 DEF d
  <2>2. CASE from \cap aborted = {}
    <3> DEFINE S == Seq(Hearer)  x == <<>>  m == Append(B, <<>>)
    <3>0. /\ m \in [1..(n + 1) -> Seq(Hearer)] /\ m[n + 1] = <<>>
          /\ \A i \in 1..n : m[i] = B[i]
      <4>1. B \in Seq(S) /\ Len(B) = n /\ x \in S /\ m = Append(B, x)
        BY <1>2, <1>3, <1>4, EmptySeq
      <4> HIDE DEF S, x, m
      <4>2. m \in [1..(n + 1) -> S] /\ m[n + 1] = x /\ \A i \in 1..n : m[i] = B[i]
        BY <4>1, OneMoreIn
      <4> QED BY <4>2 DEF S, x
    <3>1. /\ bucket' \in [1..(n + 1) -> Seq(Hearer)] /\ bucket'[n + 1] = <<>>
          /\ \A i \in 1..n : bucket'[i] = B[i]
      BY <1>1, <2>2, <3>0
    <3> QED BY <1>2, <1>4, <1>6, <2>2, <3>1 DEF d
  <2> QED BY <2>1, <2>2
<1>8. /\ fired' \in [Signal' -> Nat] /\ fired'[d] = (IF from \cap aborted = {} THEN 0 ELSE 1)
      /\ \A s \in Signal : fired'[s] = fired[s]
  <2>1. CASE from \cap aborted # {}
    <3> DEFINE S == Nat  x == 1  m == Append(fired, 1)
    <3>0. /\ m \in [1..(n + 1) -> Nat] /\ m[n + 1] = 1
          /\ \A i \in 1..n : m[i] = fired[i]
      <4>1. fired \in Seq(S) /\ Len(fired) = n /\ x \in S /\ m = Append(fired, x)
        BY <1>2, <1>3, <1>4, EmptySeq
      <4> HIDE DEF S, x, m
      <4>2. m \in [1..(n + 1) -> S] /\ m[n + 1] = x /\ \A i \in 1..n : m[i] = fired[i]
        BY <4>1, OneMoreIn
      <4> QED BY <4>2 DEF S, x
    <3>1. /\ fired' \in [1..(n + 1) -> Nat] /\ fired'[n + 1] = 1
          /\ \A i \in 1..n : fired'[i] = fired[i]
      BY <1>1, <2>1, <3>0
    <3> QED BY <1>2, <1>6, <2>1, <3>1 DEF d
  <2>2. CASE from \cap aborted = {}
    <3> DEFINE S == Nat  x == 0  m == Append(fired, 0)
    <3>0. /\ m \in [1..(n + 1) -> Nat] /\ m[n + 1] = 0
          /\ \A i \in 1..n : m[i] = fired[i]
      <4>1. fired \in Seq(S) /\ Len(fired) = n /\ x \in S /\ m = Append(fired, x)
        BY <1>2, <1>3, <1>4, EmptySeq
      <4> HIDE DEF S, x, m
      <4>2. m \in [1..(n + 1) -> S] /\ m[n + 1] = x /\ \A i \in 1..n : m[i] = fired[i]
        BY <4>1, OneMoreIn
      <4> QED BY <4>2 DEF S, x
    <3>1. /\ fired' \in [1..(n + 1) -> Nat] /\ fired'[n + 1] = 0
          /\ \A i \in 1..n : fired'[i] = fired[i]
      BY <1>1, <2>2, <3>0
    <3> QED BY <1>2, <1>6, <2>2, <3>1 DEF d
  <2> QED BY <2>1, <2>2
<1>9. aborted' = aborted \cup (IF from \cap aborted = {} THEN {} ELSE {d})
  BY <1>1
<1>10. pending' = pending /\ ToSet(pending) = {}
  BY <1>1, NobodyWaits
<1>11. SignalsShape'
  BY <1>1, <1>6, <1>7, <1>8, <1>9 DEF BridgeInv, SignalsInv, SignalsShape
<1>12. \A s \in Signal : ToSet(bucket[s]) \subseteq Signal \cup HostCall /\ sources[s] \subseteq Signal
  BY DEF BridgeInv, SignalsInv, SignalsWired
<1>13. d \notin HostCall /\ ToSet(bucket'[d]) = {}
  BY <1>2, <1>7, CallBoundAssumption, EmptyToSet
<1>14. SignalsWired'
  <2>1. \A e \in Signal' : sources'[e] \subseteq Signal'
    BY <1>5, <1>6, <1>12
  <2>2. ASSUME NEW s \in Signal', NEW e \in Signal', e \in ToSet(bucket'[s]) PROVE s \in sources'[e]
    <3>1. s \in Signal
      BY <1>6, <1>13, <2>2
    <3>2. CASE e = d
      <4>1. d \notin ToSet(bucket[s])
        BY <1>2, <1>12, <1>13, <3>1
      <4> QED BY <1>5, <1>7, <2>2, <3>1, <3>2, <4>1
    <3>3. CASE e # d
      <4>1. e \in Signal /\ e \in ToSet(bucket[s])
        BY <1>6, <1>7, <2>2, <3>1, <3>3
      <4> QED BY <1>5, <3>1, <4>1 DEF BridgeInv, SignalsInv, SignalsWired
    <3> QED BY <3>2, <3>3
  <2>3. \A s \in Signal' : ToSet(bucket'[s]) \subseteq Signal' \cup HostCall
    BY <1>6, <1>7, <1>12, <1>13
  <2>4. ToSet(pending') = {}
    BY <1>10
  <2> QED BY <2>1, <2>2, <2>3, <2>4 DEF SignalsWired
<1>15. AbortsPass'
  <2>1. \A s \in Signal' : fired'[s] = IF s \in aborted' THEN 1 ELSE 0
    BY <1>2, <1>3, <1>6, <1>8, <1>9 DEF BridgeInv, SignalsInv, AbortsPass
  <2>2. ASSUME NEW e \in Signal', e \notin aborted', NEW s \in sources'[e]
        PROVE  IF s \in aborted' THEN e \in ToSet(pending') ELSE e \in ToSet(bucket'[s])
    <3>1. CASE e = d
      <4>1. from \cap aborted = {} /\ s \in from /\ s \in Signal
        BY <1>5, <1>9, <2>2, <3>1
      <4> QED BY <1>7, <1>9, <3>1, <4>1
    <3>2. CASE e # d
      <4>1. e \in Signal /\ e \notin aborted /\ s \in sources[e] /\ s \in Signal /\ s # d
        BY <1>2, <1>5, <1>6, <1>9, <1>12, <2>2, <3>2
      <4>2. IF s \in aborted THEN e \in ToSet(pending) ELSE e \in ToSet(bucket[s])
        BY <4>1 DEF BridgeInv, SignalsInv, AbortsPass
      <4> QED BY <1>7, <1>9, <1>10, <4>1, <4>2
    <3> QED BY <3>1, <3>2
  <2>3. ASSUME NEW e \in aborted', sources'[e] # {} PROVE sources'[e] \cap aborted' # {}
    <3>1. CASE e = d
      <4>1. from \cap aborted # {}
        BY <1>2, <1>3, <1>9, <2>3, <3>1
      <4> QED BY <1>5, <1>9, <3>1, <4>1
    <3>2. CASE e # d
      <4>1. e \in aborted /\ e \in Signal /\ sources'[e] = sources[e]
        BY <1>3, <1>5, <1>9, <2>3, <3>2
      <4>2. sources[e] \cap aborted # {}
        BY <2>3, <4>1 DEF BridgeInv, SignalsInv, AbortsPass
      <4> QED BY <1>9, <4>1, <4>2
    <3> QED BY <3>1, <3>2
  <2> QED BY <2>1, <2>2, <2>3 DEF AbortsPass
<1>16. CallsShape'
  BY <1>1, <1>6 DEF BridgeInv, CallsShape
<1>17. FetchesHear'
  <2> SUFFICES ASSUME NEW c \in HostCall, UnderWay(c)
               PROVE  IF hostCall[c].signal \in aborted' THEN hostCall[c].aborted \/ c \in ToSet(pending')
                      ELSE c \in ToSet(bucket'[hostCall[c].signal])
    BY <1>1 DEF FetchesHear, UnderWay, IsFetch
  <2>1. hostCall[c].signal \in Signal
    BY DEF BridgeInv, CallsShape, UnderWay, IsFetch
  <2> DEFINE x == hostCall[c].signal
  <2>2. IF x \in aborted THEN hostCall[c].aborted \/ c \in ToSet(pending) ELSE c \in ToSet(bucket[x])
    BY DEF BridgeInv, FetchesHear
  <2> HIDE DEF x
  <2>3. x \in Signal /\ (x \in aborted' <=> x \in aborted)
    BY <1>2, <1>9, <2>1 DEF x
  <2> QED BY <1>7, <1>10, <2>2, <2>3 DEF x
<1>18. TornDown'
  <2>1. \A c \in HostCall : UnderWay(c)' <=> UnderWay(c)
    BY <1>1 DEF UnderWay, IsFetch
  <2> QED BY <1>1, <2>1 DEF BridgeInv, TornDown
<1> QED BY <1>1, <1>11, <1>14, <1>15, <1>16, <1>17, <1>18, KeysStay, ModulesStay DEF BridgeInv, SignalsInv

\* Signal l dispatches: who has yet to hear of it, R, is in line before the
\* step too, and l itself is the only one to leave.
LEMMA DispatchKeeps ==
    ASSUME BridgeInv, NEW l \in Signal, NEW R, SignalAbort(l),
           sources[l] = {} \/ sources[l] \cap aborted # {},
           bucket' \in [Signal -> Seq(Hearer)],
           \A s \in Signal : ToSet(bucket'[s]) \subseteq ToSet(bucket[s]),
           \A s \in Signal : \A x \in ToSet(bucket[s]) : x # l => x \in ToSet(bucket'[s]),
           pending' \in Seq(Hearer), ToSet(pending') = ToSet(Listeners(l)) \cup R,
           R \subseteq ToSet(pending), ToSet(pending) \subseteq R \cup {l},
           UNCHANGED <<sources, hostCall>>
    PROVE  SignalsInv' /\ FetchesHear'
<1>1. /\ fired \in [Signal -> Nat] /\ aborted \subseteq Signal
      /\ \A s \in Signal : fired[s] = IF s \in aborted THEN 1 ELSE 0
  BY DEF BridgeInv, SignalsInv, SignalsShape, AbortsPass
<1>2. /\ aborted' = aborted \cup {l} /\ fired' \in [Signal -> Nat]
      /\ \A s \in Signal : fired'[s] = IF s \in aborted' THEN 1 ELSE 0
  <2>1. CASE l \in aborted
    BY <1>1, <2>1 DEF SignalAbort
  <2>2. CASE l \notin aborted
    <3>1. aborted' = aborted \cup {l} /\ fired' = [fired EXCEPT ![l] = @ + 1]
      BY <2>2 DEF SignalAbort
    <3> QED BY <1>1, <2>2, <3>1
  <2> QED BY <2>1, <2>2
<1>3. Signal' = Signal
  BY DEF Signal
<1> DEFINE H == ToSet(Listeners(l))  P == ToSet(pending)  Q == ToSet(pending')
<1>4. H = IF l \in aborted THEN {} ELSE ToSet(bucket[l])
  BY EmptyToSet DEF Listeners
<1>5. Q = H \cup R /\ R \subseteq P /\ P \subseteq R \cup {l}
  OBVIOUS
<1>6. /\ P \subseteq Signal \cup HostCall
      /\ \A s \in Signal : sources[s] \subseteq Signal /\ ToSet(bucket[s]) \subseteq Signal \cup HostCall
      /\ \A s, d \in Signal : d \in ToSet(bucket[s]) => s \in sources[d]
      /\ \A d \in Signal : d \in P => sources[d] \cap aborted # {}
  BY DEF BridgeInv, SignalsInv, SignalsWired
<1>7. /\ \A d \in Signal : d \notin aborted =>
           \A s \in sources[d] : IF s \in aborted THEN d \in P ELSE d \in ToSet(bucket[s])
      /\ \A d \in aborted : sources[d] # {} => sources[d] \cap aborted # {}
  BY DEF BridgeInv, SignalsInv, AbortsPass
<1> HIDE DEF H, P, Q
<1>8. SignalsShape'
  BY <1>1, <1>2, <1>3 DEF BridgeInv, SignalsInv, SignalsShape
<1>9. SignalsWired'
  <2>1. Q \subseteq Signal \cup HostCall
    BY <1>4, <1>5, <1>6
  <2>2. ASSUME NEW d \in Signal, d \in Q PROVE sources[d] \cap aborted' # {}
    <3>1. CASE d \in H
      <4>1. l \in sources[d]
        BY <1>4, <1>6, <3>1
      <4> QED BY <1>2, <4>1
    <3>2. CASE d \in R
      BY <1>2, <1>5, <1>6, <3>2
    <3> QED BY <1>5, <2>2, <3>1, <3>2
  <2>3. \A s, d \in Signal : d \in ToSet(bucket'[s]) => s \in sources[d]
    BY <1>6
  <2>4. \A s \in Signal : ToSet(bucket'[s]) \subseteq Signal \cup HostCall
    BY <1>6
  <2> QED BY <1>3, <1>6, <2>1, <2>2, <2>3, <2>4 DEF SignalsWired, Q
<1>10. AbortsPass'
  <2>1. ASSUME NEW d \in Signal, d \notin aborted', NEW s \in sources[d]
        PROVE  IF s \in aborted' THEN d \in Q ELSE d \in ToSet(bucket'[s])
    <3>1. d # l /\ d \notin aborted /\ s \in Signal
      BY <1>2, <1>6, <2>1
    <3>2. IF s \in aborted THEN d \in P ELSE d \in ToSet(bucket[s])
      BY <1>7, <3>1
    <3> QED BY <1>2, <1>4, <1>5, <3>1, <3>2
  <2>2. ASSUME NEW d \in aborted', sources[d] # {} PROVE sources[d] \cap aborted' # {}
    BY <1>2, <1>7, <2>2
  <2> QED BY <1>2, <1>3, <2>1, <2>2 DEF AbortsPass, Q
<1>11. FetchesHear'
  <2> SUFFICES ASSUME NEW c \in HostCall, UnderWay(c)
               PROVE  IF hostCall[c].signal \in aborted' THEN hostCall[c].aborted \/ c \in Q
                      ELSE c \in ToSet(bucket'[hostCall[c].signal])
    BY DEF FetchesHear, UnderWay, IsFetch, Q
  <2> DEFINE x == hostCall[c].signal
  <2>1. x \in Signal /\ c # l
    BY CallsAreNoSignals DEF BridgeInv, SignalsInv, CallsShape, UnderWay, IsFetch
  <2>2. IF x \in aborted THEN hostCall[c].aborted \/ c \in P ELSE c \in ToSet(bucket[x])
    BY DEF BridgeInv, FetchesHear, P
  <2> HIDE DEF x
  <2>3. IF x \in aborted' THEN hostCall[c].aborted \/ c \in Q ELSE c \in ToSet(bucket'[x])
    BY <1>2, <1>4, <1>5, <2>1, <2>2
  <2> QED BY <2>3 DEF x
<1> QED BY <1>8, <1>9, <1>10, <1>11 DEF SignalsInv

LEMMA AbortKeeps ==
    ASSUME BridgeInv, NEW s \in Signal, Abort(s)
    PROVE  BridgeInv'
<1>1. /\ pending = <<>> /\ lifetime # "gone" /\ sources[s] = {} /\ SignalAbort(s) /\ pending' = Listeners(s)
      /\ UNCHANGED <<sources, bucket, used, hostCall, keyVars, moduleVars, lifetime>>
  BY DEF Abort, InProduct
<1>2. bucket \in [Signal -> Seq(Hearer)]
  BY DEF BridgeInv, SignalsInv, SignalsShape
<1>3. pending' \in Seq(Hearer)
  BY <1>1, <1>2, EmptySeq DEF Listeners
<1>4. ToSet(pending) = {}
  BY <1>1, NobodyWaits
<1>5. ToSet(pending') = ToSet(Listeners(s)) \cup {}
  BY <1>1
<1>6. SignalsInv' /\ FetchesHear'
  BY <1>1, <1>2, <1>3, <1>4, <1>5, DispatchKeeps
<1>7. CallsShape' /\ TornDown'
  <2>1. \A c \in HostCall : UnderWay(c)' <=> UnderWay(c)
    BY <1>1 DEF UnderWay, IsFetch
  <2> QED BY <1>1, <2>1 DEF BridgeInv, CallsShape, Signal, TornDown
<1> QED BY <1>1, <1>6, <1>7, KeysStay, ModulesStay DEF BridgeInv

LEMMA NextListenerKeeps ==
    ASSUME BridgeInv, NextListener
    PROVE  BridgeInv'
<1> DEFINE l == Head(pending)  t == Tail(pending)
<1>1. pending # <<>> /\ UNCHANGED <<sources, used, keyVars, moduleVars, lifetime>>
  BY DEF NextListener
<1>2. lifetime # "gone"
  BY <1>1 DEF BridgeInv, TornDown
<1>3. pending \in Seq(Hearer) /\ bucket \in [Signal -> Seq(Hearer)]
  BY DEF BridgeInv, SignalsInv, SignalsShape
<1>4. t \in Seq(Hearer) /\ ToSet(pending) = {l} \cup ToSet(t)
  BY <1>1, <1>3, HeadAndTail
<1>5. l \in Signal \cup HostCall
  BY <1>4 DEF BridgeInv, SignalsInv, SignalsWired
<1>6. Signal' = Signal
  BY <1>1 DEF Signal
<1>7. CASE l \in HostCall
  <2>1. /\ hostCall' = [hostCall EXCEPT ![l].aborted = TRUE] /\ pending' = t
        /\ UNCHANGED <<bucket, aborted, fired>>
    BY <1>7 DEF NextListener
  <2>2. l \notin Signal
    BY <1>7, CallsAreNoSignals DEF BridgeInv, SignalsInv
  <2> HIDE DEF l, t
  <2>3. hostCall \in [HostCall -> HostCallRecord]
    BY DEF BridgeInv, CallsShape
  <2>4. /\ hostCall' \in [HostCall -> HostCallRecord] /\ hostCall'[l].aborted
        /\ \A c \in HostCall : /\ hostCall'[c].signal = hostCall[c].signal /\ hostCall'[c].stage = hostCall[c].stage
                               /\ hostCall'[c].late = hostCall[c].late
        /\ \A c \in HostCall : c # l => hostCall'[c].aborted = hostCall[c].aborted
    BY <1>7, <2>1, <2>3 DEF HostCallRecord
  <2>5. \A x : x \in ToSet(pending) /\ x # l => x \in ToSet(pending')
    BY <1>4, <2>1
  <2>6. SignalsShape'
    BY <1>1, <1>4, <1>6, <2>1 DEF BridgeInv, SignalsInv, SignalsShape
  <2>7. SignalsWired'
    BY <1>1, <1>4, <1>6, <2>1 DEF BridgeInv, SignalsInv, SignalsWired
  <2>8. \A d \in Signal : d \in ToSet(pending) => d \in ToSet(pending')
    BY <2>2, <2>5
  <2>9. AbortsPass'
    BY <1>1, <1>6, <2>1, <2>8 DEF BridgeInv, SignalsInv, AbortsPass
  <2>10. FetchesHear'
    <3> SUFFICES ASSUME NEW c \in HostCall, UnderWay(c)'
                 PROVE  IF hostCall[c].signal \in aborted THEN hostCall'[c].aborted \/ c \in ToSet(pending')
                        ELSE c \in ToSet(bucket[hostCall[c].signal])
      BY <2>1, <2>4 DEF FetchesHear
    <3>1. UnderWay(c)
      BY <2>4 DEF UnderWay, IsFetch
    <3> QED BY <2>4, <2>5, <3>1 DEF BridgeInv, FetchesHear
  <2>11. CallsShape'
    BY <1>1, <1>6, <2>4 DEF BridgeInv, CallsShape
  <2>12. KeysShape' /\ KeysOutliveTheirWrappers'
    BY <1>1, <2>4 DEF BridgeInv, KeysShape, KeysOutliveTheirWrappers, keyVars
  <2>13. TornDown'
    <3>1. \A c \in HostCall : /\ UnderWay(c)' => UnderWay(c)
                              /\ hostCall[c].aborted => hostCall'[c].aborted
      BY <2>4 DEF UnderWay, IsFetch
    <3> QED BY <1>1, <1>2, <2>4, <3>1 DEF BridgeInv, TornDown
  <2> QED BY <1>1, <2>6, <2>7, <2>9, <2>10, <2>11, <2>12, <2>13, ModulesStay DEF BridgeInv, SignalsInv
<1>8. CASE l \notin HostCall
  <2>1. /\ bucket' = [s \in Signal |-> RemoveFirst(bucket[s], l)]
        /\ SignalAbort(l) /\ pending' = Listeners(l) \o t /\ UNCHANGED hostCall
    BY <1>8 DEF NextListener
  <2>2. l \in Signal
    BY <1>5, <1>8
  <2>3. sources[l] = {} \/ sources[l] \cap aborted # {}
    BY <1>4, <2>2 DEF BridgeInv, SignalsInv, SignalsWired
  <2> HIDE DEF l, t
  <2>4. \A s \in Signal : /\ bucket'[s] \in Seq(Hearer) /\ ToSet(bucket'[s]) \subseteq ToSet(bucket[s])
                          /\ \A x \in ToSet(bucket[s]) : x # l => x \in ToSet(bucket'[s])
    <3> SUFFICES ASSUME NEW s \in Signal
                 PROVE  /\ bucket'[s] \in Seq(Hearer) /\ ToSet(bucket'[s]) \subseteq ToSet(bucket[s])
                        /\ \A x \in ToSet(bucket[s]) : x # l => x \in ToSet(bucket'[s])
      OBVIOUS
    <3>1. bucket[s] \in Seq(Hearer) /\ bucket'[s] = RemoveFirst(bucket[s], l)
      BY <1>3, <2>1
    <3> DEFINE b == bucket[s]
    <3> HIDE DEF b
    <3>2. b \in Seq(Hearer) /\ bucket'[s] = RemoveFirst(b, l)
      BY <3>1 DEF b
    <3>3. /\ RemoveFirst(b, l) \in Seq(Hearer) /\ ToSet(RemoveFirst(b, l)) \subseteq ToSet(b)
          /\ \A x \in ToSet(b) : x # l => x \in ToSet(RemoveFirst(b, l))
      BY <3>2, RemovedListener
    <3> QED BY <3>2, <3>3 DEF b
  <2>5. bucket' \in [Signal -> Seq(Hearer)]
    BY <2>1, <2>4
  <2>6. Listeners(l) \in Seq(Hearer)
    BY <1>3, <2>2, EmptySeq DEF Listeners
  <2>7. pending' \in Seq(Hearer) /\ ToSet(pending') = ToSet(Listeners(l)) \cup ToSet(t)
    BY <1>4, <2>1, <2>6, ConcatSets
  <2> DEFINE R == ToSet(t)
  <2>8. R \subseteq ToSet(pending) /\ ToSet(pending) \subseteq R \cup {l} /\ ToSet(pending') = ToSet(Listeners(l)) \cup R
    BY <1>4, <2>7
  <2> HIDE DEF R
  <2>9. SignalsInv' /\ FetchesHear'
    BY <1>1, <2>1, <2>2, <2>3, <2>4, <2>5, <2>7, <2>8, DispatchKeeps
  <2>10. CallsShape' /\ TornDown'
    <3>1. \A c \in HostCall : UnderWay(c)' <=> UnderWay(c)
      BY <2>1 DEF UnderWay, IsFetch
    <3> QED BY <1>1, <1>2, <1>6, <2>1, <3>1 DEF BridgeInv, CallsShape, TornDown
  <2> QED BY <1>1, <2>1, <2>9, <2>10, KeysStay, ModulesStay DEF BridgeInv
<1> QED BY <1>7, <1>8

\* A host call moves on and hears of no abort.
LEMMA OneCallMoves ==
    ASSUME BridgeInv, NEW c \in HostCall, NEW x \in HostCallRecord, hostCall' = [hostCall EXCEPT ![c] = x],
           x.signal = hostCall[c].signal, x.aborted = hostCall[c].aborted,
           x.late = hostCall[c].late \/ hostCall[c].signal = 0,
           x.stage = "inflight" /\ x.signal # 0 => hostCall[c].stage = "inflight",
           used' \subseteq Body, UNCHANGED <<signalVars, lifetime>>
    PROVE  SignalsInv' /\ CallsShape' /\ FetchesHear' /\ TornDown'
<1>1. SignalsInv' /\ Signal' = Signal /\ UNCHANGED <<bucket, aborted, pending>>
  BY SignalsStay DEF BridgeInv, signalVars, Signal
<1>2. hostCall \in [HostCall -> HostCallRecord]
  BY DEF BridgeInv, CallsShape
<1>3. /\ hostCall' \in [HostCall -> HostCallRecord] /\ hostCall'[c] = x
      /\ \A e \in HostCall : e # c => hostCall'[e] = hostCall[e]
  BY <1>2
<1>4. \A e \in HostCall : /\ hostCall'[e].signal = hostCall[e].signal /\ hostCall'[e].aborted = hostCall[e].aborted
                          /\ UnderWay(e)' => UnderWay(e) /\ hostCall'[e].late = hostCall[e].late
  BY <1>3 DEF UnderWay, IsFetch
<1>5. CallsShape'
  BY <1>1, <1>3, <1>4 DEF BridgeInv, CallsShape
<1>6. FetchesHear'
  BY <1>1, <1>4 DEF BridgeInv, FetchesHear
<1>7. TornDown'
  BY <1>1, <1>4 DEF BridgeInv, TornDown
<1> QED BY <1>1, <1>5, <1>6, <1>7

LEMMA FetchKeeps ==
    ASSUME BridgeInv, NEW c \in HostCall, NEW s \in Signal, NEW b \in Body, NEW fits \in BOOLEAN, Fetch(c, s, b, fits)
    PROVE  BridgeInv'
<1>1. /\ pending = <<>> /\ lifetime # "gone" /\ hostCall[c] = NewCall
      /\ UNCHANGED <<sources, aborted, fired, pending, keyVars, moduleVars, lifetime>>
  BY DEF Fetch, InProduct
<1>2. hostCall \in [HostCall -> HostCallRecord] /\ used \subseteq Body
  BY DEF BridgeInv, CallsShape
<1>3. CASE Refused(c, s, b) \/ ~fits
  <2> DEFINE x == [NewCall EXCEPT !.stage = "settled"]
  <2>1. UNCHANGED bucket /\ used' \subseteq Body /\ hostCall' = [hostCall EXCEPT ![c] = x]
    BY <1>1, <1>2, <1>3 DEF Fetch
  <2>2. /\ x \in HostCallRecord /\ x.signal = hostCall[c].signal /\ x.aborted = hostCall[c].aborted /\ x.stage = "settled"
        /\ x.late = hostCall[c].late
    BY <1>1 DEF NewCall, HostCallRecord
  <2> HIDE DEF x
  <2>3. SignalsInv' /\ CallsShape' /\ FetchesHear' /\ TornDown'
    BY <1>1, <2>1, <2>2, OneCallMoves DEF signalVars
  <2>4. KeysShape' /\ KeysOutliveTheirWrappers'
    BY <1>1, <1>2, <2>1, <2>2 DEF BridgeInv, KeysShape, KeysOutliveTheirWrappers, keyVars
  <2> QED BY <1>1, <2>3, <2>4, ModulesStay DEF BridgeInv
<1>4. CASE ~Refused(c, s, b) /\ fits
  <2> DEFINE x == [NewCall EXCEPT !.stage = "inflight", !.signal = s, !.late = (lifetime = "closing")]
  <2>1. /\ used' = used \cup {b} /\ bucket' = [bucket EXCEPT ![s] = Append(@, c)]
        /\ hostCall' = [hostCall EXCEPT ![c] = x] /\ s \notin aborted
    BY <1>1, <1>4 DEF Fetch, Refused
  <2>2. s \in Nat /\ c \in Hearer /\ c \notin Signal
    BY SignalNumbers, CallsAreNoSignals DEF BridgeInv, SignalsInv, Hearer
  <2>3. x \in HostCallRecord /\ x.signal = s /\ x.stage = "inflight" /\ x.late = (lifetime = "closing")
    BY <2>2 DEF NewCall, HostCallRecord
  <2> HIDE DEF x
  <2>4. /\ hostCall' \in [HostCall -> HostCallRecord] /\ hostCall'[c] = x
        /\ \A e \in HostCall : e # c => hostCall'[e] = hostCall[e]
    BY <1>2, <2>1, <2>3
  <2>5. bucket \in [Signal -> Seq(Hearer)]
    BY DEF BridgeInv, SignalsInv, SignalsShape
  <2>6. Append(bucket[s], c) \in Seq(Hearer) /\ ToSet(Append(bucket[s], c)) = ToSet(bucket[s]) \cup {c}
    BY <2>2, <2>5, JoinedList
  <2>7. /\ bucket' \in [Signal -> Seq(Hearer)]
        /\ \A e \in Signal : ToSet(bucket'[e]) = ToSet(bucket[e]) \cup (IF e = s THEN {c} ELSE {})
    BY <2>1, <2>5, <2>6
  <2>8. Signal' = Signal
    BY <1>1 DEF Signal
  <2>9. SignalsShape'
    BY <1>1, <2>7, <2>8 DEF BridgeInv, SignalsInv, SignalsShape
  <2>10. SignalsWired'
    <3>1. \A e, d \in Signal : d \in ToSet(bucket'[e]) => e \in sources[d]
      BY <2>2, <2>7 DEF BridgeInv, SignalsInv, SignalsWired
    <3>2. \A e \in Signal : ToSet(bucket'[e]) \subseteq Signal \cup HostCall
      BY <2>7 DEF BridgeInv, SignalsInv, SignalsWired
    <3> QED BY <1>1, <2>8, <3>1, <3>2 DEF BridgeInv, SignalsInv, SignalsWired
  <2>11. AbortsPass'
    <3>1. \A e \in Signal : ToSet(bucket[e]) \subseteq ToSet(bucket'[e])
      BY <2>7
    <3>2. \A d \in Signal : sources[d] \subseteq Signal
      BY DEF BridgeInv, SignalsInv, SignalsWired
    <3> QED BY <1>1, <2>8, <3>1, <3>2 DEF BridgeInv, SignalsInv, AbortsPass
  <2>12. FetchesHear'
    <3> SUFFICES ASSUME NEW e \in HostCall, UnderWay(e)'
                 PROVE  IF hostCall'[e].signal \in aborted THEN hostCall'[e].aborted \/ e \in ToSet(pending)
                        ELSE e \in ToSet(bucket'[hostCall'[e].signal])
      BY <1>1 DEF FetchesHear
    <3>1. CASE e = c
      BY <2>1, <2>3, <2>4, <2>7, <3>1
    <3>2. CASE e # c
      <4>1. UnderWay(e) /\ hostCall'[e] = hostCall[e]
        BY <2>4, <3>2 DEF UnderWay, IsFetch
      <4>2. hostCall[e].signal \in Signal
        BY <4>1 DEF BridgeInv, CallsShape, UnderWay, IsFetch
      <4> QED BY <2>7, <4>1, <4>2 DEF BridgeInv, FetchesHear
    <3> QED BY <3>1, <3>2
  <2>13. CallsShape'
    <3>1. \A e \in HostCall : hostCall'[e].signal \in Signal \cup {0}
      BY <2>3, <2>4 DEF BridgeInv, CallsShape
    <3> QED BY <1>1, <1>2, <2>1, <2>4, <2>8, <3>1 DEF BridgeInv, CallsShape
  <2>14. KeysShape' /\ KeysOutliveTheirWrappers'
    BY <1>1, <2>3, <2>4 DEF BridgeInv, KeysShape, KeysOutliveTheirWrappers, keyVars
  <2>15. TornDown'
    <3>1. lifetime \in {"open", "closing"} /\ UNCHANGED <<lifetime, pending>>
      BY <1>1 DEF BridgeInv, CallsShape
    <3>2. ASSUME NEW e \in HostCall, UnderWay(e)', lifetime # "open" PROVE hostCall'[e].aborted \/ hostCall'[e].late
      <4>1. CASE e = c
        BY <2>3, <2>4, <3>1, <3>2, <4>1
      <4>2. CASE e # c
        <5>1. UnderWay(e) /\ hostCall'[e] = hostCall[e]
          BY <2>4, <3>2, <4>2 DEF UnderWay, IsFetch
        <5> QED BY <3>2, <5>1 DEF BridgeInv, TornDown
      <4> QED BY <4>1, <4>2
    <3> QED BY <1>1, <3>1, <3>2 DEF TornDown
  <2> QED BY <1>1, <2>9, <2>10, <2>11, <2>12, <2>13, <2>14, <2>15, ModulesStay DEF BridgeInv, SignalsInv
<1> QED BY <1>3, <1>4

LEMMA SubtleKeeps ==
    ASSUME BridgeInv, NEW c \in HostCall, NEW k \in wrappers \cup {0}, Subtle(c, k)
    PROVE  BridgeInv'
<1>1. /\ lifetime # "gone" /\ hostCall[c] = NewCall
      /\ UNCHANGED <<signalVars, used, keyVars, moduleVars, lifetime>>
  BY DEF Subtle, InProduct
<1>2. lifetime = "open" => k \in registry \cup {0}
  BY DEF BridgeInv, KeysOutliveTheirWrappers
<1>3. k \in Nat /\ lifetime \in {"open", "closing"}
  BY <1>1 DEF BridgeInv, KeysShape, CallsShape
<1> DEFINE st == IF k \in registry \cup {0} THEN "inflight" ELSE "unknown key"
           x == [NewCall EXCEPT !.stage = st, !.key = k, !.late = (lifetime = "closing")]
<1>4. hostCall' = [hostCall EXCEPT ![c] = x]
  BY <1>1 DEF Subtle, BridgeInv, CallsShape
<1>5. st \in {"inflight", "unknown key"} /\ (st = "unknown key" => lifetime = "closing")
  BY <1>2, <1>3
<1> HIDE DEF st
<1>6. /\ x \in HostCallRecord /\ x.signal = hostCall[c].signal /\ x.aborted = hostCall[c].aborted
      /\ x.signal = 0 /\ x.stage = st /\ x.late = (lifetime = "closing")
  BY <1>1, <1>3, <1>5 DEF NewCall, HostCallRecord
<1> HIDE DEF x
<1>7. used' \subseteq Body /\ hostCall \in [HostCall -> HostCallRecord]
  BY <1>1 DEF BridgeInv, CallsShape
<1>8. SignalsInv' /\ CallsShape' /\ FetchesHear' /\ TornDown'
  BY <1>1, <1>4, <1>6, <1>7, OneCallMoves
<1>9. KeysShape' /\ KeysOutliveTheirWrappers'
  BY <1>1, <1>4, <1>5, <1>6, <1>7 DEF BridgeInv, KeysShape, KeysOutliveTheirWrappers, keyVars
<1> QED BY <1>1, <1>8, <1>9, ModulesStay DEF BridgeInv

\* A stage alone changes, and not to one under way.
LEMMA StageMoves ==
    ASSUME BridgeInv, NEW c \in HostCall, NEW st \in {"answered", "settled", "dropped"},
           hostCall' = [hostCall EXCEPT ![c].stage = st], UNCHANGED <<signalVars, used, lifetime>>
    PROVE  /\ SignalsInv' /\ CallsShape' /\ FetchesHear' /\ TornDown'
           /\ \A e \in HostCall : hostCall'[e].stage = "unknown key" => hostCall'[e].late
<1> DEFINE x == [hostCall[c] EXCEPT !.stage = st]
<1>1. hostCall \in [HostCall -> HostCallRecord] /\ used' \subseteq Body
  BY DEF BridgeInv, CallsShape
<1>2. hostCall' = [hostCall EXCEPT ![c] = x]
  BY <1>1
<1>3. /\ x \in HostCallRecord /\ x.signal = hostCall[c].signal /\ x.aborted = hostCall[c].aborted /\ x.stage = st
      /\ x.late = hostCall[c].late
  BY <1>1 DEF HostCallRecord
<1> HIDE DEF x
<1>4. SignalsInv' /\ CallsShape' /\ FetchesHear' /\ TornDown'
  BY <1>1, <1>2, <1>3, OneCallMoves
<1>5. \A e \in HostCall : hostCall'[e].stage = "unknown key" => hostCall'[e].late
  BY <1>1, <1>2, <1>3 DEF BridgeInv, KeysOutliveTheirWrappers
<1> QED BY <1>4, <1>5

LEMMA AnswersKeep ==
    ASSUME BridgeInv, NEW c \in HostCall, (\E made \in BOOLEAN : HostAnswers(c, made)) \/ JobsRun(c)
    PROVE  BridgeInv'
<1>1. CASE JobsRun(c)
  <2>1. hostCall' = [hostCall EXCEPT ![c].stage = "settled"] /\ UNCHANGED <<signalVars, used, keyVars, moduleVars, lifetime>>
    BY <1>1 DEF JobsRun
  <2>2. /\ SignalsInv' /\ CallsShape' /\ FetchesHear' /\ TornDown'
        /\ \A e \in HostCall : hostCall'[e].stage = "unknown key" => hostCall'[e].late
    BY <2>1, StageMoves
  <2>3. KeysShape' /\ KeysOutliveTheirWrappers'
    BY <2>1, <2>2 DEF BridgeInv, KeysShape, KeysOutliveTheirWrappers, keyVars
  <2> QED BY <2>1, <2>2, <2>3, ModulesStay DEF BridgeInv
<1>2. ASSUME NEW made \in BOOLEAN, HostAnswers(c, made) PROVE BridgeInv'
  <2>1. UNCHANGED <<signalVars, used, moduleVars, lifetime>>
    BY <1>2 DEF HostAnswers
  <2>2. PICK st \in {"answered", "settled", "dropped"} : hostCall' = [hostCall EXCEPT ![c].stage = st]
    BY <1>2 DEF HostAnswers
  <2>3. /\ SignalsInv' /\ CallsShape' /\ FetchesHear' /\ TornDown'
        /\ \A e \in HostCall : hostCall'[e].stage = "unknown key" => hostCall'[e].late
    BY <2>1, <2>2, StageMoves
  <2>4. \/ UNCHANGED keyVars
        \/ keys' = keys + 1 /\ registry' = registry \cup {keys + 1} /\ wrappers' = wrappers \cup {keys + 1}
    BY <1>2 DEF HostAnswers
  <2>5. KeysShape'
    BY <2>4 DEF BridgeInv, KeysShape, keyVars
  <2>6. KeysOutliveTheirWrappers'
    BY <2>1, <2>3, <2>4 DEF BridgeInv, KeysOutliveTheirWrappers, keyVars
  <2> QED BY <2>1, <2>3, <2>5, <2>6, ModulesStay DEF BridgeInv
<1> QED BY <1>1, <1>2

LEMMA QuietKeeps ==
    ASSUME BridgeInv,
           \/ \E b \in Body : ReadBody(b)
           \/ \E k \in wrappers : Collected(k)
           \/ \E i \in Import : Imports(i)
           \/ \E src \in Source \cup {NoSource} : Resolves(src)
           \/ UNCHANGED bridgeVars
    PROVE  BridgeInv'
<1>1. UNCHANGED <<signalVars, hostCall, lifetime>> /\ used' \subseteq Body
  BY DEF ReadBody, Collected, Imports, Resolves, bridgeVars, BridgeInv, CallsShape
<1>2. SignalsInv'
  BY <1>1, SignalsStay DEF BridgeInv
<1>3. UNCHANGED <<sources, bucket, aborted, pending>>
  BY <1>1 DEF signalVars
<1>4. CallsShape' /\ FetchesHear' /\ TornDown'
  BY <1>1, <1>3 DEF BridgeInv, CallsShape, FetchesHear, TornDown, UnderWay, IsFetch, Signal
<1>5. \/ UNCHANGED keyVars
      \/ \E k \in wrappers : wrappers' = wrappers \ {k} /\ registry' = registry \ {k} /\ keys' = keys
  BY DEF ReadBody, Collected, Imports, Resolves, bridgeVars
<1>6. KeysShape'
  BY <1>5 DEF BridgeInv, KeysShape, keyVars
<1>7. KeysOutliveTheirWrappers'
  BY <1>1, <1>5 DEF BridgeInv, KeysOutliveTheirWrappers, keyVars
<1>8. ModulesShape'
  <2>1. CASE UNCHANGED moduleVars
    BY <2>1, ModulesStay DEF BridgeInv
  <2>2. CASE \E i \in Import : Imports(i)
    BY <2>2 DEF Imports, BridgeInv, ModulesShape
  <2>3. ASSUME NEW src \in Source \cup {NoSource}, Resolves(src) PROVE ModulesShape'
    <3>1. loading' = NoSource
          /\ (entries' = entries \/ entries' = [entries EXCEPT ![DefaultResolve(loading)] = src])
      BY <2>3 DEF Resolves
    <3> QED BY <3>1 DEF BridgeInv, ModulesShape
  <2> QED BY <2>1, <2>2, <2>3 DEF ReadBody, Collected, bridgeVars
<1> QED BY <1>2, <1>4, <1>6, <1>7, <1>8 DEF BridgeInv

LEMMA TearDownKeeps == ASSUME BridgeInv, TearDown PROVE BridgeInv'
<1>1. /\ pending = <<>> /\ lifetime' \in {"closing", "gone"} /\ registry' = {} /\ UNCHANGED <<signalVars, used, wrappers, keys, moduleVars>>
      /\ hostCall' = [c \in HostCall |-> IF IsFetch(c) /\ hostCall[c].stage = "inflight"
                                         THEN [hostCall[c] EXCEPT !.aborted = TRUE] ELSE hostCall[c]]
  BY DEF TearDown
<1>2. hostCall \in [HostCall -> HostCallRecord]
  BY DEF BridgeInv, CallsShape
<1>3. SignalsInv' /\ UNCHANGED <<sources, bucket, aborted, pending>>
  BY <1>1, SignalsStay DEF BridgeInv, signalVars
<1>4. ASSUME NEW c \in HostCall
      PROVE  /\ hostCall'[c] \in HostCallRecord /\ hostCall'[c].signal = hostCall[c].signal
             /\ hostCall'[c].stage = hostCall[c].stage /\ hostCall'[c].late = hostCall[c].late
             /\ UnderWay(c) => hostCall'[c].aborted
             /\ ~UnderWay(c) => hostCall'[c] = hostCall[c]
  BY <1>1, <1>2 DEF HostCallRecord, UnderWay
<1>5. \A c \in HostCall : UnderWay(c)' => UnderWay(c)
  BY <1>4 DEF UnderWay, IsFetch
<1>6. hostCall' \in [HostCall -> HostCallRecord]
  BY <1>1, <1>4
<1>7. CallsShape'
  BY <1>1, <1>3, <1>4, <1>6 DEF BridgeInv, CallsShape, Signal
<1>8. FetchesHear' /\ TornDown'
  <2>1. TornDown'
    BY <1>1, <1>3, <1>4, <1>5 DEF TornDown
  <2>2. FetchesHear'
    BY <1>3, <1>4, <1>5 DEF BridgeInv, FetchesHear
  <2> QED BY <2>1, <2>2
<1>9. KeysShape' /\ KeysOutliveTheirWrappers'
  BY <1>1, <1>4 DEF BridgeInv, KeysShape, KeysOutliveTheirWrappers
<1> QED BY <1>1, <1>3, <1>7, <1>8, <1>9, ModulesStay DEF BridgeInv

LEMMA FreedKeeps == ASSUME BridgeInv, VmFreed PROVE BridgeInv'
<1>1. pending = <<>> /\ lifetime = "closing" /\ lifetime' = "gone" /\ UNCHANGED <<signalVars, used, hostCall, keyVars, moduleVars>>
  BY DEF VmFreed
<1>2. SignalsInv' /\ UNCHANGED <<sources, bucket, aborted, pending>>
  BY <1>1, SignalsStay DEF BridgeInv, signalVars
<1>3. CallsShape' /\ FetchesHear' /\ TornDown'
  BY <1>1, <1>2 DEF BridgeInv, CallsShape, FetchesHear, TornDown, UnderWay, IsFetch, Signal
<1>4. KeysShape' /\ KeysOutliveTheirWrappers'
  BY <1>1 DEF BridgeInv, KeysShape, KeysOutliveTheirWrappers, keyVars
<1> QED BY <1>1, <1>2, <1>3, <1>4, ModulesStay DEF BridgeInv

LEMMA BridgeInitInv == BridgeInit => BridgeInv
<1> SUFFICES ASSUME BridgeInit PROVE BridgeInv
  OBVIOUS
<1>1. /\ sources = <<>> /\ bucket = <<>> /\ aborted = {} /\ fired = <<>> /\ pending = <<>>
      /\ used = {} /\ hostCall = [c \in HostCall |-> NewCall]
      /\ registry = {} /\ wrappers = {} /\ keys = 0
      /\ loading = NoSource /\ entries = [f \in File |-> NoSource] /\ lifetime = "open"
  BY DEF BridgeInit
<1>2. Signal = {}
  BY <1>1 DEF Signal
<1>3. ToSet(pending) = {}
  BY <1>1, NobodyWaits
<1>4. SignalsShape
  BY <1>1, <1>2, EmptySeq DEF SignalsShape
<1>5. SignalsWired /\ AbortsPass
  BY <1>1, <1>2, <1>3 DEF SignalsWired, AbortsPass
<1>6. NewCall \in HostCallRecord /\ NewCall.signal = 0 /\ NewCall.stage = "idle"
  BY DEF NewCall, HostCallRecord
<1>7. CallsShape /\ FetchesHear /\ TornDown
  BY <1>1, <1>2, <1>6 DEF CallsShape, FetchesHear, TornDown, UnderWay, IsFetch
<1>8. KeysShape /\ KeysOutliveTheirWrappers /\ ModulesShape
  BY <1>1, <1>6 DEF KeysShape, KeysOutliveTheirWrappers, ModulesShape
<1> QED BY <1>4, <1>5, <1>7, <1>8 DEF BridgeInv, SignalsInv

LEMMA BridgeStep ==
    ASSUME BridgeInv, [BridgeNext \/ ImportsNext]_bridgeVars
    PROVE  BridgeInv'
<1>1. ASSUME NEW from \in SUBSET Signal, MakeSignal(from) PROVE BridgeInv'
  BY <1>1, MakeSignalKeeps
<1>2. ASSUME NEW s \in Signal, Abort(s) PROVE BridgeInv'
  BY <1>2, AbortKeeps
<1>3. CASE NextListener
  BY <1>3, NextListenerKeeps
<1>4. ASSUME NEW c \in HostCall, NEW s \in Signal, NEW b \in Body, NEW fits \in BOOLEAN, Fetch(c, s, b, fits)
      PROVE  BridgeInv'
  BY <1>4, FetchKeeps
<1>5. ASSUME NEW c \in HostCall, NEW k \in wrappers \cup {0}, Subtle(c, k) PROVE BridgeInv'
  BY <1>5, SubtleKeeps
<1>6. ASSUME NEW c \in HostCall, (\E made \in BOOLEAN : HostAnswers(c, made)) \/ JobsRun(c) PROVE BridgeInv'
  BY <1>6, AnswersKeep
<1>7. CASE TearDown
  BY <1>7, TearDownKeeps
<1>9. CASE VmFreed
  BY <1>9, FreedKeeps
<1>8. CASE \/ \E b \in Body : ReadBody(b)
           \/ \E k \in wrappers : Collected(k)
           \/ \E i \in Import : Imports(i)
           \/ \E src \in Source \cup {NoSource} : Resolves(src)
           \/ UNCHANGED bridgeVars
  BY <1>8, QuietKeeps
<1> QED BY <1>1, <1>2, <1>3, <1>4, <1>5, <1>6, <1>7, <1>8, <1>9 DEF BridgeNext, ImportsNext

LEMMA BridgeInvImplies ==
    BridgeInv => /\ BridgeTypeOK /\ AbortReachesItsDependents /\ KeysOutliveTheirWrappers
                 /\ lifetime # "open" => \A c \in HostCall :
                      IsFetch(c) /\ hostCall[c].stage = "inflight" => hostCall[c].aborted \/ hostCall[c].late
<1> SUFFICES ASSUME BridgeInv
             PROVE  /\ BridgeTypeOK /\ AbortReachesItsDependents
                    /\ lifetime # "open" => \A c \in HostCall :
                      IsFetch(c) /\ hostCall[c].stage = "inflight" => hostCall[c].aborted \/ hostCall[c].late
  BY DEF BridgeInv
<1>1. BridgeTypeOK
  BY DEF BridgeInv, SignalsInv, SignalsShape, CallsShape, KeysShape, ModulesShape, BridgeTypeOK, HostCallRecord
<1>2. AbortReachesItsDependents
  <2>1. \A s \in Signal : fired[s] = IF s \in aborted THEN 1 ELSE 0
    BY DEF BridgeInv, SignalsInv, AbortsPass
  <2>2. ASSUME pending = <<>>, NEW d \in Signal, sources[d] # {} PROVE d \in aborted <=> sources[d] \cap aborted # {}
    <3>1. ToSet(pending) = {}
      BY <2>2, NobodyWaits
    <3> QED BY <2>2, <3>1 DEF BridgeInv, SignalsInv, AbortsPass
  <2>3. ASSUME pending = <<>>, NEW c \in HostCall, hostCall[c].stage = "inflight", hostCall[c].signal \in aborted
        PROVE  hostCall[c].aborted
    <3>1. ToSet(pending) = {}
      BY <2>3, NobodyWaits
    <3>2. UnderWay(c)
      BY <2>3, SignalNumbers DEF BridgeInv, SignalsInv, SignalsShape, UnderWay, IsFetch
    <3> QED BY <2>3, <3>1, <3>2 DEF BridgeInv, FetchesHear
  <2> QED BY <2>1, <2>2, <2>3 DEF AbortReachesItsDependents
<1>3. ASSUME lifetime # "open", NEW c \in HostCall, IsFetch(c), hostCall[c].stage = "inflight"
      PROVE  hostCall[c].aborted \/ hostCall[c].late
  BY <1>3 DEF BridgeInv, TornDown, UnderWay
<1> QED BY <1>1, <1>2, <1>3

\* Once dispose has begun no answer reaches product code.
LEMMA AnswersAreDropped ==
    ASSUME BridgeInv, BridgeNext \/ ImportsNext, lifetime # "open", NEW e \in HostCall
    PROVE  hostCall'[e].stage # "answered" \/ hostCall[e].stage = "answered"
<1>1. hostCall \in [HostCall -> HostCallRecord] /\ lifetime \in {"closing", "gone"}
  BY DEF BridgeInv, CallsShape
<1>2. CASE NextListener
  <2> DEFINE l == Head(pending)
  <2>1. \/ hostCall' = hostCall
        \/ hostCall' = [hostCall EXCEPT ![l].aborted = TRUE]
    BY <1>2 DEF NextListener
  <2> HIDE DEF l
  <2>2. CASE hostCall' = [hostCall EXCEPT ![l].aborted = TRUE]
    <3>1. hostCall'[e] = IF e = l THEN [hostCall[e] EXCEPT !.aborted = TRUE] ELSE hostCall[e]
      BY <1>1, <2>2
    <3>2. hostCall'[e].stage = hostCall[e].stage
      BY <1>1, <3>1 DEF HostCallRecord
    <3> QED BY <3>2
  <2> QED BY <2>1, <2>2
<1>3. ASSUME NEW c \in HostCall, NEW s \in Signal, NEW b \in Body, NEW fits \in BOOLEAN, Fetch(c, s, b, fits)
      PROVE  hostCall'[e].stage # "answered"  \/ hostCall[e].stage = "answered"
  <2>1. \/ hostCall' = [hostCall EXCEPT ![c].stage = "settled"]
        \/ hostCall' = [hostCall EXCEPT ![c].stage = "inflight", ![c].signal = s, ![c].late = (lifetime = "closing")]
    BY <1>3 DEF Fetch
  <2>2. hostCall[e] \in HostCallRecord
    BY <1>1
  <2>3. CASE hostCall' = [hostCall EXCEPT ![c].stage = "settled"]
    <3>1. hostCall'[e] = IF e = c THEN [hostCall[e] EXCEPT !.stage = "settled"] ELSE hostCall[e]
      BY <1>1, <2>3
    <3> QED BY <2>2, <3>1 DEF HostCallRecord
  <2>4. CASE hostCall' = [hostCall EXCEPT ![c].stage = "inflight", ![c].signal = s, ![c].late = (lifetime = "closing")]
    <3>1. CASE e = c
      <4>1. hostCall'[e] = [[[hostCall[e] EXCEPT !.stage = "inflight"] EXCEPT !.signal = s]
                                          EXCEPT !.late = (lifetime = "closing")]
        BY <1>1, <2>4, <3>1
      <4> QED BY <2>2, <4>1 DEF HostCallRecord
    <3>2. CASE e # c
      <4>1. hostCall'[e] = hostCall[e]
        BY <1>1, <2>4, <3>2
      <4> QED BY <4>1
    <3> QED BY <3>1, <3>2
  <2> QED BY <2>1, <2>3, <2>4
<1>4. ASSUME NEW c \in HostCall, NEW k \in wrappers \cup {0}, Subtle(c, k)
      PROVE  hostCall'[e].stage # "answered"  \/ hostCall[e].stage = "answered"
  BY <1>1, <1>4 DEF Subtle, HostCallRecord
<1>5. ASSUME NEW c \in HostCall, NEW made \in BOOLEAN, HostAnswers(c, made)
      PROVE  hostCall'[e].stage # "answered"  \/ hostCall[e].stage = "answered"
  <2>1. hostCall' = [hostCall EXCEPT ![c].stage = "dropped"]
    BY <1>1, <1>5 DEF HostAnswers
  <2> QED BY <1>1, <2>1 DEF HostCallRecord
<1>6. ASSUME NEW c \in HostCall, JobsRun(c)
      PROVE  hostCall'[e].stage # "answered"  \/ hostCall[e].stage = "answered"
  BY <1>1, <1>6 DEF JobsRun, HostCallRecord
<1>7. \/ hostCall' = hostCall \/ NextListener
      \/ \E c \in HostCall : \/ \E s \in Signal, b \in Body, fits \in BOOLEAN : Fetch(c, s, b, fits)
                            \/ \E k \in wrappers \cup {0} : Subtle(c, k)
                            \/ \E made \in BOOLEAN : HostAnswers(c, made)
                            \/ JobsRun(c)
  BY DEF BridgeNext, ImportsNext, MakeSignal, Abort, ReadBody, Collected, TearDown, VmFreed, Imports, Resolves
<1> QED BY <1>2, <1>3, <1>4, <1>5, <1>6, <1>7

LEMMA FirstSourceStays ==
    ASSUME BridgeInv, BridgeNext \/ ImportsNext, NEW f \in File, entries'[f] # entries[f]
    PROVE  entries[f] = NoSource /\ lifetime = "open"
<1>1. entries \in [File -> Source \cup {NoSource}]
  BY DEF BridgeInv, ModulesShape
<1>2. \/ entries' = entries
      \/ \E src \in Source \cup {NoSource} : Resolves(src)
  BY DEF BridgeNext, ImportsNext, MakeSignal, Abort, NextListener, ReadBody, Fetch, Subtle, HostAnswers,
         JobsRun, Collected, TearDown, VmFreed, Imports, moduleVars
<1>3. ASSUME NEW src \in Source \cup {NoSource}, Resolves(src) PROVE entries[f] = NoSource /\ lifetime = "open"
  <2>1. \/ entries' = entries
        \/ /\ lifetime = "open" /\ entries[DefaultResolve(loading)] = NoSource
           /\ entries' = [entries EXCEPT ![DefaultResolve(loading)] = src]
    BY <1>3 DEF Resolves
  <2> QED BY <1>1, <2>1
<1> QED BY <1>2, <1>3

\* However signals are derived of signals, calls overlap, wrappers are
\* collected and the sandbox is torn down: an abort reaches all that depends on
\* its signal, once, a key outlives its wrapper, a fetch made before dispose is
\* aborted by it, and what comes late changes nothing, for any calls, signals,
\* keys and files.  What the last jobs call is told apart.
THEOREM HostSideAlwaysAgrees == BridgeSpec => HostSideAgrees
<1>1. BridgeSpec => []BridgeInv
  BY BridgeInitInv, BridgeStep, PTL DEF BridgeSpec
<1>2. BridgeInv /\ [BridgeNext \/ ImportsNext]_bridgeVars
        => [lifetime # "open" =>
              \A c \in HostCall : hostCall'[c].stage # "answered" \/ hostCall[c].stage = "answered"]_bridgeVars
  BY AnswersAreDropped
<1>3. BridgeInv /\ [BridgeNext \/ ImportsNext]_bridgeVars
        => [\A f \in File : entries'[f] # entries[f] => entries[f] = NoSource /\ lifetime = "open"]_bridgeVars
  BY FirstSourceStays
<1> QED BY <1>1, <1>2, <1>3, BridgeInvImplies, PTL DEF BridgeSpec, HostSideAgrees, TearDownIsFinal, FirstSourceWins
=============================================================================
