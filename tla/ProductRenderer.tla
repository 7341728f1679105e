--------------------------- MODULE ProductRenderer ---------------------------
(* The renderer of a product (renderer.ts): one handler draws the bodies the *)
(* host asks for, each a stream of the transport (transport.ts,              *)
(* handleSubscription) that the product ends, the host stops, or a tree that *)
(* does not encode breaks.  A handler runs within its start frame: until it  *)
(* returns nothing happens but what the product calls itself.                *)
EXTENDS Naturals, Sequences

CONSTANTS
    Renderer,   \* the handlers of a product
    DrawnBody,  \* the bodies the host asks for
    MaxTrees,   \* bound: frames of a body
    NoRenderer

ASSUME RendererAssumption == NoRenderer \notin Renderer

VARIABLES
    handler,    \* the handler registered now
    installed,  \* uninstall is there: start frames are handled
    unheard,    \* the handler was registered by a cleanup while another was leaving
    calling,    \* the bodies whose handler runs now: one at most
    openBodies,
    drawn       \* per body: stage, the closure's `ended`, the transport's `interrupted`, ...

rendererVars == <<handler, installed, unheard, calling, openBodies, drawn>>

NotAsked == [stage |-> "none", ended |-> FALSE, interrupted |-> FALSE, wire |-> <<>>, cleanups |-> 0,
             threw |-> FALSE, broken |-> FALSE]

RendererInit ==
    /\ handler = NoRenderer /\ installed = FALSE /\ unheard = FALSE
    /\ calling = {} /\ openBodies = {}
    /\ drawn = [b \in DrawnBody |-> NotAsked]

Sends(x, frame) == [x EXCEPT !.wire = Append(@, frame)]

\* Mutant of CleanedUp: the body may still be drawn.
CleanedUpDeaf(x) == [x EXCEPT !.stage = "over", !.cleanups = @ + (IF x.threw THEN 0 ELSE 1)]

\* The function the stream's handler returned: the renderer's own cleanup runs,
\* unless it threw and returned none.
CleanedUp(x) == [x EXCEPT !.stage = "over", !.ended = TRUE, !.cleanups = @ + (IF x.threw THEN 0 ELSE 1)]

\* interrupt: the cleanup follows the frame, now or when the handler returns.
Interrupted_(x) ==
    LET sent == [Sends(x, "end") EXCEPT !.interrupted = TRUE] IN
    IF x.stage = "open" THEN CleanedUp(sent) ELSE sent

\* end
Ended(x) == IF x.ended THEN x ELSE Interrupted_([x EXCEPT !.ended = TRUE])

Becomes(b, x) == drawn' = [drawn EXCEPT ![b] = x]
Forgets(b) == openBodies' = openBodies \ {b}

-----------------------------------------------------------------------------
(* The product                                                              *)

OnRender(r) ==
    /\ handler' = r /\ installed' = TRUE /\ unheard' = FALSE
    /\ UNCHANGED <<calling, openBodies, drawn>>

\* Ends every open body, then uninstalls.  A cleanup that registers a handler
\* meanwhile finds the old installation, which goes.
Unregister(r) ==
    /\ handler # NoRenderer
    /\ IF handler # r THEN UNCHANGED rendererVars
       ELSE /\ drawn' = [b \in DrawnBody |-> IF b \in openBodies THEN Ended(drawn[b]) ELSE drawn[b]]
            /\ openBodies' = {} /\ installed' = FALSE
            /\ \/ handler' = NoRenderer /\ unheard' = FALSE
               \/ /\ \E b \in openBodies : drawn[b].stage = "open"
                  /\ handler' \in Renderer /\ unheard' = TRUE
            /\ UNCHANGED calling

\* The handler, or the product later, gives a tree.
Tree(b) ==
    /\ drawn[b].stage # "none" /\ Len(drawn[b].wire) < MaxTrees
    /\ ~drawn[b].ended
    /\ Becomes(b, Sends(drawn[b], "tree"))
    /\ UNCHANGED <<handler, installed, unheard, calling, openBodies>>

\* One that does not encode ends the stream; the renderer hears of it only by
\* the cleanup.
BrokenTree(b) ==
    /\ drawn[b].stage # "none" /\ Len(drawn[b].wire) < MaxTrees
    /\ ~drawn[b].ended
    /\ Becomes(b, Interrupted_([drawn[b] EXCEPT !.broken = drawn[b].stage = "calling"]))
    /\ IF drawn[b].stage = "open" THEN Forgets(b) ELSE UNCHANGED openBodies
    /\ UNCHANGED <<handler, installed, unheard, calling>>

End(b) ==
    /\ drawn[b].stage # "none"
    /\ Becomes(b, Ended(drawn[b])) /\ Forgets(b)
    /\ UNCHANGED <<handler, installed, unheard, calling>>

-----------------------------------------------------------------------------
(* The stream of a body                                                     *)

\* A start frame nobody handles is dropped.
Start(b) ==
    /\ installed /\ calling = {} /\ drawn[b] = NotAsked
    /\ Becomes(b, [NotAsked EXCEPT !.stage = "calling"])
    /\ calling' = {b} /\ openBodies' = openBodies \cup {b}
    /\ UNCHANGED <<handler, installed, unheard>>

Returned(x) == IF x.interrupted THEN CleanedUp(x) ELSE [x EXCEPT !.stage = "open"]

\* The handler returns its cleanup, or throws, which ends the body.
HandlerReturns(b, threw) ==
    /\ calling = {b} /\ calling' = {}
    /\ LET x == Returned(IF threw THEN Ended([drawn[b] EXCEPT !.threw = TRUE]) ELSE drawn[b]) IN
       /\ Becomes(b, x)
       /\ IF x.stage = "over" THEN Forgets(b) ELSE UNCHANGED openBodies
    /\ UNCHANGED <<handler, installed, unheard>>

\* The body leaves the screen.
HostStop(b) ==
    /\ calling = {}
    /\ IF drawn[b].stage = "open"
         THEN Becomes(b, CleanedUp(Sends(drawn[b], "stop"))) /\ Forgets(b)
         ELSE drawn[b].stage = "over" /\ UNCHANGED <<drawn, openBodies>>
    /\ UNCHANGED <<handler, installed, unheard, calling>>

RendererNext ==
    \/ \E r \in Renderer : OnRender(r) \/ Unregister(r)
    \/ \E b \in DrawnBody : Tree(b) \/ BrokenTree(b) \/ End(b) \/ Start(b) \/ HostStop(b)
    \/ \E b \in DrawnBody, threw \in BOOLEAN : HandlerReturns(b, threw)

RendererSpec == RendererInit /\ [][RendererNext]_rendererVars

-----------------------------------------------------------------------------
(* Properties                                                              *)

RendererTypeOK ==
    /\ handler \in Renderer \cup {NoRenderer} /\ installed \in BOOLEAN /\ unheard \in BOOLEAN
    /\ openBodies \subseteq DrawnBody /\ calling \subseteq DrawnBody
    /\ \A b \in DrawnBody : drawn[b].stage \in {"none", "calling", "open", "over"}

Endings(x) == {k \in DOMAIN x.wire : x.wire[k] # "tree"}

\* However a body ends - by the product, a throw, a stop, a tree that does not
\* encode, the handler's leaving, in any order and from within the handler -
\* its cleanup runs exactly once, then and not before, nothing is sent after
\* the frame that ends it, and the renderer keeps no body the transport has
\* given up (renderer.ts:133, 188-199).  A tree that breaks within the handler
\* is the exception: the handler goes on sending until it returns.  A handler
\* is called for what the host asks next, unless a cleanup registered it while
\* its predecessor was leaving.
BodiesEndOnce ==
    /\ RendererTypeOK
    /\ \A b \in DrawnBody :
         LET x == drawn[b] IN
         /\ x.cleanups = IF x.stage = "over" /\ ~x.threw THEN 1 ELSE 0
         /\ x.broken \/ Endings(x) \subseteq {Len(x.wire)}
         /\ x.stage = "open" => Endings(x) = {}
         /\ x.stage = "over" => Endings(x) # {}
         /\ b \in openBodies <=> (x.stage \in {"calling", "open"} /\ ~x.ended)
    /\ installed = (handler # NoRenderer /\ ~unheard)
    /\ ~installed => \A b \in DrawnBody : drawn[b].stage # "open"
=============================================================================
