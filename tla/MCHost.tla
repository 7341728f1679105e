------------------------------- MODULE MCHost -------------------------------
(* The host of a product and what the product has of it: the container that  *)
(* serves the product's calls and the rate limiter before its handlers, the  *)
(* connections to chains kept for the product and a chain of the pool they   *)
(* come from, the worker sandbox a product can run in, with its port and its *)
(* calls to the host, and on the product's side its chain provider, its      *)
(* renderer and the tree it draws with React; and apart from these, the      *)
(* devices of two users who write to each other.  They share nothing that a  *)
(* step of theirs looks into: a behaviour is one of a single part.           *)
EXTENDS HostCalls, ChainConnections, RateLimiter, SandboxPort, SandboxCalls, ConnectionPool, PapiFollows,
        ProductRenderer, ReactTree, DeviceRosters

VARIABLE part

\* A gated method and its permission, the one method with two versions, a
\* signature, and subscriptions with and without a domain default.
MCMethod ==
    {<<"notifications", "sendPushNotification">>, <<"permissions", "requestDevicePermission">>,
     <<"localStorage", "read">>, <<"signing", "signPayloadWithLegacyAccount">>,
     <<"payment", "balanceSubscribe">>, <<"theme", "subscribe">>}

\* Three ways to name one file.
MCImport == {[from |-> <<"a">>, path |-> <<".", "m">>], [from |-> <<"a">>, path |-> <<"..", "..", "m">>],
             [from |-> <<>>, path |-> <<"m">>]}

\* Two connections whose follows differ, the first of them eager, and two whose
\* follows share a stream.
MCWithRuntime(c) == c = "c1"
MCSharedPayload(c) == TRUE

MCOwner(d) == IF d = "a1" THEN "alice" ELSE "bob"
MCPin(u) == IF u = "alice" THEN "1234" ELSE "none"

Init ==
    /\ CallsInit /\ LimiterInit /\ ChainInit /\ PoolInit /\ PortInit /\ BridgeInit /\ FollowsInit /\ RendererInit
    /\ TreeInit /\ RostersInit
    /\ part \in {"calls", "limiter", "chains", "pool", "port", "bridge", "imports", "follows", "renderer",
                "tree", "rosters"}
    /\ part # "pool" => ~delayed

containerVars == <<callsVars, limiterVars>>
chainsVars == <<chainVars, poolVars>>
sandboxVars == <<portVars, bridgeVars>>
drawingVars == <<rendererVars, treeVars>>
productVars == <<followVars, drawingVars, rosterVars>>

vars == <<containerVars, chainsVars, sandboxVars, productVars, part>>

Part(p) == part = p /\ UNCHANGED part

Next ==
    \/ Part("calls") /\ CallsNext /\ UNCHANGED <<limiterVars, chainsVars, sandboxVars, productVars>>
    \/ Part("limiter") /\ LimiterNext /\ UNCHANGED <<callsVars, chainsVars, sandboxVars, productVars>>
    \/ Part("chains") /\ ChainNext /\ UNCHANGED <<containerVars, poolVars, sandboxVars, productVars>>
    \/ Part("pool") /\ PoolNext /\ UNCHANGED <<containerVars, chainVars, sandboxVars, productVars>>
    \/ Part("port") /\ PortNext /\ UNCHANGED <<containerVars, chainsVars, bridgeVars, productVars>>
    \/ Part("bridge") /\ BridgeNext /\ UNCHANGED <<containerVars, chainsVars, portVars, productVars>>
    \/ Part("imports") /\ ImportsNext /\ UNCHANGED <<containerVars, chainsVars, portVars, productVars>>
    \/ Part("follows") /\ FollowsNext /\ UNCHANGED <<containerVars, chainsVars, sandboxVars, drawingVars, rosterVars>>
    \/ Part("renderer") /\ RendererNext /\ UNCHANGED <<containerVars, chainsVars, sandboxVars, followVars, treeVars, rosterVars>>
    \/ Part("tree") /\ TreeNext /\ UNCHANGED <<containerVars, chainsVars, sandboxVars, followVars, rendererVars, rosterVars>>
    \/ Part("rosters") /\ RostersNext /\ UNCHANGED <<containerVars, chainsVars, sandboxVars, followVars, drawingVars>>

Spec == Init /\ [][Next]_vars
=============================================================================
