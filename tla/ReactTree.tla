------------------------------ MODULE ReactTree ------------------------------
(* A widget tree drawn with React (product-react-renderer): what React calls *)
(* of the reconciler's host config to turn one list of keyed widgets into    *)
(* the next, the frame that goes out after each commit, and the actions of   *)
(* the widgets, which useAction registers in an effect that runs later.      *)
(* One parent's list stands for the tree: the calls are the same for a       *)
(* widget and for the root.                                                 *)
EXTENDS Naturals, Sequences, FiniteSets, SequencesExt, FiniteSetsExt

CONSTANTS
    Widget,      \* the keyed children
    MaxCommits   \* bound: commits

ASSUME TreeAssumption == MaxCommits \in Nat

VARIABLES
    fiber,      \* what React has: the list, each widget's props and callback, ...
    instances,  \* what the reconciler has: the children, their props
    frame,      \* the last tree given to onRender
    actions     \* the registered actions, whether effects wait, the last call

treeVars == <<fiber, instances, frame, actions>>

TreeInit ==
    /\ fiber = [keys |-> <<>>, props |-> [w \in Widget |-> 0], callback |-> [w \in Widget |-> 0],
                commits |-> 0, stage |-> "new"]
    /\ instances = [children |-> <<>>, props |-> [w \in Widget |-> 0], doubled |-> FALSE]
    /\ frame = <<>>
    /\ actions = [registered |-> {}, waiting |-> FALSE, called |-> {}]

-----------------------------------------------------------------------------
(* The host config                                                          *)

\* indexOf: the place of a widget in a list, or 0.
PlaceOf(list, w) == SelectInSeq(list, LAMBDA v : v = w)

RemoveChild(children, w) ==
    IF Contains(children, w) THEN RemoveAt(children, PlaceOf(children, w)) ELSE children

\* Mutant of InsertBefore: the child is not taken out first.
InsertBeforeOnly(children, w, before) == InsertAt(children, PlaceOf(children, before), w)

InsertBefore(children, w, before) ==
    LET rest == RemoveChild(children, w)  i == PlaceOf(rest, before)
    IN IF i = 0 THEN Append(rest, w) ELSE InsertAt(rest, i, w)

\* appendChild and appendChildToContainer
AppendChild(children, w) == Append(children, w)

\* serializeAndRender: props and actions are in the frame, callbacks are not.
Serialized(tree) == [i \in DOMAIN tree.children |-> <<tree.children[i], tree.props[tree.children[i]]>>]

-----------------------------------------------------------------------------
(* React                                                                    *)

\* The widgets that are new or behind one that was after them: a widget stays
\* where it is when no earlier one that stayed came from further down.
Stays(old, next) ==
    {w \in ToSet(old) \cap ToSet(next) :
       \A v \in ToSet(old) :
         PlaceOf(next, v) # 0 /\ PlaceOf(next, v) < PlaceOf(next, w) => PlaceOf(old, v) <= PlaceOf(old, w)}

\* A deletion: a widget of the old list that the next one has not.
Kept(children, w, next) == IF Contains(next, w) THEN children ELSE RemoveChild(children, w)

StayingAfter(old, next, i) == {j \in i + 1..Len(next) : next[j] \in Stays(old, next)}

\* A widget that moves or is new goes before the next one that stays, or to the
\* end.
Placed(tree, old, next, i) ==
    LET after == StayingAfter(old, next, i) IN
    IF next[i] \in Stays(old, next) THEN tree
    ELSE IF after # {} THEN [tree EXCEPT !.children = InsertBefore(@, next[i], next[Min(after)])]
    ELSE [tree EXCEPT !.children = AppendChild(@, next[i]), !.doubled = @ \/ Contains(tree.children, next[i])]

\* Deletions come first, then the widgets that move or are new, in order.
Committed(tree, old, next) ==
    LET left == FoldLeft(LAMBDA t, w : Kept(t, w, next), tree.children, old)
    IN FoldLeft(LAMBDA t, i : Placed(t, old, next, i), [tree EXCEPT !.children = left], [i \in DOMAIN next |-> i])

\* Effects that still wait run before React renders again.
EffectsRun == IF actions.waiting THEN ToSet(fiber.keys) ELSE actions.registered

\* commitUpdate, commitTextUpdate
CommitUpdate(tree, changed) ==
    [tree EXCEPT !.props = [w \in Widget |-> IF w \in changed THEN fiber.commits + 1 ELSE @[w]]]

Draws(next, changed, stage) ==
    /\ fiber' = [fiber EXCEPT
         !.keys = next, !.commits = @ + 1, !.stage = stage,
         !.props = [w \in Widget |-> IF w \in changed THEN fiber.commits + 1 ELSE @[w]],
         !.callback = [w \in Widget |-> IF Contains(next, w) THEN fiber.commits + 1 ELSE @[w]]]
    /\ instances' = CommitUpdate(Committed(instances, fiber.keys, next), changed)
    /\ frame' = Serialized(instances')
    /\ actions' = [actions EXCEPT !.registered = EffectsRun, !.waiting = TRUE]

\* mount, and every render after it: all callbacks are new ones (closures), the
\* props of new widgets are, too, and of some of the others.
Commit ==
    /\ fiber.stage # "unmounted" /\ fiber.commits < MaxCommits
    /\ \E set \in {s \in SUBSET Widget : IsFiniteSet(s)} : \E next \in SetToSeqs(set), changed \in SUBSET set :
         set \ ToSet(fiber.keys) \subseteq changed /\ Draws(next, changed, "mounted")

Unmount ==
    /\ fiber.stage = "mounted"
    /\ Draws(<<>>, {}, "unmounted")

\* The effects of a commit: useAction registers what has come and withdraws
\* what has gone.
RunEffects ==
    /\ actions.waiting
    /\ actions' = [actions EXCEPT !.registered = EffectsRun, !.waiting = FALSE]
    /\ UNCHANGED <<fiber, instances, frame>>

\* Mutant of CallbackOf: the callback of the render that registered the action.
CallbackFirst(w) == fiber.props[w]

\* The registered action reads the callback of the newest render (ref).
CallbackOf(w) == fiber.callback[w]

\* An action of the host: for a widget that has none registered it is nothing.
Dispatch(w) ==
    /\ actions' = [actions EXCEPT !.called = {[ran |-> CallbackOf(v), newest |-> fiber.callback[v]] :
                                               v \in {w} \cap actions.registered}]
    /\ UNCHANGED <<fiber, instances, frame>>

TreeNext == Commit \/ Unmount \/ RunEffects \/ \E w \in Widget : Dispatch(w)

TreeSpec == TreeInit /\ [][TreeNext]_treeVars

-----------------------------------------------------------------------------
(* Properties                                                              *)

TreeTypeOK ==
    /\ IsInjective(fiber.keys)
    /\ ToSet(instances.children) \cup actions.registered \subseteq Widget
    /\ fiber.stage = "unmounted" => fiber.keys = <<>>

\* Whatever is added, removed, moved and changed from commit to commit, the
\* widgets are those React has drawn, in its order and with the props of the
\* newest render, and so is the frame that went out; an action runs the callback
\* of the newest render.  (Once a widget was moved to the end it is there twice:
\* appendChild does not take it out first, reconciler.ts:133-138.)
TreeIsDrawn ==
    /\ TreeTypeOK
    /\ ~instances.doubled =>
         /\ instances.children = fiber.keys
         /\ \A w \in ToSet(fiber.keys) : instances.props[w] = fiber.props[w]
         /\ frame = [i \in DOMAIN fiber.keys |-> <<fiber.keys[i], fiber.props[fiber.keys[i]]>>]
    /\ \A c \in actions.called : c.ran = c.newest
=============================================================================
