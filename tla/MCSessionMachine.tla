-------------------------- MODULE MCSessionMachine --------------------------
(* Three messages, one of them twice the size of the others, for a peer of *)
(* up to two devices whose wrapped keys share the budget of a statement.   *)
EXTENDS SessionMachine

CONSTANTS a, b, big, d1, d2, q1

Weight(m) == IF m = big THEN 2 ELSE 1

MCFits(recipients, messages) ==
    /\ recipients # {}
    /\ FoldLeft(LAMBDA total, m : total + Weight(m), 0, messages)
         <= 4 - Cardinality(recipients)

MCRestorable == {<<>>, <<a>>}

\* The small messages are not interchangeable (one is restored); devices are.
Symmetry == Permutations(Device)
=============================================================================
