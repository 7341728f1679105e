---------------------- MODULE MCTransportSubscriptions ----------------------
(* Callers that subscribe with one start payload. *)
EXTENDS TransportSubscriptions, TLC

CONSTANT key

MCKeyOf(c) == key
Own(c) == c
Symmetry == Permutations(Caller) \cup Permutations(Stream)
=============================================================================
