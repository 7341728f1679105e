------------------------- MODULE MCTransportRequests -------------------------
(* Two calls and two handshake requests. *)
EXTENDS TransportRequests
=============================================================================
