------------------------- MODULE MCTransportOutbox -------------------------
(* TransportOutbox on a small instance: see MCTransportOutbox.cfg. *)
EXTENDS TransportOutbox

CONSTANTS k1, k2
==============================================================================
