--------------------------- MODULE MCNegotiation ---------------------------
(* Negotiation with two doNegotiate goroutines, more than the flags admit. *)
EXTENDS Negotiation

CONSTANTS w1, w2

MCWorkers == {w1, w2}
=============================================================================
