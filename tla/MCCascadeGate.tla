---------------------------- MODULE MCCascadeGate ----------------------------
(* Two sessions of the edge, one after the other or overlapping.           *)
EXTENDS CascadeGate
=============================================================================
