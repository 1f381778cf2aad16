--------------------------- MODULE MCCascadeRoutes ---------------------------
(* Three nodes in a line: a speaker at the first, and a listener at each   *)
(* of the others; the second listens for its neighbours.                   *)
EXTENDS CascadeRoutes, TLC

MCHome == "a" :> 1
MCSeat == ("b" :> 2) @@ ("c" :> 3)
MCParents == {<<2, 1>>, <<2, 3>>}
=============================================================================
