--------------------------- MODULE MCCascadeLinks ---------------------------
(* The edge is set up, withdrawn and set up again at another endpoint.     *)
EXTENDS CascadeLinks

MCOrders == {[epoch |-> 1, endpoint |-> "e1", token |-> "t1"],
             [epoch |-> 2, endpoint |-> None, token |-> "none"],
             [epoch |-> 2, endpoint |-> "e2", token |-> "t2"]}
=============================================================================
