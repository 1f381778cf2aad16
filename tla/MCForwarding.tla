--------------------------- MODULE MCForwarding ---------------------------
(* Forwarding from one publisher to one subscriber.                        *)
EXTENDS Forwarding

CONSTANTS a, b

MCParts == {a, b}
MCPublishers == {a}
=============================================================================
