-------------------------- MODULE MCControlChannel --------------------------
(* The control channel with a short outbox and window, over three streams. *)
EXTENDS ControlChannel
=============================================================================
