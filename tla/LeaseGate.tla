------------------------------ MODULE LeaseGate ------------------------------
(***************************************************************************)
(* What the cascade promises of an edge's forwarding gate, with all of its *)
(* sessions, commands and clocks left out: packets cross the edge only by  *)
(* right (the anchor lease of the current epoch is running) or by a        *)
(* decision that was under way when the right was lost, and a gate left    *)
(* open without right is shut.                                             *)
(***************************************************************************)
VARIABLES right, late, open

vars == <<right, late, open>>

Init == ~right /\ ~late /\ ~open

\* Commands and the clock give and take the right; they never move the gate.
Change == right' \in BOOLEAN /\ late' \in BOOLEAN /\ UNCHANGED open

\* A decision opens the gate, or shuts it.
Open == (right \/ late) /\ open' = TRUE /\ UNCHANGED right /\ late' \in BOOLEAN
Shut == open' = FALSE /\ UNCHANGED right /\ late' \in BOOLEAN

ShutLapsed == open /\ ~right /\ ~late /\ Shut

Next == Change \/ Open \/ Shut

Spec == Init /\ [][Next]_vars /\ WF_vars(ShutLapsed)
=============================================================================
