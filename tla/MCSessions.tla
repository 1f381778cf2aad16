----------------------------- MODULE MCSessions -----------------------------
(* A small instance of Sessions: c1 and c2 are two connections of the same *)
(* session, c3 is a session of another user.                               *)
EXTENDS Sessions, TLC

CONSTANTS c1, c2, c3, s1, s2, i1, u1, u2

MCConns == {c1, c2, c3}
MCSids == {s1, s2}
MCRids == {i1}
MCUids == {u1, u2}
MCToken == (c1 :> [sid |-> s1, rid |-> i1, uid |-> u1])
        @@ (c2 :> [sid |-> s1, rid |-> i1, uid |-> u1])
        @@ (c3 :> [sid |-> s2, rid |-> i1, uid |-> u2])

\* c1 and c2 present equal tokens, so they are interchangeable.
Symmetry == Permutations({c1, c2})
=============================================================================
