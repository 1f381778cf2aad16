---------------------------- MODULE MCRemoteTracks ----------------------------
\* A session with two arrivals of the track, one that supersedes it with a
\* third, and one listener.
EXTENDS RemoteTracks, TLC
CONSTANTS s1, s2, k1, k2, k3, l1
MCSessions == {s1, s2}
\* The two arrivals of one session are alike; the run checks invariants only.
MCSymmetry == Permutations({k1, k2})
MCTracks == {k1, k2, k3}
MCOrigin == k1 :> s1 @@ k2 :> s1 @@ k3 :> s2
MCListeners == {l1}
=============================================================================
