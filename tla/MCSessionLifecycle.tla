------------------------ MODULE MCSessionLifecycle ------------------------
(* One CLI session, two shells, a few requests and connections.            *)
EXTENDS SessionLifecycle, TLC

CONSTANTS s1, s2, q1, q2, q3, q4

MCSymmetry == Permutations(Shells) \cup Permutations(Requests)
=============================================================================
