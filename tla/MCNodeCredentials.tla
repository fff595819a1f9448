-------------------------- MODULE MCNodeCredentials --------------------------
(* One daemon with two sockets, two administrators at once.                 *)
EXTENDS NodeCredentials

CONSTANTS q1, q2, s1, s2
=============================================================================
