---------------------------- MODULE MCNodeUpdate ----------------------------
(* Two sockets, two requests at once, two releases.                         *)
EXTENDS NodeUpdate

CONSTANTS q1, q2, s1, s2, old, new
=============================================================================
