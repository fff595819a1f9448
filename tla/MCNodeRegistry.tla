--------------------------- MODULE MCNodeRegistry ---------------------------
(* NodeRegistry on one node whose daemon dials in twice.                   *)
EXTENDS NodeRegistry

CONSTANTS n1, s1, s2, r1, r2

MCNodeOf == [s \in {s1, s2} |-> n1]
=============================================================================
