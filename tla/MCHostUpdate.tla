---------------------------- MODULE MCHostUpdate ----------------------------
(* Two `agentd update` at once, three releases, three updates in all.       *)
EXTENDS HostUpdate

CONSTANTS u1, u2, v1, v2, v3
=============================================================================
