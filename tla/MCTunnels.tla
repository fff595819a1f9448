------------------------------ MODULE MCTunnels ------------------------------
(* Two tunnels of one port and one owner, two requests.  The floor and the  *)
(* ceiling of ports are 4 and 8.                                            *)
EXTENDS Tunnels

CONSTANTS t1, t2, q1, q2, ann

MCPortOf == [t \in Tunnels |-> 5]
MCOwnerOf == [t \in Tunnels |-> ann]

Row(ports) == [present |-> TRUE, enabled |-> TRUE, ports |-> ports]
NodeRow(ports) == [present |-> TRUE, enabled |-> TRUE, ports |-> ports, max |-> 2]
ReportRow(ports) ==
    [present |-> TRUE, veto |-> FALSE, prereq |-> TRUE, ports |-> ports, max |-> 0]

\* Each of the three layers narrows.
Narrow == [integration |-> Row({<<5, 6>>, <<8, 20>>}), settings |-> NodeRow({<<2, 5>>, <<7, 7>>}),
           report |-> ReportRow({<<1, 9>>, Garbage}), cred |-> "free"]

\* The platform's list is stored empty, "forbid every port"; nothing else narrows.
Forbidden == [integration |-> Row({}), settings |-> NoRow,
              report |-> ReportRow(NoList), cred |-> "unreadable"]

MCPolicies == {Narrow, Forbidden}

\* t1 and t2 differ in nothing, nor do q1 and q2: it is enough to look at the
\* behaviours that use t1 and q1 first.
InOrder ==
    /\ Fresh(t1) => Fresh(t2)
    /\ req[q1].at = "idle" => req[q2].at = "idle"
=============================================================================
