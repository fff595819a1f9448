---------------------------- MODULE TunnelPolicy ----------------------------
(***************************************************************************)
(* The three layers that decide whether a node may forward a port, and     *)
(* their intersection (backend/app/services/tunnels.py).  A layer's port   *)
(* list is NoList, "do not narrow", or a set of specs; a spec is a pair    *)
(* <<low, high>> of integers, or Garbage when its text is not a range.     *)
(* Ranges are sorted for display only, so a list of ranges is a set.       *)
(***************************************************************************)
EXTENDS Integers, FiniteSets

CONSTANTS
    Unlimited,     \* the only member of NoList
    Garbage,       \* a stored spec that parse_port_specs cannot read
    PortFloor,     \* PORT_FLOOR, 1024
    PortCeiling,   \* PORT_CEILING, 65535
    NodeCap        \* settings.tunnels_per_node_max

ASSUME PortAssumption ==
    /\ PortFloor \in Nat /\ PortCeiling \in Nat /\ PortFloor =< PortCeiling
    /\ NodeCap \in Nat \ {0}

Pairs == Int \X Int
PortSpecs == Pairs \cup {Garbage}
NoList == {Unlimited}    \* None: this layer does not narrow
PortLists == (SUBSET PortSpecs) \cup {NoList}

ASSUME SpecAssumption ==
    Garbage \notin Pairs /\ Unlimited \notin Pairs /\ Unlimited # Garbage

Higher(a, b) == IF a >= b THEN a ELSE b
Lower(a, b) == IF a =< b THEN a ELSE b

\* parse_port_specs: what cannot be read is dropped, the rest is clamped to
\* the floor and the ceiling, and a range that becomes empty disappears.
Clamp(s) == <<Higher(s[1], PortFloor), Lower(s[2], PortCeiling)>>
parse_port_specs(specs) ==
    IF specs = NoList THEN NoList
    ELSE {r \in {Clamp(s) : s \in specs \ {Garbage}} : r[1] =< r[2]}

Overlap(a, b) == <<Higher(a[1], b[1]), Lower(a[2], b[2])>>
Intersect_LastWins(left, right) == IF right = NoList THEN left ELSE right
Intersect(left, right) ==
    IF left = NoList THEN right
    ELSE IF right = NoList THEN left
    ELSE {r \in {Overlap(p[1], p[2]) : p \in left \X right} : r[1] =< r[2]}

\* integration_layer, node_settings_layer, node_report_layer: an absent
\* integration row is a refusal, absent node settings are participation, and
\* a node that never reported is a daemon that does not support tunnels.  The
\* integration's own list is dropped when it is EMPTY, not only when unset.
NoRow == [present |-> FALSE]
integration_layer(row) ==
    IF ~row.present THEN [enabled |-> FALSE, ports |-> NoList]
    ELSE [enabled |-> row.enabled,
          ports |-> IF row.ports = {} THEN NoList ELSE row.ports]
node_settings_layer(row) ==
    IF ~row.present THEN [enabled |-> TRUE, ports |-> NoList, max |-> 0]
    ELSE [enabled |-> row.enabled, ports |-> row.ports, max |-> row.max]
node_report_layer(row) ==
    IF ~row.present THEN [veto |-> TRUE, ports |-> NoList, max |-> 0]
    ELSE [veto |-> row.veto, ports |-> row.ports, max |-> row.max]

\* effective_policy.  A cap of 0 stands for "no cap" in either form, None or
\* not positive; the first layer that refuses is the one that is named.
BlockedBy(i, s, r) ==
    IF ~i.enabled THEN "integration"
    ELSE IF ~s.enabled THEN "node_settings"
    ELSE IF r.veto THEN "node_local"
    ELSE "nobody"

EffectivePorts(i, s, r) ==
    LET ports == Intersect(Intersect(parse_port_specs(i.ports),
                                     parse_port_specs(s.ports)),
                           parse_port_specs(r.ports))
    IN  IF ports = NoList THEN {<<PortFloor, PortCeiling>>} ELSE ports

Caps(s, r) == {c \in {NodeCap, s.max, r.max} : c > 0}
EffectiveCap(s, r) == CHOOSE c \in Caps(s, r) : \A d \in Caps(s, r) : c =< d

\* EffectivePolicy.permits
permits(ranges, port) == \E g \in ranges : g[1] =< port /\ port =< g[2]

-----------------------------------------------------------------------------
(* What the three STORED rows say of a port, before any code has read them: *)
(* the reference the code is compared with.                                 *)
Admits(list, port) ==
    \/ list = NoList
    \/ \E s \in list \ {Garbage} : s[1] =< port /\ port =< s[2]

PlatformAdmits(row, port) == row.present /\ row.enabled /\ Admits(row.ports, port)
SettingsAdmit(row, port) == row.present => row.enabled /\ Admits(row.ports, port)
NodeAdmits(row, port) == row.present /\ ~row.veto /\ Admits(row.ports, port)

\* The platform is switched on and forbids every port.
EmptyPlatformList(row) == row.present /\ row.enabled /\ row.ports = {}
=============================================================================
