---------------------------- MODULE TunnelsProofs ----------------------------
(* Parsing, clamping and intersecting the three layers' port lists admits    *)
(* exactly the unprivileged ports that every layer admits.  Of every node    *)
(* with any number of tunnels and requests: the types, one unclosed row per  *)
(* port, and a closed tunnel that stays closed.                              *)
EXTENDS Tunnels, TLAPS

\* What a list that has been parsed admits; no list admits every port of the
\* unprivileged range.
Covers(parsed, port) ==
    IF parsed = NoList THEN PortFloor =< port /\ port =< PortCeiling
    ELSE permits(parsed, port)

Ranges == {g \in Pairs : PortFloor =< g[1] /\ g[2] =< PortCeiling}

\* A set of specs is never NoList.
LEMMA NoListIsNoSet == NoList \notin SUBSET PortSpecs
BY SpecAssumption DEF NoList, PortSpecs

\* parse_port_specs yields ranges inside the floor and the ceiling.
LEMMA ParsedType ==
    ASSUME NEW list \in PortLists
    PROVE  /\ parse_port_specs(list) \in (SUBSET Ranges) \cup {NoList}
           /\ parse_port_specs(list) = NoList <=> list = NoList
<1>1. CASE list = NoList
    BY <1>1 DEF parse_port_specs
<1>2. CASE list # NoList
    <2>1. list \in SUBSET PortSpecs
        BY <1>2 DEF PortLists
    <2>2. \A s \in list \ {Garbage} : Clamp(s) \in Ranges
        BY <2>1, PortAssumption DEF PortSpecs, Pairs, Clamp, Ranges, Higher, Lower
    <2>3. parse_port_specs(list) \in SUBSET Ranges
        BY <1>2, <2>2 DEF parse_port_specs
    <2>4. Ranges \subseteq PortSpecs
        BY DEF Ranges, PortSpecs
    <2> QED
        BY <1>2, <2>3, <2>4, NoListIsNoSet
<1> QED
    BY <1>1, <1>2

\* Clamping a spec keeps exactly its unprivileged ports.
LEMMA ClampKeeps ==
    ASSUME NEW s \in Pairs, NEW port \in Int
    PROVE  (Clamp(s)[1] =< port /\ port =< Clamp(s)[2])
             <=> (s[1] =< port /\ port =< s[2] /\ PortFloor =< port /\ port =< PortCeiling)
BY PortAssumption DEF Pairs, Clamp, Higher, Lower

\* A parsed list admits the unprivileged ports its text admits, and no other.
LEMMA ParsedCovers ==
    ASSUME NEW list \in PortLists, NEW port \in Int
    PROVE  Covers(parse_port_specs(list), port)
             <=> (Admits(list, port) /\ PortFloor =< port /\ port =< PortCeiling)
<1>1. CASE list = NoList
    BY <1>1 DEF parse_port_specs, Covers, Admits
<1>2. CASE list # NoList
    <2> DEFINE specs == list \ {Garbage}
               parsed == {r \in {Clamp(s) : s \in specs} : r[1] =< r[2]}
    <2>1. specs \subseteq Pairs
        BY <1>2 DEF PortLists, PortSpecs
    <2>2. parse_port_specs(list) = parsed /\ parsed # NoList
        BY <1>2, ParsedType DEF parse_port_specs
    <2>3. Covers(parse_port_specs(list), port) <=> permits(parsed, port)
        BY <2>2 DEF Covers
    <2>4. permits(parsed, port)
            => Admits(list, port) /\ PortFloor =< port /\ port =< PortCeiling
        BY <2>1, ClampKeeps DEF permits, Admits
    <2>5. ASSUME Admits(list, port), PortFloor =< port, port =< PortCeiling
          PROVE  permits(parsed, port)
        <3>1. PICK s \in specs : s[1] =< port /\ port =< s[2]
            BY <1>2, <2>5 DEF Admits
        <3>2. s \in Pairs
            BY <2>1
        <3>3. Clamp(s)[1] =< port /\ port =< Clamp(s)[2]
            BY <2>5, <3>1, <3>2, ClampKeeps
        <3>4. Clamp(s)[1] \in Int /\ Clamp(s)[2] \in Int
            BY <3>2, PortAssumption DEF Pairs, Clamp, Higher, Lower
        <3>5. Clamp(s) \in parsed
            BY <3>3, <3>4
        <3> QED
            BY <3>3, <3>5 DEF permits
    <2> QED
        BY <2>3, <2>4, <2>5
<1> QED
    BY <1>1, <1>2

\* _intersect is the intersection of what its arguments admit.
LEMMA IntersectCovers ==
    ASSUME NEW left \in (SUBSET Ranges) \cup {NoList},
           NEW right \in (SUBSET Ranges) \cup {NoList}, NEW port \in Int
    PROVE  /\ Intersect(left, right) \in (SUBSET Ranges) \cup {NoList}
           /\ Covers(Intersect(left, right), port)
                <=> (Covers(left, port) /\ Covers(right, port))
<1>1. \A list \in SUBSET Ranges : permits(list, port)
                                    => PortFloor =< port /\ port =< PortCeiling
    BY PortAssumption DEF permits, Ranges, Pairs
<1>2. CASE left = NoList \/ right = NoList
    BY <1>1, <1>2 DEF Intersect, Covers
<1>3. CASE left # NoList /\ right # NoList
    <2> DEFINE both == {r \in {Overlap(p[1], p[2]) : p \in left \X right} : r[1] =< r[2]}
    <2>1. left \in SUBSET Ranges /\ right \in SUBSET Ranges /\ Intersect(left, right) = both
        BY <1>3 DEF Intersect
    <2>2. \A a, b \in Ranges : /\ Overlap(a, b) \in Ranges
                               /\ (Overlap(a, b)[1] =< port /\ port =< Overlap(a, b)[2])
                                    <=> /\ a[1] =< port /\ port =< a[2]
                                        /\ b[1] =< port /\ port =< b[2]
        BY PortAssumption DEF Ranges, Pairs, Overlap, Higher, Lower
    <2>3. both \in SUBSET Ranges
        BY <2>1, <2>2
    <2>4. both # NoList
        BY <2>3, NoListIsNoSet DEF Ranges, PortSpecs
    <2>5. permits(both, port) => permits(left, port) /\ permits(right, port)
        BY <2>1, <2>2 DEF permits
    <2>6. ASSUME permits(left, port), permits(right, port)
          PROVE  permits(both, port)
        <3>1. PICK a \in left : a[1] =< port /\ port =< a[2]
            BY <2>6 DEF permits
        <3>2. PICK b \in right : b[1] =< port /\ port =< b[2]
            BY <2>6 DEF permits
        <3>3. a \in Ranges /\ b \in Ranges /\ <<a, b>> \in left \X right
            BY <2>1
        <3>4. Overlap(a, b)[1] =< port /\ port =< Overlap(a, b)[2]
            BY <2>2, <3>1, <3>2, <3>3
        <3>5. Overlap(a, b)[1] \in Int /\ Overlap(a, b)[2] \in Int
            BY <2>2, <3>3 DEF Ranges, Pairs
        <3>6. Overlap(a, b) \in both
            BY <3>3, <3>4, <3>5
        <3> QED
            BY <3>4, <3>6 DEF permits
    <2> QED
        BY <1>3, <2>1, <2>3, <2>4, <2>5, <2>6 DEF Covers
<1> QED
    BY <1>2, <1>3

\* What the three layers admit, as integration_layer, node_settings_layer and
\* node_report_layer have read them.
AllLayersAdmit(i, s, r, port) ==
    /\ PortFloor =< port /\ port =< PortCeiling
    /\ Admits(i.ports, port) /\ Admits(s.ports, port) /\ Admits(r.ports, port)

\* effective_policy: a port may be forwarded exactly when it is unprivileged
\* and the list of each of the three layers it is given admits it.
THEOREM EffectivePortsAreTheIntersection ==
    ASSUME NEW i, NEW s, NEW r, NEW port \in Int,
           i.ports \in PortLists, s.ports \in PortLists, r.ports \in PortLists
    PROVE  permits(EffectivePorts(i, s, r), port) <=> AllLayersAdmit(i, s, r, port)
<1> DEFINE pi == parse_port_specs(i.ports)
           ps == parse_port_specs(s.ports)
           pr == parse_port_specs(r.ports)
           two == Intersect(pi, ps)
           all == Intersect(two, pr)
<1>1. /\ pi \in (SUBSET Ranges) \cup {NoList}
      /\ ps \in (SUBSET Ranges) \cup {NoList}
      /\ pr \in (SUBSET Ranges) \cup {NoList}
    BY ParsedType
<1>2. /\ two \in (SUBSET Ranges) \cup {NoList}
      /\ Covers(two, port) <=> (Covers(pi, port) /\ Covers(ps, port))
    BY <1>1, IntersectCovers
<1>3. Covers(all, port) <=> (Covers(two, port) /\ Covers(pr, port))
    BY <1>1, <1>2, IntersectCovers
<1>4. permits({<<PortFloor, PortCeiling>>}, port)
        <=> PortFloor =< port /\ port =< PortCeiling
    BY DEF permits
<1>5. permits(EffectivePorts(i, s, r), port) <=> Covers(all, port)
    BY <1>4 DEF EffectivePorts, Covers
<1> QED
    BY <1>2, <1>3, <1>5, ParsedCovers DEF AllLayersAdmit
------------------------------------------------------------------------------

\* A request that creates a tunnel has an id for it from the start.
HasId(r) ==
    /\ r.op \in {"create", "rotate"} => r.new \in Tunnels
    /\ r.at \in {"insert", "open"} => r.op \in {"create", "rotate"}
CreatesHaveIds == \A q \in Requests : HasId(req[q])

\* A transaction that has inserted a row, which its commit will make live.
Holds(r) == r.fate \in {"held", "open"}

\* What a transaction may rely on: the tunnel it creates has no row yet, those
\* it ends have one, and the port of the row it has inserted is free but for
\* the rows it ends itself.
Sound(r) ==
    /\ HasId(r)
    /\ r.at = "idle" => r.new = NoTunnel
    /\ r.at = "open" => Holds(r)
    /\ r.at \in Waits /\ r.new \in Tunnels => row[r.new].st = "none"
    /\ \A t \in r.todo \cup r.ended : row[t].st # "none"
    /\ Holds(r) => /\ r.at \in {"open", "commit"} /\ r.new \in Tunnels
                   /\ \A t \in Tunnels \ r.ended :
                         row[t].st = "live" => PortOf[t] # PortOf[r.new]

\* Two transactions never create the same tunnel, nor hold the same port.
Apart(r, s) ==
    /\ r.new = s.new => r.new \notin Tunnels
    /\ Holds(r) /\ Holds(s) => PortOf[r.new] # PortOf[s.new]

\* A receive loop is at work on a tunnel that has a row.
LoopsHaveRows ==
    \A l \in {"now", "old"} :
        loops[l].at # "idle" => loops[l].t \in Tunnels /\ row[loops[l].t].st # "none"

KeyInv ==
    /\ \A q \in Requests : Sound(req[q])
    /\ \A q, o \in Requests : q # o => Apart(req[q], req[o])
    /\ LoopsHaveRows
    /\ OneOpenRowPerPort

-----------------------------------------------------------------------------
(* The type invariant.                                                      *)

\* The initial state has the right types.
LEMMA InitTypes == Init => TypeOK
BY TunnelAssumption DEF Init, TypeOK, NoRowYet, Idle, IdleLoop, Rows, Transactions,
   LoopStates, Processes, Tracked, Waits

\* A step that only moves one request to another transaction keeps them.
LEMMA RequestMoves ==
    ASSUME TypeOK, NEW q \in Requests, NEW r \in Transactions,
           req' = [req EXCEPT ![q] = r],
           UNCHANGED <<layers, row, linked, loops, proc, toCentral>>,
           toNode' \in Seq(Frames)
    PROVE  TypeOK'
<1>1. req' \in [Requests -> Transactions]
    BY DEF TypeOK
<1> QED
    BY <1>1 DEF TypeOK

\* What is left of a finished request is a transaction.
LEMMA FinishedType == ASSUME NEW r \in Transactions PROVE Finished(r) \in Transactions
<1>1. 0 \in 0..MaxTtl
    BY TunnelAssumption
<1>2. Idle \in Transactions
    BY <1>1 DEF Idle, Transactions
<1>3. r.new \in Tunnels \cup {NoTunnel}
    BY DEF Transactions
<1> QED
    BY <1>2, <1>3 DEF Finished, Transactions

\* An answer moves a transaction on, and changes nothing else of it.
LEMMA AnsweredType ==
    ASSUME NEW r \in Transactions
    PROVE  /\ [r EXCEPT !.at = "tell"] \in Transactions
           /\ [r EXCEPT !.fate = "open", !.at = "commit"] \in Transactions
           /\ [r EXCEPT !.fate = "gone", !.at = "commit"] \in Transactions
<1>1. [r EXCEPT !.at = "tell"] \in Transactions
    BY DEF Transactions, Waits
<1>2. [r EXCEPT !.fate = "open", !.at = "commit"] \in Transactions
    BY DEF Transactions, Waits
<1>3. [r EXCEPT !.fate = "gone", !.at = "commit"] \in Transactions
    BY DEF Transactions, Waits
<1> QED
    BY <1>1, <1>2, <1>3

\* The transactions of the HTTP routes keep the types.
LEMMA HttpTypes ==
    ASSUME TypeOK, CreatesHaveIds, NEW q \in Requests, NEW t \in Tunnels,
           NEW n \in Tunnels,
           \/ HttpStep(q) \/ WriteBreaks(q) \/ DisableStarts(q) \/ CreateStarts(q, t)
           \/ CloseStarts(q, t) \/ RotateStarts(q, t, n)
    PROVE  TypeOK'
<1>1. req[q] \in Transactions /\ row[t] \in Rows /\ toNode \in Seq(Frames)
    BY DEF TypeOK
<1> DEFINE r == req[q]
<1>2. CASE CreateStarts(q, t)
    <2>1. DefaultTtl \in 0..MaxTtl
        BY TunnelAssumption
    <2>2. [r EXCEPT !.op = "create", !.new = t, !.ttl = DefaultTtl, !.at = "insert"]
            \in Transactions
        BY <1>1, <2>1 DEF Transactions, Waits
    <2> QED
        BY <1>1, <1>2, <2>2, RequestMoves DEF CreateStarts
<1>3. CASE CloseStarts(q, t)
    <2>1. [r EXCEPT !.op = "close", !.todo = {t}, !.at = "tell"] \in Transactions
        BY <1>1 DEF Transactions, Waits
    <2> QED
        BY <1>1, <1>3, <2>1, FinishedType, RequestMoves DEF CloseStarts
<1>4. CASE RotateStarts(q, t, n)
    <2>1. Higher(row[t].left, 1) \in 0..MaxTtl
        BY <1>1, TunnelAssumption DEF Rows, Higher
    <2>2. [r EXCEPT !.op = "rotate", !.todo = {t}, !.new = n,
                    !.ttl = Higher(row[t].left, 1), !.at = "tell"] \in Transactions
        BY <1>1, <2>1 DEF Transactions, Waits
    <2> QED
        BY <1>1, <1>4, <2>2, RequestMoves DEF RotateStarts
<1>5. CASE DisableStarts(q)
    <2>1. LiveRows(q) \in SUBSET Tunnels
        BY DEF LiveRows
    <2>2. [r EXCEPT !.op = "disable", !.todo = LiveRows(q), !.at = "tell"] \in Transactions
        BY <1>1, <2>1 DEF Transactions, Waits
    <2> QED
        BY <1>1, <1>5, <2>2, RequestMoves DEF DisableStarts
<1>6. ASSUME NEW u \in Tunnels, Tell(q, u) PROVE TypeOK'
    <2>1. CloseFrame(u, q) \in Frames
        BY TunnelAssumption DEF CloseFrame, Frames
    <2>2. [r EXCEPT !.todo = r.todo \ {u}, !.ended = r.ended \cup {u},
                    !.at = IF linked THEN "telling" ELSE "tell"] \in Transactions
        BY <1>1 DEF Transactions, Waits
    <2>3. toNode' \in Seq(Frames)
        BY <1>1, <1>6, <2>1 DEF Tell
    <2> QED
        BY <1>6, <2>2, <2>3, RequestMoves DEF Tell
<1>7. CASE TellGivesUp(q)
    <2>1. [r EXCEPT !.at = "tell"] \in Transactions
        BY <1>1 DEF Transactions, Waits
    <2> QED
        BY <1>1, <1>7, <2>1, RequestMoves DEF TellGivesUp
<1>8. CASE Flush(q)
    <2>1. /\ [r EXCEPT !.at = "insert"] \in Transactions
          /\ [r EXCEPT !.fate = "gone", !.at = "commit"] \in Transactions
        BY <1>1 DEF Transactions, Waits
    <2> QED
        BY <1>1, <1>8, <2>1, RequestMoves DEF Flush
<1>9. CASE Insert(q)
    <2>1. \A f \in {"held", "gone"}, at \in {"open", "commit"} :
                [r EXCEPT !.fate = f, !.at = at] \in Transactions
        BY <1>1 DEF Transactions, Waits
    <2>2. OpenFrame(r.new, q) \in Frames
        BY <1>1, <1>9 DEF Insert, CreatesHaveIds, HasId, OpenFrame, Frames, Transactions
    <2>3. toNode' \in Seq(Frames)
        BY <1>1, <1>9, <2>2 DEF Insert
    <2> QED
        BY <1>1, <1>9, <2>1, <2>3, FinishedType, RequestMoves DEF Insert
<1>10. CASE OpenGivesUp(q)
    <2>1. [r EXCEPT !.fate = "gone", !.at = "commit"] \in Transactions
        BY <1>1 DEF Transactions, Waits
    <2> QED
        BY <1>1, <1>10, <2>1, RequestMoves DEF OpenGivesUp
<1>11. CASE WriteBreaks(q)
    BY <1>1, <1>11, FinishedType, RequestMoves DEF WriteBreaks
<1>12. CASE Commit(q)
    <2>1. Finished(r) \in Transactions
        BY <1>1, FinishedType
    <2>2. ASSUME NEW u \in Tunnels
          PROVE  /\ [row[u] EXCEPT !.st = "closed"] \in Rows /\ row[u] \in Rows
                 /\ [st |-> "live", left |-> r.ttl, err |-> FALSE,
                     url |-> r.fate = "open"] \in Rows
        BY <1>1 DEF TypeOK, Rows, Transactions
    <2>3. row' \in [Tunnels -> Rows]
        BY <1>12, <2>2 DEF Commit
    <2>4. req' \in [Requests -> Transactions]
        BY <1>12, <2>1 DEF Commit, TypeOK
    <2> QED
        BY <1>12, <2>3, <2>4 DEF Commit, TypeOK
<1> QED
    BY <1>2, <1>3, <1>4, <1>5, <1>6, <1>7, <1>8, <1>9, <1>10, <1>12, <1>11 DEF HttpStep

\* An extension keeps the types.
LEMMA ExtendTypes == ASSUME TypeOK, NEW t \in Tunnels, Extend(t) PROVE TypeOK'
<1>1. row[t] \in Rows
    BY DEF TypeOK
<1>2. Lower(row[t].left + DefaultTtl, MaxTtl) \in 0..MaxTtl
    BY <1>1, TunnelAssumption DEF Rows, Lower
<1>3. row' \in [Tunnels -> Rows]
    BY <1>1, <1>2 DEF Extend, Rows, TypeOK
<1> QED
    BY <1>3 DEF Extend, TypeOK

\* The receive loop, the daemon and the environment keep the types.
LEMMA NodeTypes ==
    ASSUME TypeOK,
           \/ Receive \/ NodeHandles \/ Link \/ Unlink \/ DaemonRestarts \/ Tick
           \/ SetPolicy \/ NestedBreaks \/ \E l \in {"now", "old"} : LoopStep(l)
           \/ \E t \in Tunnels : \/ Exits(t) \/ Returns(t) \/ OrphanEnds(t)
                                 \/ Fails(t) \/ Deadline(t)
    PROVE  TypeOK'
<1>1. CASE Receive
    <2> DEFINE m == Head(toCentral)
               r == req[m.by]
    <2>1. m \in Events /\ toCentral' \in Seq(Events)
        BY <1>1 DEF Receive, TypeOK
    <2>2. loops' \in [{"now", "old"} -> LoopStates]
        <3>1. Applied(m) \in LoopStates
            BY <2>1 DEF Applied, LoopStates, Events
        <3> QED
            BY <1>1, <3>1 DEF Receive, TypeOK
    <2>3. toNode' \in Seq(Frames)
        <3>1. 0 \in 0..MaxTtl
            BY TunnelAssumption
        <3>2. CloseFrame(m.t, NoTunnel) \in Frames
            BY <2>1, <3>1 DEF CloseFrame, Frames, Events
        <3>3. Append(toNode, CloseFrame(m.t, NoTunnel)) \in Seq(Frames) /\ toNode \in Seq(Frames)
            BY <3>2 DEF TypeOK
        <3>4. toNode' = toNode \/ toNode' = Append(toNode, CloseFrame(m.t, NoTunnel))
            BY <1>1 DEF Receive
        <3> QED
            BY <3>3, <3>4
    <2>4. req' \in [Requests -> Transactions]
        <3>1. m.by \in Requests =>
                /\ r \in Transactions
                /\ [r EXCEPT !.at = "tell"] \in Transactions
                /\ [r EXCEPT !.fate = "open", !.at = "commit"] \in Transactions
                /\ [r EXCEPT !.fate = "gone", !.at = "commit"] \in Transactions
            BY AnsweredType DEF TypeOK
        <3> QED
            BY <1>1, <3>1 DEF Receive, TypeOK
    <2> QED
        BY <1>1, <2>1, <2>2, <2>3, <2>4 DEF Receive, TypeOK
<1>2. CASE NodeHandles
    <2> DEFINE m == Head(toNode)
    <2>1. m \in Frames /\ toNode' \in Seq(Frames)
        BY <1>2 DEF NodeHandles, TypeOK
    <2>2. proc' \in [Tunnels -> Processes]
        <3>1. 0 \in 0..MaxTtl
            BY TunnelAssumption
        <3>2. /\ [st |-> "up", left |-> m.ttl] \in Processes
              /\ [st |-> "none", left |-> 0] \in Processes
              /\ [st |-> "orphan", left |-> 0] \in Processes
            BY <2>1, <3>1 DEF Frames, Processes, Tracked
        <3>3. \/ proc' = proc
              \/ \E p \in Processes : proc' = [proc EXCEPT ![m.t] = p]
            <4>1. CASE m.k = "open"
                BY <1>2, <3>2, <4>1 DEF NodeHandles
            <4>2. CASE m.k # "open" /\ proc[m.t].st \in Tracked
                <5>1. PICK rest \in {"none", "orphan"} :
                         proc' = [proc EXCEPT ![m.t] = [st |-> rest, left |-> 0]]
                    BY <1>2, <4>2 DEF NodeHandles
                <5> QED
                    BY <3>2, <5>1
            <4>3. CASE m.k # "open" /\ proc[m.t].st \notin Tracked
                BY <1>2, <4>3 DEF NodeHandles
            <4> QED
                BY <4>1, <4>2, <4>3
        <3> QED
            BY <3>3 DEF TypeOK
    <2>3. /\ Answer("opened", m.t, m.by) \in Events
          /\ Answer("refused", m.t, m.by) \in Events
          /\ Answer("closed", m.t, m.by) \in Events
          /\ Status(m.t, "closed") \in Events
        BY <2>1 DEF Answer, Status, Events, Frames
    <2>4. toCentral' \in Seq(Events)
        <3> DEFINE ended == <<Status(m.t, "closed"), Answer("closed", m.t, m.by)>>
        <3>1. toCentral \in Seq(Events) /\ ended \in Seq(Events)
            BY <2>3 DEF TypeOK
        <3>2. \/ \E k \in {"opened", "refused", "closed"} :
                    toCentral' = Append(toCentral, Answer(k, m.t, m.by))
              \/ toCentral' = toCentral \o ended
            BY <1>2 DEF NodeHandles
        <3>3. toCentral \o ended \in Seq(Events)
            BY <3>1
        <3>4. \A e \in Events : Append(toCentral, e) \in Seq(Events)
            BY <3>1
        <3>5. \A k \in {"opened", "refused", "closed"} :
                 Append(toCentral, Answer(k, m.t, m.by)) \in Seq(Events)
            BY <2>3, <3>4
        <3> HIDE DEF ended, m
        <3> QED
            BY <3>2, <3>3, <3>5
    <2> QED
        BY <1>2, <2>1, <2>2, <2>4 DEF NodeHandles, TypeOK
<1>3. CASE Link
    BY <1>3 DEF Link, TypeOK
<1>4. CASE Unlink \/ DaemonRestarts
    <2>1. /\ IdleLoop \in LoopStates
          /\ [st |-> "none", left |-> 0] \in Processes
        BY TunnelAssumption DEF IdleLoop, LoopStates, Processes
    <2>2. loops' \in [{"now", "old"} -> LoopStates]
        BY <1>4, <2>1 DEF Unlink, DaemonRestarts, LosesLink, TypeOK
    <2>3. toNode' \in Seq(Frames) /\ toCentral' \in Seq(Events)
        <3>1. <<>> \in Seq(Frames) /\ <<>> \in Seq(Events)
            OBVIOUS
        <3> QED
            BY <1>4, <3>1 DEF Unlink, DaemonRestarts, LosesLink
    <2>4. proc' \in [Tunnels -> Processes]
        BY <1>4, <2>1 DEF Unlink, DaemonRestarts, TypeOK
    <2> QED
        BY <1>4, <2>2, <2>3, <2>4 DEF Unlink, DaemonRestarts, LosesLink, TypeOK
<1>5. CASE Tick
    <2>1. \A n \in 0..MaxTtl : Less(n) \in 0..MaxTtl
        BY TunnelAssumption DEF Less
    <2>2. ASSUME NEW t \in Tunnels
          PROVE  /\ [row[t] EXCEPT !.left = Less(@)] \in Rows
                 /\ [proc[t] EXCEPT !.left = Less(@)] \in Processes
        <3>1. row[t] \in Rows /\ proc[t] \in Processes
            BY DEF TypeOK
        <3>2. Less(row[t].left) \in 0..MaxTtl /\ Less(proc[t].left) \in 0..MaxTtl
            BY <2>1, <3>1 DEF Rows, Processes
        <3> QED
            BY <3>1, <3>2 DEF Rows, Processes
    <2>3. ASSUME NEW q \in Requests
          PROVE  /\ req[q] \in Transactions
                 /\ [req[q] EXCEPT !.ttl = Less(@)] \in Transactions
        <3>1. req[q] \in Transactions
            BY DEF TypeOK
        <3>2. Less(req[q].ttl) \in 0..MaxTtl
            BY <2>1, <3>1 DEF Transactions
        <3> QED
            BY <3>1, <3>2 DEF Transactions
    <2>4. row' \in [Tunnels -> Rows] /\ proc' \in [Tunnels -> Processes]
        BY <1>5, <2>2 DEF Tick
    <2>5. req' \in [Requests -> Transactions]
        BY <1>5, <2>3 DEF Tick
    <2> QED
        BY <1>5, <2>4, <2>5 DEF Tick, TypeOK
<1>6. CASE SetPolicy
    BY <1>6 DEF SetPolicy, TypeOK
<1>7. ASSUME NEW l \in {"now", "old"}, LoopStep(l) PROVE TypeOK'
    <2>1. /\ IdleLoop \in LoopStates
          /\ [loops[l] EXCEPT !.at = "write"] \in LoopStates
        BY DEF IdleLoop, LoopStates, TypeOK
    <2>2. ASSUME NEW t \in Tunnels
          PROVE  /\ [row[t] EXCEPT !.st = "closed"] \in Rows
                 /\ [row[t] EXCEPT !.err = TRUE] \in Rows
                 /\ [row[t] EXCEPT !.err = FALSE] \in Rows
                 /\ [row[t] EXCEPT !.err = FALSE, !.url = TRUE] \in Rows
        BY DEF TypeOK, Rows
    <2>3. CASE NestedGivesUp(l)
        BY <2>1, <2>3 DEF NestedGivesUp, TypeOK
    <2>4. CASE LoopWrites(l)
        <3>1. row' \in [Tunnels -> Rows]
            BY <2>2, <2>4 DEF LoopWrites, TypeOK
        <3> QED
            BY <2>1, <2>4, <3>1 DEF LoopWrites, TypeOK
    <2> QED
        BY <1>7, <2>3, <2>4 DEF LoopStep
<1>8. CASE NestedBreaks
    <2>1. IdleLoop \in LoopStates
        BY DEF IdleLoop, LoopStates
    <2> QED
        BY <1>8, <2>1 DEF NestedBreaks, TypeOK
<1>9. ASSUME NEW t \in Tunnels, Exits(t) \/ Returns(t) \/ OrphanEnds(t) \/ Fails(t) \/ Deadline(t)
      PROVE  TypeOK'
    <2>1. \A s \in {"none", "running", "reconnecting", "failed", "closed"} :
             Status(t, s) \in Events
        BY DEF Status, Events
    <2>2. toCentral' \in Seq(Events)
        <3>1. toCentral' = toCentral \/ \E s \in {"running", "reconnecting", "failed", "closed"} :
                                            toCentral' = Append(toCentral, Status(t, s))
            BY <1>9 DEF Exits, Returns, OrphanEnds, Fails, Deadline, Report2Central
        <3>2. toCentral \in Seq(Events)
            BY DEF TypeOK
        <3> QED
            BY <2>1, <3>1, <3>2
    <2>3. /\ [proc[t] EXCEPT !.st = "back"] \in Processes
          /\ [proc[t] EXCEPT !.st = "up"] \in Processes
          /\ [proc[t] EXCEPT !.st = "none"] \in Processes
          /\ [proc[t] EXCEPT !.st = "leaked"] \in Processes
          /\ [st |-> "none", left |-> 0] \in Processes
        <3>1. proc[t] \in Processes /\ 0 \in 0..MaxTtl
            BY TunnelAssumption DEF TypeOK
        <3> QED
            BY <3>1 DEF Processes, Tracked
    <2>4. proc' \in [Tunnels -> Processes]
        BY <1>9, <2>3 DEF Exits, Returns, OrphanEnds, Fails, Deadline, TypeOK
    <2> QED
        BY <1>9, <2>2, <2>4 DEF Exits, Returns, OrphanEnds, Fails, Deadline, TypeOK
<1> QED
    BY <1>1, <1>2, <1>3, <1>4, <1>5, <1>6, <1>7, <1>8, <1>9

-----------------------------------------------------------------------------
(* The rows, the transactions and the port index.                           *)

\* The initial state satisfies the key invariant.
LEMMA InitKey == Init => KeyInv
BY TunnelAssumption DEF Init, KeyInv, Sound, HasId, Holds, Apart, LoopsHaveRows,
   OneOpenRowPerPort, Idle, IdleLoop, NoRowYet, Waits

\* What a transaction relies on depends on the rows' states only.
SameStates == \A t \in Tunnels : row'[t].st = row[t].st

\* A step of one transaction that leaves the rows' states alone and is sound
\* and apart from the others keeps the key invariant.
LEMMA KeyMoves ==
    ASSUME TypeOK, KeyInv, SameStates, loops' = loops,
           NEW q \in Requests, NEW r \in Transactions,
           req' = [req EXCEPT ![q] = r],
           Sound(r), \A o \in Requests \ {q} : Apart(r, req[o])
    PROVE  KeyInv'
<1>1. /\ req'[q] = r
      /\ \A o \in Requests \ {q} : req'[o] = req[o]
    BY DEF TypeOK
<1>2. \A o \in Requests : req[o] \in Transactions
    BY DEF TypeOK
<1>3. ASSUME NEW s \in Transactions, Sound(s) PROVE Sound(s)'
    BY <1>3 DEF Sound, HasId, SameStates, Holds, Transactions
<1>4. \A o \in Requests : Sound(req[o])'
    <2>1. ASSUME NEW o \in Requests PROVE Sound(req'[o])
        BY <1>1 DEF KeyInv
    <2>2. ASSUME NEW o \in Requests PROVE req'[o] \in Transactions
        BY <1>1, <1>2
    <2> QED
        BY <1>3, <2>1, <2>2 DEF Sound, HasId, SameStates, Holds, Transactions
<1>5. \A o, p \in Requests : o # p => Apart(req'[o], req'[p])
    BY <1>1 DEF KeyInv, Apart
<1>6. LoopsHaveRows'
    BY DEF KeyInv, LoopsHaveRows, SameStates
<1>7. OneOpenRowPerPort'
    BY DEF KeyInv, OneOpenRowPerPort, SameStates
<1> QED
    BY <1>4, <1>5, <1>6, <1>7 DEF KeyInv, Apart, Holds

\* The steps of a transaction before its commit keep the key invariant.
LEMMA KeyHttp ==
    ASSUME TypeOK, KeyInv, NEW q \in Requests, NEW t \in Tunnels, NEW n \in Tunnels,
           \/ Tell(q, t) \/ TellGivesUp(q) \/ Flush(q) \/ Insert(q) \/ OpenGivesUp(q)
           \/ WriteBreaks(q) \/ DisableStarts(q) \/ CreateStarts(q, t) \/ CloseStarts(q, t)
           \/ RotateStarts(q, t, n)
    PROVE  KeyInv'
<1> DEFINE r == req[q]
           w == req'[q]
<1>1. r \in Transactions /\ Sound(r) /\ HasId(r)
    BY DEF TypeOK, KeyInv, Sound
<1>2. \A o \in Requests \ {q} : Apart(r, req[o])
    BY DEF KeyInv
<1>3. UNCHANGED row /\ loops' = loops /\ SameStates
    BY DEF Tell, TellGivesUp, Flush, Insert, OpenGivesUp, WriteBreaks, DisableStarts,
           CreateStarts, CloseStarts, RotateStarts, SameStates
<1>4. req' = [req EXCEPT ![q] = w]
    BY DEF Tell, TellGivesUp, Flush, Insert, OpenGivesUp, WriteBreaks, DisableStarts,
           CreateStarts, CloseStarts, RotateStarts, TypeOK
<1>5. w \in Transactions
    BY HttpTypes, <1>3 DEF KeyInv, Sound, CreatesHaveIds, HttpStep, TypeOK
<1>6. Sound(w) /\ \A o \in Requests \ {q} : Apart(w, req[o])
    <2>1. ASSUME r.new = w.new, ~Holds(w) \/ Holds(r)
          PROVE  \A o \in Requests \ {q} : Apart(w, req[o])
        BY <1>2, <2>1 DEF Apart
    <2>2. CASE CreateStarts(q, t)
        <3>1. w = [r EXCEPT !.op = "create", !.new = t, !.ttl = DefaultTtl, !.at = "insert"]
            BY <1>4, <2>2 DEF CreateStarts, TypeOK
        <3>2. r.at = "idle" /\ row[t].st = "none" /\ \A o \in Requests : req[o].new # t
            BY <2>2 DEF CreateStarts, Fresh
        <3> QED
            BY <1>1, <1>2, <3>1, <3>2 DEF Sound, HasId, Holds, Apart, Transactions
    <2>3. CASE CloseStarts(q, t)
        <3>1. \/ w = Finished(r)
              \/ w = [r EXCEPT !.op = "close", !.todo = {t}, !.at = "tell"]
            BY <1>4, <2>3 DEF CloseStarts, TypeOK
        <3>2. r.at = "idle" /\ row[t].st # "none"
            BY <2>3 DEF CloseStarts
        <3>3. CASE w = Finished(r)
            <4>1. Sound(w) /\ w.new = r.new /\ ~Holds(w)
                BY <3>3 DEF Sound, HasId, Holds, Finished, Idle, Waits
            <4> QED
                BY <2>1, <4>1
        <3>4. CASE w = [r EXCEPT !.op = "close", !.todo = {t}, !.at = "tell"]
            <4>1. r.new \notin Tunnels /\ ~Holds(r)
                BY <1>1, <3>2, TunnelAssumption DEF Sound
            <4>2. Sound(w) /\ w.new = r.new /\ ~Holds(w)
                BY <1>1, <3>2, <3>4, <4>1 DEF Sound, HasId, Holds, Transactions, Waits
            <4> QED
                BY <2>1, <4>2
        <3> QED
            BY <3>1, <3>3, <3>4
    <2>4. CASE RotateStarts(q, t, n)
        <3>1. w = [r EXCEPT !.op = "rotate", !.todo = {t}, !.new = n,
                            !.ttl = Higher(row[t].left, 1), !.at = "tell"]
            BY <1>4, <2>4 DEF RotateStarts, TypeOK
        <3>2. /\ r.at = "idle" /\ row[t].st # "none"
              /\ row[n].st = "none" /\ \A o \in Requests : req[o].new # n
            BY <2>4 DEF RotateStarts, Fresh
        <3>3. w.new = n /\ Sound(w) /\ ~Holds(w)
            BY <1>1, <3>1, <3>2, TunnelAssumption DEF Sound, HasId, Holds, Transactions, Waits
        <3> QED
            BY <3>2, <3>3 DEF Apart
    <2>5. CASE DisableStarts(q)
        <3>1. w = [r EXCEPT !.op = "disable", !.todo = LiveRows(q), !.at = "tell"]
            BY <1>4, <2>5 DEF DisableStarts, TypeOK
        <3>2. r.at = "idle" /\ \A u \in LiveRows(q) : row[u].st # "none"
            BY <2>5 DEF DisableStarts, LiveRows
        <3>3. Sound(w) /\ w.new = r.new /\ ~Holds(w)
            BY <1>1, <3>1, <3>2, TunnelAssumption DEF Sound, HasId, Holds, Transactions, Waits
        <3> QED
            BY <2>1, <3>3
    <2>6. CASE Tell(q, t)
        <3>1. \E at \in {"tell", "telling"} :
                 w = [r EXCEPT !.todo = r.todo \ {t}, !.ended = r.ended \cup {t}, !.at = at]
            BY <1>4, <2>6 DEF Tell, TypeOK
        <3>2. r.at = "tell" /\ t \in r.todo
            BY <2>6 DEF Tell
        <3>3. Sound(w) /\ w.new = r.new /\ ~Holds(w)
            BY <1>1, <3>1, <3>2 DEF Sound, HasId, Holds, Transactions, Waits
        <3> QED
            BY <2>1, <3>3
    <2>7. CASE TellGivesUp(q)
        <3>1. w = [r EXCEPT !.at = "tell"] /\ r.at = "telling"
            BY <1>4, <2>7 DEF TellGivesUp, TypeOK
        <3>2. Sound(w) /\ w.new = r.new /\ ~Holds(w)
            BY <1>1, <3>1 DEF Sound, HasId, Holds, Transactions, Waits
        <3> QED
            BY <2>1, <3>2
    <2>8. CASE Flush(q)
        <3>1. \/ w = [r EXCEPT !.at = "insert"]
              \/ w = [r EXCEPT !.fate = "gone", !.at = "commit"]
            BY <1>4, <2>8 DEF Flush, TypeOK
        <3>2. r.at = "tell" /\ r.op = "rotate"
            BY <2>8 DEF Flush
        <3>3. Sound(w) /\ w.new = r.new /\ ~Holds(w)
            BY <1>1, <3>1, <3>2 DEF Sound, HasId, Holds, Transactions, Waits
        <3> QED
            BY <2>1, <3>3
    <2>9. CASE Insert(q)
        <3>1. \/ w = Finished(r)
              \/ /\ PortRows(q, PortOf[r.new]) = {}
                 /\ \/ w = [r EXCEPT !.fate = "held", !.at = "open"]
                    \/ w = [r EXCEPT !.fate = "held", !.at = "commit"]
                    \/ w = [r EXCEPT !.fate = "gone", !.at = "commit"]
            BY <1>4, <2>9 DEF Insert, TypeOK
        <3>2. /\ r.at = "insert" /\ r.new \in Tunnels
              /\ \A o \in Requests \ {q} : Holds(req[o]) => PortOf[req[o].new] # PortOf[r.new]
            BY <1>1, <2>9 DEF Insert, PortHeld, Holds, HasId
        <3>3. PortRows(q, PortOf[r.new]) = {} =>
                 \A u \in Tunnels \ r.ended : row[u].st = "live" => PortOf[u] # PortOf[r.new]
            BY DEF PortRows
        <3>4. w.new = r.new /\ Sound(w)
            BY <1>1, <3>1, <3>2, <3>3
               DEF Sound, HasId, Holds, Finished, Idle, Transactions, Waits
        <3> QED
            BY <1>2, <3>2, <3>4 DEF Apart
    <2>10. CASE OpenGivesUp(q)
        <3>1. w = [r EXCEPT !.fate = "gone", !.at = "commit"] /\ r.at = "open"
            BY <1>4, <2>10 DEF OpenGivesUp, TypeOK
        <3>2. Sound(w) /\ w.new = r.new /\ ~Holds(w)
            BY <1>1, <3>1 DEF Sound, HasId, Holds, Transactions, Waits
        <3> QED
            BY <2>1, <3>2
    <2>11. CASE WriteBreaks(q)
        <3>1. w = Finished(r) /\ r.at # "idle"
            BY <1>4, <2>11 DEF WriteBreaks, TypeOK
        <3>2. Sound(w) /\ w.new = r.new /\ ~Holds(w)
            BY <3>1 DEF Sound, HasId, Holds, Finished, Idle, Waits
        <3> QED
            BY <2>1, <3>2
    <2> QED
        BY <2>2, <2>3, <2>4, <2>5, <2>6, <2>7, <2>8, <2>9, <2>10, <2>11
<1> QED
    BY <1>3, <1>4, <1>5, <1>6, KeyMoves

\* The commit makes live what was inserted and closes what was ended; the other
\* transactions relied on neither.
LEMMA KeyCommit == ASSUME TypeOK, KeyInv, NEW q \in Requests, Commit(q) PROVE KeyInv'
<1> DEFINE r == req[q]
<1>1. r \in Transactions /\ Sound(r)
    BY DEF TypeOK, KeyInv
<1>2. /\ req'[q] = Finished(r)
      /\ \A o \in Requests \ {q} : req'[o] = req[o] /\ Apart(r, req[o])
    BY DEF Commit, TypeOK, KeyInv
<1>3. ASSUME NEW t \in Tunnels
      PROVE  /\ row[t].st # "none" => row'[t].st # "none"
             /\ row'[t].st = "live" => row[t].st = "live" \/ (t = r.new /\ Holds(r))
             /\ row'[t].st = "live" => t \notin r.ended
             /\ row[t].st = "none" => row'[t].st = "none" \/ t = r.new
    BY <1>1 DEF Commit, Sound, Holds, TypeOK, Rows
<1>4. ASSUME NEW o \in Requests \ {q} PROVE Sound(req[o])'
    <2> DEFINE s == req[o]
    <2>1. s \in Transactions /\ Sound(s) /\ Apart(r, s) /\ req'[o] = s
        BY <1>2 DEF TypeOK, KeyInv
    <2>2. s.at \in Waits /\ s.new \in Tunnels => row'[s.new].st = "none"
        BY <1>3, <2>1 DEF Sound, Apart
    <2>3. \A t \in s.todo \cup s.ended : row'[t].st # "none"
        BY <1>3, <2>1 DEF Sound, Transactions
    <2>4. Holds(s) => \A t \in Tunnels \ s.ended :
                         row'[t].st = "live" => PortOf[t] # PortOf[s.new]
        BY <1>3, <2>1 DEF Sound, Apart
    <2> QED
        BY <2>1, <2>2, <2>3, <2>4 DEF Sound, HasId, Holds
<1>5. Sound(req[q])'
    BY <1>2, TunnelAssumption DEF Sound, HasId, Holds, Finished, Idle, Waits
<1>6. \A o, p \in Requests : o # p => Apart(req'[o], req'[p])
    <2>1. ~Holds(Finished(r)) /\ Finished(r).new = r.new
        BY DEF Holds, Finished, Idle
    <2> QED
        BY <1>2, <2>1 DEF KeyInv, Apart
<1>7. LoopsHaveRows'
    BY <1>3 DEF Commit, KeyInv, LoopsHaveRows
<1>8. OneOpenRowPerPort'
    BY <1>1, <1>3 DEF KeyInv, OneOpenRowPerPort, Sound
<1> QED
    BY <1>4, <1>5, <1>6, <1>7, <1>8 DEF KeyInv, Apart, Holds

\* The rest of the steps neither insert, end nor create anything: they may move
\* a transaction on, close a row that has one, or change what a loop works on.
LEMMA KeyNode ==
    ASSUME TypeOK, KeyInv,
           \/ Receive \/ NodeHandles \/ Link \/ Unlink \/ DaemonRestarts \/ Tick
           \/ SetPolicy \/ NestedBreaks \/ \E l \in {"now", "old"} : LoopStep(l)
           \/ \E t \in Tunnels : \/ Exits(t) \/ Returns(t) \/ OrphanEnds(t)
                                 \/ Fails(t) \/ Deadline(t) \/ Extend(t)
    PROVE  KeyInv'
<1>1. \A q \in Requests : req[q] \in Transactions /\ Sound(req[q])
    BY DEF TypeOK, KeyInv
<1>2. ASSUME NEW t \in Tunnels
      PROVE  /\ row[t].st = "none" <=> row'[t].st = "none"
             /\ row'[t].st = "live" => row[t].st = "live"
    <2>1. CASE \E l \in {"now", "old"} : LoopWrites(l)
        <3>1. PICK l \in {"now", "old"} : LoopWrites(l)
            BY <2>1
        <3>2. row[loops[l].t].st # "none" /\ loops[l].t \in Tunnels
            BY <3>1 DEF KeyInv, LoopsHaveRows, LoopWrites
        <3>3. t # loops[l].t => row'[t] = row[t]
            BY <3>1 DEF LoopWrites, TypeOK
        <3>4. t = loops[l].t => row'[t].st \in {"closed", row[t].st}
            BY <3>1 DEF LoopWrites, TypeOK, Rows
        <3> QED
            BY <3>2, <3>3, <3>4
    <2>2. CASE \E u \in Tunnels : Extend(u)
        BY <2>2 DEF Extend, TypeOK, Rows
    <2>3. CASE Tick
        <3>1. row'[t].st = row[t].st
            BY <2>3 DEF Tick, TypeOK, Rows
        <3> QED
            BY <3>1
    <2>4. CASE UNCHANGED row
        BY <2>4
    <2> QED
        BY <2>1, <2>2, <2>3, <2>4
           DEF LoopStep, NestedGivesUp, NestedBreaks, Receive, NodeHandles, Link, Unlink,
               DaemonRestarts, SetPolicy, Exits, Returns, OrphanEnds, Fails, Deadline
<1>3. ASSUME NEW q \in Requests
      PROVE  /\ req'[q].op = req[q].op /\ req'[q].new = req[q].new
             /\ req'[q].todo = req[q].todo /\ req'[q].ended = req[q].ended
             /\ \/ req'[q].at = req[q].at /\ req'[q].fate = req[q].fate
                \/ req[q].at = "telling" /\ req'[q].at = "tell" /\ req'[q].fate = req[q].fate
                \/ req[q].at = "open" /\ req'[q].at = "commit"
    <2>1. CASE Receive
        <3> DEFINE m == Head(toCentral)
        <3>1. \/ UNCHANGED req
              \/ /\ m.by \in Requests
                 /\ \/ /\ req[m.by].at = "telling"
                       /\ req' = [req EXCEPT ![m.by] = [req[m.by] EXCEPT !.at = "tell"]]
                    \/ /\ req[m.by].at = "open"
                       /\ \E f \in {"open", "gone"} :
                            req' = [req EXCEPT ![m.by] =
                                      [req[m.by] EXCEPT !.fate = f, !.at = "commit"]]
            <4>1. CASE m.k = "status" \/ m.by \notin Requests
                BY <2>1, <4>1 DEF Receive
            <4>2. CASE m.k # "status" /\ m.by \in Requests
                <5>1. req' = [req EXCEPT ![m.by] =
                            CASE m.k = "closed" /\ req[m.by].at = "telling" ->
                                   [req[m.by] EXCEPT !.at = "tell"]
                              [] m.k = "opened" /\ req[m.by].at = "open" ->
                                   [req[m.by] EXCEPT !.fate = "open", !.at = "commit"]
                              [] m.k = "refused" /\ req[m.by].at = "open" ->
                                   [req[m.by] EXCEPT !.fate = "gone", !.at = "commit"]
                              [] OTHER -> req[m.by]]
                    BY <2>1, <4>2 DEF Receive
                <5>2. CASE m.k = "closed" /\ req[m.by].at = "telling"
                    BY <4>2, <5>1, <5>2
                <5>3. CASE m.k = "opened" /\ req[m.by].at = "open"
                    BY <4>2, <5>1, <5>3
                <5>4. CASE m.k = "refused" /\ req[m.by].at = "open"
                    BY <4>2, <5>1, <5>4
                <5>5. CASE /\ ~(m.k = "closed" /\ req[m.by].at = "telling")
                           /\ ~(m.k = "opened" /\ req[m.by].at = "open")
                           /\ ~(m.k = "refused" /\ req[m.by].at = "open")
                    <6>1. req' = [req EXCEPT ![m.by] = req[m.by]]
                        BY <5>1, <5>5
                    <6> QED
                        BY <6>1 DEF TypeOK
                <5> QED
                    BY <5>2, <5>3, <5>4, <5>5
            <4> QED
                BY <4>1, <4>2
        <3> HIDE DEF m
        <3>2. CASE UNCHANGED req
            BY <3>2
        <3>3. CASE m.by # q
            BY <3>1, <3>3 DEF TypeOK
        <3>4. CASE m.by = q
            <4>1. \/ UNCHANGED req
                  \/ /\ req[q].at = "telling"
                     /\ req'[q] = [req[q] EXCEPT !.at = "tell"]
                  \/ /\ req[q].at = "open"
                     /\ \E f \in {"open", "gone"} :
                          req'[q] = [req[q] EXCEPT !.fate = f, !.at = "commit"]
                BY <3>1, <3>4 DEF TypeOK
            <4> QED
                BY <1>1, <4>1 DEF Transactions
        <3> QED
            BY <3>2, <3>3, <3>4
    <2>2. CASE Tick
        BY <1>1, <2>2 DEF Tick, Transactions
    <2>3. CASE UNCHANGED req
        BY <2>3
    <2> QED
        BY <2>1, <2>2, <2>3
           DEF LoopStep, LoopWrites, NestedGivesUp, NestedBreaks, NodeHandles, Link, Unlink,
               DaemonRestarts, SetPolicy, Exits, Returns, OrphanEnds, Fails, Deadline, Extend
<1>4. \A q \in Requests : /\ Holds(req'[q]) => Holds(req[q])
                          /\ req'[q].at = "open" => Holds(req'[q])
    BY <1>1, <1>3 DEF Holds, Sound
<1>5. ASSUME NEW q \in Requests PROVE Sound(req[q])'
    <2> DEFINE r == req[q]
               w == req'[q]
    <2>1. /\ HasId(w)
          /\ w.at = "idle" => w.new = NoTunnel
          /\ w.at \in Waits => r.at \in Waits
        BY <1>1, <1>3 DEF Sound, HasId, Waits
    <2>2. w.at \in Waits /\ w.new \in Tunnels => row'[w.new].st = "none"
        BY <1>1, <1>2, <1>3, <2>1 DEF Sound
    <2>3. \A t \in w.todo \cup w.ended : row'[t].st # "none"
        BY <1>1, <1>2, <1>3 DEF Sound, Transactions
    <2>4. Holds(w) => /\ w.at \in {"open", "commit"} /\ w.new \in Tunnels
                      /\ \A t \in Tunnels \ w.ended :
                            row'[t].st = "live" => PortOf[t] # PortOf[w.new]
        <3>1. Holds(w) => r.at \in {"open", "commit"}
            BY <1>1, <1>4 DEF Sound
        <3> QED
            BY <1>1, <1>2, <1>3, <1>4, <3>1 DEF Sound
    <2> QED
        BY <1>4, <2>1, <2>2, <2>3, <2>4 DEF Sound, HasId, Holds
<1>6. \A q, o \in Requests : q # o => Apart(req'[q], req'[o])
    BY <1>3, <1>4 DEF KeyInv, Apart
<1>7. LoopsHaveRows'
    <2>1. LoopsHaveRows
        BY DEF KeyInv
    <2>2. CASE Receive
        <3> DEFINE m == Head(toCentral)
        <3>1. m \in Events
            BY <2>2 DEF Receive, TypeOK
        <3>2. \/ UNCHANGED loops
              \/ /\ row[m.t].st = "live" /\ Applied(m).t = m.t
                 /\ loops' = [loops EXCEPT !["now"] = Applied(m)]
            BY <2>2 DEF Receive, Changes, MayChange, Applied
        <3>3. m.t \in Tunnels
            BY <3>1 DEF Events
        <3> HIDE DEF m
        <3> QED
            BY <1>2, <2>1, <3>2, <3>3 DEF LoopsHaveRows, TypeOK
    <2>3. CASE Unlink \/ DaemonRestarts
        BY <1>2, <2>1, <2>3 DEF Unlink, DaemonRestarts, LosesLink, LoopsHaveRows, IdleLoop
    <2>4. ASSUME NEW l \in {"now", "old"}, LoopStep(l) PROVE LoopsHaveRows'
        <3>1. CASE NestedGivesUp(l)
            BY <1>2, <2>1, <3>1 DEF NestedGivesUp, LoopsHaveRows, TypeOK, LoopStates
        <3>2. CASE LoopWrites(l)
            BY <1>2, <2>1, <3>2 DEF LoopWrites, LoopsHaveRows, IdleLoop, TypeOK
        <3> QED
            BY <2>4, <3>1, <3>2 DEF LoopStep
    <2>5. CASE NestedBreaks
        BY <1>2, <2>1, <2>5 DEF NestedBreaks, LoopsHaveRows, IdleLoop, TypeOK
    <2>6. CASE UNCHANGED loops
        BY <1>2, <2>1, <2>6 DEF LoopsHaveRows
    <2> QED
        BY <2>2, <2>3, <2>4, <2>5, <2>6
           DEF NodeHandles, Link, Tick, SetPolicy, Exits, Returns, OrphanEnds, Fails,
               Deadline, Extend
<1>8. OneOpenRowPerPort'
    BY <1>2 DEF KeyInv, OneOpenRowPerPort
<1> QED
    BY <1>5, <1>6, <1>7, <1>8 DEF KeyInv, Apart, Holds

-----------------------------------------------------------------------------
(* The theorems.                                                            *)

TunnelsInv == TypeOK /\ KeyInv

\* Every step keeps the types and the key invariant.
LEMMA StepKeeps == TunnelsInv /\ [Next]_vars => TunnelsInv'
<1> SUFFICES ASSUME TunnelsInv, [Next]_vars PROVE TunnelsInv'
    OBVIOUS
<1> USE DEF TunnelsInv
<1>1. CreatesHaveIds
    BY DEF KeyInv, Sound, CreatesHaveIds
<1>2. ASSUME NEW q \in Requests, HttpStep(q) \/ WriteBreaks(q) \/ DisableStarts(q)
      PROVE  TunnelsInv'
    <2>1. CASE Commit(q)
        <3>1. HttpStep(q) /\ KeyInv'
            BY <2>1, KeyCommit DEF HttpStep
        <3> QED
            BY <1>1, <3>1, HttpTypes, TunnelAssumption
    <2>2. CASE ~Commit(q)
        BY <1>1, <1>2, <2>2, HttpTypes, KeyHttp, TunnelAssumption DEF HttpStep
    <2> QED
        BY <2>1, <2>2
<1>3. ASSUME NEW q \in Requests, NEW t \in Tunnels, CreateStarts(q, t) \/ CloseStarts(q, t)
      PROVE  TunnelsInv'
    BY <1>1, <1>3, HttpTypes, KeyHttp
<1>4. ASSUME NEW q \in Requests, NEW t \in Tunnels, NEW n \in Tunnels, RotateStarts(q, t, n)
      PROVE  TunnelsInv'
    BY <1>1, <1>4, HttpTypes, KeyHttp
<1>5. ASSUME NEW t \in Tunnels, Extend(t) PROVE TunnelsInv'
    BY <1>5, ExtendTypes, KeyNode
<1>6. CASE \/ Receive \/ NodeHandles \/ Link \/ Unlink \/ DaemonRestarts \/ Tick
           \/ SetPolicy \/ NestedBreaks \/ \E l \in {"now", "old"} : LoopStep(l)
           \/ \E t \in Tunnels : \/ Exits(t) \/ Returns(t) \/ OrphanEnds(t)
                                 \/ Fails(t) \/ Deadline(t)
    BY <1>6, NodeTypes, KeyNode
<1>7. CASE UNCHANGED vars
    BY <1>7 DEF vars, TypeOK, KeyInv, Sound, HasId, Holds, Apart, LoopsHaveRows,
                OneOpenRowPerPort
<1> QED
    BY <1>2, <1>3, <1>4, <1>5, <1>6, <1>7 DEF Next

\* Every reachable state of the tunnels has the right types and satisfies what
\* the transactions rely on.
THEOREM TunnelsKeepInv == Spec => []TunnelsInv
<1>1. Init => TunnelsInv
    BY InitTypes, InitKey DEF TunnelsInv
<1> QED
    BY <1>1, StepKeeps, PTL DEF Spec

\* The types of rows, transactions, frames, events and processes.
THEOREM TunnelsTypeCorrect == Spec => []TypeOK
<1>1. TunnelsInv => TypeOK
    BY DEF TunnelsInv
<1> QED
    BY <1>1, TunnelsKeepInv, PTL

\* However creates and rotations overlap, no two unclosed rows of the node are
\* for the same port.
THEOREM PortsStayExclusive == Spec => []OneOpenRowPerPort
<1>1. TunnelsInv => OneOpenRowPerPort
    BY DEF TunnelsInv, KeyInv
<1> QED
    BY <1>1, TunnelsKeepInv, PTL

\* No status, extension or late commit reopens a closed tunnel or loses a row.
THEOREM ClosedTunnelsStayClosed == Spec => ClosedForGood
<1>1. TunnelsInv /\ [Next]_vars =>
         StatesOnlyAdvance
    <2> SUFFICES ASSUME TunnelsInv, [Next]_vars, NEW t \in Tunnels
                 PROVE  /\ row[t].st = "closed" => row'[t].st = "closed"
                        /\ row[t].st # "none" => row'[t].st # "none"
        BY DEF StatesOnlyAdvance
    <2>1. row[t] \in Rows
        BY DEF TunnelsInv, TypeOK
    <2>2. CASE \E q \in Requests : Commit(q)
        <3>1. PICK q \in Requests : Commit(q)
            BY <2>2
        <3>2. t = req[q].new /\ Holds(req[q]) => row[t].st = "none"
            BY DEF TunnelsInv, KeyInv, Sound, Waits
        <3> QED
            BY <2>1, <3>1, <3>2 DEF Commit, Holds, Rows
    <2>3. CASE \E l \in {"now", "old"} : LoopWrites(l)
        BY <2>1, <2>3 DEF LoopWrites, Rows, TunnelsInv, TypeOK
    <2>4. CASE \E u \in Tunnels : Extend(u)
        BY <2>1, <2>4 DEF Extend, Rows, TunnelsInv, TypeOK
    <2>5. CASE Tick
        BY <2>1, <2>5 DEF Tick, Rows
    <2>6. CASE UNCHANGED row
        BY <2>6
    <2> QED
        BY <2>2, <2>3, <2>4, <2>5, <2>6
           DEF Next, vars, HttpStep, LoopStep, NestedGivesUp, NestedBreaks, Receive,
               NodeHandles, Link, Unlink, DaemonRestarts, SetPolicy, Exits, Returns,
               OrphanEnds, Fails, Deadline, Tell,
               TellGivesUp, Flush, Insert, OpenGivesUp, WriteBreaks, DisableStarts, CreateStarts,
               CloseStarts, RotateStarts
<1> QED
    BY <1>1, TunnelsKeepInv, PTL DEF Spec, ClosedForGood

\* A stored row has a switch and a list of ports.
StoredRow(stored) ==
    /\ stored.present \in BOOLEAN
    /\ stored.present => stored.ports \in PortLists

\* Whatever rows the three layers store: the only port that may be forwarded
\* although a stored row forbids it is one that an empty platform list forbids,
\* and every port that all three rows admit may be forwarded.
THEOREM OnlyEmptyListsWiden ==
    ASSUME \A l \in Policies :
              StoredRow(l.integration) /\ StoredRow(l.settings) /\ StoredRow(l.report)
    PROVE  Spec => []OnlyEmptyListWidens
<1>1. TypeOK => OnlyEmptyListWidens
    <2> SUFFICES ASSUME TypeOK, NEW p \in (PortFloor - 1)..(PortCeiling + 1)
                 PROVE  MayForward(p) <=>
                           /\ PortFloor =< p /\ p =< PortCeiling
                           /\ \/ PlatformAdmits(layers.integration, p)
                              \/ EmptyPlatformList(layers.integration)
                           /\ SettingsAdmit(layers.settings, p)
                           /\ NodeAdmits(layers.report, p)
        BY DEF OnlyEmptyListWidens
    <2>1. p \in Int
        BY PortAssumption
    <2>2. /\ StoredRow(layers.integration) /\ StoredRow(layers.settings)
          /\ StoredRow(layers.report)
        BY DEF TypeOK
    <2>3. NoList \in PortLists /\ \A port : Admits(NoList, port)
        BY DEF PortLists, Admits
    <2>4. /\ Integration.ports \in PortLists
          /\ Integration.enabled /\ Admits(Integration.ports, p)
               <=> \/ PlatformAdmits(layers.integration, p)
                   \/ EmptyPlatformList(layers.integration)
        BY <2>2, <2>3 DEF StoredRow, Integration, integration_layer, PlatformAdmits,
                          EmptyPlatformList
    <2>5. /\ Settings.ports \in PortLists
          /\ Settings.enabled /\ Admits(Settings.ports, p) <=> SettingsAdmit(layers.settings, p)
        BY <2>2, <2>3 DEF StoredRow, Settings, node_settings_layer, SettingsAdmit
    <2>6. /\ Report.ports \in PortLists
          /\ ~Report.veto /\ Admits(Report.ports, p) <=> NodeAdmits(layers.report, p)
        BY <2>2, <2>3 DEF StoredRow, Report, node_report_layer, NodeAdmits
    <2>7. permits(EffectivePorts(Integration, Settings, Report), p)
            <=> AllLayersAdmit(Integration, Settings, Report, p)
        BY <2>1, <2>4, <2>5, <2>6, EffectivePortsAreTheIntersection
    <2>8. BlockedBy(Integration, Settings, Report) = "nobody"
            <=> Integration.enabled /\ Settings.enabled /\ ~Report.veto
        BY DEF BlockedBy
    <2> QED
        BY <2>4, <2>5, <2>6, <2>7, <2>8 DEF MayForward, AllLayersAdmit
<1> QED
    BY <1>1, TunnelsTypeCorrect, PTL
=============================================================================
