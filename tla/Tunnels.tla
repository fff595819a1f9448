------------------------------- MODULE Tunnels -------------------------------
(***************************************************************************)
(* The port-forwarding tunnels of one node: the HTTP transactions that     *)
(* open, close, extend and rotate them (backend/app/services/tunnels.py,   *)
(* api/http/tunnels.py), the node's receive loop that applies unasked      *)
(* tunnel.status events, and the daemon's supervisor                       *)
(* (daemon/internal/tunnel/supervisor.go).                                 *)
(*                                                                         *)
(* A row is what other transactions can read: a request keeps what it has  *)
(* changed in req until Commit.  A row inserted but not committed holds    *)
(* its port in the unique index uq_node_tunnels_live_port, and a rotation  *)
(* that has flushed holds its old row's lock; both over a round trip to    *)
(* the node.  A step is the code between two suspension points.            *)
(*                                                                         *)
(* Time is counted in Ticks of the lifetimes.  Protection, labels, the     *)
(* text of URLs and credentials are left out; so are an answer without an  *)
(* https URL and an anonymous one, which the daemon never sends.           *)
(***************************************************************************)
EXTENDS TunnelPolicy, Sequences

CONSTANTS
    Tunnels,       \* tunnel ids, over the whole behaviour
    PortOf,        \* the port each tunnel forwards
    OwnerOf,       \* the user who opens each tunnel
    Requests,      \* HTTP requests, over the whole behaviour
    Policies,      \* what the administrators and the node may store: the three
                   \* layers' rows and the provider plan with its credential,
                   \* "free", "missing", "readable" or "unreadable"
    FleetBudget,   \* integration.concurrent_budget
    UserMax,       \* settings.tunnels_per_user_max
    DefaultTtl,    \* integration.default_ttl_seconds, in Ticks
    MaxTtl,        \* settings.tunnel_max_ttl_seconds, in Ticks
    MaxQueue,      \* bound: frames under way from the node
    NoTunnel

ASSUME TunnelAssumption ==
    /\ PortOf \in [Tunnels -> Int]
    /\ DefaultTtl \in Nat \ {0} /\ MaxTtl \in Nat /\ DefaultTtl =< MaxTtl
    /\ Tunnels # {} /\ NoTunnel \notin Tunnels

VARIABLES
    layers,     \* what the three layers store, and the provider credential
    row,        \* committed rows of node_tunnels
    req,        \* each HTTP request: its transaction and where it waits
    linked,     \* the node is connected
    loops,      \* its receive loop ("now"), and one a lost link left behind
    toNode,     \* frames Central has written
    toCentral,  \* frames the daemon has written
    proc        \* the supervisor's tunnels, and the processes it lost

vars == <<layers, row, req, linked, loops, toNode, toCentral, proc>>

Tracked == {"up", "back"}
Waits == {"tell", "telling", "insert", "open", "commit"}

NoRowYet == [st |-> "none", left |-> 0, err |-> FALSE, url |-> FALSE]
Idle == [op |-> "none", todo |-> {}, ended |-> {}, new |-> NoTunnel,
         fate |-> "none", ttl |-> 0, at |-> "idle"]
Finished(r) == [Idle EXCEPT !.new = r.new, !.at = "done"]
IdleLoop == [at |-> "idle", t |-> NoTunnel, change |-> "none"]

Rows == [st : {"none", "live", "closed"}, left : 0..MaxTtl,
         err : BOOLEAN, url : BOOLEAN]
Transactions == [op : {"none", "create", "close", "rotate", "disable"},
                 todo : SUBSET Tunnels, ended : SUBSET Tunnels,
                 new : Tunnels \cup {NoTunnel}, fate : {"none", "held", "open", "gone"},
                 ttl : 0..MaxTtl, at : {"idle", "done"} \cup Waits]
LoopStates == [at : {"idle", "nested", "write"}, t : Tunnels \cup {NoTunnel},
               change : {"none", "closed", "failed", "running", "reconnecting"}]
Frames == [k : {"open", "close"}, t : Tunnels, by : Requests \cup {NoTunnel},
           ttl : 0..MaxTtl]
Events == [k : {"opened", "refused", "closed", "status"}, t : Tunnels,
           by : Requests \cup {NoTunnel},
           state : {"none", "running", "reconnecting", "failed", "closed"}]
Processes == [st : {"none", "orphan", "leaked"} \cup Tracked, left : 0..MaxTtl]

TypeOK ==
    /\ layers \in Policies
    /\ row \in [Tunnels -> Rows]
    /\ req \in [Requests -> Transactions]
    /\ linked \in BOOLEAN
    /\ loops \in [{"now", "old"} -> LoopStates]
    /\ toNode \in Seq(Frames)
    /\ toCentral \in Seq(Events)
    /\ proc \in [Tunnels -> Processes]

-----------------------------------------------------------------------------
(* Helpers.                                                                 *)

Integration == integration_layer(layers.integration)
Settings == node_settings_layer(layers.settings)
Report == node_report_layer(layers.report)

\* repositories/tunnels.py _live: the rows the limits and the duplicate-port
\* guard count, as request q reads them (its own closes are flushed).
LiveRows(q) == {t \in Tunnels \ req[q].ended : row[t].st = "live" /\ row[t].left > 0}

\* The rows that occupy their port in the unique index: unclosed, expired or not.
PortRows(q, p) == {t \in Tunnels \ req[q].ended : row[t].st = "live" /\ PortOf[t] = p}

\* A flushed UPDATE of a rotation locks the old row until it commits.
Lockers(t) ==
    {o \in Requests : /\ req[o].op = "rotate" /\ t \in req[o].ended
                      /\ req[o].at \in {"insert", "open", "commit"}}
RowLocked(q, t) == Lockers(t) \ {q} # {}

\* An INSERT waits for the transaction that inserted the same port, and for
\* the one that is changing an unclosed row of that port.
PortHeld_NoIndex(q, p) == \E t \in PortRows(q, p) : RowLocked(q, t)
PortHeld(q, p) ==
    \/ \E o \in Requests \ {q} : req[o].fate \in {"held", "open"} /\ PortOf[req[o].new] = p
    \/ \E t \in PortRows(q, p) : RowLocked(q, t)

Fresh(t) == row[t].st = "none" /\ \A q \in Requests : req[q].new # t

CloseFrame(t, by) == [k |-> "close", t |-> t, by |-> by, ttl |-> 0]
OpenFrame(t, by) == [k |-> "open", t |-> t, by |-> by, ttl |-> req[by].ttl]

\* The policy's part of them: no layer refuses, and the port is permitted.
MayForward(p) ==
    /\ BlockedBy(Integration, Settings, Report) = "nobody"
    /\ permits(EffectivePorts(Integration, Settings, Report), p)

\* The checks of TunnelService.create between its entry and the INSERT.  The
\* node's enabled flag (NodeCredentials), the protection and the consents the
\* caller gives are taken to be in order.
CreateAllowed(q, t) ==
    /\ MayForward(PortOf[t])
    /\ layers.report.prereq
    /\ linked
    /\ Cardinality(LiveRows(q)) < FleetBudget
    /\ Cardinality(LiveRows(q)) < EffectiveCap(Settings, Report)
    /\ Cardinality({u \in LiveRows(q) : OwnerOf[u] = OwnerOf[t]}) < UserMax
    /\ \A u \in LiveRows(q) : PortOf[u] # PortOf[t]

-----------------------------------------------------------------------------
(* The HTTP transactions.                                                   *)

\* TunnelService.create, up to the INSERT.  A refusal changes nothing.
CreateStarts(q, t) ==
    /\ req[q].at = "idle" /\ Fresh(t) /\ CreateAllowed(q, t)
    /\ req' = [req EXCEPT ![q] = [@ EXCEPT !.op = "create", !.new = t,
                                           !.ttl = DefaultTtl, !.at = "insert"]]
    /\ UNCHANGED <<layers, row, linked, loops, toNode, toCentral, proc>>

\* close(): an ended tunnel is answered as closed at once.
CloseStarts_NotLoaded(q, t) ==
    /\ req[q].at = "idle" /\ row[t].st # "none"
    /\ req' = [req EXCEPT ![q] = [@ EXCEPT !.op = "close", !.todo = @ \cup {NoTunnel},
                                           !.at = "tell"]]
    /\ UNCHANGED <<layers, row, linked, loops, toNode, toCentral, proc>>
CloseStarts(q, t) ==
    /\ req[q].at = "idle" /\ Integration.enabled /\ row[t].st # "none"
    /\ req' = [req EXCEPT ![q] =
                 IF row[t].st = "closed" THEN Finished(@)
                 ELSE [@ EXCEPT !.op = "close", !.todo = {t}, !.at = "tell"]]
    /\ UNCHANGED <<layers, row, linked, loops, toNode, toCentral, proc>>

\* rotate_password(): whatever state the old tunnel is in.
RotateStarts(q, t, n) ==
    /\ req[q].at = "idle" /\ Integration.enabled /\ row[t].st # "none"
    /\ Fresh(n) /\ PortOf[n] = PortOf[t] /\ OwnerOf[n] = OwnerOf[t]
    /\ req' = [req EXCEPT ![q] = [@ EXCEPT !.op = "rotate", !.todo = {t}, !.new = n,
                                           !.ttl = Higher(row[t].left, 1), !.at = "tell"]]
    /\ UNCHANGED <<layers, row, linked, loops, toNode, toCentral, proc>>

\* close_for_node(): the rows that are live when a node is disabled.
DisableStarts(q) ==
    /\ req[q].at = "idle"
    /\ req' = [req EXCEPT ![q] = [@ EXCEPT !.op = "disable", !.todo = LiveRows(q),
                                           !.at = "tell"]]
    /\ UNCHANGED <<layers, row, linked, loops, toNode, toCentral, proc>>

\* _end and _close_on_node: the row is closed in the transaction, then the
\* node is told if it is connected.
Tell(q, t) ==
    /\ req[q].at = "tell" /\ t \in req[q].todo
    /\ LET r == req[q]
       IN  req' = [req EXCEPT ![q] = [r EXCEPT !.todo = r.todo \ {t},
                                               !.ended = r.ended \cup {t},
                                               !.at = IF linked THEN "telling" ELSE "tell"]]
    /\ toNode' = IF linked THEN Append(toNode, CloseFrame(t, q))
                 ELSE toNode
    /\ UNCHANGED <<layers, row, linked, loops, toCentral, proc>>

\* The node cannot be told: the error is swallowed, the close goes on.
TellGivesUp(q) ==
    /\ req[q].at = "telling"
    /\ req' = [req EXCEPT ![q].at = "tell"]
    /\ UNCHANGED <<layers, row, linked, loops, toNode, toCentral, proc>>

\* rotate_password flushes the old row and keeps its lock from here on; then
\* the same checks for the new tunnel, whose refusal leaves the old one closed.
Flush(q) ==
    /\ req[q].at = "tell" /\ req[q].todo = {} /\ req[q].op = "rotate"
    /\ \A t \in req[q].ended : ~RowLocked(q, t)
    /\ req' = [req EXCEPT ![q] = IF CreateAllowed(q, req[q].new)
                                 THEN [@ EXCEPT !.at = "insert"]
                                 ELSE [@ EXCEPT !.fate = "gone", !.at = "commit"]]
    /\ UNCHANGED <<layers, row, linked, loops, toNode, toCentral, proc>>

\* The INSERT is flushed, the credential read and tunnel.open sent.  A port
\* still in the index is an IntegrityError, and no handler catches that: the
\* whole transaction is rolled back.  A stored credential that cannot be read
\* raises before the handler that removes the row.
Insert(q) ==
    /\ req[q].at = "insert" /\ ~PortHeld(q, PortOf[req[q].new])
    /\ LET t == req[q].new
           sends == layers.cred \in {"free", "readable"} /\ linked
       IN  IF PortRows(q, PortOf[t]) # {}
           THEN /\ req' = [req EXCEPT ![q] = Finished(@)]
                /\ UNCHANGED toNode
           ELSE /\ req' = [req EXCEPT ![q] = [@ EXCEPT
                      !.fate = IF sends \/ layers.cred = "unreadable" THEN "held" ELSE "gone",
                      !.at = IF sends THEN "open" ELSE "commit"]]
                /\ toNode' = IF sends THEN Append(toNode, OpenFrame(t, q))
                             ELSE toNode
    /\ UNCHANGED <<layers, row, linked, loops, toCentral, proc>>

\* tunnel.open timed out, or the connection went: the row is removed.
OpenGivesUp_WhenOffline(q) ==
    /\ req[q].at = "open" /\ ~linked
    /\ req' = [req EXCEPT ![q] = [@ EXCEPT !.fate = "gone", !.at = "commit"]]
    /\ UNCHANGED <<layers, row, linked, loops, toNode, toCentral, proc>>
OpenGivesUp(q) ==
    /\ req[q].at = "open"
    /\ req' = [req EXCEPT ![q] = [@ EXCEPT !.fate = "gone", !.at = "commit"]]
    /\ UNCHANGED <<layers, row, linked, loops, toNode, toCentral, proc>>

\* The write of tunnel.close or tunnel.open breaks.  That is no ApiError, so
\* no handler takes it and the route commits nothing.
WriteBreaks(q) ==
    /\ req[q].at \in {"telling", "open"}
    /\ req' = [req EXCEPT ![q] = Finished(@)]
    /\ UNCHANGED <<layers, row, linked, loops, toNode, toCentral, proc>>

Finishing(q) ==
    \/ req[q].at = "commit"
    \/ req[q].at = "tell" /\ req[q].todo = {} /\ req[q].op # "rotate"

\* The route commits, after success and after an ApiError alike.
Commit(q) ==
    /\ Finishing(q) /\ \A t \in req[q].ended : ~RowLocked(q, t)
    /\ row' = [t \in Tunnels |->
                 IF t \in req[q].ended THEN [row[t] EXCEPT !.st = "closed"]
                 ELSE IF t = req[q].new /\ req[q].fate \in {"held", "open"}
                 THEN [st |-> "live", left |-> req[q].ttl, err |-> FALSE,
                       url |-> req[q].fate = "open"]
                 ELSE row[t]]
    /\ req' = [req EXCEPT ![q] = Finished(@)]
    /\ UNCHANGED <<layers, linked, loops, toNode, toCentral, proc>>

\* extend(): only the platform's deadline moves.
Extend(t) ==
    /\ Integration.enabled /\ row[t].st = "live" /\ row[t].left > 0
    /\ Lockers(t) = {}
    /\ LET left == Lower(row[t].left + DefaultTtl, MaxTtl)
       IN  row[t].left < left /\ row' = [row EXCEPT ![t].left = left]
    /\ UNCHANGED <<layers, req, linked, loops, toNode, toCentral, proc>>

-----------------------------------------------------------------------------
(* The node's receive loop in Central.                                      *)

Answer(k, t, by) == [k |-> k, t |-> t, by |-> by, state |-> "none"]
Status(t, state) == [k |-> "status", t |-> t, by |-> NoTunnel, state |-> state]

\* apply_status on a row it can read: one that is unclosed.  "closed" ends the
\* tunnel as a user's close would: it tells the node, and waits for an answer
\* that only this loop could read.
Applied(m) ==
    [at |-> IF m.state = "closed" THEN "nested" ELSE "write", t |-> m.t, change |-> m.state]

\* "running" and "reconnecting" clear an error, and "running" brings a URL.  It
\* writes as well when the URL's text or its expiry is new, which it may be.
Changes(m) ==
    /\ row[m.t].st = "live"
    /\ \/ row[m.t].err
       \/ m.state \in {"closed", "failed"}
       \/ m.state = "running" /\ ~row[m.t].url
MayChange(m) == row[m.t].st = "live" /\ m.state = "running"

\* resolve_response, or the tunnel.status branch of the gateway.
Receive ==
    /\ linked /\ loops["now"].at = "idle" /\ toCentral # <<>>
    /\ toCentral' = Tail(toCentral)
    /\ LET m == Head(toCentral)
       IN  IF m.k = "status"
           THEN /\ UNCHANGED req
                /\ \/ /\ Changes(m) \/ MayChange(m)
                      /\ loops' = [loops EXCEPT !["now"] = Applied(m)]
                      /\ toNode' = IF m.state = "closed"
                                   THEN Append(toNode, CloseFrame(m.t, NoTunnel))
                                   ELSE toNode
                   \/ ~Changes(m) /\ UNCHANGED <<loops, toNode>>
           ELSE /\ UNCHANGED <<loops, toNode>>
                /\ req' = IF m.by \notin Requests THEN req
                          ELSE [req EXCEPT ![m.by] =
                            CASE m.k = "closed" /\ @.at = "telling" ->
                                   [@ EXCEPT !.at = "tell"]
                              [] m.k = "opened" /\ @.at = "open" ->
                                   [@ EXCEPT !.fate = "open", !.at = "commit"]
                              [] m.k = "refused" /\ @.at = "open" ->
                                   [@ EXCEPT !.fate = "gone", !.at = "commit"]
                              [] OTHER -> @]
    /\ UNCHANGED <<layers, row, linked, proc>>

\* The loop's own tunnel.close is never answered; its wait has a timeout.
NestedGivesUp(l) ==
    /\ loops[l].at = "nested"
    /\ loops' = [loops EXCEPT ![l].at = "write"]
    /\ UNCHANGED <<layers, row, req, linked, toNode, toCentral, proc>>

\* The write of that tunnel.close breaks with its socket: the exception ends
\* the gateway, and nothing of the status is written.
NestedBreaks ==
    /\ loops["old"].at = "nested"
    /\ loops' = [loops EXCEPT !["old"] = IdleLoop]
    /\ UNCHANGED <<layers, row, req, linked, toNode, toCentral, proc>>

\* The gateway commits what apply_status changed, once the row is free.
LoopWrites_StaleRow(l) ==
    /\ loops[l].at = "write" /\ Lockers(loops[l].t) = {}
    /\ row' = [row EXCEPT ![loops[l].t] =
                 IF loops[l].change = "closed" THEN [@ EXCEPT !.st = "closed"]
                 ELSE [@ EXCEPT !.st = "live", !.err = loops[l].change = "failed"]]
    /\ loops' = [loops EXCEPT ![l] = IdleLoop]
    /\ UNCHANGED <<layers, req, linked, toNode, toCentral, proc>>
LoopWrites(l) ==
    /\ loops[l].at = "write" /\ Lockers(loops[l].t) = {}
    /\ row' = [row EXCEPT ![loops[l].t] =
                 CASE loops[l].change = "closed" -> [@ EXCEPT !.st = "closed"]
                   [] loops[l].change = "failed" -> [@ EXCEPT !.err = TRUE]
                   [] loops[l].change = "running" -> [@ EXCEPT !.err = FALSE, !.url = TRUE]
                   [] OTHER -> [@ EXCEPT !.err = FALSE]]
    /\ loops' = [loops EXCEPT ![l] = IdleLoop]
    /\ UNCHANGED <<layers, req, linked, toNode, toCentral, proc>>

-----------------------------------------------------------------------------
(* The daemon.                                                              *)

\* TunnelStatus: dropped while there is no connection.
Report2Central(t, state) ==
    toCentral' = IF linked THEN Append(toCentral, Status(t, state)) ELSE toCentral

\* handleTunnelOpen and handleTunnelClose, one frame at a time.  The node may
\* refuse (its own veto, ports, limit, or the provider).  A close that finds
\* the tunnel between two processes stops the old handle only: the one being
\* started may still come, outside the supervisor's table.
NodeHandles ==
    /\ linked /\ toNode # <<>>
    /\ toNode' = Tail(toNode)
    /\ LET m == Head(toNode)
       IN  IF m.k = "open"
           THEN \/ /\ proc[m.t].st \notin Tracked
                   /\ proc' = [proc EXCEPT ![m.t] = [st |-> "up", left |-> m.ttl]]
                   /\ toCentral' = Append(toCentral, Answer("opened", m.t, m.by))
                \/ /\ UNCHANGED proc
                   /\ toCentral' = Append(toCentral, Answer("refused", m.t, m.by))
           ELSE IF proc[m.t].st \in Tracked
           THEN /\ \E rest \in {"none"} \cup (IF proc[m.t].st = "back" THEN {"orphan"} ELSE {}) :
                      proc' = [proc EXCEPT ![m.t] = [st |-> rest, left |-> 0]]
                /\ toCentral' = toCentral \o
                      <<Status(m.t, "closed"), Answer("closed", m.t, m.by)>>
           ELSE /\ UNCHANGED proc
                /\ toCentral' = Append(toCentral, Answer("closed", m.t, m.by))
    /\ UNCHANGED <<layers, row, req, linked, loops>>

\* supervise(): a retryable exit, and the process that replaces it.
Exits(t) ==
    /\ proc[t].st = "up" /\ Len(toCentral) < MaxQueue
    /\ proc' = [proc EXCEPT ![t].st = "back"]
    /\ Report2Central(t, "reconnecting")
    /\ UNCHANGED <<layers, row, req, linked, loops, toNode>>

Returns_Rearmed(t) ==
    /\ proc[t].st = "back" /\ Len(toCentral) < MaxQueue
    /\ proc' = [proc EXCEPT ![t] = [st |-> "up", left |-> DefaultTtl]]
    /\ Report2Central(t, "running")
    /\ UNCHANGED <<layers, row, req, linked, loops, toNode>>
Returns(t) ==
    /\ proc[t].st = "back" /\ Len(toCentral) < MaxQueue
    /\ proc' = [proc EXCEPT ![t].st = "up"]
    /\ Report2Central(t, "running")
    /\ UNCHANGED <<layers, row, req, linked, loops, toNode>>

\* The process that a close did not find starts after all, or is refused: its
\* goroutine reports that before it sees that the tunnel was cancelled.
OrphanEnds(t) ==
    /\ proc[t].st = "orphan" /\ Len(toCentral) < MaxQueue
    /\ \/ /\ proc' = [proc EXCEPT ![t].st = "leaked"]
          /\ Report2Central(t, "running")
       \/ /\ proc' = [proc EXCEPT ![t].st = "none"]
          /\ Report2Central(t, "failed")
    /\ UNCHANGED <<layers, row, req, linked, loops, toNode>>

\* An exit that is not retryable, or too many that are.
Fails(t) ==
    /\ proc[t].st \in Tracked /\ Len(toCentral) < MaxQueue
    /\ proc' = [proc EXCEPT ![t] = [st |-> "none", left |-> 0]]
    /\ Report2Central(t, "failed")
    /\ UNCHANGED <<layers, row, req, linked, loops, toNode>>

\* The time limit Central gave with tunnel.open.
Deadline(t) ==
    /\ proc[t].st = "up" /\ proc[t].left = 0 /\ Len(toCentral) < MaxQueue
    /\ proc' = [proc EXCEPT ![t].st = "none"]
    /\ Report2Central(t, "closed")
    /\ UNCHANGED <<layers, row, req, linked, loops, toNode>>

-----------------------------------------------------------------------------
(* The link, the clock and the administrators.                              *)

\* A loop that is still handling a status when its socket goes finishes that.
LosesLink ==
    /\ loops["old"].at = "idle"
    /\ linked' = FALSE
    /\ loops' = [now |-> IdleLoop, old |-> loops["now"]]
    /\ toNode' = <<>> /\ toCentral' = <<>>

Unlink ==
    /\ linked /\ LosesLink
    /\ UNCHANGED <<layers, row, req, proc>>

Link ==
    /\ ~linked /\ linked' = TRUE
    /\ UNCHANGED <<layers, row, req, loops, toNode, toCentral, proc>>

\* CloseAll() at a stop and ReapOrphans() at the start leave no process, and
\* neither sends a status.
DaemonRestarts ==
    /\ LosesLink
    /\ proc' = [t \in Tunnels |-> [st |-> "none", left |-> 0]]
    /\ UNCHANGED <<layers, row, req>>

Less(n) == IF n > 0 THEN n - 1 ELSE 0
Tick ==
    /\ \E t \in Tunnels : row[t].left > 0 \/ proc[t].left > 0
    /\ row' = [t \in Tunnels |-> [row[t] EXCEPT !.left = Less(@)]]
    /\ proc' = [t \in Tunnels |-> [proc[t] EXCEPT !.left = Less(@)]]
    /\ req' = [q \in Requests |-> IF req[q].at \in {"open", "commit"}
                                  THEN [req[q] EXCEPT !.ttl = Less(@)] ELSE req[q]]
    /\ UNCHANGED <<layers, linked, loops, toNode, toCentral>>

\* A platform setting changes, or the node's report of its own.
SetPolicy == \E l \in Policies \ {layers} :
    layers' = l /\ UNCHANGED <<row, req, linked, loops, toNode, toCentral, proc>>

-----------------------------------------------------------------------------
Init ==
    /\ layers \in Policies
    /\ row = [t \in Tunnels |-> NoRowYet]
    /\ req = [q \in Requests |-> Idle]
    /\ linked = TRUE /\ loops = [l \in {"now", "old"} |-> IdleLoop]
    /\ toNode = <<>> /\ toCentral = <<>>
    /\ proc = [t \in Tunnels |-> [st |-> "none", left |-> 0]]

HttpStep(q) ==
    \/ \E t \in Tunnels : Tell(q, t)
    \/ TellGivesUp(q) \/ Flush(q)
    \/ Insert(q) \/ OpenGivesUp(q) \/ Commit(q)
LoopStep(l) == NestedGivesUp(l) \/ LoopWrites(l)

Next ==
    \/ \E q \in Requests : HttpStep(q) \/ WriteBreaks(q) \/ DisableStarts(q)
    \/ \E q \in Requests, t \in Tunnels : CreateStarts(q, t) \/ CloseStarts(q, t)
    \/ \E q \in Requests, t, n \in Tunnels : RotateStarts(q, t, n)
    \/ \E t \in Tunnels : Extend(t)
    \/ Receive \/ NestedBreaks \/ \E l \in {"now", "old"} : LoopStep(l)
    \/ NodeHandles
    \/ \E t \in Tunnels : Exits(t) \/ Returns(t) \/ OrphanEnds(t) \/ Fails(t) \/ Deadline(t)
    \/ Link \/ Unlink \/ DaemonRestarts \/ Tick \/ SetPolicy

Spec == Init /\ [][Next]_vars

\* Every wait has a timeout and asyncio runs what is ready; the gateway reads
\* as long as there is a link; time passes; a backoff ends, and select takes a
\* deadline that keeps being ready.
Fairness ==
    /\ \A q \in Requests : WF_vars(HttpStep(q))
    /\ \A l \in {"now", "old"} : WF_vars(LoopStep(l))
    /\ WF_vars(Receive) /\ WF_vars(Tick)
    /\ \A t \in Tunnels : WF_vars(Returns(t)) /\ SF_vars(Deadline(t))

FairSpec == Spec /\ Fairness

-----------------------------------------------------------------------------
(* Properties.                                                              *)

\* A port may be forwarded exactly when it is unprivileged and the three rows
\* that are stored admit it, with one exception: a platform list that is stored
\* empty, "forbid every port", narrows nothing.  Parsing, clamping, defaults of
\* absent rows and the order of the intersections lose and add nothing else
\* (effective_policy: "Every layer may narrow; none may widen").
OnlyEmptyListWidens ==
    \A p \in (PortFloor - 1)..(PortCeiling + 1) :
        MayForward(p) <=>
            /\ PortFloor =< p /\ p =< PortCeiling
            /\ PlatformAdmits(layers.integration, p) \/ EmptyPlatformList(layers.integration)
            /\ SettingsAdmit(layers.settings, p)
            /\ NodeAdmits(layers.report, p)

\* No port of the node is forwarded by two unclosed rows, whatever creates and
\* rotations of it overlap while their rows are not committed.
OneOpenRowPerPort ==
    \A t, u \in Tunnels :
        t # u /\ row[t].st = "live" /\ row[u].st = "live" => PortOf[t] # PortOf[u]

\* A closed tunnel stays closed and a recorded one stays recorded: no status
\* or extension that read the row earlier reopens it.
StatesOnlyAdvance ==
    \A t \in Tunnels : /\ row[t].st = "closed" => row'[t].st = "closed"
                       /\ row[t].st # "none" => row'[t].st # "none"
ClosedForGood == [][StatesOnlyAdvance]_vars

\* "Only Close, the TTL, or the reconnect limit end it": a tunnel the daemon
\* supervises ends, whether or not Central still knows of it.
ProcessesEnd == \A t \in Tunnels : proc[t].st \in Tracked ~> proc[t].st \notin Tracked

\* Every transaction ends, and so does every status the loop applies, although
\* the loop may wait for its own answer and for a row a rotation holds.
TransactionsEnd ==
    /\ \A q \in Requests : req[q].at \in Waits ~> req[q].at = "done"
    /\ \A l \in {"now", "old"} : loops[l].at # "idle" ~> loops[l].at = "idle"
=============================================================================
