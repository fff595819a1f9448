------------------------------ MODULE NodeUpdate ------------------------------
(***************************************************************************)
(* Updating the daemon of one node.  Central asks the connected daemon     *)
(* (backend/app/services/node_update.py), which answers on the same socket *)
(* (daemon/internal/connection/update_handlers.go); as the daemon is not   *)
(* root it always refuses.  What replaces the binary and restarts the unit *)
(* is `sudo agentd update` (HostUpdate), a process of its own that Central *)
(* never hears of, except by the version of the next registration: here    *)
(* the unit may restart at any time, with any release.                     *)
(*                                                                         *)
(* row is the committed row of nodes.  A transaction works on an object it *)
(* loaded once and writes only the columns that it leaves different from   *)
(* what they were when loaded.  A gateway has one database session for its *)
(* life: the object loaded at authentication is part of a reference cycle, *)
(* so later work on that socket finds it again as it then was or, if the   *)
(* collector has run, the row as it is now.                                *)
(*                                                                         *)
(* Authentication and removal are in NodeCredentials, the frames of other  *)
(* requests in NodeRegistry.  A write to a socket found closed rolls the   *)
(* request back and changes nothing; a dry run changes nothing.            *)
(***************************************************************************)
EXTENDS Naturals, Sequences

CONSTANTS
    Sockets,        \* sockets the daemon may dial, each again once it is over
    Requests,       \* HTTP requests in progress at once
    Releases,       \* versions of the daemon
    FirstRelease,   \* the one installed when the node was enrolled
    MaxQueue,       \* bound: frames under way, in each direction
    MaxDials,       \* bound: connections the daemon makes
    MaxAsks,        \* bound: requests of administrators
    MaxChanges,     \* bound: restarts of the unit with another release
    NoSocket, NoRelease

ASSUME UpdateAssumption ==
    /\ NoSocket \notin Sockets
    /\ NoRelease \notin Releases /\ FirstRelease \in Releases
    /\ MaxQueue \in Nat \ {0}
    /\ MaxDials \in Nat /\ MaxAsks \in Nat /\ MaxChanges \in Nat

VARIABLES
    row,        \* nodes.update_status, update_target_version, daemon_version
    req,        \* each POST /update
    gate,       \* the receive loop of each socket, and what it is writing;
                \* history: no other was there when it began
    current,    \* the socket the registry holds
    link,       \* the socket the daemon is on
    orders,     \* daemon.update frames the daemon has not read
    reports,    \* frames the daemon has written, by socket
    runs,       \* the release the unit runs
    left        \* what remains of the three bounds

central == <<row, req, gate, current>>
vars == <<row, req, gate, current, link, orders, reports, runs, left>>

Columns == [status : {"none", "in_progress", "failed"},
            target : Releases \cup {NoRelease},
            version : Releases]
Frames == [k : {"register"}, release : Releases]
          \cup [k : {"result"}, by : Requests, release : Releases]

Orders == [by : Requests, release : Releases]
Transactions == [at : {"idle", "asking", "commit"}, on : Sockets \cup {NoSocket},
                 was : Columns, mark : Columns]
Loops == [at : {"off", "loop", "commit"}, alone : BOOLEAN,
          kept : Columns, was : Columns, mark : Columns]

TypeOK ==
    /\ row \in Columns
    /\ req \in [Requests -> Transactions] /\ gate \in [Sockets -> Loops]
    /\ current \in Sockets \cup {NoSocket} /\ link \in Sockets \cup {NoSocket}
    /\ orders \in Seq(Orders)
    /\ reports \in [Sockets -> Seq(Frames)]
    /\ runs \in Releases
    /\ left \in [dials : Nat, asks : Nat, changes : Nat]
-----------------------------------------------------------------------------
(* Mutant: a commit that writes the whole object.                          *)
Written_WholeRow(was, mark) == mark

(* The row: a commit writes the columns that changed in the object.        *)
Written(was, mark) ==
    [status |-> IF mark.status = was.status THEN row.status ELSE mark.status,
     target |-> IF mark.target = was.target THEN row.target ELSE mark.target,
     version |-> IF mark.version = was.version THEN row.version ELSE mark.version]

(* Mutant: the arguments the wrong way round.                              *)
Mark_Swapped(node, status, release) ==
    [status |-> release, target |-> status, version |-> node.version]

(* _mark: status and target together.                                      *)
Mark(node, status, release) == [status |-> status, target |-> release, version |-> node.version]

FirstRow == [status |-> "none", target |-> NoRelease, version |-> FirstRelease]
Idle == [at |-> "idle", on |-> NoSocket, was |-> FirstRow, mark |-> FirstRow]
Off == [at |-> "off", alone |-> FALSE, kept |-> FirstRow, was |-> FirstRow, mark |-> FirstRow]

(* What session.get finds: the object still held, or the row.              *)
Loaded(s) == {gate[s].kept, row}

(* Requests on a socket that is gone are told that the node is offline,    *)
(* which marks the node failed.                                            *)
OnceOffline(s) ==
    [q \in Requests |->
        IF req[q].at = "asking" /\ req[q].on = s
        THEN [req[q] EXCEPT !.at = "commit",
                            !.mark = Mark(req[q].was, "failed", req[q].mark.target)]
        ELSE req[q]]

(* Identifiers are fresh: none of q's is left in a frame under way.        *)
Fresh(q) ==
    /\ \A i \in DOMAIN orders : orders[i].by # q
    /\ \A s \in Sockets : \A i \in DOMAIN reports[s] :
          reports[s][i].k = "result" => reports[s][i].by # q

Init ==
    /\ row = FirstRow
    /\ req = [q \in Requests |-> Idle]
    /\ gate = [s \in Sockets |-> Off]
    /\ current = NoSocket /\ link = NoSocket
    /\ orders = <<>> /\ reports = [s \in Sockets |-> <<>>]
    /\ runs = FirstRelease
    /\ left = [dials |-> MaxDials, asks |-> MaxAsks, changes |-> MaxChanges]
-----------------------------------------------------------------------------
Spend(what) ==
    /\ left[what] > 0
    /\ left' = [left EXCEPT ![what] = @ - 1]

(* POST /nodes/{id}/update.  The mark stays in memory until the commit: a  *)
(* request that waits shows no one that it does.                           *)
Ask(q, r) ==
    /\ req[q].at = "idle" /\ Fresh(q) /\ row.status # "in_progress"
    /\ \/ /\ req' = [req EXCEPT ![q] = [at |-> "commit", on |-> NoSocket, was |-> row,
                                        mark |-> Mark(row, "failed", r)]]
          /\ UNCHANGED orders
       \/ /\ current # NoSocket
          /\ req' = [req EXCEPT ![q] = [at |-> "asking", on |-> current, was |-> row,
                                        mark |-> Mark(row, "in_progress", r)]]
          /\ IF current = link
             THEN /\ Len(orders) < MaxQueue
                  /\ orders' = Append(orders, [by |-> q, release |-> r])
             ELSE UNCHANGED orders
    /\ Spend("asks")
    /\ UNCHANGED <<row, gate, current, link, reports, runs>>

(* No answer within update_request_timeout: not a failure.                 *)
TimesOut(q) ==
    /\ req[q].at = "asking"
    /\ req' = [req EXCEPT ![q].at = "commit"]
    /\ UNCHANGED <<row, gate, current, link, orders, reports, runs, left>>

Commit(q) ==
    /\ req[q].at = "commit"
    /\ row' = Written(req[q].was, req[q].mark)
    /\ req' = [req EXCEPT ![q] = Idle]
    /\ UNCHANGED <<gate, current, link, orders, reports, runs, left>>
-----------------------------------------------------------------------------
(* The gateway.                                                            *)

(* The daemon dials, authenticates and registers; the socket it replaces   *)
(* loses its requests.                                                     *)
Connect(s) ==
    /\ link = NoSocket /\ gate[s].at = "off"
    /\ link' = s /\ current' = s
    /\ gate' = [gate EXCEPT ![s] = [Off EXCEPT !.at = "loop", !.kept = row,
                                       !.alone = \A o \in Sockets : gate[o].at = "off"]]
    /\ req' = OnceOffline(current)
    /\ reports' = [reports EXCEPT ![s] = <<[k |-> "register", release |-> runs]>>]
    /\ Spend("dials")
    /\ UNCHANGED <<row, orders, runs>>

Awaited(m) == req[m.by].at = "asking" /\ req[m.by].on = current

Works(s, node, mark) ==
    /\ gate' = [gate EXCEPT ![s].at = "commit", ![s].was = node, ![s].mark = mark]
    /\ UNCHANGED req

(* node.register is written through; a result is handed to its request, or *)
(* else recorded here.  Neither looks at the target on record.             *)
Receive(s) ==
    /\ gate[s].at = "loop" /\ reports[s] # <<>>
    /\ reports' = [reports EXCEPT ![s] = Tail(@)]
    /\ LET m == Head(reports[s]) IN
       \/ /\ m.k = "register"
          /\ \E node \in Loaded(s) : Works(s, node, [node EXCEPT !.version = m.release])
       \/ /\ m.k = "result" /\ Awaited(m)
          /\ req' = [req EXCEPT ![m.by].at = "commit",
                                ![m.by].mark = Mark(req[m.by].was, "failed", m.release)]
          /\ UNCHANGED gate
       \/ /\ m.k = "result" /\ ~Awaited(m)
          /\ \E node \in Loaded(s) : Works(s, node, Mark(node, "failed", m.release))
    /\ UNCHANGED <<row, current, link, orders, runs, left>>

GateCommits(s) ==
    /\ gate[s].at = "commit"
    /\ row' = Written(gate[s].was, gate[s].mark)
    /\ gate' = [gate EXCEPT ![s] = [gate[s] EXCEPT !.at = "loop", !.kept = gate[s].mark,
                                           !.was = FirstRow, !.mark = FirstRow]]
    /\ UNCHANGED <<req, current, link, orders, reports, runs, left>>

(* The socket is gone: what it still held may have been read or not.       *)
GateEnds(s) ==
    /\ gate[s].at = "loop" /\ link # s
    /\ gate' = [gate EXCEPT ![s] = Off]
    /\ reports' = [reports EXCEPT ![s] = <<>>]
    /\ current' = IF current = s THEN NoSocket ELSE current
    /\ req' = OnceOffline(s)
    /\ UNCHANGED <<row, link, orders, runs, left>>
-----------------------------------------------------------------------------
(* The daemon's side of the socket.                                        *)

(* handleUpdate, inside the dispatch loop: not root, so refused at once.   *)
Answers ==
    /\ link # NoSocket /\ orders # <<>> /\ Len(reports[link]) < MaxQueue
    /\ reports' = [reports EXCEPT ![link] =
                      Append(@, [k |-> "result", by |-> Head(orders).by,
                                 release |-> Head(orders).release])]
    /\ orders' = Tail(orders)
    /\ UNCHANGED <<central, link, runs, left>>

LinkDrops ==
    /\ link # NoSocket
    /\ link' = NoSocket /\ orders' = <<>>
    /\ UNCHANGED <<central, reports, runs, left>>

(* The unit starts again, with another release installed by then; with the *)
(* same one Central sees a LinkDrops.                                      *)
UnitRestarts(r) ==
    /\ r # runs /\ Spend("changes")
    /\ runs' = r
    /\ link' = NoSocket /\ orders' = <<>>
    /\ UNCHANGED <<central, reports>>
-----------------------------------------------------------------------------
Asking(q) == TimesOut(q) \/ Commit(q)
Serving(s) == Receive(s) \/ GateCommits(s) \/ GateEnds(s)
Next ==
    \/ \E q \in Requests : Asking(q) \/ \E r \in Releases : Ask(q, r)
    \/ \E s \in Sockets : Serving(s) \/ Connect(s)
    \/ Answers \/ LinkDrops
    \/ \E r \in Releases : UnitRestarts(r)

Spec == Init /\ [][Next]_vars
-----------------------------------------------------------------------------
(* Once a daemon whose last connection was over has registered, Central    *)
(* shows the version it runs, whatever requests and late results write:    *)
(* none of them loaded the row before and writes its version back.         *)
Registered(s) ==
    /\ link = s /\ gate[s].alone /\ gate[s].at = "loop"
    /\ \A i \in DOMAIN reports[s] : reports[s][i].k # "register"
RegisteredVersionIsShown == \A s \in Sockets : Registered(s) => row.version = runs

(* settings.py:193: the state "stays `in_progress` until its own report or *)
(* its next registration settles it".  A registration that finds the row   *)
(* in progress, and announces the release that was asked for, settles it.  *)
RegistrationSettles ==
    [][\A s \in Sockets :
          /\ GateCommits(s) /\ gate[s].was.status = "in_progress"
          /\ gate[s].mark.version # gate[s].was.version
          /\ gate[s].mark.version = row.target
          => row'.status # "in_progress"]_vars
=============================================================================
