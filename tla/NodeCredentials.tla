--------------------------- MODULE NodeCredentials ---------------------------
(***************************************************************************)
(* What administrators do to one enrolled node while its daemon comes and  *)
(* goes: revoke and rotate its credential, remove, disable and enable it   *)
(* (backend/app/services/nodes.py), against the gateway coroutines that    *)
(* authenticate the daemon's sockets and write its heartbeats              *)
(* (api/ws/nodes.py).                                                      *)
(*                                                                         *)
(* node and creds are committed rows.  A transaction that has flushed a    *)
(* change of a row, because a later query of its own flushed it, keeps the *)
(* row locked until it commits.  A step is the code between two suspension *)
(* points.                                                                 *)
(*                                                                         *)
(* The node has at most one live tunnel to close, and the sessions that a  *)
(* disable may also terminate are left out; how a socket is superseded,    *)
(* drained and awaited is NodeRegistry, and updates are NodeUpdate.        *)
(***************************************************************************)
EXTENDS Naturals, Sequences

CONSTANTS
    Sockets,        \* sockets the daemon may dial, each again once it is over
    Requests,       \* HTTP requests in progress at once
    MaxOperations,  \* bound: operations ever begun
    NoSocket

ASSUME CredentialAssumption ==
    /\ NoSocket \notin Sockets
    /\ MaxOperations \in Nat

VARIABLES
    node,       \* the row of nodes: deleted, enabled
    creds,      \* the rows of node_credentials, by version
    req,        \* each HTTP request: its transaction and where it waits
    gate,       \* the gateway coroutine of each socket
    open,       \* Central has not seen the socket close
    key,        \* the credential version the socket authenticated with
    current,    \* the socket the registry holds
    begun,      \* bound: how many operations have begun
    raced       \* history: sockets that authenticated during a revocation

central == <<node, creds, req>>
sockets == <<gate, open, key, current>>
vars == <<central, sockets, begun, raced>>

Revoking == {"revoke", "rotate", "remove"}
Transactions ==
    [op : Revoking \cup {"none", "disable", "enable"},
     at : {"idle", "begin", "revoking", "tell", "telling", "sever", "closing", "commit"},
     dirty : BOOLEAN,                  \* it changes a column of the node row
     locked : BOOLEAN,                 \* and has flushed the change
     seen : SUBSET Nat,                \* credentials its UPDATE found active
     holds : SUBSET Nat,               \* credentials it revoked
     new : Nat,                        \* the version a rotation issues
     on : Sockets \cup {NoSocket}]     \* the connection it told, or evicted

TypeOK ==
    /\ node \in [deleted : BOOLEAN, enabled : BOOLEAN]
    /\ creds \in Seq({"active", "revoked"})
    /\ req \in [Requests -> Transactions]
    /\ gate \in [Sockets -> {"off", "auth", "known", "verified", "loop", "busy"}]
    /\ open \in [Sockets -> BOOLEAN]
    /\ key \in [Sockets -> Nat]
    /\ current \in Sockets \cup {NoSocket}
    /\ \A q \in Requests : req[q].on # NoSocket <=> req[q].at \in {"telling", "closing"}
    /\ begun \in Nat /\ raced \in SUBSET Sockets

-----------------------------------------------------------------------------
(* Helpers.                                                                 *)

Idle == [op |-> "none", at |-> "idle", dirty |-> FALSE, locked |-> FALSE,
         seen |-> {}, holds |-> {}, new |-> 0, on |-> NoSocket]

Active == {v \in DOMAIN creds : creds[v] = "active"}

\* The lock on the node row.
RowFree(q) == \A p \in Requests \ {q} : ~req[p].locked

\* What follows the close of a tunnel.
AfterTell_NoEviction(r) == [r EXCEPT !.on = NoSocket,
                                     !.at = IF r.op = "disable" THEN "commit" ELSE "closing"]
AfterTell(r) == [r EXCEPT !.on = NoSocket,
                          !.at = IF r.op = "disable" THEN "commit" ELSE "sever"]

\* The registered connection goes: its pending calls fail with NODE_OFFLINE,
\* which _close_on_node swallows.
FailWaiting(others) ==
    req' = [q \in Requests |->
              IF req[q].at = "telling" /\ req[q].on = current THEN AfterTell(req[q])
              ELSE others[q]]

-----------------------------------------------------------------------------
(* The administrators' transactions.                                        *)

\* _require, and the attribute each operation sets before its first query.
Load(q, op, dirty, at) ==
    req' = [req EXCEPT ![q] = [@ EXCEPT !.op = op, !.dirty = dirty, !.at = at]]

Begin(q) ==
    /\ req[q].at = "idle" /\ ~node.deleted
    /\ begun < MaxOperations /\ begun' = begun + 1
    /\ \/ Load(q, "revoke", FALSE, "begin")
       \/ Load(q, "rotate", FALSE, "begin")
       \/ Load(q, "remove", TRUE, "begin")
       \/ Load(q, "disable", node.enabled, "begin")
       \/ Load(q, "enable", ~node.enabled, "commit")
    /\ UNCHANGED <<node, creds, sockets, raced>>

\* The first query flushes what was set, and waits for the row if it must.
\* It is revoke_all, or the one that finds the tunnels to close.
Query(q) ==
    /\ req[q].at = "begin" /\ (req[q].dirty => RowFree(q))
    /\ req' = [req EXCEPT ![q] =
                 [@ EXCEPT !.locked = req[q].dirty,
                           !.seen = IF req[q].op = "disable" THEN {} ELSE Active,
                           !.at = IF req[q].op = "disable" THEN "tell" ELSE "revoking"]]
    /\ UNCHANGED <<node, creds, sockets, begun, raced>>

\* revoke_all waits for the rows it found, and revokes those that are still
\* active; next_version is the next statement.
Revoke_NoSever(q) ==
    /\ req[q].at = "revoking"
    /\ \A p \in Requests \ {q} : req[p].holds \cap req[q].seen = {}
    /\ req' = [req EXCEPT ![q] =
                 [@ EXCEPT !.seen = {}, !.holds = req[q].seen \cap Active,
                           !.new = IF req[q].op = "rotate" THEN Len(creds) + 1 ELSE 0,
                           !.at = IF req[q].op = "rotate" THEN "commit" ELSE "tell"]]
    /\ UNCHANGED <<node, creds, sockets, begun, raced>>
Revoke_MarksNode(q) ==
    /\ req[q].at = "revoking"
    /\ \A p \in Requests \ {q} : req[p].holds \cap req[q].seen = {}
    /\ req' = [req EXCEPT ![q] =
                 [@ EXCEPT !.seen = {}, !.dirty = TRUE, !.holds = req[q].seen \cap Active,
                           !.new = IF req[q].op = "rotate" THEN Len(creds) + 1 ELSE 0,
                           !.at = IF req[q].op = "rotate" THEN "sever" ELSE "tell"]]
    /\ UNCHANGED <<node, creds, sockets, begun, raced>>
Revoke(q) ==
    /\ req[q].at = "revoking"
    /\ \A p \in Requests \ {q} : req[p].holds \cap req[q].seen = {}
    /\ req' = [req EXCEPT ![q] =
                 [@ EXCEPT !.seen = {}, !.holds = req[q].seen \cap Active,
                           !.new = IF req[q].op = "rotate" THEN Len(creds) + 1 ELSE 0,
                           !.at = IF req[q].op = "rotate" THEN "sever" ELSE "tell"]]
    /\ UNCHANGED <<node, creds, sockets, begun, raced>>

\* _close_tunnels: a live tunnel is closed on a node that is connected.
Tell(q) ==
    /\ req[q].at = "tell"
    /\ \/ req' = [req EXCEPT ![q] = AfterTell(@)]
       \/ /\ current # NoSocket
          /\ req' = [req EXCEPT ![q] = [@ EXCEPT !.at = "telling", !.on = current]]
    /\ UNCHANGED <<node, creds, sockets, begun, raced>>

TellTimesOut_WhenOffline(q) ==
    /\ req[q].at = "telling" /\ req[q].on # current
    /\ req' = [req EXCEPT ![q] = AfterTell(@)]
    /\ UNCHANGED <<node, creds, sockets, begun, raced>>
TellTimesOut(q) ==
    /\ req[q].at = "telling"
    /\ req' = [req EXCEPT ![q] = AfterTell(@)]
    /\ UNCHANGED <<node, creds, sockets, begun, raced>>

\* The write breaks: no ApiError, so nothing swallows it.  The transaction is
\* rolled back before it evicts anybody.
TellBreaks(q) ==
    /\ req[q].at = "telling"
    /\ req' = [req EXCEPT ![q] = Idle]
    /\ UNCHANGED <<node, creds, sockets, begun, raced>>

\* _sever_connection: evict, then close the socket.
Severed(r) ==
    IF current = NoSocket THEN [r EXCEPT !.at = "commit"]
    ELSE [r EXCEPT !.at = "closing", !.on = current]

Sever(q) ==
    /\ req[q].at = "sever"
    /\ FailWaiting([req EXCEPT ![q] = Severed(@)])
    /\ current' = NoSocket
    /\ raced' = raced \cup {s \in Sockets : gate[s] = "verified"}
    /\ UNCHANGED <<node, creds, gate, open, key, begun>>

Close(q) ==
    /\ req[q].at = "closing"
    /\ req' = [req EXCEPT ![q] = [@ EXCEPT !.at = "commit", !.on = NoSocket]]
    /\ open' = [open EXCEPT ![req[q].on] = FALSE]
    /\ UNCHANGED <<node, creds, gate, key, current, begun, raced>>

\* The columns each operation has set.
WrittenNode(r) ==
    IF ~r.dirty THEN node
    ELSE CASE r.op = "remove" -> [node EXCEPT !.deleted = TRUE]
           [] r.op = "disable" -> [node EXCEPT !.enabled = FALSE]
           [] OTHER -> [node EXCEPT !.enabled = TRUE]
WrittenCreds(r) ==
    LET old == [v \in DOMAIN creds |-> IF v \in r.holds THEN "revoked" ELSE creds[v]]
    IN  IF r.op = "rotate" THEN Append(old, "active") ELSE old

\* The route commits.  A version somebody else has issued meanwhile breaks
\* UNIQUE (node_id, version), which undoes the whole rotation.
Commit(q) ==
    /\ req[q].at = "commit" /\ (req[q].dirty => RowFree(q))
    /\ IF req[q].op = "rotate" /\ req[q].new \in DOMAIN creds
       THEN UNCHANGED <<node, creds>>
       ELSE node' = WrittenNode(req[q]) /\ creds' = WrittenCreds(req[q])
    /\ req' = [req EXCEPT ![q] = Idle]
    /\ UNCHANGED <<sockets, begun, raced>>

-----------------------------------------------------------------------------
(* The gateway coroutines.                                                  *)

\* A revocation is under way from the moment it evicted the socket.
Severing == \E q \in Requests : req[q].op \in Revoking /\ req[q].at \in {"closing", "commit"}

\* authenticate_signature is two queries: a node that is not removed, and its
\* newest credential that is not revoked.
FindNode(s) ==
    /\ gate[s] = "auth" /\ open[s] /\ ~node.deleted
    /\ gate' = [gate EXCEPT ![s] = "known"]
    /\ UNCHANGED <<central, open, key, current, begun, raced>>

Verify(s) ==
    /\ gate[s] = "known" /\ open[s]
    /\ \E v \in Active : /\ \A w \in Active : w =< v
                       /\ key' = [key EXCEPT ![s] = v]
    /\ gate' = [gate EXCEPT ![s] = "verified"]
    /\ raced' = IF Severing THEN raced \cup {s} ELSE raced
    /\ UNCHANGED <<central, open, current, begun>>

\* The daemon may always fail to prove its key, or not answer in time.
Reject(s) ==
    /\ gate[s] \in {"auth", "known"}
    /\ gate' = [gate EXCEPT ![s] = "off"] /\ open' = [open EXCEPT ![s] = FALSE]
    /\ UNCHANGED <<central, key, current, begun, raced>>

\* registry.register, and the close of the socket it replaced.
Register(s) ==
    /\ gate[s] = "verified"
    /\ gate' = [gate EXCEPT ![s] = "loop"]
    /\ current' = s
    /\ FailWaiting(req)
    /\ open' = [t \in Sockets |-> open[t] /\ t # current]
    /\ UNCHANGED <<node, creds, key, begun, raced>>

\* One frame of the receive loop: the daemon's answer resolves the call that
\* waits for it on the registered connection; an announcement or a heartbeat
\* writes last_seen_at.
Receive(s) ==
    /\ gate[s] = "loop" /\ open[s]
    /\ \/ gate' = [gate EXCEPT ![s] = "busy"] /\ UNCHANGED req
       \/ \E q \in Requests :
             /\ req[q].at = "telling" /\ req[q].on = s /\ current = s
             /\ req' = [req EXCEPT ![q] = AfterTell(@)] /\ UNCHANGED gate
    /\ UNCHANGED <<node, creds, open, key, current, begun, raced>>

\* The UPDATE of the node row, and its commit.
Touch(s) ==
    /\ gate[s] = "busy" /\ \A q \in Requests : ~req[q].locked
    /\ gate' = [gate EXCEPT ![s] = "loop"]
    /\ UNCHANGED <<central, open, key, current, begun, raced>>

\* The loop sees its socket closed; remove() if it is still the registered one.
EndLoop(s) ==
    /\ gate[s] = "loop" /\ ~open[s]
    /\ gate' = [gate EXCEPT ![s] = "off"] /\ key' = [key EXCEPT ![s] = 0]
    /\ raced' = raced \ {s}
    /\ IF current = s THEN FailWaiting(req) /\ current' = NoSocket
       ELSE UNCHANGED <<req, current>>
    /\ UNCHANGED <<node, creds, open, begun>>

-----------------------------------------------------------------------------
(* The daemon and its link.                                                 *)

Connect(s) ==
    /\ gate[s] = "off" /\ \A q \in Requests : req[q].on # s
    /\ gate' = [gate EXCEPT ![s] = "auth"] /\ open' = [open EXCEPT ![s] = TRUE]
    /\ UNCHANGED <<central, key, current, begun, raced>>

\* The link is lost, and the receive loop learns it, at once or long after the
\* daemon has dialled again.
Notice(s) ==
    /\ gate[s] = "loop" /\ open[s]
    /\ open' = [open EXCEPT ![s] = FALSE]
    /\ UNCHANGED <<central, gate, key, current, begun, raced>>

-----------------------------------------------------------------------------
Init ==
    /\ node = [deleted |-> FALSE, enabled |-> TRUE]
    /\ creds = <<"active">>
    /\ req = [q \in Requests |-> Idle]
    /\ gate = [s \in Sockets |-> "off"] /\ open = [s \in Sockets |-> FALSE]
    /\ key = [s \in Sockets |-> 0]
    /\ current = NoSocket
    /\ begun = 0 /\ raced = {}

RequestStep(q) ==
    \/ Query(q) \/ Revoke(q) \/ Tell(q) \/ TellTimesOut(q)
    \/ Sever(q) \/ Close(q) \/ Commit(q)
GatewayStep(s) ==
    \/ FindNode(s) \/ Verify(s) \/ Reject(s)
    \/ Register(s) \/ Receive(s) \/ Touch(s) \/ EndLoop(s)

Next ==
    \/ \E q \in Requests : Begin(q) \/ RequestStep(q) \/ TellBreaks(q)
    \/ \E s \in Sockets : GatewayStep(s) \/ Connect(s) \/ Notice(s)

Spec == Init /\ [][Next]_vars

\* asyncio runs what is ready, every wait has a timeout, and PostgreSQL grants
\* a row lock to those who wait for it in turn.
Fairness == \A q \in Requests : SF_vars(RequestStep(q))
FairSpec == Spec /\ Fairness

-----------------------------------------------------------------------------
(* Properties.                                                              *)

\* "Actions that invalidate a credential also sever the live socket"
\* (NodeManagementService): the registered connection runs on a credential that
\* is not revoked, unless it authenticated while the revocation was under way.
OldKeyOnlyByRace ==
    current # NoSocket /\ current \notin raced
        => key[current] \in DOMAIN creds /\ creds[key[current]] = "active"

\* Who waits for a row another transaction has locked.
WaitsFor(q, p) ==
    \/ req[q].at \in {"begin", "commit"} /\ req[q].dirty /\ ~req[q].locked /\ req[p].locked
    \/ req[q].at = "revoking" /\ req[p].holds \cap req[q].seen # {}

\* The node row is locked before the credential rows or not at all: removals,
\* disables and revocations never wait for each other in a circle (nodes.py).
NoLockCycle ==
    \A p, q \in Requests : p # q => ~(WaitsFor(p, q) /\ WaitsFor(q, p))

\* A disable or removal that holds the node row waits for an answer the gateway
\* may be unable to read, because it waits for that row; all come to an end.
AdminEnds == \A q \in Requests : req[q].at # "idle" ~> req[q].at = "idle"
=============================================================================
