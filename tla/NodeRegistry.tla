---------------------------- MODULE NodeRegistry ----------------------------
(***************************************************************************)
(* The registry of live daemon connections and the request correlation     *)
(* table (backend/app/services/registry.py), with the gateway coroutine    *)
(* that owns each daemon socket (backend/app/api/ws/nodes.py).             *)
(*                                                                         *)
(* Central is one asyncio process: a step of this module is the code       *)
(* between two suspension points.  The registry's own lock is never held   *)
(* over a suspension, so it needs no variable; the per-socket send lock is *)
(* held while a frame is being written, and is the caller state "writing". *)
(*                                                                         *)
(* A socket's gateway reads one message at a time and finishes handling it *)
(* before it reads the next.  Handling a session's exit makes the gateway  *)
(* itself call request() on its own node: that is the state "nested".      *)
(* What a daemon sends unasked may stand anywhere between its answers, so  *)
(* only the answers are kept, each with its request.                       *)
(***************************************************************************)
EXTENDS Naturals, FiniteSets

CONSTANTS
    Nodes,        \* enrolled machines
    Sockets,      \* WebSockets daemons open, over the whole behaviour
    NodeOf,       \* the node each socket authenticates as
    Requests,     \* calls of registry.request(), each with its own request_id
    PendingMax,   \* settings.pending_requests_max
    NoSocket,
    NoRequest

ASSUME SocketsAssumption ==
    /\ NodeOf \in [Sockets -> Nodes]
    /\ NoSocket \notin Sockets
    /\ NoRequest \notin Requests

ASSUME BoundsAssumption == PendingMax \in Nat \ {0} /\ IsFiniteSet(Requests)

VARIABLES
    gate,      \* where each socket's gateway coroutine is
    prev,      \* the connection a registering gateway still has to close
    sock,      \* the transport of each socket, as Central sees it
    current,   \* NodeConnectionRegistry._connections
    doomed,    \* sockets taken out of the registry and about to be closed
    draining,  \* sockets close_all() has taken out and not yet failed
    pending,   \* NodeConnection.pending, per socket
    future,    \* the Future parked for each request
    caller,    \* where the coroutine that called request() is
    via,       \* the connection that request was registered on
    nest,      \* the call a gateway's own handler is waiting for
    reply      \* where each request's frame or its answer is

vars == <<gate, prev, sock, current, doomed, draining, pending, future,
          caller, via, nest, reply>>
connVars == <<gate, prev, sock, current, doomed, draining>>

Live == {"evicting", "loop", "nested"}
Gates == Live \cup {"new", "auth", "ended", "abandoned"}
InFlight == {"queued", "writing", "waiting"}
Outcomes == {"ok", "offline", "busy", "timeout", "broken"}
Callers == {"idle"} \cup InFlight \cup Outcomes
Futures == {"none", "pending", "result", "offline"}
Replies == {"unsent", "sent", "answered", "spent"}

MaybeSocket == Sockets \cup {NoSocket}

Init ==
    /\ gate = [s \in Sockets |-> "new"]
    /\ prev = [s \in Sockets |-> NoSocket]
    /\ sock = [s \in Sockets |-> "closed"]
    /\ current = [n \in Nodes |-> NoSocket]
    /\ doomed = {}
    /\ draining = {}
    /\ pending = [s \in Sockets |-> {}]
    /\ future = [r \in Requests |-> "none"]
    /\ caller = [r \in Requests |-> "idle"]
    /\ via = [r \in Requests |-> NoSocket]
    /\ nest = [s \in Sockets |-> NoRequest]
    /\ reply = [r \in Requests |-> "unsent"]
-----------------------------------------------------------------------------
(* _fail_pending: every parked Future that is not done gets NODE_OFFLINE,  *)
(* and the table is emptied.                                               *)
FailPending(S) ==
    /\ future' = [r \in Requests |->
                    IF future[r] = "pending" /\ \E s \in S : r \in pending[s]
                    THEN "offline" ELSE future[r]]
    /\ pending' = [s \in Sockets |-> IF s \in S THEN {} ELSE pending[s]]

(* register() fails what the connection it replaces still had in flight.   *)
FailPrevious_Forgotten(old) == UNCHANGED <<future, pending>>
FailPrevious(old) == FailPending({old} \cap Sockets)

(* A daemon dials in and the gateway sends it the challenge.               *)
Connect(s) ==
    /\ gate[s] = "new"
    /\ gate' = [gate EXCEPT ![s] = "auth"]
    /\ sock' = [sock EXCEPT ![s] = "open"]
    /\ UNCHANGED <<prev, current, doomed, draining, pending, future, caller,
                   via, nest, reply>>

(* The challenge is refused, times out, or the peer leaves.                *)
AuthFail(s) ==
    /\ gate[s] = "auth"
    /\ gate' = [gate EXCEPT ![s] = "ended"]
    /\ sock' = [sock EXCEPT ![s] = "closed"]
    /\ UNCHANGED <<prev, current, doomed, draining, pending, future, caller,
                   via, nest, reply>>

(* register(): the new connection replaces whatever was current, whose     *)
(* in-flight requests fail; its socket is closed by a later step.          *)
Register(s) ==
    LET old == current[NodeOf[s]] IN
    /\ gate[s] = "auth"
    /\ current' = [current EXCEPT ![NodeOf[s]] = s]
    /\ FailPrevious(old)
    /\ prev' = [prev EXCEPT ![s] = old]
    /\ doomed' = doomed \cup ({old} \cap Sockets)
    /\ gate' = [gate EXCEPT ![s] = IF old = NoSocket THEN "loop" ELSE "evicting"]
    /\ UNCHANGED <<sock, draining, caller, via, nest, reply>>

(* previous.websocket.close(1012); only then does the new gateway read.    *)
ClosePrevious(s) ==
    /\ gate[s] = "evicting"
    /\ sock' = [sock EXCEPT ![prev[s]] = "closed"]
    /\ doomed' = doomed \ {prev[s]}
    /\ prev' = [prev EXCEPT ![s] = NoSocket]
    /\ gate' = [gate EXCEPT ![s] = "loop"]
    /\ UNCHANGED <<current, draining, pending, future, caller, via, nest,
                   reply>>

(* Only a RuntimeError is caught around that close.  What else it raises,  *)
(* a transport that breaks under the close frame, ends the coroutine ahead *)
(* of the try whose finally would take the new registration back.          *)
ClosePreviousRaises(s) ==
    /\ gate[s] = "evicting"
    /\ sock' = [sock EXCEPT ![prev[s]] = "closed", ![s] = "closed"]
    /\ doomed' = doomed \ {prev[s]}
    /\ prev' = [prev EXCEPT ![s] = NoSocket]
    /\ gate' = [gate EXCEPT ![s] = "abandoned"]
    /\ UNCHANGED <<current, draining, pending, future, caller, via, nest,
                   reply>>

(* evict(): a revoke or a node removal takes the connection out at once... *)
Evict(n) ==
    /\ current[n] # NoSocket
    /\ FailPending({current[n]})
    /\ doomed' = doomed \cup {current[n]}
    /\ current' = [current EXCEPT ![n] = NoSocket]
    /\ UNCHANGED <<gate, prev, sock, draining, caller, via, nest, reply>>

(* ...and its caller, _sever_connection, closes the socket afterwards.     *)
CloseEvicted(s) ==
    /\ s \in doomed
    /\ \A t \in Sockets : prev[t] # s
    /\ doomed' = doomed \ {s}
    /\ sock' = [sock EXCEPT ![s] = "closed"]
    /\ UNCHANGED <<gate, prev, current, draining, pending, future, caller,
                   via, nest, reply>>

(* close_all(): the table is emptied first, then each connection in turn   *)
(* has its requests failed and its socket closed.                          *)
CloseAll ==
    /\ \E n \in Nodes : current[n] # NoSocket
    /\ draining' = draining \cup ({current[n] : n \in Nodes} \cap Sockets)
    /\ current' = [n \in Nodes |-> NoSocket]
    /\ UNCHANGED <<gate, prev, sock, doomed, pending, future, caller, via,
                   nest, reply>>

DrainOne(s) ==
    /\ s \in draining
    /\ FailPending({s})
    /\ draining' = draining \ {s}
    /\ sock' = [sock EXCEPT ![s] = "closed"]
    /\ UNCHANGED <<gate, prev, current, doomed, caller, via, nest, reply>>

(* The transport dies under the gateway: peer gone, network cut, ping lost. *)
Drop(s) ==
    /\ sock[s] = "open"
    /\ sock' = [sock EXCEPT ![s] = "closed"]
    /\ UNCHANGED <<gate, prev, current, doomed, draining, pending, future,
                   caller, via, nest, reply>>
-----------------------------------------------------------------------------
Remove_AnyEntry(s) ==
    /\ current' = [current EXCEPT ![NodeOf[s]] = NoSocket]
    /\ FailPending({s})

Remove_KeepsEntry(s) == UNCHANGED current /\ FailPending({s})

(* remove(): only the entry this gateway owns is taken out, and whatever   *)
(* was parked on its connection fails.                                     *)
Remove(s) ==
    /\ current' = [current EXCEPT ![NodeOf[s]] = IF @ = s THEN NoSocket ELSE @]
    /\ FailPending({s})

(* The receive loop ends on a disconnect; anything it had not read is lost. *)
EndLoop(s) ==
    /\ gate[s] = "loop"
    /\ sock[s] = "closed"
    /\ gate' = [gate EXCEPT ![s] = "ended"]
    /\ Remove(s)
    /\ UNCHANGED <<prev, sock, doomed, draining, caller, via, nest, reply>>

(* node.shutdown, or a handler that raises, ends the loop although the     *)
(* socket is still open.                                                   *)
ReadShutdown(s) ==
    /\ gate[s] = "loop"
    /\ sock[s] = "open"
    /\ gate' = [gate EXCEPT ![s] = "ended"]
    /\ sock' = [sock EXCEPT ![s] = "closed"]
    /\ Remove(s)
    /\ UNCHANGED <<prev, doomed, draining, caller, via, nest, reply>>

(* resolve_response(): the waiter is looked up on the node's CURRENT       *)
(* connection, not on the one the answer arrived on; an id nobody waits    *)
(* for, or whose Future is done, is dropped.                               *)
Resolvable(n, r) ==
    /\ current[n] # NoSocket
    /\ r \in pending[current[n]]
    /\ future[r] = "pending"

ReadReply_WhileNested(s, r) ==
    /\ gate[s] \in {"loop", "nested"}
    /\ via[r] = s
    /\ reply[r] = "answered"
    /\ reply' = [reply EXCEPT ![r] = "spent"]
    /\ future' = IF Resolvable(NodeOf[s], r)
                 THEN [future EXCEPT ![r] = "result"] ELSE future
    /\ UNCHANGED <<connVars, pending, caller, via, nest>>

ReadReply(s, r) ==
    /\ gate[s] = "loop"
    /\ via[r] = s
    /\ reply[r] = "answered"
    /\ reply' = [reply EXCEPT ![r] = "spent"]
    /\ future' = IF Resolvable(NodeOf[s], r)
                 THEN [future EXCEPT ![r] = "result"] ELSE future
    /\ UNCHANGED <<connVars, pending, caller, via, nest>>
-----------------------------------------------------------------------------
(* request(): refused with NODE_OFFLINE or NODE_BUSY before anything is    *)
(* parked, otherwise a Future is parked on the connection current now.     *)
Refused(r, n) ==
    /\ \/ /\ current[n] = NoSocket
          /\ caller' = [caller EXCEPT ![r] = "offline"]
       \/ /\ current[n] # NoSocket
          /\ Cardinality(pending[current[n]]) >= PendingMax
          /\ caller' = [caller EXCEPT ![r] = "busy"]
    /\ UNCHANGED <<pending, future, via>>

Parked_OffByOne(r, n) ==
    /\ current[n] # NoSocket
    /\ Cardinality(pending[current[n]]) <= PendingMax
    /\ caller' = [caller EXCEPT ![r] = "queued"]
    /\ pending' = [pending EXCEPT ![current[n]] = @ \cup {r}]
    /\ future' = [future EXCEPT ![r] = "pending"]
    /\ via' = [via EXCEPT ![r] = current[n]]

Parked(r, n) ==
    /\ current[n] # NoSocket
    /\ Cardinality(pending[current[n]]) < PendingMax
    /\ caller' = [caller EXCEPT ![r] = "queued"]
    /\ pending' = [pending EXCEPT ![current[n]] = @ \cup {r}]
    /\ future' = [future EXCEPT ![r] = "pending"]
    /\ via' = [via EXCEPT ![r] = current[n]]

(* An HTTP or browser handler calls request().                             *)
Call(r, n) ==
    /\ caller[r] = "idle"
    /\ Refused(r, n) \/ Parked(r, n)
    /\ UNCHANGED <<connVars, nest, reply>>

(* A session's exit arrives: apply_status_changed stops the session's      *)
(* child with request() on this very node, and the loop waits for it.      *)
ReadExited(s, r) ==
    /\ gate[s] = "loop"
    /\ caller[r] = "idle"
    /\ Refused(r, NodeOf[s]) \/ Parked(r, NodeOf[s])
    /\ gate' = [gate EXCEPT ![s] = "nested"]
    /\ nest' = [nest EXCEPT ![s] = r]
    /\ UNCHANGED <<prev, sock, current, doomed, draining, reply>>

(* The loop's own request has ended: _terminate_child swallows an ApiError *)
(* and the loop reads on.                                                  *)
ResumeLoop(s) ==
    /\ gate[s] = "nested"
    /\ caller[nest[s]] \in Outcomes \ {"broken"}
    /\ gate' = [gate EXCEPT ![s] = "loop"]
    /\ nest' = [nest EXCEPT ![s] = NoRequest]
    /\ UNCHANGED <<prev, sock, current, doomed, draining, pending, future,
                   caller, via, reply>>

(* A write that broke is no ApiError: it leaves the handler and the loop.  *)
NestedBreaks(s) ==
    /\ gate[s] = "nested"
    /\ caller[nest[s]] = "broken"
    /\ gate' = [gate EXCEPT ![s] = "ended"]
    /\ sock' = [sock EXCEPT ![s] = "closed"]
    /\ nest' = [nest EXCEPT ![s] = NoRequest]
    /\ Remove(s)
    /\ UNCHANGED <<prev, doomed, draining, caller, via, reply>>

Finish_KeepsEntry(r, outcome) ==
    /\ caller' = [caller EXCEPT ![r] = outcome]
    /\ UNCHANGED <<connVars, pending, future, via, nest, reply>>

(* The finally clause: the entry is dropped, if it is still there.         *)
Finish(r, outcome) ==
    /\ caller' = [caller EXCEPT ![r] = outcome]
    /\ pending' = [pending EXCEPT ![via[r]] = @ \ {r}]
    /\ UNCHANGED <<connVars, future, via, nest, reply>>

SendLockFree(s) == \A r \in Requests : via[r] = s => caller[r] # "writing"

(* The send lock is taken and the frame handed to the transport.           *)
StartSend(r) ==
    /\ caller[r] = "queued"
    /\ SendLockFree(via[r])
    /\ sock[via[r]] = "open"
    /\ caller' = [caller EXCEPT ![r] = "writing"]
    /\ reply' = [reply EXCEPT ![r] = "sent"]
    /\ UNCHANGED <<connVars, pending, future, via, nest>>

EndSend_Unnamed(r) ==
    /\ caller[r] = "writing"
    /\ caller' = [caller EXCEPT ![r] = "sent"]
    /\ UNCHANGED <<connVars, pending, future, via, nest, reply>>

(* The write returns; only from here does wait_for bound the wait.         *)
EndSend(r) ==
    /\ caller[r] = "writing"
    /\ caller' = [caller EXCEPT ![r] = "waiting"]
    /\ UNCHANGED <<connVars, pending, future, via, nest, reply>>

(* Writing to a closed socket raises through request().                    *)
SendBroken(r) ==
    /\ \/ caller[r] = "queued" /\ SendLockFree(via[r])
       \/ caller[r] = "writing"
    /\ sock[via[r]] = "closed"
    /\ Finish(r, "broken")

Wake_IgnoresError(r) ==
    /\ caller[r] = "waiting"
    /\ future[r] \in {"result", "offline"}
    /\ Finish(r, "ok")

(* The caller wakes with what its Future holds.                            *)
Wake(r) ==
    /\ caller[r] = "waiting"
    /\ \/ future[r] = "result" /\ Finish(r, "ok")
       \/ future[r] = "offline" /\ Finish(r, "offline")

Timeout_NotNested(r) ==
    /\ caller[r] = "waiting"
    /\ \A s \in Sockets : nest[s] # r
    /\ Finish(r, "timeout")

(* wait_for gives up.  asyncio cancels the task even when the Future has   *)
(* completed and the task has not run yet: the answer is then lost.        *)
Timeout(r) ==
    /\ caller[r] = "waiting"
    /\ Finish(r, "timeout")
-----------------------------------------------------------------------------
(* The daemon dispatches the frame and answers it; the answer is lost when  *)
(* the socket has gone in the meantime.                                    *)
Answer(r) ==
    /\ reply[r] = "sent"
    /\ reply' = [reply EXCEPT ![r] =
                    IF sock[via[r]] = "open" THEN "answered" ELSE "spent"]
    /\ UNCHANGED <<connVars, pending, future, caller, via, nest>>
-----------------------------------------------------------------------------
GatewayNext(s) ==
    \/ Connect(s) \/ AuthFail(s) \/ Register(s) \/ ClosePrevious(s)
    \/ ClosePreviousRaises(s) \/ CloseEvicted(s) \/ DrainOne(s) \/ Drop(s) \/ EndLoop(s)
    \/ ReadShutdown(s) \/ ResumeLoop(s) \/ NestedBreaks(s)
    \/ \E r \in Requests : ReadReply(s, r) \/ ReadExited(s, r)

CallerNext(r) ==
    \/ \E n \in Nodes : Call(r, n)
    \/ StartSend(r) \/ EndSend(r) \/ SendBroken(r) \/ Wake(r) \/ Timeout(r)
    \/ Answer(r)

Next ==
    \/ \E s \in Sockets : GatewayNext(s)
    \/ \E r \in Requests : CallerNext(r)
    \/ \E n \in Nodes : Evict(n)
    \/ CloseAll

Spec == Init /\ [][Next]_vars

(* What the event loop, the transport and the timers keep doing.  EndSend   *)
(* is fair because the WebSocket keepalive breaks a socket that stops      *)
(* draining; nothing makes a daemon answer, dial in or announce anything.  *)
Fairness ==
    /\ \A s \in Sockets :
        /\ WF_vars(ClosePrevious(s)) /\ WF_vars(CloseEvicted(s))
        /\ WF_vars(DrainOne(s)) /\ WF_vars(EndLoop(s)) /\ WF_vars(ResumeLoop(s))
        /\ WF_vars(NestedBreaks(s))
    /\ \A r \in Requests :
        /\ WF_vars(StartSend(r)) /\ WF_vars(EndSend(r))
        /\ WF_vars(SendBroken(r)) /\ WF_vars(Wake(r)) /\ WF_vars(Timeout(r))

FairSpec == Spec /\ Fairness
-----------------------------------------------------------------------------
(* Every variable holds a value of its kind.                               *)
TypeOK ==
    /\ gate \in [Sockets -> Gates]
    /\ prev \in [Sockets -> MaybeSocket]
    /\ sock \in [Sockets -> {"open", "closed"}]
    /\ current \in [Nodes -> MaybeSocket]
    /\ doomed \in SUBSET Sockets
    /\ draining \in SUBSET Sockets
    /\ pending \in [Sockets -> SUBSET Requests]
    /\ future \in [Requests -> Futures]
    /\ caller \in [Requests -> Callers]
    /\ via \in [Requests -> MaybeSocket]
    /\ nest \in [Sockets -> Requests \cup {NoRequest}]
    /\ reply \in [Requests -> Replies]

(* request() promises "no coroutine leaks": a caller whose Future is still *)
(* open is parked on a connection somebody will answer for, that is, the   *)
(* registered one or one close_all() is about to fail.  A supersede, an    *)
(* eviction or a gateway's end that forgets _fail_pending strands it.      *)
NoStrandedRequest ==
    \A r \in Requests : caller[r] \in InFlight /\ future[r] = "pending" =>
        /\ via[r] \in Sockets
        /\ r \in pending[via[r]]
        /\ current[NodeOf[via[r]]] = via[r] \/ via[r] \in draining

(* The correlation table holds no entry whose caller has gone, so it       *)
(* cannot grow for ever and a late answer meets no released Future.        *)
PendingHasCaller ==
    \A s \in Sockets : \A r \in pending[s] :
        /\ via[r] = s
        /\ caller[r] \in InFlight
        /\ future[r] \in {"pending", "result"}

(* NODE_BUSY keeps each connection's table within pending_requests_max.    *)
PendingBounded == \A s \in Sockets : Cardinality(pending[s]) <= PendingMax

(* is_connected() is true only of a node some gateway coroutine serves: no *)
(* ending of a gateway leaves its entry behind, but for one that an error  *)
(* ended while it closed its predecessor.                                  *)
RegisteredIsServed ==
    \A n \in Nodes : current[n] # NoSocket =>
        NodeOf[current[n]] = n /\ gate[current[n]] \in Live \cup {"abandoned"}

(* A gateway nobody has superseded, evicted or drained is the registered   *)
(* one: a superseded gateway's own cleanup never takes its successor out.  *)
ServingIsRegistered ==
    \A s \in Sockets :
        gate[s] \in Live /\ sock[s] = "open" /\ s \notin doomed \cup draining
            => current[NodeOf[s]] = s

(* What a gateway asks of its own socket it cannot hear the answer to:     *)
(* only a timeout, an eviction, a drain or a successor ends the call.      *)
OwnCallNeverAnswered ==
    \A s \in Sockets : nest[s] \in Requests /\ via[nest[s]] = s =>
        future[nest[s]] # "result" /\ caller[nest[s]] # "ok"

(* Every call of request() ends, whatever the daemon and the socket do.    *)
EveryCallEnds ==
    \A r \in Requests : caller[r] \in InFlight ~> caller[r] \in Outcomes

(* A node whose socket has died stops being listed as connected, even if   *)
(* its gateway was waiting on its own request when that happened.  Only an *)
(* error in the close of its predecessor can leave it listed.              *)
DeadSocketLeaves ==
    \A s \in Sockets :
        current[NodeOf[s]] = s /\ sock[s] = "closed"
            ~> current[NodeOf[s]] # s \/ gate[s] = "abandoned"
-----------------------------------------------------------------------------
(* What a caller of request() has been told, and what its node has done.   *)
PhaseOf(r) ==
    IF caller[r] = "idle" THEN "idle"
    ELSE IF caller[r] \in InFlight THEN "open"
    ELSE IF caller[r] = "ok" THEN "ok"
    ELSE IF via[r] = NoSocket THEN "refused" ELSE "failed"

CallPhase == [r \in Requests |-> PhaseOf(r)]

CallsServed == {r \in Requests : reply[r] \in {"answered", "spent"}}

Rpc == INSTANCE OneShotRpc WITH phase <- CallPhase, served <- CallsServed

(* The sockets, the correlation table and the supersedes implement the     *)
(* one-shot call: one outcome per call, success only of a served call.     *)
ImplementsOneShotRpc == Rpc!Spec

=============================================================================
