----------------------------- MODULE OneShotRpc -----------------------------
(***************************************************************************)
(* What NodeConnectionRegistry.request() promises its callers, with no     *)
(* sockets in it: a call is refused before anything reaches the node, or   *)
(* it is open until it ends exactly once; it ends well only if the node    *)
(* served it; and the node serves it at most once.  A call that failed may *)
(* still be served later: NODE_OFFLINE and REQUEST_TIMEOUT do not say the  *)
(* node did nothing.                                                       *)
(***************************************************************************)
CONSTANT Requests

VARIABLES
    phase,     \* what each caller has been told
    served     \* the calls the node has carried out

rpcVars == <<phase, served>>

Phases == {"idle", "open", "ok", "failed", "refused"}

RpcTypeOK ==
    /\ phase \in [Requests -> Phases]
    /\ served \subseteq Requests

Init ==
    /\ phase = [r \in Requests |-> "idle"]
    /\ served = {}

Move(r, from, to) ==
    /\ phase[r] = from
    /\ phase' = [phase EXCEPT ![r] = to]

Open(r) == Move(r, "idle", "open") /\ UNCHANGED served
Refuse(r) == Move(r, "idle", "refused") /\ UNCHANGED served
GiveUp(r) == Move(r, "open", "failed") /\ UNCHANGED served
Complete(r) == r \in served /\ Move(r, "open", "ok") /\ UNCHANGED served

Serve(r) ==
    /\ phase[r] \in {"open", "failed"}
    /\ r \notin served
    /\ served' = served \cup {r}
    /\ UNCHANGED phase

Next ==
    \E r \in Requests : Open(r) \/ Refuse(r) \/ GiveUp(r) \/ Complete(r) \/ Serve(r)

Spec == Init /\ [][Next]_rpcVars

=============================================================================
