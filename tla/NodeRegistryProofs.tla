------------------------- MODULE NodeRegistryProofs -------------------------
(***************************************************************************)
(* Theorems about NodeRegistry, for any set of nodes, sockets and calls.   *)
(***************************************************************************)
EXTENDS NodeRegistry, FiniteSetTheorems, TLAPS

LEMMA TypeInit == Init => TypeOK
  BY SocketsAssumption DEF Init, TypeOK, MaybeSocket, Gates, Live, Futures,
     Callers, InFlight, Outcomes, Replies

LEMMA TypeStep == TypeOK /\ [Next]_vars => TypeOK'
<1> SUFFICES ASSUME TypeOK, [Next]_vars PROVE TypeOK'
  OBVIOUS
<1> USE SocketsAssumption DEF TypeOK, MaybeSocket, Gates, Live, Futures,
     Callers, InFlight, Outcomes, Replies, connVars
<1>1. ASSUME NEW s \in Sockets, Connect(s) PROVE TypeOK'
  BY <1>1 DEF Connect
<1>2. ASSUME NEW s \in Sockets, AuthFail(s) PROVE TypeOK'
  BY <1>2 DEF AuthFail
<1>3. ASSUME NEW s \in Sockets, Register(s) PROVE TypeOK'
  BY <1>3 DEF Register, FailPrevious, FailPending
<1>4. ASSUME NEW s \in Sockets, ClosePrevious(s) \/ ClosePreviousRaises(s) PROVE TypeOK'
  BY <1>4 DEF ClosePrevious, ClosePreviousRaises
<1>5. ASSUME NEW n \in Nodes, Evict(n) PROVE TypeOK'
  BY <1>5 DEF Evict, FailPending
<1>6. ASSUME NEW s \in Sockets, CloseEvicted(s) PROVE TypeOK'
  BY <1>6 DEF CloseEvicted
<1>7. CASE CloseAll
  BY <1>7 DEF CloseAll
<1>8. ASSUME NEW s \in Sockets, DrainOne(s) PROVE TypeOK'
  BY <1>8 DEF DrainOne, FailPending
<1>9. ASSUME NEW s \in Sockets, Drop(s) PROVE TypeOK'
  BY <1>9 DEF Drop
<1>10. ASSUME NEW s \in Sockets, EndLoop(s) \/ ReadShutdown(s) \/ NestedBreaks(s) PROVE TypeOK'
  BY <1>10 DEF EndLoop, ReadShutdown, NestedBreaks, Remove, FailPending
<1>11. ASSUME NEW s \in Sockets, NEW r \in Requests, ReadReply(s,
   r) PROVE TypeOK'
  BY <1>11 DEF ReadReply
<1>12. ASSUME NEW s \in Sockets, NEW r \in Requests, ReadExited(s,
   r) PROVE TypeOK'
  BY <1>12 DEF ReadExited, Refused, Parked
<1>13. ASSUME NEW s \in Sockets, ResumeLoop(s) PROVE TypeOK'
  BY <1>13 DEF ResumeLoop
<1>14. ASSUME NEW r \in Requests, NEW n \in Nodes, Call(r, n) PROVE TypeOK'
  BY <1>14 DEF Call, Refused, Parked
<1>15. ASSUME NEW r \in Requests, StartSend(r) \/ EndSend(r) PROVE TypeOK'
  BY <1>15 DEF StartSend, EndSend
<1>16. ASSUME NEW r \in Requests,
   SendBroken(r) \/ Wake(r) \/ Timeout(r) PROVE TypeOK'
  BY <1>16 DEF SendBroken, Wake, Timeout, Finish
<1>17. ASSUME NEW r \in Requests, Answer(r) PROVE TypeOK'
  BY <1>17 DEF Answer
<1>18. CASE UNCHANGED vars
  BY <1>18 DEF vars
<1>19. QED
  BY <1>1, <1>2, <1>3, <1>4, <1>5, <1>6, <1>7, <1>8, <1>9, <1>10, <1>11,
     <1>12,
     <1>13, <1>14, <1>15, <1>16, <1>17, <1>18 DEF Next, GatewayNext,
        CallerNext

(* Every variable keeps its kind in every reachable state.                 *)
THEOREM TypeCorrect == Spec => []TypeOK
  BY TypeInit, TypeStep, PTL DEF Spec


-----------------------------------------------------------------------------
(* NoStrandedRequest and the rest are inductive only together, with what   *)
(* ties a call's Future, its connection and its frame to each other.       *)
CallFacts ==
    \A r \in Requests :
        /\ caller[r] = "idle" => via[r] = NoSocket /\ future[r] = "none"
        /\ caller[r] \in {"idle", "queued"} => reply[r] = "unsent"
        /\ caller[r] \in InFlight => via[r] \in Sockets /\ future[r] # "none"
        /\ caller[r] = "busy" => via[r] = NoSocket
        /\ caller[r] \in {"ok", "timeout", "broken"} => via[r] \in Sockets
        /\ via[r] = NoSocket => reply[r] = "unsent" /\ future[r] = "none"
        /\ future[r] = "result" \/ caller[r] = "ok" => reply[r] = "spent"

NestFacts ==
    \A s \in Sockets : nest[s] \in Requests => gate[s] = "nested"

IInv ==
    /\ TypeOK
    /\ NoStrandedRequest
    /\ PendingHasCaller
    /\ RegisteredIsServed
    /\ ServingIsRegistered
    /\ CallFacts
    /\ NestFacts
    /\ OwnCallNeverAnswered

LEMMA IInvInit == Init => IInv
  BY TypeInit, SocketsAssumption DEF Init, IInv, NoStrandedRequest,
     PendingHasCaller, RegisteredIsServed, ServingIsRegistered, CallFacts,
     NestFacts, OwnCallNeverAnswered, InFlight, Live

(* A call that is parked is the only newcomer in the table, and it was in  *)
(* no table before.                                                        *)
LEMMA CallKeepsCallers ==
  ASSUME SocketsAssumption, TypeOK, PendingHasCaller,
         NEW r \in Requests, NEW n \in Nodes,
         caller[r] = "idle", Refused(r, n) \/ Parked(r, n)
  PROVE  PendingHasCaller'
<1>1. \A t \in Sockets : r \notin pending[t]
  BY DEF PendingHasCaller, InFlight
<1>2. \A t \in Sockets : pending[t] \subseteq Requests
  BY DEF TypeOK
<1>3. CASE Refused(r, n)
  <2>1. pending' = pending /\ future' = future /\ via' = via
    BY <1>3 DEF Refused
  <2>2. \A q \in Requests \ {r} : caller'[q] = caller[q]
    BY <1>3 DEF Refused, TypeOK
  <2> QED BY <1>1, <1>2, <2>1, <2>2 DEF PendingHasCaller
<1>4. CASE Parked(r, n)
  <2>1. current[n] \in Sockets
    BY <1>4 DEF Parked, TypeOK, MaybeSocket
  <2>2. via'[r] = current[n] /\ caller'[r] = "queued" /\ future'[r] = "pending"
    BY <1>4 DEF Parked, TypeOK
  <2>3. \A q \in Requests \ {r} :
           via'[q] = via[q] /\ caller'[q] = caller[q] /\ future'[q] = future[q]
    BY <1>4 DEF Parked, TypeOK
  <2>4. \A t \in Sockets :
           pending'[t] = IF t = current[n] THEN pending[t] \cup {r} ELSE pending[t]
    BY <1>4, <2>1 DEF Parked, TypeOK
  <2>5. ASSUME NEW t \in Sockets, NEW q \in pending'[t]
        PROVE  via'[q] = t /\ caller'[q] \in InFlight /\ future'[q] \in {"pending", "result"}
    <3>1. CASE q = r
      BY <1>1, <2>2, <2>4, <3>1 DEF InFlight
    <3>2. CASE q # r
      <4>1. q \in pending[t]
        BY <2>4, <3>2
      <4>2. q \in Requests \ {r}
        BY <1>2, <3>2, <4>1
      <4> QED BY <2>3, <4>1, <4>2 DEF PendingHasCaller
    <3> QED BY <3>1, <3>2
  <2> QED BY <2>5 DEF PendingHasCaller
<1> QED BY <1>3, <1>4

LEMMA IInvStep == IInv /\ [Next]_vars => IInv'
<1> SUFFICES ASSUME IInv, [Next]_vars PROVE IInv'
  OBVIOUS
<1> DEFINE Rest == /\ NoStrandedRequest /\ PendingHasCaller
                   /\ RegisteredIsServed /\ ServingIsRegistered
                   /\ CallFacts /\ NestFacts /\ OwnCallNeverAnswered
<1> USE SocketsAssumption DEF IInv, TypeOK, MaybeSocket, Gates, Live, Futures,
     Callers, InFlight, Outcomes, Replies, connVars
<1>1. ASSUME NEW s \in Sockets, Connect(s) \/ AuthFail(s) PROVE Rest'
  BY <1>1 DEF Connect, AuthFail, NoStrandedRequest, PendingHasCaller,
     RegisteredIsServed, ServingIsRegistered, CallFacts, NestFacts,
     OwnCallNeverAnswered
<1>2. ASSUME NEW s \in Sockets,
   ClosePrevious(s) \/ ClosePreviousRaises(s) \/ CloseEvicted(s) PROVE Rest'
  BY <1>2 DEF ClosePrevious, ClosePreviousRaises, CloseEvicted, NoStrandedRequest,
     PendingHasCaller, RegisteredIsServed, ServingIsRegistered, CallFacts,
     NestFacts, OwnCallNeverAnswered
<1>3. ASSUME NEW s \in Sockets, Drop(s) \/ ResumeLoop(s) PROVE Rest'
  BY <1>3 DEF Drop, ResumeLoop, NoStrandedRequest, PendingHasCaller,
     RegisteredIsServed, ServingIsRegistered, CallFacts, NestFacts,
     OwnCallNeverAnswered
<1>4. ASSUME CloseAll PROVE Rest'
  BY <1>4 DEF CloseAll, NoStrandedRequest, PendingHasCaller,
     RegisteredIsServed, ServingIsRegistered, CallFacts, NestFacts,
     OwnCallNeverAnswered
<1>5. ASSUME NEW r \in Requests,
   StartSend(r) \/ EndSend(r) \/ Answer(r) PROVE Rest'
  BY <1>5 DEF StartSend, EndSend, Answer, NoStrandedRequest,
     PendingHasCaller, RegisteredIsServed, ServingIsRegistered, CallFacts,
     NestFacts, OwnCallNeverAnswered
<1>6. ASSUME NEW s \in Sockets, Register(s) PROVE Rest'
  <2>1. NoStrandedRequest'
    BY <1>6 DEF NoStrandedRequest, Register, FailPrevious, FailPending
  <2>2. PendingHasCaller'
    BY <1>6 DEF PendingHasCaller, Register, FailPrevious, FailPending
  <2>3. RegisteredIsServed'
    BY <1>6 DEF RegisteredIsServed, Register, FailPrevious, FailPending
  <2>4. ServingIsRegistered'
    BY <1>6 DEF ServingIsRegistered, Register, FailPrevious, FailPending
  <2>5. CallFacts'
    BY <1>6 DEF CallFacts, Register, FailPrevious, FailPending
  <2>6. NestFacts'
    BY <1>6 DEF NestFacts, Register, FailPrevious, FailPending
  <2>7. OwnCallNeverAnswered'
    BY <1>6 DEF OwnCallNeverAnswered, Register, FailPrevious, FailPending
  <2> QED BY <2>1, <2>2, <2>3, <2>4, <2>5, <2>6, <2>7
<1>7. ASSUME NEW n \in Nodes, Evict(n) PROVE Rest'
  <2>1. NoStrandedRequest'
    BY <1>7 DEF NoStrandedRequest, Evict, FailPending
  <2>2. PendingHasCaller'
    BY <1>7 DEF PendingHasCaller, Evict, FailPending
  <2>3. RegisteredIsServed'
    BY <1>7 DEF RegisteredIsServed, Evict, FailPending
  <2>4. ServingIsRegistered'
    BY <1>7 DEF ServingIsRegistered, Evict, FailPending
  <2>5. CallFacts'
    BY <1>7 DEF CallFacts, Evict, FailPending
  <2>6. OwnCallNeverAnswered'
    BY <1>7 DEF OwnCallNeverAnswered, Evict, FailPending
  <2>7. NestFacts'
    BY <1>7 DEF Evict, FailPending, NestFacts
  <2> QED BY <2>1, <2>2, <2>3, <2>4, <2>5, <2>6, <2>7
<1>8. ASSUME NEW s \in Sockets, DrainOne(s) PROVE Rest'
  <2>1. NoStrandedRequest'
    BY <1>8 DEF NoStrandedRequest, DrainOne, FailPending
  <2>2. PendingHasCaller'
    BY <1>8 DEF PendingHasCaller, DrainOne, FailPending
  <2>3. ServingIsRegistered'
    BY <1>8 DEF ServingIsRegistered, DrainOne, FailPending
  <2>4. CallFacts'
    BY <1>8 DEF CallFacts, DrainOne, FailPending
  <2>5. OwnCallNeverAnswered'
    BY <1>8 DEF OwnCallNeverAnswered, DrainOne, FailPending
  <2>6. RegisteredIsServed' /\ NestFacts'
    BY <1>8 DEF DrainOne, FailPending, RegisteredIsServed, NestFacts
  <2> QED BY <2>1, <2>2, <2>3, <2>4, <2>5, <2>6
<1>9. ASSUME NEW s \in Sockets, EndLoop(s) \/ ReadShutdown(s) \/ NestedBreaks(s) PROVE Rest'
  <2>1. NoStrandedRequest'
    BY <1>9 DEF NoStrandedRequest, EndLoop, ReadShutdown, NestedBreaks, Remove, FailPending
  <2>2. PendingHasCaller'
    BY <1>9 DEF PendingHasCaller, EndLoop, ReadShutdown, NestedBreaks, Remove, FailPending
  <2>3. RegisteredIsServed'
    BY <1>9 DEF RegisteredIsServed, EndLoop, ReadShutdown, NestedBreaks, Remove, FailPending
  <2>4. ServingIsRegistered'
    BY <1>9 DEF ServingIsRegistered, EndLoop, ReadShutdown, NestedBreaks, Remove,
       FailPending
  <2>5. CallFacts'
    BY <1>9 DEF CallFacts, EndLoop, ReadShutdown, NestedBreaks, Remove, FailPending
  <2>6. NestFacts'
    BY <1>9 DEF NestFacts, EndLoop, ReadShutdown, NestedBreaks, Remove, FailPending
  <2>7. OwnCallNeverAnswered'
    BY <1>9 DEF OwnCallNeverAnswered, EndLoop, ReadShutdown, NestedBreaks, Remove,
       FailPending
  <2> QED BY <2>1, <2>2, <2>3, <2>4, <2>5, <2>6, <2>7
<1>10. ASSUME NEW s \in Sockets, NEW r \in Requests, ReadReply(s,
   r) PROVE Rest'
  <2>1. NoStrandedRequest'
    BY <1>10 DEF NoStrandedRequest, ReadReply, Resolvable
  <2>2. PendingHasCaller'
    BY <1>10 DEF PendingHasCaller, ReadReply, Resolvable
  <2>3. CallFacts'
    BY <1>10 DEF CallFacts, ReadReply, Resolvable
  <2>4. OwnCallNeverAnswered'
    BY <1>10 DEF OwnCallNeverAnswered, ReadReply, Resolvable, NestFacts
  <2>5. RegisteredIsServed' /\ ServingIsRegistered' /\ NestFacts'
    BY <1>10 DEF ReadReply, Resolvable, RegisteredIsServed,
       ServingIsRegistered, NestFacts
  <2> QED BY <2>1, <2>2, <2>3, <2>4, <2>5
<1>11. ASSUME NEW s \in Sockets, NEW r \in Requests, ReadExited(s,
   r) PROVE Rest'
  <2>1. NoStrandedRequest'
    BY <1>11 DEF NoStrandedRequest, ReadExited, Refused, Parked,
       RegisteredIsServed
  <2>2. PendingHasCaller'
    BY <1>11, CallKeepsCallers DEF ReadExited
  <2>3. RegisteredIsServed'
    BY <1>11 DEF RegisteredIsServed, ReadExited, Refused, Parked
  <2>4. ServingIsRegistered'
    BY <1>11 DEF ServingIsRegistered, ReadExited, Refused, Parked
  <2>5. CallFacts'
    BY <1>11 DEF CallFacts, ReadExited, Refused, Parked
  <2>6. NestFacts'
    BY <1>11 DEF NestFacts, ReadExited, Refused, Parked
  <2>7. OwnCallNeverAnswered'
    BY <1>11 DEF OwnCallNeverAnswered, ReadExited, Refused, Parked, CallFacts
  <2> QED BY <2>1, <2>2, <2>3, <2>4, <2>5, <2>6, <2>7
<1>12. ASSUME NEW r \in Requests, NEW n \in Nodes, Call(r, n) PROVE Rest'
  <2>1. NoStrandedRequest'
    BY <1>12 DEF NoStrandedRequest, Call, Refused, Parked, RegisteredIsServed
  <2>2. PendingHasCaller'
    BY <1>12, CallKeepsCallers DEF Call
  <2>3. CallFacts'
    BY <1>12 DEF CallFacts, Call, Refused, Parked
  <2>4. OwnCallNeverAnswered'
    BY <1>12 DEF OwnCallNeverAnswered, Call, Refused, Parked
  <2>5. RegisteredIsServed' /\ ServingIsRegistered' /\ NestFacts'
    BY <1>12 DEF Call, Refused, Parked, RegisteredIsServed,
       ServingIsRegistered, NestFacts
  <2> QED BY <2>1, <2>2, <2>3, <2>4, <2>5
<1>13. ASSUME NEW r \in Requests,
   SendBroken(r) \/ Wake(r) \/ Timeout(r) PROVE Rest'
  <2>1. NoStrandedRequest'
    BY <1>13 DEF NoStrandedRequest, SendBroken, Wake, Timeout, Finish
  <2>2. PendingHasCaller'
    BY <1>13 DEF PendingHasCaller, SendBroken, Wake, Timeout, Finish,
       NoStrandedRequest
  <2>3. CallFacts'
    BY <1>13 DEF CallFacts, SendBroken, Wake, Timeout, Finish
  <2>4. OwnCallNeverAnswered'
    BY <1>13 DEF OwnCallNeverAnswered, SendBroken, Wake, Timeout, Finish
  <2>5. RegisteredIsServed' /\ ServingIsRegistered' /\ NestFacts'
    BY <1>13 DEF SendBroken, Wake, Timeout, Finish, RegisteredIsServed,
       ServingIsRegistered, NestFacts
  <2> QED BY <2>1, <2>2, <2>3, <2>4, <2>5
<1>14. CASE UNCHANGED vars
  BY <1>14 DEF vars, NoStrandedRequest, PendingHasCaller, RegisteredIsServed,
     ServingIsRegistered, CallFacts, NestFacts, OwnCallNeverAnswered
<1>15. TypeOK' BY TypeStep
<1>16. QED
  BY <1>1, <1>2, <1>3, <1>4, <1>5, <1>6, <1>7, <1>8, <1>9, <1>10, <1>11,
     <1>12, <1>13, <1>14, <1>15 DEF Next, GatewayNext, CallerNext

(* The inductive invariant holds of every reachable state.                 *)
THEOREM IInvCorrect == Spec => []IInv
  BY IInvInit, IInvStep, PTL DEF Spec

(* No call is left parked on a connection nobody will fail or answer.      *)
THEOREM NoStrandedRequestHolds == Spec => []NoStrandedRequest
<1>1. IInv => NoStrandedRequest BY DEF IInv
<1>2. QED BY <1>1, IInvCorrect, PTL

(* No entry of a correlation table outlives its caller.                    *)
THEOREM PendingHasCallerHolds == Spec => []PendingHasCaller
<1>1. IInv => PendingHasCaller BY DEF IInv
<1>2. QED BY <1>1, IInvCorrect, PTL

(* A node listed as connected is served by a gateway, and a gateway nobody *)
(* has displaced is the one listed.                                        *)
THEOREM RegistrationHolds == Spec => [](RegisteredIsServed /\ ServingIsRegistered)
<1>1. IInv => RegisteredIsServed /\ ServingIsRegistered BY DEF IInv
<1>2. QED BY <1>1, IInvCorrect, PTL

(* A gateway never hears the answer to what it asked its own socket.       *)
THEOREM OwnCallNeverAnsweredHolds == Spec => []OwnCallNeverAnswered
<1>1. IInv => OwnCallNeverAnswered BY DEF IInv
<1>2. QED BY <1>1, IInvCorrect, PTL
-----------------------------------------------------------------------------
(* The table of a connection grows only in Parked, by one call, and only   *)
(* when it is below the bound.                                             *)
LEMMA BoundStep ==
    TypeOK /\ PendingBounded /\ [Next]_vars => PendingBounded'
<1> SUFFICES ASSUME TypeOK, PendingBounded, [Next]_vars,
                    NEW t \in Sockets
             PROVE  Cardinality(pending'[t]) <= PendingMax
  BY DEF PendingBounded
<1>1. pending[t] \in SUBSET Requests /\ IsFiniteSet(pending[t])
  BY BoundsAssumption, FS_Subset DEF TypeOK
<1>2. Cardinality(pending[t]) \in Nat /\ Cardinality(pending[t]) <= PendingMax
  BY <1>1, FS_CardinalityType DEF PendingBounded
<1>3. CASE pending'[t] \subseteq pending[t]
  <2>1. Cardinality(pending'[t]) <= Cardinality(pending[t])
    BY <1>1, <1>3, FS_Subset
  <2>2. Cardinality(pending'[t]) \in Nat
    BY <1>1, <1>3, FS_Subset, FS_CardinalityType
  <2> QED BY <1>2, <2>1, <2>2, BoundsAssumption
<1>4. ASSUME NEW r \in Requests, NEW n \in Nodes, Parked(r, n)
      PROVE  \/ pending'[t] \subseteq pending[t]
             \/ /\ pending'[t] = pending[t] \cup {r}
                /\ Cardinality(pending[t]) < PendingMax
  BY <1>4 DEF Parked, TypeOK
<1>5. \/ pending'[t] \subseteq pending[t]
      \/ /\ \E r \in Requests : pending'[t] = pending[t] \cup {r}
         /\ Cardinality(pending[t]) < PendingMax
  <2>1. CASE UNCHANGED pending BY <2>1
  <2>2. ASSUME NEW S, FailPending(S) PROVE pending'[t] \subseteq pending[t]
    BY <2>2 DEF FailPending, TypeOK
  <2>3. ASSUME NEW r \in Requests, NEW o, Finish(r, o)
        PROVE  pending'[t] \subseteq pending[t]
    BY <2>3 DEF Finish, TypeOK
  <2>4. ASSUME NEW r \in Requests, NEW n \in Nodes, Call(r, n)
        PROVE UNCHANGED pending \/ Parked(r, n)
    BY <2>4 DEF Call, Refused
  <2>5. ASSUME NEW r \in Requests, NEW s \in Sockets, ReadExited(s, r)
        PROVE UNCHANGED pending \/ Parked(r, NodeOf[s])
    BY <2>5 DEF ReadExited, Refused
  <2>6. ASSUME NEW s \in Sockets, GatewayNext(s)
        PROVE  \/ UNCHANGED pending \/ (\E S : FailPending(S))
               \/ \E r \in Requests : Parked(r, NodeOf[s])
    BY <2>6, <2>5 DEF GatewayNext, Connect, AuthFail, Register, FailPrevious,
       ClosePrevious, ClosePreviousRaises, CloseEvicted, DrainOne, Drop, EndLoop,
       ReadShutdown, NestedBreaks, Remove, ResumeLoop, ReadReply
  <2>7. ASSUME NEW r \in Requests, CallerNext(r)
        PROVE  \/ UNCHANGED pending \/ (\E o : Finish(r, o))
               \/ \E n \in Nodes : Parked(r, n)
    BY <2>7, <2>4 DEF CallerNext, StartSend, EndSend, SendBroken, Wake,
       Timeout, Answer
  <2>8. ASSUME NEW n \in Nodes, Evict(n) PROVE \E S : FailPending(S)
    BY <2>8 DEF Evict
  <2>9. CloseAll \/ UNCHANGED vars => UNCHANGED pending
    BY DEF CloseAll, vars
  <2>10. \A s \in Sockets : NodeOf[s] \in Nodes BY SocketsAssumption
  <2> QED BY <1>4, <2>1, <2>2, <2>3, <2>6, <2>7, <2>8, <2>9, <2>10 DEF Next
<1>6. ASSUME NEW r \in Requests, pending'[t] = pending[t] \cup {r},
             Cardinality(pending[t]) < PendingMax
      PROVE  Cardinality(pending'[t]) <= PendingMax
  <2>1. Cardinality(pending'[t]) \in
            {Cardinality(pending[t]), Cardinality(pending[t]) + 1}
    BY <1>1, <1>6, FS_AddElement
  <2> QED BY <1>2, <1>6, <2>1, BoundsAssumption
<1> QED BY <1>3, <1>5, <1>6

(* No connection ever carries more than pending_requests_max calls.        *)
THEOREM PendingBoundedHolds == Spec => []PendingBounded
<1>1. Init => PendingBounded
  BY BoundsAssumption, FS_EmptySet DEF Init, PendingBounded
<1>2. QED BY <1>1, BoundStep, TypeCorrect, PTL DEF Spec
-----------------------------------------------------------------------------
(* What each kind of step looks like to a caller of request().             *)
LEMMA MoveOfOne ==
    ASSUME NEW r \in Requests, NEW from, NEW to,
           PhaseOf(r) = from, PhaseOf(r)' = to,
           \A q \in Requests \ {r} : caller'[q] = caller[q] /\ via'[q] = via[q]
    PROVE  Rpc!Move(r, from, to)
<1>1. \A q \in Requests \ {r} : PhaseOf(q)' = PhaseOf(q) BY DEF PhaseOf
<1> QED BY <1>1 DEF Rpc!Move, CallPhase

LEMMA RpcStep == IInv /\ IInv' /\ [Next]_vars => [Rpc!Next]_(Rpc!rpcVars)
<1> SUFFICES ASSUME IInv, IInv', [Next]_vars PROVE [Rpc!Next]_(Rpc!rpcVars)
  OBVIOUS
<1> USE SocketsAssumption
    DEF IInv, TypeOK, CallFacts, InFlight, Outcomes, MaybeSocket
<1>1. ASSUME UNCHANGED <<caller, via, reply>> PROVE UNCHANGED Rpc!rpcVars
  BY <1>1 DEF Rpc!rpcVars, CallPhase, PhaseOf, CallsServed
<1>2. ASSUME NEW r \in Requests, NEW n \in Nodes, Refused(r, n),
             caller[r] = "idle", UNCHANGED reply
      PROVE  Rpc!Refuse(r)
  <2>1. PhaseOf(r) = "idle" /\ PhaseOf(r)' = "refused"
    BY <1>2 DEF Refused, PhaseOf
  <2>2. Rpc!Move(r, "idle", "refused") BY <1>2, <2>1, MoveOfOne DEF Refused
  <2> QED BY <1>2, <2>2 DEF Rpc!Refuse, CallsServed
<1>3. ASSUME NEW r \in Requests, NEW n \in Nodes, Parked(r, n),
             caller[r] = "idle", UNCHANGED reply
      PROVE  Rpc!Open(r)
  <2>1. PhaseOf(r) = "idle" /\ PhaseOf(r)' = "open"
    BY <1>3 DEF Parked, PhaseOf
  <2>2. Rpc!Move(r, "idle", "open") BY <1>3, <2>1, MoveOfOne DEF Parked
  <2> QED BY <1>3, <2>2 DEF Rpc!Open, CallsServed
<1>4. ASSUME NEW r \in Requests, Answer(r) PROVE Rpc!Serve(r)
  <2>1. PhaseOf(r) \in {"open", "failed"}
    BY <1>4 DEF Answer, PhaseOf, Callers
  <2>2. UNCHANGED CallPhase BY <1>4 DEF Answer, CallPhase, PhaseOf
  <2>3. r \notin CallsServed /\ CallsServed' = CallsServed \cup {r}
    BY <1>4 DEF Answer, CallsServed
  <2> QED BY <2>1, <2>2, <2>3 DEF Rpc!Serve, CallPhase
<1>5. ASSUME NEW r \in Requests, NEW o \in Outcomes, Finish(r, o),
             caller[r] \in InFlight
      PROVE  /\ UNCHANGED CallsServed
             /\ Rpc!Move(r, "open", IF o = "ok" THEN "ok" ELSE "failed")
  <2>1. /\ PhaseOf(r) = "open"
        /\ PhaseOf(r)' = (IF o = "ok" THEN "ok" ELSE "failed")
    BY <1>5 DEF Finish, PhaseOf
  <2>2. \A q \in Requests \ {r} : caller'[q] = caller[q] /\ via'[q] = via[q]
    BY <1>5 DEF Finish
  <2> QED BY <1>5, <2>1, <2>2, MoveOfOne DEF Finish, CallsServed
<1>6. ASSUME NEW r \in Requests, SendBroken(r) \/ Wake(r) \/ Timeout(r)
      PROVE  Rpc!GiveUp(r) \/ Rpc!Complete(r)
  <2>1. CASE SendBroken(r)
    BY <1>5, <2>1 DEF SendBroken, Rpc!GiveUp
  <2>2. CASE Timeout(r)
    BY <1>5, <2>2 DEF Timeout, Rpc!GiveUp
  <2>3. CASE Wake(r)
    <3>1. CASE future[r] = "result" /\ Finish(r, "ok")
      BY <1>5, <2>3, <3>1 DEF Wake, Rpc!Complete, CallsServed
    <3>2. CASE future[r] = "offline" /\ Finish(r, "offline")
      BY <1>5, <2>3, <3>2 DEF Wake, Rpc!GiveUp
    <3> QED BY <2>3, <3>1, <3>2 DEF Wake
  <2> QED BY <1>6, <2>1, <2>2, <2>3
<1>7. ASSUME NEW r \in Requests, StartSend(r) \/ EndSend(r)
      PROVE  UNCHANGED Rpc!rpcVars
  BY <1>7 DEF StartSend, EndSend, Rpc!rpcVars, CallPhase, PhaseOf, CallsServed
<1>8. ASSUME NEW s \in Sockets, NEW r \in Requests, ReadReply(s, r)
      PROVE  UNCHANGED Rpc!rpcVars
  BY <1>8 DEF ReadReply, Rpc!rpcVars, CallPhase, PhaseOf, CallsServed
<1>9. QED
  <2>1. ASSUME NEW s \in Sockets, GatewayNext(s)
        PROVE  [Rpc!Next]_(Rpc!rpcVars)
    BY <2>1, <1>1, <1>2, <1>3, <1>8, SocketsAssumption
       DEF GatewayNext, Connect, AuthFail, Register, ClosePrevious,
          ClosePreviousRaises, CloseEvicted,
           DrainOne, Drop, EndLoop, ReadShutdown, NestedBreaks, ResumeLoop, ReadExited,
              Rpc!Next
  <2>2. ASSUME NEW r \in Requests, CallerNext(r)
        PROVE  [Rpc!Next]_(Rpc!rpcVars)
    BY <2>2, <1>2, <1>3, <1>4, <1>6, <1>7
       DEF CallerNext, Call, Rpc!Next
  <2>3. ASSUME NEW n \in Nodes, Evict(n) PROVE UNCHANGED Rpc!rpcVars
    BY <2>3, <1>1 DEF Evict
  <2>4. CloseAll \/ UNCHANGED vars => UNCHANGED Rpc!rpcVars
    BY <1>1 DEF CloseAll, vars
  <2> QED BY <2>1, <2>2, <2>3, <2>4 DEF Next

(* The registry implements the one-shot call.                              *)
THEOREM ImplementsOneShotRpcHolds == Spec => ImplementsOneShotRpc
<1>1. Init => Rpc!Init
  BY DEF Init, Rpc!Init, CallPhase, PhaseOf, CallsServed
<1>2. QED
  BY <1>1, RpcStep, IInvCorrect, PTL DEF Spec, ImplementsOneShotRpc, Rpc!Spec

=============================================================================
