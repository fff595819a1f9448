------------------------ MODULE NodeCredentialsProofs ------------------------
(***************************************************************************)
(* For any sockets and requests: the registered connection runs on a       *)
(* revoked credential only when it authenticated during the revocation,    *)
(* and the row locks of two operations never wait for each other.          *)
(***************************************************************************)
EXTENDS NodeCredentials, SequenceTheorems, TLAPS

\* What has not happened yet, by where a transaction is, and which operation
\* touches what.
Staged(r) ==
    /\ r.on # NoSocket <=> r.at \in {"telling", "closing"}
    /\ r.at \in {"idle", "begin", "revoking"} => r.holds = {}
    /\ r.op \notin Revoking => r.holds = {}
    /\ r.at \in {"begin", "revoking", "tell", "telling", "sever", "closing"}
         => r.op \in Revoking \cup {"disable"}
    /\ r.at \in {"revoking", "sever", "closing"} => r.op \in Revoking
    /\ r.op \in {"revoke", "rotate"} => ~r.dirty
    /\ r.op = "remove" => r.dirty /\ (r.at # "begin" => r.locked)
Stages == \A q \in Requests : req[q] \in Transactions /\ Staged(req[q])

Registered == current # NoSocket => gate[current] \in {"loop", "busy"}

\* A socket that has proved a key and was not caught by a revocation.
Trusted(s) == (gate[s] = "verified" \/ current = s) /\ s \notin raced
TrustedKeys ==
    \A s \in Sockets : Trusted(s) => key[s] \in DOMAIN creds /\ creds[key[s]] = "active"

\* From its eviction to its commit a revocation leaves nobody trusted.
SeverLeavesNone == Severing => \A s \in Sockets : ~Trusted(s)

CredentialInv ==
    /\ TypeOK /\ Stages /\ Registered /\ TrustedKeys /\ SeverLeavesNone

-----------------------------------------------------------------------------
LEMMA ActiveVersions ==
    ASSUME TypeOK
    PROVE  /\ Active \subseteq DOMAIN creds /\ DOMAIN creds \subseteq Nat
           /\ Len(creds) \in Nat
  BY DEF TypeOK, Active

\* The answer, the timeout or the loss of a tunnel close.
LEMMA AfterTellStaged ==
    ASSUME NEW r \in Transactions, Staged(r), r.at \in {"tell", "telling"}
    PROVE  /\ AfterTell(r) \in Transactions /\ Staged(AfterTell(r))
           /\ ~(AfterTell(r).op \in Revoking /\ AfterTell(r).at \in {"closing", "commit"})
  BY DEF AfterTell, Transactions, Staged, Revoking

LEMMA InitHolds == ASSUME CredentialAssumption, Init PROVE CredentialInv
  <1>1. Idle \in Transactions /\ Staged(Idle) /\ Idle.op = "none" /\ Idle.on = NoSocket
        /\ Idle.at = "idle"
    BY DEF Idle, Transactions, Staged, Revoking
  <1>2. \A q \in Requests : req[q] = Idle
    BY DEF Init
  <1>3. TypeOK
    BY <1>1, <1>2, CredentialAssumption DEF Init, TypeOK
  <1>4. Stages /\ Registered /\ TrustedKeys /\ SeverLeavesNone
    BY <1>1, <1>2, CredentialAssumption DEF Init, Stages, Registered, TrustedKeys, Trusted,
       SeverLeavesNone, Severing, Revoking
  <1> QED
    BY <1>3, <1>4 DEF CredentialInv

\* A transaction moves, and nothing else does.
LEMMA RequestMoves ==
    ASSUME CredentialInv, NEW q \in Requests, NEW r \in Transactions, Staged(r),
           req' = [req EXCEPT ![q] = r], begun' \in Nat,
           UNCHANGED <<node, creds, sockets, raced>>,
           r.op \in Revoking /\ r.at \in {"closing", "commit"} => Severing
    PROVE  CredentialInv'
  <1> USE DEF CredentialInv
  <1>1. \A p \in Requests : req'[p] = IF p = q THEN r ELSE req[p]
    BY DEF TypeOK
  <1>2. Stages'
    BY <1>1 DEF Stages, Staged
  <1>3. TypeOK'
    BY <1>1 DEF TypeOK, sockets, Staged
  <1>4. Severing' => Severing
    BY <1>1 DEF Severing
  <1> QED
    BY <1>2, <1>3, <1>4 DEF sockets, Registered, TrustedKeys, Trusted, SeverLeavesNone

-----------------------------------------------------------------------------
(* The administrators' steps.                                               *)

LEMMA LoadKeeps ==
    ASSUME CredentialInv, NEW q \in Requests, req[q].at = "idle",
           NEW op \in Revoking \cup {"disable", "enable"}, NEW dirty \in BOOLEAN,
           NEW at \in {"begin", "commit"},
           op \in {"revoke", "rotate"} => ~dirty, op = "remove" => dirty, at = "commit" <=> op = "enable",
           Load(q, op, dirty, at), begun' = begun + 1,
           UNCHANGED <<node, creds, sockets, raced>>
    PROVE  CredentialInv'
  <1> DEFINE r == [req[q] EXCEPT !.op = op, !.dirty = dirty, !.at = at]
  <1>1. req[q] \in Transactions /\ Staged(req[q]) /\ TypeOK
    BY DEF CredentialInv, Stages
  <1>2. r \in Transactions
    BY <1>1 DEF Transactions, Revoking
  <1>3. Staged(r)
    BY <1>1 DEF Transactions, Staged, Revoking
  <1>4. r.at = at /\ r.op = op
    BY <1>1 DEF Transactions
  <1>5. req' = [req EXCEPT ![q] = r] /\ begun' \in Nat
    BY <1>1 DEF Load, TypeOK
  <1>6. ~(r.op \in Revoking /\ r.at \in {"closing", "commit"})
    BY <1>4 DEF Revoking
  <1> QED
    BY <1>2, <1>3, <1>5, <1>6, RequestMoves

LEMMA BeginKeeps ==
    ASSUME CredentialInv, NEW q \in Requests, Begin(q)
    PROVE  CredentialInv'
  <1>1. node.enabled \in BOOLEAN
    BY DEF CredentialInv, TypeOK
  <1>2. req[q].at = "idle" /\ begun' = begun + 1 /\ UNCHANGED <<node, creds, sockets, raced>>
    BY DEF Begin
  <1>3. CASE Load(q, "revoke", FALSE, "begin")
    BY <1>2, <1>3, LoadKeeps DEF Revoking
  <1>4. CASE Load(q, "rotate", FALSE, "begin")
    BY <1>2, <1>4, LoadKeeps DEF Revoking
  <1>5. CASE Load(q, "remove", TRUE, "begin")
    BY <1>2, <1>5, LoadKeeps DEF Revoking
  <1>6. CASE Load(q, "disable", node.enabled, "begin")
    BY <1>1, <1>2, <1>6, LoadKeeps
  <1>7. CASE Load(q, "enable", ~node.enabled, "commit")
    <2>1. (~node.enabled) \in BOOLEAN
      OBVIOUS
    <2> QED
      BY <1>2, <1>7, <2>1, LoadKeeps
  <1> QED
    BY <1>3, <1>4, <1>5, <1>6, <1>7 DEF Begin

LEMMA QueryKeeps ==
    ASSUME CredentialInv, NEW q \in Requests, Query(q)
    PROVE  CredentialInv'
  <1> DEFINE at == IF req[q].op = "disable" THEN "tell" ELSE "revoking"
             seen == IF req[q].op = "disable" THEN {} ELSE Active
             r == [req[q] EXCEPT !.locked = req[q].dirty, !.seen = seen, !.at = at]
  <1>1. req[q] \in Transactions /\ Staged(req[q]) /\ TypeOK
    BY DEF CredentialInv, Stages
  <1>2. seen \in SUBSET Nat
    BY <1>1, ActiveVersions
  <1>3. r \in Transactions
    BY <1>1, <1>2 DEF Transactions
  <1>4. Staged(r)
    BY <1>1 DEF Query, Transactions, Staged, Revoking
  <1>5. req' = [req EXCEPT ![q] = r] /\ begun' \in Nat
    BY <1>1 DEF Query, TypeOK
  <1>6. ~(r.at \in {"closing", "commit"})
    BY <1>1 DEF Transactions
  <1> QED
    BY <1>3, <1>4, <1>5, <1>6, RequestMoves DEF Query

LEMMA RevokeKeeps ==
    ASSUME CredentialInv, NEW q \in Requests, Revoke(q)
    PROVE  CredentialInv'
  <1> DEFINE at == IF req[q].op = "rotate" THEN "sever" ELSE "tell"
             new == IF req[q].op = "rotate" THEN Len(creds) + 1 ELSE 0
             r == [req[q] EXCEPT !.seen = {}, !.holds = req[q].seen \cap Active,
                                 !.new = new, !.at = at]
  <1>1. req[q] \in Transactions /\ Staged(req[q]) /\ TypeOK /\ req[q].at = "revoking"
    BY DEF CredentialInv, Stages, Revoke
  <1>2. Active \subseteq Nat /\ new \in Nat
    BY <1>1, ActiveVersions
  <1>3. r \in Transactions
    BY <1>1, <1>2 DEF Transactions
  <1>4. r.at = at /\ r.op = req[q].op /\ r.on = req[q].on /\ r.dirty = req[q].dirty
        /\ r.locked = req[q].locked
    BY <1>1 DEF Transactions
  <1>5. Staged(r)
    BY <1>1, <1>4 DEF Staged, Revoking
  <1>6. req' = [req EXCEPT ![q] = r] /\ begun' \in Nat
    BY <1>1 DEF Revoke, TypeOK
  <1>7. UNCHANGED <<node, creds, sockets, raced>>
    BY DEF Revoke
  <1>8. ~(r.at \in {"closing", "commit"})
    BY <1>4
  <1> QED
    BY <1>3, <1>5, <1>6, <1>7, <1>8, RequestMoves

LEMMA TellKeeps ==
    ASSUME CredentialInv, NEW q \in Requests, Tell(q) \/ TellTimesOut(q)
    PROVE  CredentialInv'
  <1>1. /\ req[q] \in Transactions /\ Staged(req[q]) /\ TypeOK
        /\ req[q].at \in {"tell", "telling"} /\ begun' \in Nat
        /\ UNCHANGED <<node, creds, sockets, raced>>
    BY DEF CredentialInv, Stages, Tell, TellTimesOut, TypeOK
  <1>2. CASE req' = [req EXCEPT ![q] = AfterTell(@)]
    BY <1>1, <1>2, AfterTellStaged, RequestMoves
  <1>3. CASE /\ current # NoSocket
             /\ req' = [req EXCEPT ![q] = [@ EXCEPT !.at = "telling", !.on = current]]
    <2> DEFINE r == [req[q] EXCEPT !.at = "telling", !.on = current]
    <2>1. r \in Transactions /\ Staged(r) /\ r.at = "telling"
      BY <1>1, <1>3 DEF Transactions, Staged, TypeOK
    <2> QED
      BY <1>1, <1>3, <2>1, RequestMoves
  <1> QED
    BY <1>2, <1>3 DEF Tell, TellTimesOut

\* An operation that is rolled back while it waits leaves nothing behind.
LEMMA TellBreaksKeeps ==
    ASSUME CredentialInv, NEW q \in Requests, TellBreaks(q)
    PROVE  CredentialInv'
  <1>1. Idle \in Transactions /\ Staged(Idle) /\ Idle.op \notin Revoking
    BY DEF Idle, Transactions, Staged, Revoking
  <1>2. begun' \in Nat
    BY DEF TellBreaks, CredentialInv, TypeOK
  <1> QED
    BY <1>1, <1>2, RequestMoves DEF TellBreaks

\* What a lost connection does to the calls that wait on it.
LEMMA FailWaitingFacts ==
    ASSUME CredentialInv,
           NEW others \in [Requests -> Transactions],
           \A p \in Requests : Staged(others[p]), FailWaiting(others)
    PROVE  /\ req' \in [Requests -> Transactions]
           /\ \A p \in Requests : Staged(req'[p])
           /\ \A p \in Requests : req'[p].at \in {"closing", "commit"}
                  /\ req'[p].op \in Revoking => req'[p] = others[p]
  <1>1. \A p \in Requests : req[p] \in Transactions /\ Staged(req[p])
    BY DEF CredentialInv, Stages
  <1>2. \A p \in Requests :
           req'[p] = IF req[p].at = "telling" /\ req[p].on = current THEN AfterTell(req[p])
                     ELSE others[p]
    BY DEF FailWaiting
  <1>3. req' = [p \in Requests |-> req'[p]]
    BY DEF FailWaiting
  <1>4. ASSUME NEW p \in Requests
        PROVE  /\ req'[p] \in Transactions /\ Staged(req'[p])
               /\ req'[p].at \in {"closing", "commit"} /\ req'[p].op \in Revoking
                    => req'[p] = others[p]
    <2>1. CASE req[p].at = "telling" /\ req[p].on = current
      BY <1>1, <1>2, <2>1, AfterTellStaged
    <2>2. CASE ~(req[p].at = "telling" /\ req[p].on = current)
      BY <1>2, <2>2
    <2> QED
      BY <2>1, <2>2
  <1> QED
    BY <1>3, <1>4

LEMMA SeverKeeps ==
    ASSUME CredentialAssumption, CredentialInv, NEW q \in Requests, Sever(q)
    PROVE  CredentialInv'
  <1> USE DEF CredentialInv
  <1> DEFINE r == Severed(req[q])
             others == [req EXCEPT ![q] = r]
  <1>1. req[q] \in Transactions /\ Staged(req[q]) /\ req[q].at = "sever"
    BY DEF Stages, Sever
  <1>2. r \in Transactions /\ Staged(r)
    BY <1>1 DEF Severed, Transactions, Staged, Revoking, TypeOK
  <1>3. others \in [Requests -> Transactions] /\ \A p \in Requests : Staged(others[p])
    BY <1>2 DEF TypeOK, Stages
  <1>4. FailWaiting(others)
    BY DEF Sever
  <1>5. req' \in [Requests -> Transactions] /\ \A p \in Requests : Staged(req'[p])
    BY <1>3, <1>4, FailWaitingFacts
  <1>6. TypeOK'
    BY <1>5 DEF Sever, TypeOK, Staged
  <1>7. Stages'
    BY <1>5 DEF Stages
  <1>8. \A s \in Sockets : ~Trusted(s)'
    BY CredentialAssumption DEF Sever, Trusted, TypeOK
  <1> QED
    BY <1>6, <1>7, <1>8 DEF Sever, Registered, TrustedKeys, SeverLeavesNone

LEMMA CloseKeeps ==
    ASSUME CredentialInv, NEW q \in Requests, Close(q)
    PROVE  CredentialInv'
  <1> USE DEF CredentialInv
  <1> DEFINE r == [req[q] EXCEPT !.at = "commit", !.on = NoSocket]
  <1>1. req[q] \in Transactions /\ Staged(req[q]) /\ req[q].at = "closing"
    BY DEF Stages, Close
  <1>2. r \in Transactions /\ Staged(r)
    BY <1>1 DEF Transactions, Staged, Revoking
  <1>3. \A p \in Requests : req'[p] = IF p = q THEN r ELSE req[p]
    BY DEF Close, TypeOK
  <1>4. req' \in [Requests -> Transactions]
    BY <1>2, <1>3 DEF Close, TypeOK
  <1>5. Stages'
    BY <1>2, <1>3 DEF Stages
  <1>6. TypeOK'
    BY <1>4, <1>5 DEF Close, TypeOK, Stages, Staged
  <1>7. Severing
    BY <1>1 DEF Severing, Staged
  <1> QED
    BY <1>5, <1>6, <1>7 DEF Close, Registered, TrustedKeys, Trusted, SeverLeavesNone

\* Revoking a credential nobody trusted any more, and issuing one.
LEMMA WrittenCredsFacts ==
    ASSUME CredentialInv, NEW q \in Requests, req[q].at = "commit"
    PROVE  /\ WrittenCreds(req[q]) \in Seq({"active", "revoked"})
           /\ \A s \in Sockets : Trusted(s) =>
                 /\ key[s] \in DOMAIN WrittenCreds(req[q])
                 /\ WrittenCreds(req[q])[key[s]] = "active"
  <1> USE DEF CredentialInv
  <1> DEFINE old == [v \in DOMAIN creds |-> IF v \in req[q].holds THEN "revoked" ELSE creds[v]]
  <1>1. old \in Seq({"active", "revoked"}) /\ Len(old) = Len(creds)
    <2>1. Len(creds) \in Nat /\ creds \in [1..Len(creds) -> {"active", "revoked"}]
      BY LenProperties DEF TypeOK
    <2>2. old \in [1..Len(creds) -> {"active", "revoked"}]
      BY <2>1
    <2>3. old \in Seq({"active", "revoked"})
      BY <2>1, <2>2, SeqDef
    <2>4. DOMAIN old = 1..Len(old) /\ Len(old) \in Nat
      BY <2>3, LenProperties
    <2> QED
      BY <2>1, <2>2, <2>3, <2>4
  <1>2. Append(old, "active") \in Seq({"active", "revoked"})
    BY <1>1
  <1>3. \A v \in DOMAIN creds : v \in DOMAIN Append(old, "active")
                               /\ Append(old, "active")[v] = old[v]
    BY <1>1 DEF TypeOK
  <1>4. ASSUME NEW s \in Sockets, Trusted(s)
        PROVE  key[s] \in DOMAIN creds /\ old[key[s]] = "active"
    <2>1. ~Severing /\ key[s] \in DOMAIN creds /\ creds[key[s]] = "active"
      BY <1>4 DEF SeverLeavesNone, TrustedKeys
    <2>2. req[q].op \notin Revoking
      BY <2>1 DEF Severing
    <2>3. req[q].holds = {}
      BY <2>2 DEF Stages, Staged
    <2> QED
      BY <2>1, <2>3
  <1> QED
    BY <1>1, <1>2, <1>3, <1>4 DEF WrittenCreds

LEMMA CommitKeeps ==
    ASSUME CredentialInv, NEW q \in Requests, Commit(q)
    PROVE  CredentialInv'
  <1> USE DEF CredentialInv
  <1>1. req[q] \in Transactions /\ Staged(req[q]) /\ req[q].at = "commit"
    BY DEF Stages, Commit
  <1>2. Idle \in Transactions /\ Staged(Idle) /\ Idle.op = "none"
    BY DEF Idle, Transactions, Staged, Revoking
  <1>3. \A p \in Requests : req'[p] = IF p = q THEN Idle ELSE req[p]
    BY DEF Commit, TypeOK
  <1>4. req' \in [Requests -> Transactions] /\ Stages'
    BY <1>2, <1>3 DEF Commit, TypeOK, Stages
  <1>5. node' \in [deleted : BOOLEAN, enabled : BOOLEAN]
    BY DEF Commit, TypeOK, WrittenNode
  <1>6. /\ creds' \in Seq({"active", "revoked"})
        /\ \A s \in Sockets : Trusted(s) => key[s] \in DOMAIN creds' /\ creds'[key[s]] = "active"
    <2>1. CASE creds' = creds
      BY <2>1 DEF TypeOK, TrustedKeys
    <2>2. CASE creds' = WrittenCreds(req[q])
      BY <1>1, <2>2, WrittenCredsFacts
    <2> QED
      BY <2>1, <2>2 DEF Commit
  <1>7. TypeOK'
    BY <1>4, <1>5, <1>6 DEF Commit, sockets, TypeOK, Stages, Staged
  <1>8. Severing' => Severing
    BY <1>2, <1>3 DEF Severing, Revoking
  <1> QED
    BY <1>4, <1>6, <1>7, <1>8 DEF Commit, sockets, Registered, TrustedKeys, Trusted,
       SeverLeavesNone

-----------------------------------------------------------------------------
(* The gateways' steps.                                                     *)

LEMMA VerifyKeeps ==
    ASSUME CredentialAssumption, CredentialInv, NEW s \in Sockets, Verify(s)
    PROVE  CredentialInv'
  <1> USE DEF CredentialInv
  <1>1. PICK v \in Active : key' = [key EXCEPT ![s] = v]
    BY DEF Verify
  <1>2. v \in Nat /\ v \in DOMAIN creds /\ creds[v] = "active"
    BY <1>1, ActiveVersions DEF Active
  <1>3. UNCHANGED <<node, creds, req, open, current, begun>>
        /\ gate' = [gate EXCEPT ![s] = "verified"] /\ gate[s] = "known"
        /\ raced' = IF Severing THEN raced \cup {s} ELSE raced
    BY DEF Verify, central
  <1>4. TypeOK'
    BY <1>1, <1>2, <1>3 DEF TypeOK
  <1>5. Stages' /\ (Severing' <=> Severing)
    BY <1>3 DEF Stages, Severing
  <1>6. Registered' /\ current # s
    BY <1>3, CredentialAssumption DEF Registered, TypeOK
  <1>7. ASSUME NEW t \in Sockets, Trusted(t)'
        PROVE  key'[t] \in DOMAIN creds' /\ creds'[key'[t]] = "active" /\ ~Severing
    <2>1. CASE t = s
      BY <1>1, <1>2, <1>3, <1>7, <2>1 DEF Trusted, TypeOK
    <2>2. CASE t # s
      BY <1>1, <1>3, <1>7, <2>2 DEF Trusted, TypeOK, TrustedKeys, SeverLeavesNone
    <2> QED
      BY <2>1, <2>2
  <1> QED
    BY <1>4, <1>5, <1>6, <1>7 DEF TrustedKeys, SeverLeavesNone

\* register() and remove() of the registry: the connection the registry held
\* goes, and no socket becomes trusted.
LEMMA RegistryStep ==
    ASSUME CredentialInv, FailWaiting(req),
           UNCHANGED <<node, creds, begun>>,
           gate' \in [Sockets -> {"off", "auth", "known", "verified", "loop", "busy"}],
           open' \in [Sockets -> BOOLEAN], key' \in [Sockets -> Nat],
           current' \in Sockets \cup {NoSocket}, raced' \in SUBSET Sockets, Registered',
           \A t \in Sockets : Trusted(t)' => Trusted(t) /\ key'[t] = key[t]
    PROVE  CredentialInv'
  <1> USE DEF CredentialInv
  <1>1. req \in [Requests -> Transactions] /\ \A p \in Requests : Staged(req[p])
    BY DEF TypeOK, Stages
  <1>2. /\ req' \in [Requests -> Transactions]
        /\ \A p \in Requests : Staged(req'[p])
        /\ \A p \in Requests : req'[p].at \in {"closing", "commit"}
               /\ req'[p].op \in Revoking => req'[p] = req[p]
    BY <1>1, FailWaitingFacts
  <1>3. TypeOK'
    BY <1>2 DEF TypeOK, Staged
  <1>4. Stages' /\ (Severing' => Severing)
    BY <1>2 DEF Stages, Severing
  <1> QED
    BY <1>3, <1>4 DEF TrustedKeys, SeverLeavesNone

LEMMA RegisterKeeps ==
    ASSUME CredentialAssumption, CredentialInv, NEW s \in Sockets, Register(s)
    PROVE  CredentialInv'
  <1>1. TypeOK
    BY DEF CredentialInv
  <1>2. Registered' /\ (\A t \in Sockets : Trusted(t)' => Trusted(t) /\ key'[t] = key[t])
    BY <1>1 DEF Register, Registered, Trusted, TypeOK
  <1>3. open' \in [Sockets -> BOOLEAN]
    BY <1>1 DEF Register, TypeOK
  <1> QED
    BY <1>1, <1>2, <1>3, RegistryStep DEF Register, TypeOK

LEMMA EndLoopKeeps ==
    ASSUME CredentialAssumption, CredentialInv, NEW s \in Sockets, EndLoop(s)
    PROVE  CredentialInv'
  <1> USE DEF CredentialInv
  <1>1. current' = IF current = s THEN NoSocket ELSE current
    BY DEF EndLoop
  <1>2. Registered' /\ (\A t \in Sockets : Trusted(t)' => Trusted(t) /\ key'[t] = key[t])
    BY <1>1, CredentialAssumption DEF EndLoop, Registered, Trusted, TypeOK
  <1>3. CASE current = s
    BY <1>2, <1>3, RegistryStep DEF EndLoop, TypeOK
  <1>4. CASE current # s
    <2>1. TypeOK'
      BY <1>4 DEF EndLoop, TypeOK
    <2>2. Stages' /\ (Severing' <=> Severing)
      BY <1>4 DEF EndLoop, Stages, Severing
    <2> QED
      BY <1>2, <1>4, <2>1, <2>2 DEF EndLoop, TrustedKeys, SeverLeavesNone
  <1> QED
    BY <1>3, <1>4

LEMMA ReceiveKeeps ==
    ASSUME CredentialInv, NEW s \in Sockets, Receive(s)
    PROVE  CredentialInv'
  <1> USE DEF CredentialInv
  <1>1. CASE gate' = [gate EXCEPT ![s] = "busy"] /\ UNCHANGED req
    <2>1. TypeOK' /\ Stages' /\ Registered' /\ (Severing' <=> Severing)
      BY <1>1 DEF Receive, TypeOK, Stages, Registered, Severing
    <2>2. \A t \in Sockets : Trusted(t)' <=> Trusted(t)
      BY <1>1 DEF Receive, Trusted, TypeOK
    <2> QED
      BY <2>1, <2>2 DEF Receive, TrustedKeys, SeverLeavesNone
  <1>2. CASE UNCHANGED gate
    <2>1. PICK q \in Requests : req[q].at = "telling" /\ req' = [req EXCEPT ![q] = AfterTell(@)]
      BY <1>2 DEF Receive, TypeOK
    <2>2. req[q] \in Transactions /\ Staged(req[q]) /\ begun' \in Nat
      BY DEF Stages, Receive, TypeOK
    <2>3. UNCHANGED <<node, creds, sockets, raced>>
      BY <1>2 DEF Receive, sockets
    <2> QED
      BY <2>1, <2>2, <2>3, AfterTellStaged, RequestMoves
  <1> QED
    BY <1>1, <1>2 DEF Receive

\* The steps that change a gateway or its socket and trust nobody new.
LEMMA SocketKeeps ==
    ASSUME CredentialInv, NEW s \in Sockets,
           FindNode(s) \/ Reject(s) \/ Touch(s) \/ Connect(s) \/ Notice(s)
    PROVE  CredentialInv'
  <1> USE DEF CredentialInv
  <1>1. UNCHANGED <<node, creds, req, key, current, begun, raced>>
    BY DEF FindNode, Reject, Touch, Connect, Notice, central
  <1>2. TypeOK'
    BY <1>1 DEF TypeOK, FindNode, Reject, Touch, Connect, Notice
  <1>3. Stages' /\ (Severing' <=> Severing)
    BY <1>1 DEF Stages, Severing
  <1>4. Registered' /\ (\A t \in Sockets : Trusted(t)' => Trusted(t))
    BY <1>1 DEF Registered, Trusted, TypeOK, FindNode, Reject, Touch, Connect, Notice
  <1> QED
    BY <1>1, <1>2, <1>3, <1>4 DEF TrustedKeys, SeverLeavesNone

-----------------------------------------------------------------------------
(* The theorems.                                                            *)

LEMMA StepKeeps ==
    ASSUME CredentialAssumption, CredentialInv, [Next]_vars PROVE CredentialInv'
  <1>1. CASE UNCHANGED vars
    BY <1>1 DEF vars, central, sockets, CredentialInv, TypeOK, Stages, Registered,
       TrustedKeys, Trusted, SeverLeavesNone, Severing
  <1>2. ASSUME NEW q \in Requests, Begin(q) \/ RequestStep(q) \/ TellBreaks(q)
        PROVE  CredentialInv'
    BY <1>2, BeginKeeps, QueryKeeps, RevokeKeeps, TellKeeps, TellBreaksKeeps, SeverKeeps, CloseKeeps,
       CommitKeeps DEF RequestStep
  <1>3. ASSUME NEW s \in Sockets, GatewayStep(s) \/ Connect(s) \/ Notice(s)
        PROVE  CredentialInv'
    BY <1>3, VerifyKeeps, RegisterKeeps, EndLoopKeeps, ReceiveKeeps, SocketKeeps
       DEF GatewayStep
  <1> QED
    BY <1>1, <1>2, <1>3 DEF Next

\* The inductive invariant: what each stage of an operation has done, and who
\* is trusted while a revocation is under way (services/nodes.py).
THEOREM CredentialsKeepInv == Spec => []CredentialInv
  BY CredentialAssumption, InitHolds, StepKeeps, PTL DEF Spec

\* Rows, transactions and gateways keep their shape.
THEOREM CredentialTypes == Spec => []TypeOK
  BY CredentialsKeepInv, PTL DEF CredentialInv

\* A registered connection whose credential is revoked authenticated between
\* the eviction and the commit of a revocation (_sever_connection).
THEOREM RevokedKeyOnlyByRace == Spec => []OldKeyOnlyByRace
  <1>1. CredentialInv => OldKeyOnlyByRace
    BY CredentialAssumption DEF CredentialInv, TypeOK, TrustedKeys, Trusted, OldKeyOnlyByRace
  <1> QED
    BY <1>1, CredentialsKeepInv, PTL

\* Node row first, credential rows second, whatever the operations.
THEOREM RowLocksAreOrdered == Spec => []NoLockCycle
  <1>1. ASSUME CredentialInv, NEW p \in Requests, NEW q \in Requests,
               WaitsFor(p, q), WaitsFor(q, p)
        PROVE  FALSE
    BY <1>1 DEF CredentialInv, Stages, Staged, WaitsFor, Revoking, Transactions
  <1>2. CredentialInv => NoLockCycle
    BY <1>1 DEF NoLockCycle
  <1> QED
    BY <1>2, CredentialsKeepInv, PTL
=============================================================================
