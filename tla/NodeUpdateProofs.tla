--------------------------- MODULE NodeUpdateProofs ---------------------------
(***************************************************************************)
(* For any sockets, requests, releases and bounds: NodeUpdate keeps its    *)
(* types, and a daemon whose last connection was over is shown with the    *)
(* version it runs once it has registered.  The second rests on two facts: *)
(* no request changes the version of the object it loaded, and nothing     *)
(* else writes while such a daemon is connected.                           *)
(***************************************************************************)
EXTENDS NodeUpdate, SequenceTheorems, TLAPS

RequestsKeepVersion == \A q \in Requests : req[q].was.version = req[q].mark.version

NoRegister(s) == \A i \in DOMAIN reports[s] : reports[s][i].k # "register"

(* The only socket there is, from its registration to its end.             *)
Sole(s) ==
    /\ \A o \in Sockets : o # s => gate[o].at = "off"
    /\ gate[s].at # "off"
    /\ \A i \in DOMAIN reports[s] : reports[s][i].k = "register" =>
          i = 1 /\ gate[s].at = "loop" /\ reports[s][i].release = runs
    /\ gate[s].at = "loop" => gate[s].kept.version = row.version
    /\ gate[s].at = "loop" /\ NoRegister(s) => row.version = runs
    /\ gate[s].at = "commit" =>
          NoRegister(s) /\ gate[s].was.version = row.version /\ gate[s].mark.version = runs

UpdateInv ==
    /\ TypeOK
    /\ RequestsKeepVersion
    /\ \A s \in Sockets : link = s /\ gate[s].alone => Sole(s)
-----------------------------------------------------------------------------
LEMMA InitHolds == Init => UpdateInv
<1>. SUFFICES ASSUME Init PROVE UpdateInv
  OBVIOUS
<1>1. FirstRow \in Columns
  BY UpdateAssumption DEF FirstRow, Columns
<1>2. Idle \in Transactions /\ Off \in Loops
  BY <1>1 DEF Idle, Off, Transactions, Loops
<1>3. TypeOK
  BY <1>1, <1>2, UpdateAssumption DEF Init, TypeOK
<1>4. RequestsKeepVersion
  BY DEF Init, RequestsKeepVersion, Idle
<1>. QED BY <1>3, <1>4, UpdateAssumption DEF Init, UpdateInv

LEMMA MarkFacts ==
    ASSUME NEW node \in Columns, NEW st \in {"none", "in_progress", "failed"},
           NEW r \in Releases \cup {NoRelease}
    PROVE  Mark(node, st, r) \in Columns /\ Mark(node, st, r).version = node.version
BY DEF Mark, Columns

LEMMA WrittenFacts ==
    ASSUME TypeOK, NEW was \in Columns, NEW mark \in Columns
    PROVE  /\ Written(was, mark) \in Columns
           /\ mark.version = was.version => Written(was, mark).version = row.version
           /\ mark.version # was.version => Written(was, mark).version = mark.version
BY DEF Written, Columns, TypeOK

LEMMA SpendFacts ==
    ASSUME left \in [dials : Nat, asks : Nat, changes : Nat],
           NEW what \in {"dials", "asks", "changes"}, Spend(what)
    PROVE  left' \in [dials : Nat, asks : Nat, changes : Nat]
<1>1. /\ left.dials \in Nat /\ left.asks \in Nat /\ left.changes \in Nat
      /\ left = [dials |-> left.dials, asks |-> left.asks, changes |-> left.changes]
  OBVIOUS
<1>2. CASE what = "dials"
  <2>1. left.dials > 0 /\ left' = [left EXCEPT !["dials"] = left.dials - 1]
    BY <1>2 DEF Spend
  <2>2. left' = [dials |-> left.dials - 1, asks |-> left.asks, changes |-> left.changes]
    BY <1>1, <2>1
  <2>. QED BY <1>1, <2>1, <2>2
<1>3. CASE what = "asks"
  <2>1. left.asks > 0 /\ left' = [left EXCEPT !["asks"] = left.asks - 1]
    BY <1>3 DEF Spend
  <2>2. left' = [dials |-> left.dials, asks |-> left.asks - 1, changes |-> left.changes]
    BY <1>1, <2>1
  <2>. QED BY <1>1, <2>1, <2>2
<1>4. CASE what = "changes"
  <2>1. left.changes > 0 /\ left' = [left EXCEPT !["changes"] = left.changes - 1]
    BY <1>4 DEF Spend
  <2>2. left' = [dials |-> left.dials, asks |-> left.asks, changes |-> left.changes - 1]
    BY <1>1, <2>1
  <2>. QED BY <1>1, <2>1, <2>2
<1>. QED BY <1>2, <1>3, <1>4

LEMMA OnceOfflineFacts ==
    ASSUME TypeOK, RequestsKeepVersion, NEW s
    PROVE  /\ OnceOffline(s) \in [Requests -> Transactions]
           /\ \A q \in Requests : OnceOffline(s)[q].was.version = OnceOffline(s)[q].mark.version
<1>1. ASSUME NEW q \in Requests
      PROVE  /\ OnceOffline(s)[q] \in Transactions
             /\ OnceOffline(s)[q].was.version = OnceOffline(s)[q].mark.version
  <2> DEFINE m == Mark(req[q].was, "failed", req[q].mark.target)
  <2>1. /\ req[q] \in Transactions /\ req[q].was \in Columns
        /\ req[q].mark.target \in Releases \cup {NoRelease}
        /\ req[q].was.version = req[q].mark.version
    BY DEF TypeOK, Transactions, Columns, RequestsKeepVersion
  <2>2. m \in Columns /\ m.version = req[q].was.version
    BY <2>1, MarkFacts
  <2>3. OnceOffline(s)[q] = req[q] \/ OnceOffline(s)[q] = [req[q] EXCEPT !.at = "commit", !.mark = m]
    BY DEF OnceOffline
  <2>. HIDE DEF m
  <2>. QED BY <2>1, <2>2, <2>3 DEF Transactions
<1>2. OnceOffline(s) = [q \in Requests |-> OnceOffline(s)[q]]
  BY DEF OnceOffline
<1>. QED BY <1>1, <1>2
-----------------------------------------------------------------------------
(* A request that was asked, answered or timed out.                        *)
LEMMA RequestMoves ==
    ASSUME UpdateInv, NEW q \in Requests, NEW t \in Transactions,
           t.was.version = t.mark.version, req' = [req EXCEPT ![q] = t]
    PROVE  req' \in [Requests -> Transactions] /\ RequestsKeepVersion'
BY DEF UpdateInv, TypeOK, RequestsKeepVersion

LEMMA AskKeeps ==
    ASSUME UpdateInv, NEW q \in Requests, NEW r \in Releases, Ask(q, r)
    PROVE  UpdateInv'
<1>1. TypeOK /\ row \in Columns
  BY DEF UpdateInv, TypeOK
<1>2. left' \in [dials : Nat, asks : Nat, changes : Nat]
  BY <1>1, SpendFacts DEF Ask, TypeOK
<1>3. ASSUME NEW st \in {"failed", "in_progress"}, NEW a \in {"asking", "commit"},
             NEW on \in Sockets \cup {NoSocket},
             req' = [req EXCEPT ![q] = [at |-> a, on |-> on, was |-> row, mark |-> Mark(row, st, r)]]
      PROVE  req' \in [Requests -> Transactions] /\ RequestsKeepVersion'
  <2> DEFINE t == [at |-> a, on |-> on, was |-> row, mark |-> Mark(row, st, r)]
  <2>1. Mark(row, st, r) \in Columns /\ Mark(row, st, r).version = row.version
    BY <1>1, MarkFacts
  <2>2. t \in Transactions /\ t.was.version = t.mark.version
    BY <1>1, <2>1 DEF Transactions
  <2>. HIDE DEF t
  <2>3. req' = [req EXCEPT ![q] = t]
    BY <1>3 DEF t
  <2>. QED BY <2>2, <2>3, RequestMoves
<1>4. req' \in [Requests -> Transactions] /\ RequestsKeepVersion'
  BY <1>1, <1>3 DEF Ask, TypeOK
<1>5. orders' \in Seq(Orders)
  <2>1. orders \in Seq(Orders) /\ [by |-> q, release |-> r] \in Orders
    BY <1>1 DEF TypeOK, Orders
  <2>2. orders' = orders \/ orders' = Append(orders, [by |-> q, release |-> r])
    BY DEF Ask
  <2>. QED BY <2>1, <2>2
<1>6. TypeOK'
  BY <1>1, <1>2, <1>4, <1>5 DEF Ask, TypeOK
<1>7. \A s \in Sockets : link' = s /\ gate'[s].alone => Sole(s)'
  BY DEF Ask, UpdateInv, Sole, NoRegister
<1>. QED BY <1>4, <1>6, <1>7 DEF UpdateInv

LEMMA TimesOutKeeps ==
    ASSUME UpdateInv, NEW q \in Requests, TimesOut(q)
    PROVE  UpdateInv'
<1> DEFINE t == [req[q] EXCEPT !.at = "commit"]
<1>1. t \in Transactions /\ t.was.version = t.mark.version
  BY DEF UpdateInv, TypeOK, Transactions, RequestsKeepVersion
<1>2. req' = [req EXCEPT ![q] = t]
  BY DEF TimesOut
<1>. HIDE DEF t
<1>3. req' \in [Requests -> Transactions] /\ RequestsKeepVersion'
  BY <1>1, <1>2, RequestMoves
<1>4. TypeOK'
  BY <1>3 DEF UpdateInv, TypeOK, TimesOut
<1>5. \A s \in Sockets : link' = s /\ gate'[s].alone => Sole(s)'
  BY DEF TimesOut, UpdateInv, Sole, NoRegister
<1>. QED BY <1>3, <1>4, <1>5 DEF UpdateInv

(* A request commits another status and target, never another version.     *)
LEMMA CommitKeeps ==
    ASSUME UpdateInv, NEW q \in Requests, Commit(q)
    PROVE  UpdateInv'
<1>1. /\ TypeOK /\ req[q].was \in Columns /\ req[q].mark \in Columns
      /\ req[q].was.version = req[q].mark.version
  BY DEF UpdateInv, TypeOK, Transactions, RequestsKeepVersion
<1>2. row' \in Columns /\ row'.version = row.version
  BY <1>1, WrittenFacts DEF Commit
<1>3. Idle \in Transactions /\ Idle.was.version = Idle.mark.version
  BY UpdateAssumption DEF Idle, FirstRow, Transactions, Columns
<1>4. req' \in [Requests -> Transactions] /\ RequestsKeepVersion'
  BY <1>3, RequestMoves DEF Commit
<1>5. TypeOK'
  BY <1>1, <1>2, <1>4 DEF TypeOK, Commit
<1>6. \A s \in Sockets : link' = s /\ gate'[s].alone => Sole(s)'
  BY <1>2 DEF Commit, UpdateInv, Sole, NoRegister
<1>. QED BY <1>4, <1>5, <1>6 DEF UpdateInv
-----------------------------------------------------------------------------
LEMMA ConnectKeeps ==
    ASSUME UpdateInv, NEW s \in Sockets, Connect(s)
    PROVE  UpdateInv'
<1> DEFINE g == [Off EXCEPT !.at = "loop", !.kept = row,
                            !.alone = \A o \in Sockets : gate[o].at = "off"]
           m == [k |-> "register", release |-> runs]
<1>1. TypeOK /\ row \in Columns /\ runs \in Releases
  BY DEF UpdateInv, TypeOK
<1>2. /\ g \in Loops /\ g.at = "loop" /\ g.kept = row
      /\ g.alone <=> \A o \in Sockets : gate[o].at = "off"
  BY <1>1, UpdateAssumption DEF Off, FirstRow, Loops, Columns
<1>3. gate' = [gate EXCEPT ![s] = g]
  BY DEF Connect
<1>4. m \in Frames /\ m.k = "register" /\ m.release = runs
  BY <1>1 DEF Frames
<1>5. reports' = [reports EXCEPT ![s] = <<m>>]
  BY DEF Connect
<1>. HIDE DEF g, m
<1>6. gate' \in [Sockets -> Loops] /\ gate'[s] = g /\ \A o \in Sockets : o # s => gate'[o] = gate[o]
  BY <1>1, <1>2, <1>3 DEF TypeOK
<1>7. <<m>> \in Seq(Frames) /\ DOMAIN <<m>> = {1} /\ <<m>>[1] = m
  BY <1>4
<1>8. reports' \in [Sockets -> Seq(Frames)] /\ reports'[s] = <<m>>
  BY <1>1, <1>5, <1>7 DEF TypeOK
<1>9. left' \in [dials : Nat, asks : Nat, changes : Nat]
  BY <1>1, SpendFacts DEF Connect, TypeOK
<1>10. req' \in [Requests -> Transactions] /\ RequestsKeepVersion'
  BY OnceOfflineFacts DEF UpdateInv, Connect, RequestsKeepVersion
<1>11. TypeOK'
  BY <1>1, <1>6, <1>8, <1>9, <1>10 DEF TypeOK, Connect
<1>12. ASSUME gate'[s].alone PROVE Sole(s)'
  <2>1. \A o \in Sockets : o # s => gate'[o].at = "off"
    BY <1>2, <1>6, <1>12
  <2>2. ~NoRegister(s)'
    BY <1>4, <1>7, <1>8 DEF NoRegister
  <2>3. gate'[s].at = "loop" /\ gate'[s].kept.version = row'.version /\ runs' = runs
    BY <1>2, <1>6 DEF Connect
  <2>. QED BY <1>4, <1>7, <1>8, <2>1, <2>2, <2>3 DEF Sole
<1>. QED BY <1>10, <1>11, <1>12 DEF UpdateInv, Connect

(* The loop of s takes a frame: the versions of what it goes on to write.  *)
LEMMA ReceiveKeeps ==
    ASSUME UpdateInv, NEW s \in Sockets, Receive(s)
    PROVE  UpdateInv'
<1> DEFINE m == Head(reports[s])
<1>1. /\ TypeOK /\ row \in Columns /\ gate[s] \in Loops /\ gate[s].kept \in Columns
      /\ reports[s] \in Seq(Frames) /\ reports[s] # <<>>
  BY DEF UpdateInv, TypeOK, Loops, Receive
<1>2. /\ m \in Frames /\ m = reports[s][1] /\ 1 \in DOMAIN reports[s]
      /\ Tail(reports[s]) \in Seq(Frames)
      /\ \A i \in DOMAIN Tail(reports[s]) :
            i + 1 \in DOMAIN reports[s] /\ Tail(reports[s])[i] = reports[s][i + 1] /\ i + 1 # 1
  BY <1>1, HeadTailProperties
<1>3. /\ reports' \in [Sockets -> Seq(Frames)] /\ reports'[s] = Tail(reports[s])
      /\ \A o \in Sockets : o # s => reports'[o] = reports[o]
  BY <1>1, <1>2 DEF Receive, TypeOK
<1>. HIDE DEF m
<1>4. m.release \in Releases /\ (m.k = "result" => m.by \in Requests)
  BY <1>2 DEF Frames
<1>5. ASSUME Sole(s) PROVE NoRegister(s)'
  BY <1>2, <1>3, <1>5 DEF Sole, NoRegister
<1>6. ASSUME NEW node \in Loaded(s), NEW mark \in Columns, Works(s, node, mark),
             Sole(s) => (m.k = "register" => mark.version = m.release)
                        /\ (m.k # "register" => mark.version = node.version)
      PROVE  UpdateInv'
  <2> DEFINE g == [gate[s] EXCEPT !.at = "commit", !.was = node, !.mark = mark]
  <2>1. node \in Columns
    BY <1>1 DEF Loaded
  <2>2. /\ g \in Loops /\ g.at = "commit" /\ g.was = node /\ g.mark = mark
        /\ g.alone = gate[s].alone
    BY <1>1, <2>1 DEF Loops
  <2>3. gate' = [gate EXCEPT ![s] = g]
    BY <1>6, <1>1 DEF Works, TypeOK
  <2>. HIDE DEF g
  <2>4. gate' \in [Sockets -> Loops] /\ gate'[s] = g /\ \A o \in Sockets : o # s => gate'[o] = gate[o]
    BY <1>1, <2>2, <2>3 DEF TypeOK
  <2>5. TypeOK'
    BY <1>1, <1>3, <1>6, <2>4 DEF TypeOK, Receive, Works
  <2>6. ASSUME link' = s, gate'[s].alone PROVE Sole(s)'
    <3>1. Sole(s) /\ gate[s].at = "loop"
      BY <2>2, <2>4, <2>6 DEF UpdateInv, Receive
    <3>2. node.version = row.version
      BY <3>1 DEF Sole, Loaded
    <3>3. mark.version = runs
      <4>1. CASE m.k = "register"
        BY <4>1, <1>2, <1>6, <3>1 DEF Sole
      <4>2. CASE m.k # "register"
        <5>1. NoRegister(s)
          BY <4>2, <1>2, <3>1 DEF Sole, NoRegister
        <5>. QED BY <4>2, <5>1, <1>6, <3>1, <3>2 DEF Sole
      <4>. QED BY <4>1, <4>2
    <3>4. NoRegister(s)'
      BY <1>5, <3>1
    <3>5. \A o \in Sockets : o # s => gate'[o].at = "off"
      BY <2>4, <3>1 DEF Sole
    <3>. QED BY <2>2, <2>4, <3>2, <3>3, <3>4, <3>5 DEF Sole, NoRegister, Receive
  <2>7. \A o \in Sockets : link' = o /\ gate'[o].alone /\ o # s => Sole(o)'
    BY <1>3, <2>4, <1>1 DEF UpdateInv, Sole, Receive
  <2>. QED BY <1>6, <2>5, <2>6, <2>7 DEF UpdateInv, RequestsKeepVersion, Works
<1>7. CASE m.k = "register" /\ \E node \in Loaded(s) : Works(s, node, [node EXCEPT !.version = m.release])
  <2>1. PICK node \in Loaded(s) : Works(s, node, [node EXCEPT !.version = m.release])
    BY <1>7
  <2>2. node \in Columns
    BY <1>1 DEF Loaded
  <2>3. [node EXCEPT !.version = m.release] \in Columns
        /\ [node EXCEPT !.version = m.release].version = m.release
    BY <1>4, <2>2 DEF Columns
  <2>. QED BY <1>6, <1>7, <2>1, <2>3
<1>8. CASE m.k = "result" /\ \E node \in Loaded(s) : Works(s, node, Mark(node, "failed", m.release))
  <2>1. PICK node \in Loaded(s) : Works(s, node, Mark(node, "failed", m.release))
    BY <1>8
  <2>2. node \in Columns
    BY <1>1 DEF Loaded
  <2>3. Mark(node, "failed", m.release) \in Columns
        /\ Mark(node, "failed", m.release).version = node.version
    BY <1>4, <2>2, MarkFacts
  <2>. QED BY <1>6, <1>8, <2>1, <2>3
<1>9. CASE /\ m.k = "result"
           /\ req' = [req EXCEPT ![m.by].at = "commit",
                                 ![m.by].mark = Mark(req[m.by].was, "failed", m.release)]
           /\ UNCHANGED gate
  <2> DEFINE w == Mark(req[m.by].was, "failed", m.release)
             t == [req[m.by] EXCEPT !.at = "commit", !.mark = w]
  <2>1. req[m.by] \in Transactions /\ req[m.by].was \in Columns
    BY <1>1, <1>4, <1>9 DEF TypeOK, Transactions
  <2>2. w \in Columns /\ w.version = req[m.by].was.version
    BY <1>4, <2>1, MarkFacts
  <2>3. req' = [req EXCEPT ![m.by] = t]
    BY <1>1, <1>4, <1>9 DEF TypeOK
  <2>. HIDE DEF w
  <2>4. t \in Transactions /\ t.was.version = t.mark.version
    BY <2>1, <2>2 DEF Transactions
  <2>. HIDE DEF t
  <2>5. req' \in [Requests -> Transactions] /\ RequestsKeepVersion'
    BY <1>4, <1>9, <2>3, <2>4, RequestMoves
  <2>6. TypeOK'
    BY <1>1, <1>3, <1>9, <2>5 DEF TypeOK, Receive
  <2>7. ASSUME link' = s, gate'[s].alone PROVE Sole(s)'
    <3>1. Sole(s) /\ gate[s].at = "loop"
      BY <1>9, <2>7 DEF UpdateInv, Receive
    <3>2. NoRegister(s)
      BY <1>2, <1>9, <3>1 DEF Sole, NoRegister
    <3>. QED BY <1>5, <1>9, <3>1, <3>2 DEF Sole, NoRegister, Receive
  <2>8. \A o \in Sockets : link' = o /\ gate'[o].alone /\ o # s => Sole(o)'
    BY <1>3, <1>9 DEF UpdateInv, Sole, NoRegister, Receive
  <2>. QED BY <2>5, <2>6, <2>7, <2>8 DEF UpdateInv
<1>. QED BY <1>7, <1>8, <1>9 DEF Receive, m

LEMMA GateCommitsKeeps ==
    ASSUME UpdateInv, NEW s \in Sockets, GateCommits(s)
    PROVE  UpdateInv'
<1> DEFINE g == [gate[s] EXCEPT !.at = "loop", !.kept = gate[s].mark,
                                !.was = FirstRow, !.mark = FirstRow]
<1>1. TypeOK /\ gate[s] \in Loops /\ gate[s].was \in Columns /\ gate[s].mark \in Columns
  BY DEF UpdateInv, TypeOK, Loops
<1>2. FirstRow \in Columns
  BY UpdateAssumption DEF FirstRow, Columns
<1>3. g \in Loops /\ g.at = "loop" /\ g.kept = gate[s].mark /\ g.alone = gate[s].alone
  BY <1>1, <1>2 DEF Loops
<1>4. gate' = [gate EXCEPT ![s] = g]
  BY DEF GateCommits
<1>. HIDE DEF g
<1>5. gate' \in [Sockets -> Loops] /\ gate'[s] = g /\ \A o \in Sockets : o # s => gate'[o] = gate[o]
  BY <1>1, <1>3, <1>4 DEF TypeOK
<1>6. /\ row' \in Columns
      /\ gate[s].mark.version = gate[s].was.version => row'.version = row.version
      /\ gate[s].mark.version # gate[s].was.version => row'.version = gate[s].mark.version
  BY <1>1, WrittenFacts DEF GateCommits
<1>7. TypeOK'
  BY <1>1, <1>5, <1>6 DEF TypeOK, GateCommits
<1>8. ASSUME NEW o \in Sockets, link' = o, gate'[o].alone PROVE Sole(o)'
  <2>1. Sole(o)
    BY <1>3, <1>5, <1>8 DEF UpdateInv, GateCommits
  <2>2. o = s
    BY <2>1 DEF Sole, GateCommits
  <2>3. row'.version = runs /\ gate[s].mark.version = runs
    BY <1>6, <2>1, <2>2 DEF Sole, GateCommits
  <2>. QED BY <1>3, <1>5, <2>1, <2>2, <2>3 DEF Sole, NoRegister, GateCommits
<1>. QED BY <1>7, <1>8 DEF UpdateInv, RequestsKeepVersion, GateCommits

LEMMA GateEndsKeeps ==
    ASSUME UpdateInv, NEW s \in Sockets, GateEnds(s)
    PROVE  UpdateInv'
<1>1. TypeOK
  BY DEF UpdateInv
<1>2. Off \in Loops /\ Off.at = "off"
  BY UpdateAssumption DEF Off, FirstRow, Loops, Columns
<1>3. /\ gate' \in [Sockets -> Loops] /\ gate'[s] = Off
      /\ \A o \in Sockets : o # s => gate'[o] = gate[o]
  BY <1>1, <1>2 DEF TypeOK, GateEnds
<1>4. /\ reports' \in [Sockets -> Seq(Frames)]
      /\ \A o \in Sockets : o # s => reports'[o] = reports[o]
  BY <1>1 DEF TypeOK, GateEnds
<1>5. req' \in [Requests -> Transactions] /\ RequestsKeepVersion'
  BY OnceOfflineFacts DEF UpdateInv, GateEnds, RequestsKeepVersion
<1>6. TypeOK'
  BY <1>1, <1>3, <1>4, <1>5 DEF TypeOK, GateEnds
<1>7. ASSUME NEW o \in Sockets, link' = o, gate'[o].alone PROVE Sole(o)'
  <2>1. o # s /\ Sole(o)
    BY <1>3, <1>7 DEF UpdateInv, GateEnds
  <2>. QED BY <1>2, <1>3, <1>4, <2>1 DEF Sole, NoRegister, GateEnds
<1>. QED BY <1>5, <1>6, <1>7 DEF UpdateInv
-----------------------------------------------------------------------------
LEMMA AnswersKeeps ==
    ASSUME UpdateInv, Answers
    PROVE  UpdateInv'
<1> DEFINE m == [k |-> "result", by |-> Head(orders).by, release |-> Head(orders).release]
<1>1. TypeOK /\ link \in Sockets /\ orders \in Seq(Orders) /\ orders # <<>>
      /\ reports[link] \in Seq(Frames)
  BY DEF UpdateInv, TypeOK, Answers
<1>2. Head(orders) \in Orders /\ Tail(orders) \in Seq(Orders)
  BY <1>1, HeadTailProperties
<1>3. m \in Frames /\ m.k = "result"
  BY <1>2 DEF Orders, Frames
<1>4. reports' = [reports EXCEPT ![link] = Append(reports[link], m)]
  BY DEF Answers
<1>. HIDE DEF m
<1>5. /\ Append(reports[link], m) \in Seq(Frames)
      /\ \A i \in DOMAIN Append(reports[link], m) :
            \/ i \in DOMAIN reports[link] /\ Append(reports[link], m)[i] = reports[link][i]
            \/ Append(reports[link], m)[i] = m
      /\ \A i \in DOMAIN reports[link] :
            i \in DOMAIN Append(reports[link], m) /\ Append(reports[link], m)[i] = reports[link][i]
  BY <1>1, <1>3, AppendProperties
<1>6. /\ reports' \in [Sockets -> Seq(Frames)] /\ reports'[link] = Append(reports[link], m)
      /\ \A o \in Sockets : o # link => reports'[o] = reports[o]
  BY <1>1, <1>4, <1>5 DEF TypeOK
<1>7. TypeOK'
  BY <1>1, <1>2, <1>6 DEF TypeOK, Answers, central
<1>8. ASSUME gate[link].alone PROVE Sole(link)'
  <2>1. Sole(link)
    BY <1>1, <1>8 DEF UpdateInv
  <2>2. NoRegister(link)' <=> NoRegister(link)
    BY <1>3, <1>5, <1>6 DEF NoRegister, Answers
  <2>3. \A i \in DOMAIN reports'[link] : reports'[link][i].k = "register" =>
            i \in DOMAIN reports[link] /\ reports'[link][i] = reports[link][i]
    BY <1>3, <1>5, <1>6
  <2>. QED BY <2>1, <2>2, <2>3 DEF Sole, NoRegister, Answers, central
<1>. QED BY <1>7, <1>8 DEF UpdateInv, RequestsKeepVersion, Answers, central

LEMMA UnlinkKeeps ==
    ASSUME UpdateInv, LinkDrops \/ \E r \in Releases : UnitRestarts(r)
    PROVE  UpdateInv'
<1>1. TypeOK
  BY DEF UpdateInv
<1>2. /\ link' = NoSocket /\ orders' = <<>> /\ UNCHANGED <<row, req, gate, current, reports>>
      /\ runs' \in Releases /\ left' \in [dials : Nat, asks : Nat, changes : Nat]
  <2>1. CASE LinkDrops
    BY <1>1, <2>1 DEF LinkDrops, TypeOK, central
  <2>2. ASSUME NEW r \in Releases, UnitRestarts(r)
        PROVE  /\ link' = NoSocket /\ orders' = <<>>
               /\ UNCHANGED <<row, req, gate, current, reports>>
               /\ runs' \in Releases /\ left' \in [dials : Nat, asks : Nat, changes : Nat]
    BY <1>1, <2>2, SpendFacts DEF UnitRestarts, TypeOK, central
  <2>. QED BY <2>1, <2>2
<1>3. TypeOK'
  BY <1>1, <1>2 DEF TypeOK
<1>. QED BY <1>2, <1>3, UpdateAssumption DEF UpdateInv, RequestsKeepVersion

LEMMA StepKeeps == UpdateInv /\ [Next]_vars => UpdateInv'
<1>. SUFFICES ASSUME UpdateInv, [Next]_vars PROVE UpdateInv'
  OBVIOUS
<1>1. ASSUME NEW q \in Requests, Asking(q) PROVE UpdateInv'
  BY <1>1, TimesOutKeeps, CommitKeeps DEF Asking
<1>2. ASSUME NEW q \in Requests, NEW r \in Releases, Ask(q, r) PROVE UpdateInv'
  BY <1>2, AskKeeps
<1>3. ASSUME NEW s \in Sockets, Serving(s) \/ Connect(s) PROVE UpdateInv'
  BY <1>3, ReceiveKeeps, GateCommitsKeeps, GateEndsKeeps, ConnectKeeps DEF Serving
<1>4. CASE Answers \/ LinkDrops \/ \E r \in Releases : UnitRestarts(r)
  BY <1>4, AnswersKeeps, UnlinkKeeps
<1>5. CASE UNCHANGED vars
  BY <1>5 DEF vars, UpdateInv, TypeOK, RequestsKeepVersion, Sole, NoRegister
<1>. QED BY <1>1, <1>2, <1>3, <1>4, <1>5 DEF Next
-----------------------------------------------------------------------------
(* UpdateInv holds in every reachable state.                               *)
THEOREM UpdateKeepsInv == Spec => []UpdateInv
BY InitHolds, StepKeeps, PTL DEF Spec

(* Rows, transactions, loops and frames keep their types: no order, late   *)
(* answer or lost socket writes anything else into the row.                *)
THEOREM UpdateTypes == Spec => []TypeOK
<1>1. UpdateInv => TypeOK
  BY DEF UpdateInv
<1>. QED BY <1>1, UpdateKeepsInv, PTL

(* A daemon whose last connection was over when it dialled is shown with   *)
(* the version it runs as soon as its registration is written, and stays   *)
(* so while it is connected, whatever requests and late results commit.    *)
THEOREM VersionIsShown == Spec => []RegisteredVersionIsShown
<1>1. UpdateInv => RegisteredVersionIsShown
  BY DEF UpdateInv, RegisteredVersionIsShown, Registered, Sole, NoRegister
<1>. QED BY <1>1, UpdateKeepsInv, PTL
=============================================================================
