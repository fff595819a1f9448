----------------------- MODULE SessionLifecycleProofs -----------------------
(***************************************************************************)
(* For any number of shells, requests and connections: what the runs of    *)
(* SessionLifecycle check of the rows and their locks.                     *)
(***************************************************************************)
EXTENDS SessionLifecycle, FiniteSetTheorems, TLAPS

Jobs == [kind : {"none", "open", "terminate", "event"},
         at : Sessions \cup {NoSession}, old : Shells \cup {NoSession}]
Calls == [op : {"none", "start", "stop"}, at : Sessions \cup {NoSession},
          result : {"none", "waiting", "ok", "error", "failed", "broken"}]
Commands == [op : {"start", "stop"}, at : Sessions, from : Workers]
Replies == [kind : {"reply"}, op : {"start", "stop"}, at : Sessions,
            from : Workers, result : {"ok", "error"}]
Reports == [kind : {"exited"}, at : Sessions] \cup [kind : {"shutdown"}]

(* TypeOK with the types of the transactions' and the frames' records.     *)
Types ==
    /\ TypeOK
    /\ job \in [Workers -> Jobs] /\ call \in [Workers -> Calls]
    /\ cmds \in Seq(Commands) /\ inbox \in Seq(Replies \cup Reports)

(* A transaction under way is about a session.  One that opens a session   *)
(* is a request, nobody else opens that one, and it has no row yet.        *)
Opening(w) == pc[w] \in {"starting", "replacing"}
Openers ==
    /\ \A w \in Workers : pc[w] \notin {"idle", "done", "dead"} => job[w].at \in Sessions
    /\ \A w \in Workers : Opening(w) =>
          w \in Requests /\ job[w].kind = "open" /\ row[job[w].at] = "none"
    /\ \A w \in Workers : pc[w] = "replacing" => job[w].old \in Shells
    /\ \A v, w \in Requests :
          v # w /\ job[v].kind = "open" /\ job[w].kind = "open" => job[v].at # job[w].at

(* Who holds which row: an open its replaced shell, a cascade its session. *)
(* A row that is locked exists.                                            *)
Locks ==
    /\ \A w \in Workers : pc[w] = "cascade" =>
          lock[job[w].at] = w /\ row[job[w].at] # "none"
    /\ \A w \in Workers : pc[w] = "starting" /\ job[w].old # NoSession =>
          lock[job[w].old] = w /\ row[job[w].old] # "none"
    /\ \A w \in Workers, s \in Sessions : lock[s] = w =>
          \/ pc[w] = "starting" /\ job[w].old = s
          \/ pc[w] = "cascade" /\ job[w].at = s

(* Only the end of the CLI session ends shells, and it ends all it could   *)
(* have read.                                                              *)
Cascades ==
    /\ \A w \in Workers : todo[w] # {} \/ ended[w] # {} =>
          pc[w] = "cascade" /\ job[w].at = Cli
    /\ \A w \in Workers : pc[w] = "cascade" /\ job[w].at = Cli =>
          LiveShells \subseteq todo[w] \cup ended[w] \cup late

(* A live shell has a parent's row.                                        *)
Parents == row[Cli] = "none" => LiveShells = {}

AtMostOne == \A s, t \in LiveShells : s = t

(* An answer that a session was started is given after its process was.    *)
Answers ==
    /\ \A w \in Workers : pc[w] = "starting" =>
          call[w].op = "start" /\ call[w].at = job[w].at
    /\ \A w \in Workers : call[w].op = "start" /\ call[w].result = "ok" =>
          call[w].at \in Sessions /\ proc[call[w].at] # "none"
    /\ \A i \in 1 .. Len(inbox) :
          inbox[i].kind = "reply" /\ inbox[i].op = "start" /\ inbox[i].result = "ok" =>
             proc[inbox[i].at] # "none"

RowFacts == Openers /\ Locks /\ Cascades /\ Parents /\ AtMostOne /\ OnlyLateShellsOutlive

SessionInv == Types /\ RowFacts /\ Answers /\ RunningWasStarted

(* What EndedStaysEnded says of a step.                                    *)
NoneRevives == \A s \in Sessions : row[s] \in Ended => row'[s] \notin Active
-----------------------------------------------------------------------------
LEMMA InitHolds == ASSUME LifecycleAssumption, Init PROVE SessionInv
  <1> USE DEF LifecycleAssumption, Init
  <1>1. PICK S \in Before :
          /\ row = [s \in Sessions |-> IF s \in S THEN "running" ELSE "none"]
          /\ proc = [s \in Sessions |-> IF s \in S THEN "live" ELSE "none"]
    OBVIOUS
  <1>2. NoJob \in Jobs /\ NoCall \in Calls
    BY DEF NoJob, NoCall, Jobs, Calls
  <1>3. TypeOK
    BY <1>1 DEF TypeOK, NoJob, NoCall, Places, Ended, Workers, Loops
  <1>4. Types
    BY <1>2, <1>3 DEF Types
  <1>5. Openers /\ Locks /\ Cascades
    BY DEF Openers, Opening, Locks, Cascades, NoJob, Workers
  <1>6. Parents /\ AtMostOne /\ OnlyLateShellsOutlive
    BY <1>1 DEF Parents, AtMostOne, OnlyLateShellsOutlive, LiveShells, Active, Ended, Before, Sessions
  <1>7. Answers /\ RunningWasStarted
    BY <1>1 DEF Answers, RunningWasStarted, NoCall
  <1> QED
    BY <1>4, <1>5, <1>6, <1>7 DEF SessionInv, RowFacts
-----------------------------------------------------------------------------
(* Steps that touch neither rows nor transactions.                         *)

LEMMA RowsKept ==
    ASSUME LifecycleAssumption, SessionInv, Remember,
           UNCHANGED <<row, lock, job, pc, todo, ended>>
    PROVE  RowFacts' /\ NoneRevives /\ late' \subseteq Shells
  <1> USE DEF SessionInv, RowFacts
  <1>1. late' = late
    <2>1. \A s \in Shells : ~(row[s] = "none" /\ row'[s] = "running")
      OBVIOUS
    <2> QED BY <2>1 DEF Remember
  <1>2. Openers' /\ Locks' /\ Cascades'
    BY <1>1 DEF Openers, Opening, Locks, Cascades, LiveShells
  <1>3. Parents' /\ AtMostOne' /\ OnlyLateShellsOutlive'
    BY <1>1 DEF Parents, AtMostOne, OnlyLateShellsOutlive, LiveShells
  <1>4. NoneRevives
    BY DEF NoneRevives, Active, Ended
  <1> QED BY <1>1, <1>2, <1>3, <1>4 DEF Types, TypeOK

(* A waiting call ends, whatever its result but success.                   *)
LEMMA TimeoutKeeps ==
    ASSUME LifecycleAssumption, SessionInv, Remember, NEW w \in Workers, Timeout(w)
    PROVE  SessionInv' /\ NoneRevives
  <1> USE DEF SessionInv, Timeout, linkVars, nodeVars, rowVars
  <1>1. RowFacts' /\ NoneRevives /\ late' \subseteq Shells
    BY RowsKept
  <1>2. Types'
    BY <1>1 DEF Types, TypeOK, Calls
  <1>3. \A v \in Workers : call'[v].op = call[v].op /\ call'[v].at = call[v].at
                           /\ (call'[v].result = "ok" => call[v].result = "ok")
    BY DEF Types, Calls
  <1>4. Answers' /\ RunningWasStarted'
    BY <1>3 DEF Answers, RunningWasStarted
  <1> QED BY <1>1, <1>2, <1>4

LEMMA ReconnectKeeps ==
    ASSUME LifecycleAssumption, SessionInv, Remember, Connected, Reconnect
    PROVE  SessionInv' /\ NoneRevives
  <1> USE DEF SessionInv, Reconnect, linkVars, nodeVars, rowVars
  <1>1. RowFacts' /\ NoneRevives /\ late' \subseteq Shells
    BY RowsKept
  <1>2. \A v \in Workers : call'[v] \in Calls
                           /\ call'[v].op = call[v].op /\ call'[v].at = call[v].at
                           /\ (call'[v].result = "ok" => call[v].result = "ok")
    BY DEF Types, Calls
  <1>3. cur' \in 1 .. MaxConnections + 1
    BY DEF Connected, Loops, LifecycleAssumption
  <1>4. call' \in [Workers -> Calls]
    BY <1>2
  <1>5. Types'
    BY <1>1, <1>2, <1>3, <1>4 DEF Types, TypeOK, Calls
  <1>6. Answers' /\ RunningWasStarted'
    BY <1>2 DEF Answers, RunningWasStarted
  <1> QED BY <1>1, <1>5, <1>6

LEMMA ReadReplyKeeps ==
    ASSUME LifecycleAssumption, SessionInv, Remember, ReadReply
    PROVE  SessionInv' /\ NoneRevives
  <1> USE DEF SessionInv, ReadReply, nodeVars, rowVars
  <1> DEFINE r == Head(inbox)
  <1>1. RowFacts' /\ NoneRevives /\ late' \subseteq Shells
    BY RowsKept
  <1>2. inbox # <<>> /\ r \in Replies /\ inbox' = Tail(inbox) /\ inbox \in Seq(Replies \cup Reports)
    BY DEF Reading, Types, Replies, Reports
  <1>3. r = inbox[1] /\ Len(inbox) >= 1
    BY <1>2
  <1>4. call' = IF call[r.from] = [op |-> r.op, at |-> r.at, result |-> "waiting"]
                THEN [call EXCEPT ![r.from].result = r.result] ELSE call
    OBVIOUS
  <1>5. \A v \in Workers :
           /\ call'[v] \in Calls
           /\ call'[v].op = call[v].op /\ call'[v].at = call[v].at
           /\ (call'[v].result = "ok" /\ call[v].result # "ok" =>
                 r.result = "ok" /\ r.op = call[v].op /\ r.at = call[v].at)
    BY <1>2, <1>4 DEF Types, Calls, Replies
  <1>6. call' \in [Workers -> Calls]
    BY <1>4, <1>5 DEF Types
  <1>7. Types'
    BY <1>1, <1>2, <1>5, <1>6 DEF Types, TypeOK, Calls
  <1>8. Answers'
    <2>1. \A v \in Workers : pc'[v] = "starting" =>
             call'[v].op = "start" /\ call'[v].at = job'[v].at
      BY <1>5 DEF Answers
    <2>2. \A v \in Workers : call'[v].op = "start" /\ call'[v].result = "ok" =>
             call'[v].at \in Sessions /\ proc'[call'[v].at] # "none"
      BY <1>2, <1>3, <1>5 DEF Answers, Replies
    <2>3. Len(inbox') = Len(inbox) - 1 /\ \A i \in 1 .. Len(inbox') : inbox'[i] = inbox[i + 1]
      BY <1>2, <1>3
    <2>4. \A i \in 1 .. Len(inbox') :
             inbox'[i].kind = "reply" /\ inbox'[i].op = "start" /\ inbox'[i].result = "ok" =>
                proc'[inbox'[i].at] # "none"
      BY <2>3, <1>2, <1>3 DEF Answers
    <2> QED BY <2>1, <2>2, <2>4 DEF Answers
  <1>9. RunningWasStarted'
    BY DEF RunningWasStarted
  <1> QED BY <1>1, <1>7, <1>8, <1>9

(* The daemon's steps: no process is forgotten, and what is added to the   *)
(* inbox is a report, or an answer that tells the truth of a start.        *)
Truthful(m) ==
    m.kind = "reply" /\ m.op = "start" /\ m.result = "ok" => proc'[m.at] # "none"

LEMMA DaemonKeeps ==
    ASSUME LifecycleAssumption, SessionInv, Remember, UNCHANGED <<rowVars, workVars, cur>>,
           up' \in BOOLEAN, cmds' \in Seq(Commands), attached' \subseteq Sessions,
           proc' \in [Sessions -> {"none", "live", "gone"}],
           \A s \in Sessions : proc[s] # "none" => proc'[s] # "none",
           NEW new \in Seq(Replies \cup Reports), inbox' = inbox \o new,
           \A i \in 1 .. Len(new) : Truthful(new[i])
    PROVE  SessionInv' /\ NoneRevives
  <1> USE DEF SessionInv, rowVars, workVars
  <1>1. RowFacts' /\ NoneRevives /\ late' \subseteq Shells
    BY RowsKept
  <1>2. inbox \in Seq(Replies \cup Reports)
    BY DEF Types
  <1>3. inbox' \in Seq(Replies \cup Reports)
    BY <1>2
  <1>4. Types'
    BY <1>1, <1>3 DEF Types, TypeOK
  <1>5. \A i \in 1 .. Len(inbox') : Truthful(inbox'[i])
    <2> SUFFICES ASSUME NEW i \in 1 .. Len(inbox')
                 PROVE  Truthful(inbox'[i])
      OBVIOUS
    <2>1. CASE i <= Len(inbox)
      <3>1. inbox'[i] = inbox[i] /\ i \in 1 .. Len(inbox)
        BY <1>2, <2>1
      <3>2. inbox[i] \in Replies \cup Reports
        BY <1>2, <3>1
      <3>3. inbox[i].kind = "reply" => inbox[i].at \in Sessions
        BY <3>2 DEF Replies, Reports
      <3> QED BY <3>1, <3>3 DEF Answers, Truthful
    <2>2. CASE i > Len(inbox)
      <3>1. i - Len(inbox) \in 1 .. Len(new) /\ inbox'[i] = new[i - Len(inbox)]
        BY <1>2, <2>2
      <3> QED BY <3>1
    <2> QED BY <1>2, <2>1, <2>2
  <1>6. Answers'
    BY <1>5 DEF Answers, Truthful
  <1>7. RunningWasStarted'
    BY DEF RunningWasStarted
  <1> QED BY <1>1, <1>4, <1>6, <1>7

LEMMA HandleKeeps ==
    ASSUME LifecycleAssumption, SessionInv, Remember, Handle
    PROVE  SessionInv' /\ NoneRevives
  <1> DEFINE c == Head(cmds)
  <1>1. TypeOK /\ cmds \in Seq(Commands) /\ cmds # <<>> /\ cmds' = Tail(cmds)
        /\ UNCHANGED <<rowVars, workVars, cur, up>>
    BY DEF SessionInv, Types, Handle, HandleStart, HandleStop
  <1>2. c \in Commands /\ cmds' \in Seq(Commands)
    BY <1>1
  <1>3. \A e \in {"ok", "error"} : Reply(c, e) \in Replies
    BY <1>2 DEF Reply, Replies, Commands
  <1>4. CASE HandleStart
    <2>1. PICK e \in {"ok", "error"} :
            /\ inbox' = Append(inbox, Reply(c, e))
            /\ e = "ok" => proc' = [proc EXCEPT ![c.at] = "live"]
            /\ e = "error" => proc' = proc
      BY <1>4 DEF HandleStart
    <2>2. Truthful(Reply(c, e)) /\ attached' = attached
      BY <1>1, <1>2, <1>4, <2>1 DEF Truthful, Reply, Commands, TypeOK, HandleStart
    <2>3. inbox' = inbox \o <<Reply(c, e)>>
      BY <2>1 DEF SessionInv, Types
    <2>4. /\ proc' \in [Sessions -> {"none", "live", "gone"}]
          /\ \A s \in Sessions : proc[s] # "none" => proc'[s] # "none"
      BY <1>1, <2>1 DEF TypeOK
    <2>5. <<Reply(c, e)>> \in Seq(Replies \cup Reports)
          /\ \A i \in 1 .. Len(<<Reply(c, e)>>) : Truthful(<<Reply(c, e)>>[i])
      BY <1>3, <2>2
    <2> QED BY <1>1, <1>2, <2>2, <2>3, <2>4, <2>5, DaemonKeeps DEF TypeOK
  <1>5. CASE HandleStop
    <2>1. PICK e \in {"ok", "error"} : inbox' = Append(inbox, Reply(c, e))
      BY <1>5 DEF HandleStop
    <2>2. c.op = "stop" /\ attached' = attached \ {c.at}
      BY <1>5 DEF HandleStop
    <2>3. inbox' = inbox \o <<Reply(c, e)>>
      BY <2>1 DEF SessionInv, Types
    <2>4. /\ proc' \in [Sessions -> {"none", "live", "gone"}]
          /\ \A s \in Sessions : proc[s] # "none" => proc'[s] # "none"
      BY <1>1, <1>2, <1>5 DEF TypeOK, HandleStop, Commands
    <2>5. <<Reply(c, e)>> \in Seq(Replies \cup Reports)
          /\ \A i \in 1 .. Len(<<Reply(c, e)>>) : Truthful(<<Reply(c, e)>>[i])
      BY <1>3, <2>2 DEF Truthful, Reply
    <2> QED BY <1>1, <1>2, <2>2, <2>3, <2>4, <2>5, DaemonKeeps DEF TypeOK
  <1> QED BY <1>4, <1>5 DEF Handle

LEMMA NodeKeeps ==
    ASSUME LifecycleAssumption, SessionInv, Remember, NEW s \in Sessions,
           CliExits(s) \/ Attach(s)
    PROVE  SessionInv' /\ NoneRevives
  <1> USE DEF linkVars
  <1>1. TypeOK /\ cmds \in Seq(Commands) /\ inbox \in Seq(Replies \cup Reports)
    BY DEF SessionInv, Types
  <1>2. /\ UNCHANGED <<rowVars, workVars, cur, up, cmds>> /\ attached' \subseteq Sessions
        /\ proc' \in [Sessions -> {"none", "live", "gone"}]
        /\ \A t \in Sessions : proc[t] # "none" => proc'[t] # "none"
    BY <1>1 DEF CliExits, Attach, TypeOK
  <1>3. inbox' = inbox \o <<>> \/ inbox' = inbox \o <<Exited(s)>>
    <2>1. inbox' = inbox \/ inbox' = Append(inbox, Exited(s))
      BY DEF CliExits, Attach
    <2>2. inbox = inbox \o <<>>
      BY <1>1
    <2>3. Append(inbox, Exited(s)) = inbox \o <<Exited(s)>>
      BY <1>1
    <2> QED BY <2>1, <2>2, <2>3
  <1>4. /\ <<>> \in Seq(Replies \cup Reports) /\ <<Exited(s)>> \in Seq(Replies \cup Reports)
        /\ \A i \in 1 .. Len(<<>>) : Truthful(<<>>[i])
        /\ \A i \in 1 .. Len(<<Exited(s)>>) : Truthful(<<Exited(s)>>[i])
    <2>1. Exited(s) \in Replies \cup Reports
      BY DEF Exited, Reports
    <2>2. Truthful(Exited(s))
      BY DEF Exited, Truthful
    <2>3. <<>> \in Seq(Replies \cup Reports) /\ Len(<<>>) = 0
      OBVIOUS
    <2>4. <<Exited(s)>> \in Seq(Replies \cup Reports) /\ Len(<<Exited(s)>>) = 1
      BY <2>1
    <2>5. \A i \in 1 .. Len(<<Exited(s)>>) : <<Exited(s)>>[i] = Exited(s)
      BY <2>4
    <2> QED BY <2>2, <2>3, <2>4, <2>5
  <1>5. up' \in BOOLEAN /\ cmds' \in Seq(Commands)
    BY <1>1, <1>2 DEF TypeOK
  <1> QED BY <1>2, <1>3, <1>4, <1>5, DaemonKeeps

LEMMA ShutdownKeeps ==
    ASSUME LifecycleAssumption, SessionInv, Remember, Shutdown
    PROVE  SessionInv' /\ NoneRevives
  <1>1. TypeOK /\ cmds \in Seq(Commands) /\ inbox \in Seq(Replies \cup Reports)
    BY DEF SessionInv, Types
  <1>2. PICK S \in SUBSET attached : \E q \in SetToSeqs(S) :
           inbox' = inbox \o [i \in DOMAIN q |-> Exited(q[i])] \o <<[kind |-> "shutdown"]>>
    BY DEF Shutdown
  <1>3. Cardinality(S) \in Nat
    <2>1. IsFiniteSet(Sessions)
      BY FS_Singleton, FS_Union DEF LifecycleAssumption, Sessions
    <2>2. S \in SUBSET Sessions
      BY <1>1, <1>2 DEF TypeOK
    <2> QED BY <2>1, <2>2, FS_Subset, FS_CardinalityType
  <1>4. PICK q \in [1 .. Cardinality(S) -> S] :
           inbox' = inbox \o [i \in DOMAIN q |-> Exited(q[i])] \o <<[kind |-> "shutdown"]>>
    BY <1>2 DEF SetToSeqs
  <1> DEFINE exits == [i \in DOMAIN q |-> Exited(q[i])]
             last == <<[kind |-> "shutdown"]>>
             new == exits \o last
  <1>5. \A i \in 1 .. Cardinality(S) : exits[i] \in Reports /\ exits[i].kind = "exited"
    BY <1>1, <1>2, <1>4 DEF TypeOK, Exited, Reports
  <1>6. exits \in Seq(Reports) /\ Len(exits) = Cardinality(S)
    <2>1. DOMAIN exits = 1 .. Cardinality(S)
      BY <1>4
    <2>2. exits \in [1 .. Cardinality(S) -> Reports]
      BY <1>5, <2>1
    <2> HIDE DEF exits
    <2> QED BY <1>3, <2>2
  <1>7. last \in Seq(Reports) /\ Len(last) = 1 /\ last[1].kind = "shutdown"
    BY DEF Reports
  <1>8. new \in Seq(Replies \cup Reports)
    BY <1>6, <1>7
  <1>9. \A i \in 1 .. Len(new) : Truthful(new[i])
    BY <1>3, <1>5, <1>6, <1>7 DEF Truthful
  <1>10. inbox' = inbox \o new
    BY <1>1, <1>4, <1>6, <1>7
  <1>11. /\ UNCHANGED <<rowVars, workVars, cur, cmds, proc>> /\ attached' = {} /\ up' = FALSE
    BY DEF Shutdown
  <1> HIDE DEF new
  <1> QED BY <1>1, <1>8, <1>9, <1>10, <1>11, DaemonKeeps DEF TypeOK
-----------------------------------------------------------------------------
(* Steps of a transaction.                                                 *)

LEMMA AskFacts ==
    ASSUME Types, NEW w \in Workers, NEW op \in {"start", "stop"}, NEW s \in Sessions,
           Ask(w, op, s)
    PROVE  /\ call' \in [Workers -> Calls] /\ cmds' \in Seq(Commands)
           /\ call'[w].op = op /\ call'[w].at = s /\ call'[w].result # "ok"
           /\ \A v \in Workers \ {w} : call'[v] = call[v]
  <1> DEFINE frame == [op |-> op, at |-> s, from |-> w]
  <1>1. frame \in Commands /\ cmds \in Seq(Commands) /\ call \in [Workers -> Calls]
    BY DEF Types, Commands
  <1>2. cmds' = Append(cmds, frame) \/ cmds' = cmds
    BY DEF Ask
  <1>3. PICK e \in {"waiting", "failed", "broken"} :
           call' = [call EXCEPT ![w] = [op |-> op, at |-> s, result |-> e]]
    BY DEF Ask
  <1>4. [op |-> op, at |-> s, result |-> e] \in Calls
    BY DEF Calls
  <1>5. /\ call' \in [Workers -> Calls] /\ call'[w].op = op /\ call'[w].at = s
        /\ call'[w].result # "ok" /\ \A v \in Workers \ {w} : call'[v] = call[v]
    BY <1>1, <1>3, <1>4
  <1> HIDE DEF frame
  <1>6. cmds' \in Seq(Commands)
    BY <1>1, <1>2
  <1> QED BY <1>5, <1>6

LEMMA LateFacts ==
    ASSUME Types, Remember
    PROVE  /\ late \subseteq late' /\ late' \subseteq Shells
           /\ ParentEnds => \A s \in Shells : row[s] = "none" /\ row'[s] = "running" => s \in late'
  BY DEF Types, TypeOK, Remember

LEMMA BeginKeeps ==
    ASSUME LifecycleAssumption, SessionInv, Remember, NEW w \in Workers, pc[w] = "idle",
           NEW j \in Jobs, j.at \in Sessions, job' = [job EXCEPT ![w] = j],
           NEW p \in {"starting", "replacing", "stopping", "judging"}, At(w, p),
           p \in {"starting", "replacing"} => w \in Requests /\ j.kind = "open",
           j.kind = "open" => /\ row[j.at] = "none"
                              /\ \A v \in Requests : job[v].kind = "open" => job[v].at # j.at,
           p = "starting" => j.old = NoSession /\ call'[w].op = "start" /\ call'[w].at = j.at,
           p = "replacing" => j.old \in Shells,
           UNCHANGED <<rowVars, todo, ended, cur, up, nodeVars>>,
           call' \in [Workers -> Calls], \A v \in Workers \ {w} : call'[v] = call[v],
           call'[w] = call[w] \/ call'[w].result # "ok",
           cmds' \in Seq(Commands), inbox' \in Seq(Replies \cup Reports),
           \A i \in 1 .. Len(inbox') : \E k \in 1 .. Len(inbox) : inbox'[i] = inbox[k]
    PROVE  SessionInv' /\ NoneRevives
  <1> USE DEF SessionInv, RowFacts, rowVars, nodeVars
  <1>1. late' = late
    BY DEF Remember
  <1>2. /\ pc' = [pc EXCEPT ![w] = p] /\ pc'[w] = p /\ job'[w] = j
        /\ \A v \in Workers \ {w} : pc'[v] = pc[v] /\ job'[v] = job[v]
    BY DEF At, Types, TypeOK
  <1>3. TypeOK'
    <2>1. \A v \in Workers : job'[v] \in Jobs /\ call'[v] \in Calls
      BY <1>2 DEF Types
    <2> QED BY <1>1, <1>2, <2>1 DEF Types, TypeOK, Jobs, Calls, Places
  <1>4. Types'
    BY <1>3 DEF Types
  <1>5. Openers'
    BY <1>2 DEF Openers, Opening
  <1>6. Locks' /\ Cascades'
    BY <1>1, <1>2 DEF Locks, Cascades, LiveShells
  <1>7. Parents' /\ AtMostOne' /\ OnlyLateShellsOutlive' /\ NoneRevives
    BY <1>1 DEF Parents, AtMostOne, OnlyLateShellsOutlive, LiveShells, NoneRevives, Active, Ended
  <1>8. Answers'
    <2>1. \A v \in Workers : pc'[v] = "starting" => call'[v].op = "start" /\ call'[v].at = job'[v].at
      BY <1>2 DEF Answers
    <2>2. \A v \in Workers : call'[v].op = "start" /\ call'[v].result = "ok" =>
             call'[v].at \in Sessions /\ proc'[call'[v].at] # "none"
      BY DEF Answers
    <2> QED BY <2>1, <2>2 DEF Answers
  <1>9. RunningWasStarted'
    BY DEF RunningWasStarted
  <1> QED BY <1>4, <1>5, <1>6, <1>7, <1>8, <1>9

(* The step that ends a transaction writes rows that exist, or the one it  *)
(* opens; and only that one may be written as running.                     *)
LEMMA OverKeeps ==
    ASSUME LifecycleAssumption, SessionInv, Remember, NEW w \in Workers,
           NEW place \in {"idle", "dead"}, Over(w, place),
           row' \in [Sessions -> {"none", "running"} \cup Ended],
           \A s \in Sessions : row'[s] # row[s] =>
              row'[s] # "none" /\ (row[s] # "none" \/ (Opening(w) /\ s = job[w].at)),
           \A s \in Sessions : row'[s] # row[s] /\ row'[s] = "running" =>
              /\ pc[w] = "starting" /\ s = job[w].at /\ call[w].result = "ok"
              /\ s \in Shells => row[Cli] # "none" /\ LiveShells' \subseteq {s},
           row[Cli] = "running" /\ row'[Cli] \in Ended => LiveShells' \subseteq late,
           UNCHANGED <<job, call, linkVars, nodeVars>>
    PROVE  SessionInv' /\ NoneRevives
  <1> USE DEF SessionInv, RowFacts, linkVars, nodeVars
  <1>1. /\ late \subseteq late' /\ late' \subseteq Shells
        /\ ParentEnds => \A s \in Shells : row[s] = "none" /\ row'[s] = "running" => s \in late'
    BY LateFacts
  <1>2. /\ pc'[w] \in {"idle", "done", "dead"}
        /\ \A v \in Workers \ {w} : pc'[v] = pc[v] /\ todo'[v] = todo[v] /\ ended'[v] = ended[v]
        /\ todo'[w] = {} /\ ended'[w] = {}
        /\ \A s \in Sessions : lock'[s] = IF lock[s] = w THEN Nobody ELSE lock[s]
    BY DEF Over, Types, TypeOK
  <1>3. \A s \in Sessions : row[s] \in {"none", "running"} \cup Ended
    BY DEF Types, TypeOK
  <1>4. Types'
    BY <1>1 DEF Types, TypeOK, Over, Places
  <1>5. \A s \in Sessions : row'[s] = "running" /\ row[s] # "running" =>
           row[s] = "none" /\ proc[s] # "none"
    BY DEF Openers, Opening, Answers
  <1>6. NoneRevives
    BY <1>5 DEF NoneRevives, Active, Ended
  <1>7. \A v \in Workers \ {w} : Opening(v) => row'[job[v].at] = "none"
    BY DEF Openers, Opening
  <1>8. Openers'
    BY <1>2, <1>7 DEF Openers, Opening
  <1>9. Locks'
    <2>1. \A s \in Sessions : row[s] # "none" => row'[s] # "none"
      OBVIOUS
    <2>2. \A v \in Workers \ {w}, s \in Sessions : lock[s] = v => lock'[s] = v
      BY <1>2
    <2>3. \A s \in Sessions : lock'[s] # w
      BY <1>2 DEF LifecycleAssumption
    <2>4. \A v \in Workers, s \in Sessions : lock'[s] = v => lock[s] = v /\ v # w
      BY <1>2, <2>3 DEF LifecycleAssumption
    <2>5. \A v \in Workers : pc'[v] \in {"starting", "cascade"} => v # w /\ pc'[v] = pc[v]
      BY <1>2
    <2>6. \A v \in Workers : pc[v] = "cascade" => job[v].at \in Sessions
      BY DEF Openers
    <2>7. \A v \in Workers : job[v].old # NoSession => job[v].old \in Sessions
      BY DEF Types, TypeOK, Sessions
    <2> QED BY <1>2, <2>1, <2>2, <2>4, <2>5, <2>6, <2>7 DEF Locks
  <1>10. \A s \in LiveShells' : s \in LiveShells \/ (row[s] = "none" /\ row'[s] = "running" /\ row[Cli] # "none")
    BY <1>3, <1>5 DEF LiveShells, Active, Ended, Sessions
  <1>11. Cascades'
    <2>1. \A v \in Workers : pc'[v] = "cascade" /\ job[v].at = Cli => pc[v] = "cascade" /\ ParentEnds
      BY <1>2 DEF ParentEnds
    <2>2. \A v \in Workers : pc'[v] = "cascade" /\ job[v].at = Cli =>
             LiveShells' \subseteq todo'[v] \cup ended'[v] \cup late'
      BY <1>1, <1>2, <1>10, <2>1 DEF Cascades, LiveShells
    <2> QED BY <1>2, <2>2 DEF Cascades
  <1>12. Parents'
    BY <1>10 DEF Parents, Sessions
  <1>13. AtMostOne'
    <2>1. CASE \E s \in LiveShells' : s \notin LiveShells
      <3>1. PICK s \in LiveShells' : s \notin LiveShells
        BY <2>1
      <3>2. s \in Shells /\ row'[s] = "running" /\ row'[s] # row[s]
        BY <1>10, <3>1 DEF LiveShells
      <3>3. LiveShells' \subseteq {s}
        BY <3>2 DEF Sessions
      <3> QED BY <3>3 DEF AtMostOne
    <2>2. CASE LiveShells' \subseteq LiveShells
      BY <2>2 DEF AtMostOne
    <2> QED BY <2>1, <2>2
  <1>14. OnlyLateShellsOutlive'
    <2> SUFFICES ASSUME row'[Cli] \in Ended
                 PROVE  LiveShells' \subseteq late'
      BY DEF OnlyLateShellsOutlive
    <2>1. CASE row[Cli] \in Ended
      BY <1>1, <1>10, <2>1 DEF OnlyLateShellsOutlive, ParentEnds, LiveShells
    <2>2. CASE row[Cli] = "none"
      BY <1>10, <2>2 DEF Parents
    <2>3. CASE row[Cli] = "running"
      BY <1>1, <2>3
    <2> QED BY <1>3, <2>1, <2>2, <2>3 DEF Sessions
  <1>15. Answers' /\ RunningWasStarted'
    BY <1>2, <1>5 DEF Answers, RunningWasStarted
  <1> QED BY <1>4, <1>6, <1>8, <1>9, <1>11, <1>12, <1>13, <1>14, <1>15
-----------------------------------------------------------------------------
LEMMA ArriveKeeps ==
    ASSUME LifecycleAssumption, SessionInv, Remember, NEW w \in Requests, Arrive(w)
    PROVE  SessionInv' /\ NoneRevives
  <1> USE DEF nodeVars
  <1>1. Types /\ w \in Workers /\ inbox \in Seq(Replies \cup Reports)
    BY DEF SessionInv, Types, Workers
  <1>2. CASE OpenCli(w)
    <2> DEFINE j == [kind |-> "open", at |-> Cli, old |-> NoSession]
    <2>1. j \in Jobs /\ j.at \in Sessions
      BY DEF Jobs, Sessions
    <2>2. /\ pc[w] = "idle" /\ job' = [job EXCEPT ![w] = j] /\ Ask(w, "start", Cli)
          /\ At(w, "starting") /\ row[Cli] = "none"
          /\ \A v \in Requests : job[v].kind = "open" => job[v].at # Cli
          /\ UNCHANGED <<rowVars, todo, ended, cur, up, inbox, nodeVars>>
      BY <1>2 DEF OpenCli, Begin, Fresh
    <2>3. /\ call' \in [Workers -> Calls] /\ cmds' \in Seq(Commands)
          /\ call'[w].op = "start" /\ call'[w].at = Cli /\ call'[w].result # "ok"
          /\ \A v \in Workers \ {w} : call'[v] = call[v]
      BY <1>1, <2>2, AskFacts DEF Sessions
    <2> QED BY <1>1, <2>1, <2>2, <2>3, BeginKeeps
  <1>3. ASSUME NEW s \in Shells, OpenShell(w, s)
        PROVE  SessionInv' /\ NoneRevives
    <2>1. PICK op \in {"start", "stop"}, e \in Sessions, p \in {"starting", "replacing"},
               old \in Shells \cup {NoSession} :
            /\ Begin(w, "open", s, old) /\ Ask(w, op, e) /\ At(w, p)
            /\ p = "starting" => op = "start" /\ e = s /\ old = NoSession
            /\ p = "replacing" => old \in Shells
      BY <1>3 DEF OpenShell, Sessions, LiveShells
    <2> DEFINE j == [kind |-> "open", at |-> s, old |-> old]
    <2>2. j \in Jobs /\ j.at \in Sessions
      BY DEF Jobs, Sessions
    <2>3. /\ pc[w] = "idle" /\ job' = [job EXCEPT ![w] = j] /\ row[s] = "none"
          /\ \A v \in Requests : job[v].kind = "open" => job[v].at # s
          /\ UNCHANGED <<rowVars, todo, ended, cur, up, inbox, nodeVars>>
      BY <1>3, <2>1 DEF OpenShell, Begin, Fresh
    <2>4. /\ call' \in [Workers -> Calls] /\ cmds' \in Seq(Commands)
          /\ call'[w].op = op /\ call'[w].at = e /\ call'[w].result # "ok"
          /\ \A v \in Workers \ {w} : call'[v] = call[v]
      BY <1>1, <2>1, AskFacts
    <2> QED BY <1>1, <2>1, <2>2, <2>3, <2>4, BeginKeeps
  <1>4. ASSUME NEW s \in Sessions, Terminate(w, s)
        PROVE  SessionInv' /\ NoneRevives
    <2> DEFINE j == [kind |-> "terminate", at |-> s, old |-> NoSession]
    <2>1. j \in Jobs /\ j.at \in Sessions /\ j.kind # "open"
      BY DEF Jobs
    <2>2. /\ pc[w] = "idle" /\ job' = [job EXCEPT ![w] = j] /\ Ask(w, "stop", s)
          /\ At(w, "stopping")
          /\ UNCHANGED <<rowVars, todo, ended, cur, up, inbox, nodeVars>>
      BY <1>4 DEF Terminate, Begin
    <2>3. /\ call' \in [Workers -> Calls] /\ cmds' \in Seq(Commands) /\ call'[w].result # "ok"
          /\ \A v \in Workers \ {w} : call'[v] = call[v]
      BY <1>1, <2>2, AskFacts
    <2> HIDE DEF j
    <2> QED BY <1>1, <2>1, <2>2, <2>3, BeginKeeps
  <1> QED BY <1>2, <1>3, <1>4 DEF Arrive, Sessions

LEMMA ReadExitedKeeps ==
    ASSUME LifecycleAssumption, SessionInv, Remember, ReadExited
    PROVE  SessionInv' /\ NoneRevives
  <1> USE DEF nodeVars, rowVars
  <1>1. Types /\ inbox \in Seq(Replies \cup Reports) /\ cur \in Workers /\ inbox # <<>>
        /\ inbox' = Tail(inbox) /\ Head(inbox).kind = "exited"
    BY DEF SessionInv, Types, ReadExited, Reading, Connected, Workers
  <1>2. /\ inbox' \in Seq(Replies \cup Reports)
        /\ \A i \in 1 .. Len(inbox') : i + 1 \in 1 .. Len(inbox) /\ inbox'[i] = inbox[i + 1]
    BY <1>1
  <1>3. Head(inbox).at \in Sessions
    <2>1. Head(inbox) \in Replies \cup Reports
      BY <1>1
    <2> QED BY <1>1, <2>1 DEF Replies, Reports
  <1>4. UNCHANGED <<rowVars, call, todo, ended, cur, up, cmds, nodeVars>>
    BY DEF ReadExited
  <1>5. CASE Begin(cur, "event", Head(inbox).at, NoSession) /\ At(cur, "judging")
    <2> DEFINE j == [kind |-> "event", at |-> Head(inbox).at, old |-> NoSession]
    <2>1. j \in Jobs /\ j.at \in Sessions /\ j.kind # "open"
      BY <1>3 DEF Jobs
    <2>2. pc[cur] = "idle" /\ job' = [job EXCEPT ![cur] = j] /\ At(cur, "judging")
      BY <1>5 DEF Begin
    <2>3. call' \in [Workers -> Calls] /\ cmds' \in Seq(Commands)
      BY <1>1, <1>4 DEF Types
    <2> HIDE DEF j
    <2> QED BY <1>1, <1>2, <1>4, <2>1, <2>2, <2>3, BeginKeeps
  <1>6. CASE UNCHANGED <<job, pc>>
    <2>1. RowFacts' /\ NoneRevives /\ late' \subseteq Shells
      BY <1>4, <1>6, RowsKept
    <2>2. Types'
      BY <1>1, <1>2, <1>4, <1>6, <2>1 DEF Types, TypeOK
    <2>3. Answers' /\ RunningWasStarted'
      BY <1>2, <1>4, <1>6 DEF SessionInv, Answers, RunningWasStarted
    <2> QED BY <2>1, <2>2, <2>3 DEF SessionInv
  <1> QED BY <1>5, <1>6 DEF ReadExited
-----------------------------------------------------------------------------
LEMMA RowStays ==
    ASSUME SessionInv, Remember, row' = row
    PROVE  /\ late' = late /\ Parents' /\ AtMostOne' /\ OnlyLateShellsOutlive'
           /\ LiveShells' = LiveShells /\ NoneRevives
  <1> USE DEF SessionInv, RowFacts
  <1>1. late' = late
    BY DEF Remember
  <1> QED
    BY <1>1 DEF Parents, AtMostOne, OnlyLateShellsOutlive, LiveShells, NoneRevives, Active, Ended

LEMMA ReplacedKeeps ==
    ASSUME LifecycleAssumption, SessionInv, Remember, NEW w \in Workers, Replaced(w)
    PROVE  SessionInv' /\ NoneRevives
  <1> USE DEF linkVars, nodeVars
  <1> DEFINE old == job[w].old
  <1>1. /\ Types /\ TypeOK /\ Openers /\ Locks /\ Cascades /\ pc[w] = "replacing" /\ old \in Shells
        /\ row[old] # "none" /\ lock[old] \in {Nobody, w} /\ job[w].at \in Sessions
    BY DEF SessionInv, RowFacts, Types, Openers, Replaced, Free
  <1>2. CASE HasRoom({old})
    <2>1. /\ lock' = [lock EXCEPT ![old] = w] /\ Ask(w, "start", job[w].at) /\ At(w, "starting")
          /\ UNCHANGED <<row, todo, ended, job, cur, up, inbox, nodeVars>>
      BY <1>2 DEF Replaced
    <2>2. /\ call' \in [Workers -> Calls] /\ cmds' \in Seq(Commands)
          /\ call'[w].op = "start" /\ call'[w].at = job[w].at /\ call'[w].result # "ok"
          /\ \A v \in Workers \ {w} : call'[v] = call[v]
      BY <1>1, <2>1, AskFacts
    <2>3. /\ late' = late /\ Parents' /\ AtMostOne' /\ OnlyLateShellsOutlive'
          /\ LiveShells' = LiveShells /\ NoneRevives
      BY <2>1, RowStays
    <2>4. pc'[w] = "starting" /\ \A v \in Workers \ {w} : pc'[v] = pc[v]
      BY <1>1, <2>1 DEF At, TypeOK
    <2>5. Types'
      BY <1>1, <2>1, <2>2, <2>3, <2>4 DEF Types, TypeOK, At, Places, Calls
    <2>6. Openers' /\ Cascades'
      BY <1>1, <2>1, <2>3, <2>4 DEF Openers, Opening, Cascades
    <2>7. \A t \in Sessions : lock'[t] = IF t = old THEN w ELSE lock[t]
      BY <1>1, <2>1 DEF TypeOK
    <2>8. Locks'
      BY <1>1, <2>1, <2>4, <2>7 DEF Locks, LifecycleAssumption, Sessions
    <2>9. Answers' /\ RunningWasStarted'
      BY <2>1, <2>2, <2>4 DEF SessionInv, Answers, RunningWasStarted
    <2> QED BY <2>3, <2>5, <2>6, <2>8, <2>9 DEF SessionInv, RowFacts
  <1>3. CASE ~HasRoom({old})
    <2>1. /\ row' = Write({old}, "terminated") /\ Over(w, "idle")
          /\ UNCHANGED <<job, call, linkVars, nodeVars>>
      BY <1>3 DEF Replaced
    <2>2. /\ row' \in [Sessions -> {"none", "running"} \cup Ended]
          /\ \A s \in Sessions : row'[s] # row[s] => s = old /\ row'[s] = "terminated"
      BY <1>1, <2>1 DEF Write, TypeOK, Ended
    <2>3. row'[Cli] = row[Cli]
      BY <1>1, <2>2 DEF LifecycleAssumption, Sessions
    <2> QED BY <1>1, <2>1, <2>2, <2>3, OverKeeps DEF Ended
  <1> QED BY <1>2, <1>3

(* Started and StartFailed: the replaced shell and the one that was opened *)
(* are written together.                                                   *)
LEMMA OpenedKeeps ==
    ASSUME LifecycleAssumption, SessionInv, Remember, NEW w \in Workers,
           Started(w) \/ StartFailed(w)
    PROVE  SessionInv' /\ NoneRevives
  <1> DEFINE at == job[w].at
             old == job[w].old
  <1>1. /\ TypeOK /\ pc[w] = "starting" /\ at \in Sessions /\ row[at] = "none" /\ Opening(w)
        /\ old # NoSession => row[old] # "none"
        /\ old \in Shells \cup {NoSession}
    BY DEF SessionInv, RowFacts, Types, TypeOK, Openers, Opening, Locks, Started, StartFailed
  <1>2. PICK e \in {"running", "failed"} :
           /\ row' = [Write({old}, "terminated") EXCEPT ![at] = e]
           /\ e = "running" => call[w].result = "ok" /\ Recordable(w)
    BY DEF Started, StartFailed
  <1>3. Over(w, "idle") /\ UNCHANGED <<job, call, linkVars, nodeVars>>
    BY DEF Started, StartFailed
  <1>4. \A s \in Sessions :
           row'[s] = IF s = at THEN e ELSE IF s = old THEN "terminated" ELSE row[s]
    BY <1>1, <1>2 DEF Write
  <1>5. row' \in [Sessions -> {"none", "running"} \cup Ended]
    BY <1>1, <1>2 DEF Write, TypeOK, Ended
  <1>6. ~(row[Cli] = "running" /\ row'[Cli] \in Ended)
    BY <1>1, <1>4 DEF LifecycleAssumption, Sessions, Ended
  <1>7. ASSUME at \in Shells, e = "running"
        PROVE  row[Cli] # "none" /\ LiveShells' \subseteq {at}
    <2>1. row[Cli] # "none" /\ LiveShells \subseteq {old}
      BY <1>2, <1>7 DEF Recordable, LifecycleAssumption
    <2>2. \A s \in Shells : s \notin {at, old} => row'[s] = row[s]
      BY <1>4 DEF Sessions
    <2>3. \A s \in LiveShells' : s # at => s # old
      BY <1>4 DEF LiveShells, Active, Sessions
    <2> QED BY <2>1, <2>2, <2>3 DEF LiveShells
  <1>8. \A s \in Sessions : row'[s] # row[s] =>
           row'[s] # "none" /\ (row[s] # "none" \/ (Opening(w) /\ s = at))
    BY <1>1, <1>4 DEF LifecycleAssumption
  <1>9. \A s \in Sessions : row'[s] # row[s] /\ row'[s] = "running" =>
           /\ pc[w] = "starting" /\ s = at /\ call[w].result = "ok"
           /\ s \in Shells => row[Cli] # "none" /\ LiveShells' \subseteq {s}
    BY <1>1, <1>2, <1>4, <1>7
  <1> QED BY <1>3, <1>5, <1>6, <1>8, <1>9, OverKeeps

LEMMA CommitKeeps ==
    ASSUME LifecycleAssumption, SessionInv, Remember, NEW w \in Workers, Commit(w)
    PROVE  SessionInv' /\ NoneRevives
  <1> DEFINE at == job[w].at
  <1>1. /\ TypeOK /\ at \in Sessions /\ row[at] # "none" /\ ended[w] \subseteq Shells /\ todo[w] = {}
        /\ \A s \in ended[w] : row[s] # "none"
        /\ at = Cli => LiveShells \subseteq ended[w] \cup late
    <2>1. pc[w] = "cascade" /\ todo[w] = {} /\ \A s \in ended[w] : row[s] # "none"
      BY DEF Commit, Pending
    <2>2. TypeOK
      BY DEF SessionInv, Types
    <2>3. ended[w] \subseteq Shells
      BY <2>2 DEF TypeOK
    <2>4. at \in Sessions
      BY <2>1 DEF SessionInv, RowFacts, Openers
    <2>5. row[at] # "none"
      BY <2>1 DEF SessionInv, RowFacts, Locks
    <2>6. at = Cli => LiveShells \subseteq ended[w] \cup late
      BY <2>1 DEF SessionInv, RowFacts, Cascades
    <2> QED BY <2>1, <2>2, <2>3, <2>4, <2>5, <2>6
  <1>2. PICK e \in {"exited", "terminated"} :
           row' = [Write(ended[w], "terminated") EXCEPT ![at] = e]
    BY DEF Commit, Verdict
  <1>3. Over(w, "idle") /\ UNCHANGED <<job, call, linkVars, nodeVars>>
    BY DEF Commit
  <1>4. \A s \in Sessions :
           row'[s] = IF s = at THEN e ELSE IF s \in ended[w] THEN "terminated" ELSE row[s]
    BY <1>1, <1>2 DEF Write
  <1>5. row' \in [Sessions -> {"none", "running"} \cup Ended]
    BY <1>1, <1>2 DEF Write, TypeOK, Ended
  <1>6. row[Cli] = "running" /\ row'[Cli] \in Ended => LiveShells' \subseteq late
    <2> SUFFICES ASSUME row[Cli] = "running", row'[Cli] \in Ended
                 PROVE  LiveShells' \subseteq late
      OBVIOUS
    <2>1. at = Cli
      BY <1>1, <1>4 DEF LifecycleAssumption, Sessions, Ended
    <2>2. \A s \in LiveShells' : s \in LiveShells /\ s \notin ended[w]
      BY <1>4, <2>1 DEF LiveShells, LifecycleAssumption, Sessions, Active
    <2> QED BY <1>1, <2>1, <2>2
  <1>7. \A s \in Sessions : row'[s] # row[s] => row'[s] # "none" /\ row[s] # "none"
    BY <1>1, <1>4
  <1>8. \A s \in Sessions : row'[s] # row[s] => row'[s] # "running"
    BY <1>4
  <1> QED BY <1>3, <1>5, <1>6, <1>7, <1>8, OverKeeps

LEMMA RollbackKeeps ==
    ASSUME LifecycleAssumption, SessionInv, Remember, NEW w \in Workers,
           TerminateFails(w) \/ WriteBroke(w) \/ DatabaseRefuses(w)
    PROVE  SessionInv' /\ NoneRevives
  <1>1. row' = row /\ Over(w, "dead") /\ UNCHANGED <<job, call, linkVars, nodeVars>>
    BY DEF TerminateFails, WriteBroke, DatabaseRefuses, Rollback
  <1>2. row' \in [Sessions -> {"none", "running"} \cup Ended]
    BY <1>1 DEF SessionInv, Types, TypeOK
  <1> QED BY <1>1, <1>2, OverKeeps DEF Ended

(* The shells a cascade has read are those it will end, and no row of the  *)
(* CLI session is locked by two.                                           *)
LEMMA FlushKeeps ==
    ASSUME LifecycleAssumption, SessionInv, Remember, NEW w \in Workers, Flush(w)
    PROVE  SessionInv' /\ NoneRevives
  <1> USE DEF linkVars, nodeVars
  <1> DEFINE at == job[w].at
  <1>1. /\ Types /\ TypeOK /\ Openers /\ Locks /\ Cascades /\ at \in Sessions
        /\ pc[w] \in {"stopping", "judging"} /\ row[at] # "none" /\ lock[at] \in {Nobody, w}
    BY DEF SessionInv, RowFacts, Types, Openers, Flush, Judged, Free
  <1>2. /\ UNCHANGED <<row, job, call, ended, cur, up, cmds, inbox, proc, attached>>
        /\ lock' = [lock EXCEPT ![at] = w] /\ pc' = [pc EXCEPT ![w] = "cascade"]
        /\ todo' = [todo EXCEPT ![w] = IF at = Cli THEN LiveShells ELSE {}]
    BY DEF Flush, At
  <1>3. /\ late' = late /\ Parents' /\ AtMostOne' /\ OnlyLateShellsOutlive'
        /\ LiveShells' = LiveShells /\ NoneRevives
    BY <1>2, RowStays
  <1>4. /\ pc'[w] = "cascade" /\ todo'[w] = (IF at = Cli THEN LiveShells ELSE {})
        /\ \A v \in Workers \ {w} : pc'[v] = pc[v] /\ todo'[v] = todo[v]
        /\ \A s \in Sessions : lock'[s] = IF s = at THEN w ELSE lock[s]
    BY <1>1, <1>2 DEF TypeOK
  <1>5. LiveShells \subseteq Shells
    BY DEF LiveShells
  <1>6. Types'
    BY <1>1, <1>2, <1>3, <1>5 DEF Types, TypeOK, Places
  <1>7. Openers'
    BY <1>1, <1>2, <1>4 DEF Openers, Opening
  <1>8. Cascades'
    BY <1>1, <1>2, <1>3, <1>4 DEF Cascades
  <1>9. Locks'
    <2>1. \A v \in Workers : pc'[v] = "cascade" => lock'[job'[v].at] = v /\ row'[job'[v].at] # "none"
      BY <1>1, <1>2, <1>4 DEF Locks, Openers, LifecycleAssumption
    <2>2. \A v \in Workers : pc'[v] = "starting" /\ job'[v].old # NoSession =>
             lock'[job'[v].old] = v /\ row'[job'[v].old] # "none"
      BY <1>1, <1>2, <1>4 DEF Locks, LifecycleAssumption, TypeOK, Sessions
    <2>3. \A v \in Workers, s \in Sessions : lock'[s] = v =>
             \/ pc'[v] = "starting" /\ job'[v].old = s
             \/ pc'[v] = "cascade" /\ job'[v].at = s
      BY <1>1, <1>2, <1>4 DEF Locks
    <2> QED BY <2>1, <2>2, <2>3 DEF Locks
  <1>10. Answers' /\ RunningWasStarted'
    BY <1>2, <1>4 DEF SessionInv, Answers, RunningWasStarted
  <1> QED BY <1>3, <1>6, <1>7, <1>8, <1>9, <1>10 DEF SessionInv, RowFacts

LEMMA StopChildKeeps ==
    ASSUME LifecycleAssumption, SessionInv, Remember, NEW w \in Workers, StopChild(w)
    PROVE  SessionInv' /\ NoneRevives
  <1> USE DEF rowVars, nodeVars
  <1>1. PICK c \in todo[w] :
           /\ Ask(w, "stop", c)
           /\ todo' = [todo EXCEPT ![w] = @ \ {c}] /\ ended' = [ended EXCEPT ![w] = @ \cup {c}]
    BY DEF StopChild
  <1>2. /\ Types /\ TypeOK /\ Openers /\ Locks /\ Cascades /\ pc[w] = "cascade" /\ job[w].at = Cli
        /\ c \in Shells /\ c \in Sessions
        /\ UNCHANGED <<row, lock, job, pc, cur, up, inbox, proc, attached>>
    BY <1>1 DEF SessionInv, RowFacts, Types, TypeOK, Cascades, StopChild, Sessions
  <1>3. /\ call' \in [Workers -> Calls] /\ cmds' \in Seq(Commands) /\ call'[w].result # "ok"
        /\ \A v \in Workers \ {w} : call'[v] = call[v]
    BY <1>1, <1>2, AskFacts
  <1>4. /\ late' = late /\ Parents' /\ AtMostOne' /\ OnlyLateShellsOutlive'
        /\ LiveShells' = LiveShells /\ NoneRevives
    BY <1>2, RowStays
  <1>5. /\ todo'[w] = todo[w] \ {c} /\ ended'[w] = ended[w] \cup {c}
        /\ \A v \in Workers \ {w} : todo'[v] = todo[v] /\ ended'[v] = ended[v]
    BY <1>1, <1>2 DEF TypeOK
  <1>6. Types'
    BY <1>1, <1>2, <1>3, <1>4 DEF Types, TypeOK, Calls
  <1>7. Openers' /\ Locks'
    BY <1>2 DEF Openers, Opening, Locks
  <1>8. Cascades'
    BY <1>2, <1>4, <1>5 DEF Cascades
  <1>9. Answers' /\ RunningWasStarted'
    BY <1>2, <1>3 DEF SessionInv, Answers, RunningWasStarted
  <1> QED BY <1>4, <1>6, <1>7, <1>8, <1>9 DEF SessionInv, RowFacts

LEMMA DeleteKeeps ==
    ASSUME LifecycleAssumption, SessionInv, Remember, NEW s \in Sessions, Delete(s)
    PROVE  SessionInv' /\ NoneRevives
  <1> USE DEF workVars, linkVars, nodeVars
  <1>1. TypeOK /\ Openers /\ Locks /\ Cascades /\ Types /\ OnlyLateShellsOutlive /\ AtMostOne /\ Parents
    BY DEF SessionInv, RowFacts, Types
  <1>2. /\ row[s] \in Ended
        /\ UNCHANGED <<lock, job, pc, call, todo, ended, cur, up, cmds, inbox, proc, attached>>
    BY DEF Delete
  <1>3. PICK gone \in SUBSET Sessions :
           /\ row' = Write(gone, "none") /\ \A g \in gone : lock[g] = Nobody
           /\ s = Cli => \A c \in Shells : row[c] # "failed" => c \in gone
           /\ s # Cli => gone = {s}
    BY DEF Delete, Sessions
  <1>4. \A t \in Sessions : row'[t] = IF t \in gone THEN "none" ELSE row[t]
    BY <1>3 DEF Write
  <1>5. late' = late
    BY <1>4 DEF Remember, Sessions
  <1>6. Types'
    BY <1>1, <1>2, <1>3, <1>5 DEF Types, TypeOK, Write
  <1>7. \A v \in Workers, t \in Sessions : lock[t] = v => row'[t] = row[t]
    BY <1>3, <1>4 DEF LifecycleAssumption
  <1>8. Openers'
    BY <1>1, <1>2, <1>4 DEF Openers, Opening
  <1>9. Locks'
    <2>1. \A v \in Workers : job[v].old # NoSession => job[v].old \in Sessions
      BY <1>1 DEF TypeOK, Sessions
    <2>2. \A v \in Workers : pc[v] = "cascade" => job[v].at \in Sessions
      BY <1>1 DEF Openers
    <2> QED BY <1>1, <1>2, <1>7, <2>1, <2>2 DEF Locks
  <1>10. LiveShells' \subseteq LiveShells
    BY <1>4 DEF LiveShells, Active, Sessions
  <1>11. Cascades' /\ AtMostOne'
    BY <1>1, <1>2, <1>5, <1>10 DEF Cascades, AtMostOne
  <1>12. Parents'
    <2>1. CASE s = Cli
      BY <1>3, <1>4, <2>1 DEF Parents, LiveShells, Active, Sessions
    <2>2. CASE s # Cli
      BY <1>1, <1>3, <1>4, <1>10, <2>2 DEF Parents, Sessions
    <2> QED BY <2>1, <2>2
  <1>13. OnlyLateShellsOutlive'
    BY <1>1, <1>4, <1>5, <1>10 DEF OnlyLateShellsOutlive, Ended, Sessions
  <1>14. NoneRevives
    BY <1>4 DEF NoneRevives, Active, Ended
  <1>15. Answers' /\ RunningWasStarted'
    BY <1>2, <1>4 DEF SessionInv, Answers, RunningWasStarted
  <1> QED
    BY <1>6, <1>8, <1>9, <1>11, <1>12, <1>13, <1>14, <1>15 DEF SessionInv, RowFacts
-----------------------------------------------------------------------------
LEMMA StepKeeps ==
    ASSUME LifecycleAssumption, SessionInv, [Next]_vars
    PROVE  SessionInv' /\ NoneRevives
  <1>1. CASE UNCHANGED vars
    <2>1. row' = row /\ lock' = lock /\ job' = job /\ pc' = pc /\ call' = call /\ todo' = todo
          /\ ended' = ended /\ cur' = cur /\ up' = up /\ cmds' = cmds /\ inbox' = inbox
          /\ proc' = proc /\ attached' = attached /\ late' = late
      BY <1>1 DEF vars, state, rowVars, workVars, linkVars, nodeVars
    <2> QED
      BY <2>1 DEF SessionInv, Types, TypeOK, RowFacts, Openers, Opening, Locks, Cascades, Parents,
         AtMostOne, OnlyLateShellsOutlive, Answers, RunningWasStarted, LiveShells, NoneRevives,
         Active, Ended
  <1>2. CASE Step /\ Remember
    <2> USE <1>2
    <2>1. ASSUME NEW w \in Requests, Arrive(w)
          PROVE  SessionInv' /\ NoneRevives
      BY <2>1, ArriveKeeps
    <2>2. ASSUME NEW w \in Workers, Work(w)
          PROVE  SessionInv' /\ NoneRevives
      BY <2>2, ReplacedKeeps, OpenedKeeps, FlushKeeps, StopChildKeeps, CommitKeeps, RollbackKeeps
         DEF Work
    <2>3. ASSUME NEW w \in Workers, Timeout(w)
          PROVE  SessionInv' /\ NoneRevives
      BY <2>3, TimeoutKeeps
    <2>4. CASE Read
      BY <2>4, ReadReplyKeeps, ReadExitedKeeps, ReconnectKeeps DEF Read, ReadShutdown, Reading
    <2>5. CASE Handle
      BY <2>5, HandleKeeps
    <2>6. CASE LinkDrops
      BY <2>6, ReconnectKeeps DEF LinkDrops
    <2>7. CASE Shutdown
      BY <2>7, ShutdownKeeps
    <2>8. ASSUME NEW s \in Sessions, Delete(s) \/ CliExits(s) \/ Attach(s)
          PROVE  SessionInv' /\ NoneRevives
      BY <2>8, DeleteKeeps, NodeKeeps
    <2> QED BY <2>1, <2>2, <2>3, <2>4, <2>5, <2>6, <2>7, <2>8 DEF Step
  <1> QED BY <1>1, <1>2 DEF Next

(* The invariant the theorems follow from.                                 *)
THEOREM SessionsKeepInv == Spec => []SessionInv
  <1>1. Init => SessionInv BY LifecycleAssumption, InitHolds
  <1>2. SessionInv /\ [Next]_vars => SessionInv' BY LifecycleAssumption, StepKeeps
  <1> QED BY <1>1, <1>2, PTL DEF Spec

(* Rows hold a committed status, locks a transaction: the statuses that a  *)
(* transaction passes through in memory are never committed.               *)
THEOREM SessionTypes == Spec => []TypeOK
  <1>1. SessionInv => TypeOK BY DEF SessionInv, Types
  <1> QED BY <1>1, SessionsKeepInv, PTL

(* A CLI session never has two live system terminals in the database,      *)
(* however many requests open one at once.                                 *)
THEOREM ShellIsAlone == Spec => []OneLiveShell
  <1>1. ASSUME SessionInv PROVE OneLiveShell
    <2>1. CASE LiveShells = {}
      BY <2>1, FS_EmptySet DEF OneLiveShell
    <2>2. CASE LiveShells # {}
      <3>1. PICK s : LiveShells = {s}
        BY <1>1, <2>2 DEF SessionInv, RowFacts, AtMostOne
      <3> QED BY <3>1, FS_Singleton DEF OneLiveShell
    <2> QED BY <2>1, <2>2
  <1> QED BY <1>1, SessionsKeepInv, PTL

(* A session the console shows as running was started by the daemon.       *)
THEOREM RunningRowsWereStarted == Spec => []RunningWasStarted
  <1>1. SessionInv => RunningWasStarted BY DEF SessionInv
  <1> QED BY <1>1, SessionsKeepInv, PTL

(* A CLI session that has ended leaves no live shell but those recorded    *)
(* after its cascade had read them.                                        *)
THEOREM CascadeMissesOnlyLateShells == Spec => []OnlyLateShellsOutlive
  <1>1. SessionInv => OnlyLateShellsOutlive BY DEF SessionInv, RowFacts
  <1> QED BY <1>1, SessionsKeepInv, PTL

(* No two transactions wait for each other's rows: who holds a row and     *)
(* wants another is a cascade, which holds the CLI session's and wants     *)
(* shells'.                                                                *)
THEOREM SessionLocksAreOrdered == Spec => []NoLockCycle
  <1>1. ASSUME SessionInv PROVE NoLockCycle
    <2> SUFFICES ASSUME NEW v \in Workers, NEW w \in Workers, WaitsFor(v, w), WaitsFor(w, v)
                 PROVE  FALSE
      BY DEF NoLockCycle
    <2>1. TypeOK /\ Openers /\ Locks /\ Cascades
      BY <1>1 DEF SessionInv, RowFacts, Types
    <2>2. PICK s \in Wants(v) : lock[s] = w
      BY DEF WaitsFor
    <2>3. PICK t \in Wants(w) : lock[t] = v
      BY DEF WaitsFor
    <2>4. s \in Sessions /\ t \in Sessions
      BY <2>1, <2>2, <2>3 DEF Wants, Judged, Pending, Openers, TypeOK, Sessions
    <2>5. pc[v] \in {"starting", "cascade"} /\ pc[w] \in {"starting", "cascade"}
      BY <2>1, <2>2, <2>3, <2>4 DEF Locks
    <2>6. pc[v] = "cascade" /\ s \in ended[v] /\ pc[w] = "cascade" /\ t \in ended[w]
      BY <2>2, <2>3, <2>5 DEF Wants, Judged, Pending
    <2>7. ended[w] # {} /\ s \in Shells
      BY <2>1, <2>6 DEF TypeOK
    <2>8. job[w].at = Cli
      BY <2>1, <2>7 DEF Cascades
    <2>9. job[w].at = s
      BY <2>1, <2>2, <2>4, <2>6 DEF Locks
    <2> QED BY LifecycleAssumption, <2>7, <2>8, <2>9 DEF LifecycleAssumption, Sessions
  <1> QED BY <1>1, SessionsKeepInv, PTL

(* No step makes an ended row live again, whichever writers overlap.       *)
THEOREM EndedRowsStayEnded == Spec => EndedStaysEnded
  <1>1. SessionInv /\ [Next]_vars => [\A s \in Sessions : row[s] \in Ended => row'[s] \notin Active]_vars
    BY LifecycleAssumption, StepKeeps DEF NoneRevives
  <1> QED BY <1>1, SessionsKeepInv, PTL DEF Spec, EndedStaysEnded
=============================================================================
