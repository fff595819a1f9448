-------------------------- MODULE SessionLifecycle --------------------------
(***************************************************************************)
(* The durable life of one CLI session and of the shells opened inside it: *)
(* the terminal_sessions rows in PostgreSQL, the HTTP requests that open   *)
(* and end them (services/sessions.py), the node's receive loop that       *)
(* applies what the daemon reports (api/ws/nodes.py), and the daemon's     *)
(* processes (daemon/internal/session, connection).                        *)
(*                                                                         *)
(* Each request and each receive loop has a transaction of its own.  It    *)
(* reads committed rows, an UPDATE it has flushed locks the row until it   *)
(* commits, and an UPDATE of a locked row waits.  Suspensions on the       *)
(* registry are where the others run: module NodeRegistry describes what   *)
(* request() does, here it is asked, answered, or fails.                   *)
(***************************************************************************)
EXTENDS Naturals, Sequences, FiniteSets, SequencesExt

CONSTANTS
    Cli,            \* a CLI session
    Shells,         \* ids for the system terminals opened inside it
    Requests,       \* HTTP requests (and reaper runs): one transaction each
    MaxConnections, \* bound on the connections the node makes
    MaxSessions,    \* sessions_per_node_max
    NoSession,
    Nobody

Sessions == {Cli} \cup Shells
Loops == 1 .. MaxConnections
Workers == Requests \cup Loops

ASSUME LifecycleAssumption ==
    /\ MaxConnections \in Nat \ {0} /\ MaxSessions \in Nat /\ IsFiniteSet(Shells)
    /\ Cli \notin Shells /\ NoSession \notin Sessions /\ Nobody \notin Workers
    /\ Requests \cap Nat = {}

VARIABLES
    row,      \* the committed status of each session's row
    lock,     \* the transaction holding each row
    job,      \* what each worker's transaction is for
    pc,       \* where it is
    call,     \* the registry request it is making, or made last
    todo,     \* shells its cascade has still to stop
    ended,    \* shells its commit will write as terminated
    cur,      \* the number of the node's connection; its loop reads the inbox
    up,       \* the daemon runs
    cmds,     \* frames from Central to the daemon
    inbox,    \* frames from the daemon to Central
    proc,     \* each session's tmux session on the node
    attached, \* sessions whose process has the daemon's attach client
    late      \* history: shells first recorded as live when the CLI session
              \* had ended, or a cascade had read the shells it ends

rowVars == <<row, lock>>
workVars == <<job, pc, call, todo, ended>>
linkVars == <<cur, up, cmds, inbox>>
nodeVars == <<proc, attached>>
state == <<rowVars, workVars, linkVars, nodeVars>>
vars == <<state, late>>

Active == {"starting", "running", "disconnected", "terminating"}
Ended == {"exited", "failed", "terminated"}

Transitions ==
    [starting |-> {"running", "failed", "exited"},
     running |-> {"disconnected", "exited", "terminating", "failed"},
     disconnected |-> {"running", "exited", "terminating", "failed"},
     terminating |-> {"terminated", "failed", "exited"}]

CanTransition(from, to) == from \in DOMAIN Transitions /\ to \in Transitions[from]

NoCall == [op |-> "none", at |-> NoSession, result |-> "none"]
NoJob == [kind |-> "none", at |-> NoSession, old |-> NoSession]

(* The sessions opened before the behaviour begins: none, the CLI session, *)
(* or it and one shell.                                                    *)
Before == {{}, {Cli}} \cup {{Cli, s} : s \in Shells}

Init ==
    /\ \E S \in Before :
        /\ row = [s \in Sessions |-> IF s \in S THEN "running" ELSE "none"]
        /\ proc = [s \in Sessions |-> IF s \in S THEN "live" ELSE "none"]
    /\ lock = [s \in Sessions |-> Nobody]
    /\ job = [w \in Workers |-> NoJob]
    /\ pc = [w \in Workers |-> "idle"]
    /\ call = [w \in Workers |-> NoCall]
    /\ todo = [w \in Workers |-> {}]
    /\ ended = [w \in Workers |-> {}]
    /\ cur = 1
    /\ up = TRUE
    /\ cmds = <<>>
    /\ inbox = <<>>
    /\ attached = {}
    /\ late = {}
-----------------------------------------------------------------------------
Connected == cur \in Loops
Settled(w) == call[w].result \notin {"waiting", "broken"}

(* request(): sent and awaited, refused with an ApiError ("failed"), or    *)
(* "broken": the socket still registered is dead and its write raises.     *)
Ask(w, op, s) ==
    LET Calling(result) == [call EXCEPT ![w] = [op |-> op, at |-> s, result |-> result]]
    IN \/ /\ Connected
          /\ cmds' = Append(cmds, [op |-> op, at |-> s, from |-> w])
          /\ call' = Calling("waiting")
       \/ /\ UNCHANGED cmds
          /\ \/ call' = Calling("failed")
             \/ Connected /\ call' = Calling("broken")

Begin(w, kind, s, old) ==
    /\ pc[w] = "idle"
    /\ job' = [job EXCEPT ![w] = [kind |-> kind, at |-> s, old |-> old]]

At(w, place) == pc' = [pc EXCEPT ![w] = place]

(* Commit or rollback: the row locks go.  A request is over; a receive     *)
(* loop goes back to receive(), or is gone if an exception ended it.       *)
Over(w, place) ==
    /\ lock' = [s \in Sessions |-> IF lock[s] = w THEN Nobody ELSE lock[s]]
    /\ pc' = [pc EXCEPT ![w] = IF w \in Requests THEN "done" ELSE place]
    /\ todo' = [todo EXCEPT ![w] = {}]
    /\ ended' = [ended EXCEPT ![w] = {}]

Write(S, status) == [s \in Sessions |-> IF s \in S THEN status ELSE row[s]]

Free(w, S) == \A s \in S : lock[s] \in {Nobody, w}

LiveShells == {s \in Shells : row[s] \in Active}
Fresh(s) ==
    /\ row[s] = "none" /\ proc[s] = "none"
    /\ \A w \in Requests : job[w].kind = "open" => job[w].at # s

(* The limit counts committed rows that this transaction has not ended.    *)
HasRoom(mine) ==
    Cardinality({s \in Sessions \ mine : row[s] \in Active}) < MaxSessions
-----------------------------------------------------------------------------
OpenCli_CommitsFirst(w) ==
    /\ Begin(w, "open", Cli, NoSession)
    /\ Fresh(Cli)
    /\ HasRoom({})
    /\ row' = [row EXCEPT ![Cli] = "starting"]
    /\ Ask(w, "start", Cli)
    /\ At(w, "starting")
    /\ UNCHANGED <<lock, todo, ended, cur, up, inbox, nodeVars>>

(* create(): the starting row is inserted but not committed.               *)
OpenCli(w) ==
    /\ Begin(w, "open", Cli, NoSession)
    /\ Fresh(Cli)
    /\ HasRoom({})
    /\ Ask(w, "start", Cli)
    /\ At(w, "starting")
    /\ UNCHANGED <<rowVars, todo, ended, cur, up, inbox, nodeVars>>

(* open_shell(): a live shell that has subscribers refuses; one that has   *)
(* none is stopped first.  The relay's subscribers are TerminalHub's: here *)
(* either answer may be given.                                             *)
OpenShell(w, s) ==
    /\ row[Cli] \in Active
    /\ Fresh(s)
    /\ \/ /\ LiveShells = {}
          /\ HasRoom({})
          /\ Begin(w, "open", s, NoSession)
          /\ Ask(w, "start", s)
          /\ At(w, "starting")
       \/ \E e \in LiveShells :
            /\ Begin(w, "open", s, e)
            /\ Ask(w, "stop", e)
            /\ At(w, "replacing")
    /\ UNCHANGED <<rowVars, todo, ended, cur, up, inbox, nodeVars>>

(* Whatever the node answered, the old shell's row is flushed as ended and *)
(* stays locked while the new one starts.                                  *)
Replaced(w) ==
    /\ pc[w] = "replacing"
    /\ Settled(w)
    /\ row[job[w].old] # "none"
    /\ Free(w, {job[w].old})
    /\ \/ /\ HasRoom({job[w].old})
          /\ lock' = [lock EXCEPT ![job[w].old] = w]
          /\ Ask(w, "start", job[w].at)
          /\ At(w, "starting")
          /\ UNCHANGED <<row, todo, ended>>
       \/ /\ ~HasRoom({job[w].old})
          /\ row' = Write({job[w].old}, "terminated")
          /\ Over(w, "idle")
          /\ UNCHANGED <<call, cmds>>
    /\ UNCHANGED <<job, cur, up, inbox, nodeVars>>

Recordable_Unindexed(w) == job[w].at = Cli \/ row[Cli] # "none"

(* The partial unique index and the foreign key of the new shell's parent. *)
Recordable(w) ==
    job[w].at = Cli \/ (row[Cli] # "none" /\ LiveShells \subseteq {job[w].old})

(* session.started: the row is running, a shell's parent is written, and   *)
(* the route commits.                                                      *)
Started(w) ==
    /\ pc[w] = "starting"
    /\ call[w].result = "ok"
    /\ Recordable(w)
    /\ row' = [Write({job[w].old}, "terminated") EXCEPT ![job[w].at] = "running"]
    /\ Over(w, "idle")
    /\ UNCHANGED <<job, call, linkVars, nodeVars>>

(* _fail(): the row records the failure and the route commits it.          *)
StartFailed(w) ==
    /\ pc[w] = "starting"
    /\ call[w].result \in {"error", "failed"}
    /\ row' = [Write({job[w].old}, "terminated") EXCEPT ![job[w].at] = "failed"]
    /\ Over(w, "idle")
    /\ UNCHANGED <<job, call, linkVars, nodeVars>>
-----------------------------------------------------------------------------
(* terminate(): judged on the row as read now; TERMINATING is set in       *)
(* memory and never flushed before the wait.                               *)
Terminate(w, s) ==
    /\ CanTransition(row[s], "terminating")
    /\ Begin(w, "terminate", s, NoSession)
    /\ Ask(w, "stop", s)
    /\ At(w, "stopping")
    /\ UNCHANGED <<rowVars, todo, ended, cur, up, inbox, nodeVars>>

(* A stop was answered, or an exit accepted, and its row is to be written. *)
Judged(w) ==
    \/ pc[w] = "stopping" /\ call[w].result \in {"ok", "error"}
    \/ pc[w] = "judging"

(* Mutant: an exit that the node reports ends no shell.                    *)
Flush_NoCascade(w) ==
    /\ Judged(w)
    /\ row[job[w].at] # "none"
    /\ Free(w, {job[w].at})
    /\ lock' = [lock EXCEPT ![job[w].at] = w]
    /\ todo' = [todo EXCEPT ![w] = IF job[w].at = Cli /\ job[w].kind = "terminate"
                                   THEN LiveShells ELSE {}]
    /\ At(w, "cascade")
    /\ UNCHANGED <<row, job, call, ended, linkVars, nodeVars>>

(* live_children() flushes the pending UPDATE, then reads the shells.      *)
Flush(w) ==
    /\ Judged(w)
    /\ row[job[w].at] # "none"
    /\ Free(w, {job[w].at})
    /\ lock' = [lock EXCEPT ![job[w].at] = w]
    /\ todo' = [todo EXCEPT ![w] = IF job[w].at = Cli THEN LiveShells ELSE {}]
    /\ At(w, "cascade")
    /\ UNCHANGED <<row, job, call, ended, linkVars, nodeVars>>

(* _terminate_child(): the node's answer does not matter, nor an ApiError. *)
StopChild(w) ==
    /\ pc[w] = "cascade"
    /\ Settled(w)
    /\ \E c \in todo[w] :
        /\ Ask(w, "stop", c)
        /\ todo' = [todo EXCEPT ![w] = @ \ {c}]
        /\ ended' = [ended EXCEPT ![w] = @ \cup {c}]
    /\ UNCHANGED <<rowVars, job, pc, cur, up, inbox, nodeVars>>

(* The rows the commit still has to UPDATE.                                *)
Pending_TouchesParent(w) == ended[w] \cup {Cli}
Pending(w) == ended[w]

Verdict(w) == IF job[w].kind = "event" THEN "exited" ELSE "terminated"

Commit(w) ==
    /\ pc[w] = "cascade"
    /\ Settled(w)
    /\ todo[w] = {}
    /\ Free(w, Pending(w))
    /\ \A s \in Pending(w) : row[s] # "none"
    /\ row' = [Write(ended[w], "terminated") EXCEPT ![job[w].at] = Verdict(w)]
    /\ Over(w, "idle")
    /\ UNCHANGED <<job, call, linkVars, nodeVars>>

Rollback_RestoresRunning(w) ==
    /\ row' = IF pc[w] = "stopping" THEN Write({job[w].at}, "running") ELSE row
    /\ Over(w, "dead")

Rollback(w) ==
    /\ UNCHANGED row
    /\ Over(w, "dead")

(* The stop was refused or timed out: the error leaves the route and       *)
(* nothing is committed.                                                   *)
TerminateFails(w) ==
    /\ pc[w] = "stopping"
    /\ call[w].result = "failed"
    /\ Rollback(w)
    /\ UNCHANGED <<job, call, linkVars, nodeVars>>

(* A broken write is no ApiError: nothing that expects a node to fail      *)
(* catches it, so the whole transaction is rolled back, the rows it would  *)
(* have ended with it, and a receive loop ends.                            *)
WriteBroke(w) ==
    /\ pc[w] \in {"starting", "replacing", "stopping", "cascade"}
    /\ call[w].result = "broken"
    /\ Rollback(w)
    /\ UNCHANGED <<job, call, linkVars, nodeVars>>

(* The database refuses: a second live shell or a deleted parent at the    *)
(* insert, a deleted row at an UPDATE.                                     *)
Refused(w) ==
    \/ pc[w] = "starting" /\ call[w].result = "ok" /\ ~Recordable(w)
    \/ pc[w] = "replacing" /\ Settled(w) /\ row[job[w].old] = "none"
    \/ Judged(w) /\ row[job[w].at] = "none"
    \/ /\ pc[w] = "cascade" /\ Settled(w) /\ todo[w] = {}
       /\ \E s \in Pending(w) : row[s] = "none"

DatabaseRefuses(w) ==
    /\ Refused(w)
    /\ Rollback(w)
    /\ UNCHANGED <<job, call, linkVars, nodeVars>>

(* delete(): only an ended row; the foreign key deletes a CLI session's    *)
(* shells with it.                                                         *)
Delete(s) ==
    /\ row[s] \in Ended
    /\ LET gone == IF s = Cli THEN {Cli} \cup {c \in Shells : row[c] # "failed"} ELSE {s}
       IN  /\ \A g \in gone : lock[g] = Nobody
           /\ row' = Write(gone, "none")
    /\ UNCHANGED <<lock, workVars, linkVars, nodeVars>>
-----------------------------------------------------------------------------
Timeout_NotNested(w) ==
    /\ w \in Requests
    /\ call[w].result = "waiting"
    /\ call' = [call EXCEPT ![w].result = "failed"]
    /\ UNCHANGED <<rowVars, job, pc, todo, ended, linkVars, nodeVars>>

Timeout(w) ==
    /\ call[w].result = "waiting"
    /\ call' = [call EXCEPT ![w].result = "failed"]
    /\ UNCHANGED <<rowVars, job, pc, todo, ended, linkVars, nodeVars>>

(* The receive loop takes the next frame only between two handlers.        *)
Reading(kind) ==
    /\ Connected
    /\ pc[cur] = "idle"
    /\ inbox # <<>>
    /\ Head(inbox).kind = kind

ReadReply ==
    /\ Reading("reply")
    /\ LET r == Head(inbox) IN
       call' = IF call[r.from] = [op |-> r.op, at |-> r.at, result |-> "waiting"]
               THEN [call EXCEPT ![r.from].result = r.result] ELSE call
    /\ inbox' = Tail(inbox)
    /\ UNCHANGED <<rowVars, job, pc, todo, ended, cur, up, cmds, nodeVars>>

(* apply_status_changed() ignores a row that may not move to exited.       *)
ReadExited ==
    /\ Reading("exited")
    /\ LET s == Head(inbox).at IN
       \/ /\ CanTransition(row[s], "exited")
          /\ Begin(cur, "event", s, NoSession)
          /\ At(cur, "judging")
       \/ ~CanTransition(row[s], "exited") /\ UNCHANGED <<job, pc>>
    /\ inbox' = Tail(inbox)
    /\ UNCHANGED <<rowVars, call, todo, ended, cur, up, cmds, nodeVars>>

(* The connection ends and the daemon connects again: what was in flight   *)
(* is lost, the waiters fail (with what their write raises, if they were   *)
(* still writing), and the attach clients die with it.                     *)
Reconnect ==
    /\ cur' = cur + 1
    /\ up' = TRUE
    /\ cmds' = <<>>
    /\ inbox' = <<>>
    /\ \E writing \in SUBSET {w \in Workers : call[w].result = "waiting"} :
        call' = [w \in Workers |-> IF call[w].result # "waiting" THEN call[w]
                                   ELSE IF w \in writing
                                   THEN [call[w] EXCEPT !.result = "broken"]
                                   ELSE [call[w] EXCEPT !.result = "failed"]]
    /\ attached' = {}
    /\ UNCHANGED <<rowVars, job, pc, todo, ended, proc>>

LinkDrops == Connected /\ Reconnect
ReadShutdown == Reading("shutdown") /\ Reconnect
-----------------------------------------------------------------------------
Reply(c, result) ==
    [kind |-> "reply", op |-> c.op, at |-> c.at, from |-> c.from, result |-> result]

(* dispatch(): the daemon handles one frame at a time.                     *)
HandleStart ==
    /\ up
    /\ cmds # <<>>
    /\ Head(cmds).op = "start"
    /\ LET c == Head(cmds) IN
       \/ /\ proc' = [proc EXCEPT ![c.at] = "live"]
          /\ inbox' = Append(inbox, Reply(c, "ok"))
       \/ /\ UNCHANGED proc
          /\ inbox' = Append(inbox, Reply(c, "error"))
    /\ cmds' = Tail(cmds)
    /\ UNCHANGED <<rowVars, workVars, cur, up, attached>>

(* Stop() takes the attach client before the process, so a stopped process *)
(* reports no exit of its own.                                             *)
HandleStop ==
    /\ up
    /\ cmds # <<>>
    /\ Head(cmds).op = "stop"
    /\ LET c == Head(cmds) IN
       \/ /\ proc' = [proc EXCEPT ![c.at] = IF @ = "live" THEN "gone" ELSE @]
          /\ inbox' = Append(inbox, Reply(c, "ok"))
       \/ /\ proc[c.at] = "live"
          /\ UNCHANGED proc
          /\ inbox' = Append(inbox, Reply(c, "error"))
    /\ cmds' = Tail(cmds)
    /\ attached' = attached \ {Head(cmds).at}
    /\ UNCHANGED <<rowVars, workVars, cur, up>>

Exited(s) == [kind |-> "exited", at |-> s]

(* The CLI ends; only the attach client tells Central.                     *)
CliExits(s) ==
    /\ proc[s] = "live"
    /\ proc' = [proc EXCEPT ![s] = "gone"]
    /\ attached' = attached \ {s}
    /\ inbox' = IF s \in attached THEN Append(inbox, Exited(s)) ELSE inbox
    /\ UNCHANGED <<rowVars, workVars, cur, up, cmds>>

(* A graceful stop of the daemon cancels the attach clients' context; each *)
(* may report an exit before the connection closes.                        *)
Shutdown ==
    /\ Connected
    /\ up
    /\ up' = FALSE
    /\ \E S \in SUBSET attached : \E q \in SetToSeqs(S) :
        inbox' = inbox \o [i \in DOMAIN q |-> Exited(q[i])]
                       \o <<[kind |-> "shutdown"]>>
    /\ attached' = {}
    /\ UNCHANGED <<rowVars, workVars, cur, cmds, proc>>

(* A browser's gateway has the daemon attach; the attach client stays when *)
(* the browser leaves.                                                     *)
Attach(s) ==
    /\ row[s] # "none"
    /\ Connected
    /\ up
    /\ proc[s] = "live"
    /\ attached' = attached \cup {s}
    /\ UNCHANGED <<rowVars, workVars, linkVars, proc>>
-----------------------------------------------------------------------------
Work(w) ==
    \/ Replaced(w) \/ Started(w) \/ StartFailed(w) \/ Flush(w) \/ StopChild(w)
    \/ Commit(w) \/ TerminateFails(w) \/ WriteBroke(w) \/ DatabaseRefuses(w)

Arrive(w) == OpenCli(w) \/ \E s \in Sessions : Terminate(w, s) \/ (s # Cli /\ OpenShell(w, s))

Read == ReadReply \/ ReadExited \/ ReadShutdown
Handle == HandleStart \/ HandleStop

(* History only: the code keeps nothing of the kind.                       *)
ParentEnds ==
    row[Cli] \in Ended \/ \E w \in Workers : pc[w] = "cascade" /\ job[w].at = Cli
Remember ==
    late' = IF ParentEnds
            THEN late \cup {s \in Shells : row[s] = "none" /\ row'[s] = "running"}
            ELSE late

Step ==
    \/ \E w \in Requests : Arrive(w)
    \/ \E w \in Workers : Work(w) \/ Timeout(w)
    \/ Read \/ Handle \/ LinkDrops \/ Shutdown
    \/ \E s \in Sessions : Delete(s) \/ CliExits(s) \/ Attach(s)

Next == Step /\ Remember

Spec == Init /\ [][Next]_vars

(* A transaction goes on when it can, a request times out, and the event   *)
(* loop runs the receive loop when it has something to read.               *)
Fairness ==
    /\ \A w \in Workers : WF_state(Work(w)) /\ WF_state(Timeout(w))
    /\ WF_state(Read)

FairSpec == Spec /\ Fairness
-----------------------------------------------------------------------------
Places == {"idle", "starting", "replacing", "stopping", "judging", "cascade",
           "done", "dead"}

(* Every variable holds a value of its kind, and a row is only ever        *)
(* committed as running or ended: "starting" and "terminating" are never   *)
(* visible to another transaction.                                         *)
TypeOK ==
    /\ row \in [Sessions -> {"none", "running"} \cup Ended]
    /\ lock \in [Sessions -> Workers \cup {Nobody}]
    /\ \A w \in Workers :
        /\ job[w].kind \in {"none", "open", "terminate", "event"}
        /\ job[w].at \in Sessions \cup {NoSession}
        /\ job[w].old \in Shells \cup {NoSession}
        /\ call[w].op \in {"none", "start", "stop"}
        /\ call[w].at \in Sessions \cup {NoSession}
        /\ call[w].result \in {"none", "waiting", "ok", "error", "failed", "broken"}
    /\ pc \in [Workers -> Places]
    /\ todo \in [Workers -> SUBSET Shells]
    /\ ended \in [Workers -> SUBSET Shells]
    /\ cur \in 1 .. MaxConnections + 1
    /\ up \in BOOLEAN
    /\ proc \in [Sessions -> {"none", "live", "gone"}]
    /\ attached \subseteq Sessions /\ late \subseteq Shells

(* One terminal per workspace: two opens that raced, each having seen no   *)
(* live shell, never both leave one behind in the database.                *)
OneLiveShell == Cardinality(LiveShells) <= 1

(* A row that has ended stays ended, whichever writers overlap, until it   *)
(* is deleted: it never becomes live again.                                *)
EndedStaysEnded ==
    [][\A s \in Sessions : row[s] \in Ended => row'[s] \notin Active]_vars

(* A session the console shows as running was started by the daemon.       *)
RunningWasStarted == \A s \in Sessions : row[s] = "running" => proc[s] # "none"

(* Transactions never wait for each other's row locks in a circle, so no   *)
(* writer of a session is the database's deadlock victim.                  *)
Wants(w) ==
    IF pc[w] = "replacing" /\ Settled(w) THEN {job[w].old}
    ELSE IF Judged(w) THEN {job[w].at}
    ELSE IF pc[w] = "cascade" /\ Settled(w) /\ todo[w] = {} THEN Pending(w)
    ELSE {}

WaitsFor(v, w) == v # w /\ \E s \in Wants(v) : lock[s] = w

NoLockCycle ==
    \A v, w \in Workers : WaitsFor(v, w) => ~WaitsFor(w, v)

(* Every request and every handler of the receive loop comes to an end,    *)
(* though the loop may be waiting for a row that a request holds while     *)
(* that request waits for a reply only the loop could read.                *)
EveryTransactionEnds ==
    \A w \in Workers : pc[w] \notin {"idle", "done", "dead"}
                            ~> pc[w] \in {"idle", "done", "dead"}

(* "Its shell must not outlive it either" (sessions.py:455): a CLI session *)
(* that ends takes every shell with it, however it ends and whatever the   *)
(* node answers, but for one recorded after the cascade had read them.     *)
OnlyLateShellsOutlive == row[Cli] \in Ended => LiveShells \subseteq late

(* A daemon restart does not touch running CLI sessions.                   *)
ExitedMeansGone == \A s \in Sessions : row[s] = "exited" => proc[s] # "live"

=============================================================================
