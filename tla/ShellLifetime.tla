---------------------------- MODULE ShellLifetime ----------------------------
(***************************************************************************)
(* Who ends a system terminal that nobody watches: the timers of           *)
(* ShellReaper (backend/app/services/shell_reaper.py), the browsers'       *)
(* gateways that arm them when the last one leaves (api/ws/terminal.py),   *)
(* and a Central that restarts and arms them again (main.py).  One shell.  *)
(*                                                                         *)
(* A timer is a task in the reaper's table: asleep, ending the shell, or   *)
(* over but not yet taken out of the table by its done-callback.  A step   *)
(* is the code between two suspension points, and one Tick is a unit of    *)
(* the sleeps.  How a browser is served is TerminalHub, and how a row is   *)
(* ended by others, and what the node does of it, SessionLifecycle.        *)
(***************************************************************************)
EXTENDS Naturals

CONSTANTS
    Browsers,     \* connections to the shell, each again once it is over
    Idle,         \* shell_idle_terminate_seconds, in Ticks
    Retry,        \* _RETRY_DELAY_SECONDS, in Ticks
    MaxAttempts,  \* _MAX_ATTEMPTS
    MaxRestarts   \* bound: restarts of Central

ASSUME ShellAssumption ==
    Idle \in Nat /\ Retry \in Nat /\ MaxAttempts \in Nat \ {0} /\ MaxRestarts \in Nat

VARIABLES
    row,      \* the committed row of the shell
    gate,     \* each browser's gateway
    timer,    \* the task in the reaper's table
    left,     \* what remains of its sleep
    attempt,  \* which of its attempts it is at
    restarts, \* how often Central was restarted
    back,     \* history: who subscribed since the task last looked
    lapse     \* history: why nothing may be left to end the shell

vars == <<row, gate, timer, left, attempt, restarts, back, lapse>>

Tasks == {"none", "asleep", "ending", "over"}
Lapses == {"none", "unseen", "missed", "gaveUp", "broke", "unreconciled", "leaked"}

TypeOK ==
    /\ row \in {"live", "ended", "gone"}
    /\ gate \in [Browsers -> {"away", "serving", "leaving", "abandoned"}]
    /\ timer \in Tasks
    /\ left \in Nat /\ (left > 0 => timer = "asleep")
    /\ attempt \in 1 .. MaxAttempts
    /\ restarts \in 0 .. MaxRestarts
    /\ back \subseteq Browsers
    /\ lapse \in Lapses

(* relay.subscriber_count: a coroutine that was abandoned never leaves it. *)
Subscribed == {b \in Browsers : gate[b] \in {"serving", "abandoned"}}

(* The shell has just been opened, and its browser has yet to attach.      *)
Init ==
    /\ row = "live"
    /\ gate = [b \in Browsers |-> "away"]
    /\ timer = "none" /\ left = 0 /\ attempt = 1
    /\ restarts = 0
    /\ back = {} /\ lapse = "unseen"
-----------------------------------------------------------------------------
(* The reaper.                                                             *)

Sleeps(n, ticks) == timer' = "asleep" /\ attempt' = n /\ left' = ticks
Stays == UNCHANGED <<timer, attempt, left>>

(* Mutant: every detach starts the timer anew.                             *)
Schedule_Restarts ==
    IF timer \in {"none", "asleep"}
    THEN Sleeps(1, Idle) /\ lapse' = "none"
    ELSE Stays /\ lapse' = IF timer = "over" THEN "missed" ELSE lapse

(* schedule(): a task that is in the table is left alone, even one that is *)
(* over and will do nothing more.                                          *)
Schedule ==
    IF timer = "none"
    THEN Sleeps(1, Idle) /\ lapse' = "none"
    ELSE Stays /\ lapse' = IF timer = "over" /\ lapse = "none" THEN "missed" ELSE lapse

Returns == timer' = "over" /\ left' = 0 /\ UNCHANGED attempt

(* Mutant: nobody asks the relay before the shell is ended.                *)
Wake_Unchecked ==
    /\ timer = "asleep" /\ left = 0
    /\ timer' = "ending" /\ back' = {}
    /\ UNCHANGED <<row, gate, left, attempt, restarts, lapse>>

(* The sleep is over: somebody who came back ends the task.                *)
Wake ==
    /\ timer = "asleep" /\ left = 0
    /\ IF Subscribed # {} THEN Returns ELSE timer' = "ending" /\ UNCHANGED <<left, attempt>>
    /\ back' = {}
    /\ UNCHANGED <<row, gate, restarts, lapse>>

(* The shell is read and found ended; or it is stopped and its row written *)
(* as terminated, whoever subscribes meanwhile.                            *)
Reap ==
    /\ timer = "ending" /\ row # "gone"
    /\ row' = "ended"
    /\ Returns
    /\ UNCHANGED <<gate, restarts, back, lapse>>

(* Mutant: one attempt too many.                                           *)
Fail_OneMore ==
    /\ timer = "ending"
    /\ IF attempt =< MaxAttempts
       THEN Sleeps(attempt + 1, Retry) /\ UNCHANGED lapse
       ELSE Returns /\ lapse' = "gaveUp"
    /\ UNCHANGED <<row, gate, restarts, back>>

(* An ApiError, from the node or for a row that is gone: another attempt   *)
(* after a while, but not for ever.                                        *)
Fail ==
    /\ timer = "ending"
    /\ IF attempt < MaxAttempts
       THEN Sleeps(attempt + 1, Retry) /\ UNCHANGED lapse
       ELSE Returns /\ lapse' = "gaveUp"
    /\ UNCHANGED <<row, gate, restarts, back>>

(* Any other exception, from the database, ends the task.                  *)
Break ==
    /\ timer = "ending"
    /\ Returns /\ lapse' = "broke"
    /\ UNCHANGED <<row, gate, restarts, back>>

(* The done-callback takes the task out of the table.                      *)
Forget ==
    /\ timer = "over"
    /\ timer' = "none" /\ attempt' = 1
    /\ UNCHANGED <<row, gate, left, restarts, back, lapse>>
-----------------------------------------------------------------------------
(* The browsers.                                                           *)

(* The handshake looks for the row, whatever its status.                   *)
Subscribe(b) ==
    /\ gate[b] = "away" /\ row # "gone"
    /\ gate' = [gate EXCEPT ![b] = "serving"]
    /\ back' = back \cup {b}
    /\ UNCHANGED <<row, timer, left, attempt, restarts, lapse>>

(* The end of _teardown, with those still subscribed.                      *)
LastLeft(rest) == IF rest = {} THEN Schedule ELSE Stays /\ UNCHANGED lapse

(* _teardown: it waits for the pump, unless the pump has ended before.     *)
Leave(b) ==
    /\ gate[b] = "serving"
    /\ \/ /\ gate' = [gate EXCEPT ![b] = "leaving"]
          /\ Stays /\ UNCHANGED lapse
       \/ /\ gate' = [gate EXCEPT ![b] = "away"]
          /\ LastLeft(Subscribed \ {b})
    /\ UNCHANGED <<row, restarts, back>>

PumpEnds(b) ==
    /\ gate[b] = "leaving"
    /\ gate' = [gate EXCEPT ![b] = "away"]
    /\ LastLeft(Subscribed)
    /\ UNCHANGED <<row, restarts, back>>

(* An exception between subscribe() and the try: no teardown.              *)
Abandon(b) ==
    /\ gate[b] = "serving"
    /\ gate' = [gate EXCEPT ![b] = "abandoned"]
    /\ lapse' = "leaked"
    /\ UNCHANGED <<row, timer, left, attempt, restarts, back>>
-----------------------------------------------------------------------------
(* The rest of Central, and time.                                          *)

(* The browser, the owner or the parent's end terminates it; a delete.     *)
EndElsewhere ==
    /\ row # "gone"
    /\ row' \in {"ended"} \cup (IF row = "ended" THEN {"gone"} ELSE {})
    /\ UNCHANGED <<gate, timer, left, attempt, restarts, back, lapse>>

(* Mutant: a restart arms nothing.                                         *)
Restart_Forgets ==
    /\ restarts < MaxRestarts /\ restarts' = restarts + 1
    /\ gate' = [b \in Browsers |-> "away"] /\ back' = {}
    /\ timer' = "none" /\ left' = 0 /\ attempt' = 1
    /\ lapse' = "none"
    /\ UNCHANGED row

(* Central stops, drained or not, and starts: the table is empty, what was *)
(* being ended is rolled back, and reconcile() arms a timer for a live row *)
(* before anything is served, unless it fails.                             *)
Restart ==
    /\ restarts < MaxRestarts /\ restarts' = restarts + 1
    /\ gate' = [b \in Browsers |-> "away"] /\ back' = {}
    /\ \/ /\ row = "live" /\ Sleeps(1, Idle) /\ lapse' = "none"
       \/ /\ timer' = "none" /\ left' = 0 /\ attempt' = 1
          /\ lapse' = "unreconciled"
    /\ UNCHANGED row

Tick ==
    /\ left > 0 /\ left' = left - 1
    /\ UNCHANGED <<row, gate, timer, attempt, restarts, back, lapse>>
-----------------------------------------------------------------------------
Next ==
    \/ Wake \/ Reap \/ Fail \/ Break \/ Forget
    \/ \E b \in Browsers : Subscribe(b) \/ Leave(b) \/ PumpEnds(b) \/ Abandon(b)
    \/ EndElsewhere \/ Restart \/ Tick

Spec == Init /\ [][Next]_vars

(* Time passes, the loop runs what is ready, and a stop has a timeout.     *)
Fairness == WF_vars(Tick) /\ WF_vars(Wake) /\ WF_vars(Reap \/ Fail \/ Break) /\ WF_vars(Forget)

FairSpec == Spec /\ Fairness
-----------------------------------------------------------------------------
(* "a shell running with nobody watching it - the one state this module    *)
(* exists to prevent" (shell_reaper.py:35): a live shell whose browsers    *)
(* are gone has a timer, unless one of the lapses has occurred since one   *)
(* was last armed.                                                         *)
Deserted == row = "live" /\ \A b \in Browsers : gate[b] \in {"away", "abandoned"}
DesertedIsTimed == Deserted => timer \in {"asleep", "ending"} \/ lapse # "none"

(* "a browser that reattaches during the window keeps its terminal": only   *)
(* one that subscribed after the task's last look at the relay can lose    *)
(* its live shell to the reaper.                                           *)
Reaped == timer = "ending" /\ timer' = "over" /\ row = "live" /\ row' = "ended"
WatchedIsKept ==
    [][Reaped => \A b \in Browsers : gate[b] = "serving" => b \in back]_vars

(* "a flapping connection cannot push the deadline out forever", nor does  *)
(* an absent node: whatever comes and goes, a task is over some day, with  *)
(* the shell ended, somebody back, or its attempts used up.                *)
TasksEnd == timer \in {"asleep", "ending"} ~> timer \in {"over", "none"}
=============================================================================
