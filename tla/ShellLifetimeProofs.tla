------------------------ MODULE ShellLifetimeProofs ------------------------
(***************************************************************************)
(* For any number of browsers, any sleeps and attempts, and any number of  *)
(* restarts of Central: a deserted shell is timed or has lapsed, and the   *)
(* reaper takes a shell only from a browser it had no chance to see.       *)
(***************************************************************************)
EXTENDS ShellLifetime, TLAPS

(* A subscriber whose coroutine is gone is one of the lapses, and is not   *)
(* forgotten: a timer is armed when nobody is subscribed.                  *)
LeakIsLapse == (\E b \in Browsers : gate[b] = "abandoned") => lapse # "none"

(* While the shell is being ended, whoever is served has come since the    *)
(* task found nobody.                                                      *)
EndsUnwatched ==
    timer = "ending" => \A b \in Browsers : gate[b] = "serving" => b \in back

ShellInv == TypeOK /\ LeakIsLapse /\ DesertedIsTimed /\ EndsUnwatched

LEMMA ShellInit == Init => ShellInv
  BY ShellAssumption
  DEF Init, ShellInv, TypeOK, Tasks, Lapses, LeakIsLapse, DesertedIsTimed, EndsUnwatched
-----------------------------------------------------------------------------
(* What schedule() leaves behind, when there is no subscriber left.        *)
LEMMA ScheduleTimes ==
  ASSUME ShellInv, Schedule
  PROVE  /\ timer' \in Tasks /\ left' \in Nat /\ (left' > 0 => timer' = "asleep")
         /\ attempt' \in 1 .. MaxAttempts /\ lapse' \in Lapses
         /\ timer' \in {"asleep", "ending"} \/ lapse' # "none"
         /\ timer' = "ending" => timer = "ending"
  BY ShellAssumption
  DEF ShellInv, TypeOK, Schedule, Sleeps, Stays, Tasks, Lapses

(* The end of a teardown: b is no longer subscribed.                       *)
LEMMA TeardownKeeps ==
  ASSUME ShellInv, NEW b \in Browsers, gate[b] \in {"serving", "leaving"},
         gate' = [gate EXCEPT ![b] = "away"], LastLeft(Subscribed \ {b}),
         UNCHANGED <<row, restarts, back>>
  PROVE  ShellInv'
<1> USE DEF ShellInv
<1>1. /\ timer' \in Tasks /\ left' \in Nat /\ (left' > 0 => timer' = "asleep")
      /\ attempt' \in 1 .. MaxAttempts /\ lapse' \in Lapses
      /\ timer' = "ending" => timer = "ending"
  BY ScheduleTimes DEF LastLeft, Stays, TypeOK
<1>2. TypeOK'
  BY <1>1 DEF TypeOK
<1>3. \A c \in Browsers : gate'[c] = IF c = b THEN "away" ELSE gate[c]
  BY DEF TypeOK
<1>4. EndsUnwatched'
  BY <1>1, <1>3 DEF EndsUnwatched
<1>5. CASE Subscribed \ {b} = {}
  <2>1. \A c \in Browsers : gate'[c] \notin {"serving", "abandoned"}
    BY <1>3, <1>5 DEF Subscribed
  <2>2. timer' \in {"asleep", "ending"} \/ lapse' # "none"
    BY <1>5, ScheduleTimes DEF LastLeft
  <2> QED BY <1>2, <1>4, <2>1, <2>2 DEF LeakIsLapse, DesertedIsTimed
<1>6. CASE Subscribed \ {b} # {}
  <2>1. lapse' = lapse
    BY <1>6 DEF LastLeft
  <2>2. PICK c \in Browsers \ {b} : gate[c] \in {"serving", "abandoned"}
    BY <1>6 DEF Subscribed
  <2>3. LeakIsLapse'
    BY <1>3, <2>1 DEF LeakIsLapse
  <2>4. DesertedIsTimed'
    BY <1>3, <2>1, <2>2 DEF DesertedIsTimed, Deserted, LeakIsLapse
  <2> QED BY <1>2, <1>4, <2>3, <2>4
<1> QED BY <1>5, <1>6

(* The task.                                                               *)
LEMMA TaskKeeps ==
  ASSUME ShellInv, Wake \/ Reap \/ Fail \/ Break \/ Forget
  PROVE  ShellInv'
<1> USE ShellAssumption DEF ShellInv, TypeOK, Tasks, Lapses, LeakIsLapse, EndsUnwatched,
     DesertedIsTimed, Deserted
<1>1. CASE Wake /\ Subscribed # {}
  BY <1>1 DEF Wake, Returns, Subscribed
<1>2. CASE Wake /\ Subscribed = {}
  BY <1>2 DEF Wake, Subscribed
<1>3. CASE Reap
  BY <1>3 DEF Reap, Returns
<1>4. CASE Fail
  BY <1>4 DEF Fail, Returns, Sleeps
<1>5. CASE Break
  BY <1>5 DEF Break, Returns
<1>6. CASE Forget
  BY <1>6 DEF Forget
<1> QED BY <1>1, <1>2, <1>3, <1>4, <1>5, <1>6

(* The browsers.                                                           *)
LEMMA BrowserKeeps ==
  ASSUME ShellInv, NEW b \in Browsers,
         Subscribe(b) \/ Leave(b) \/ PumpEnds(b) \/ Abandon(b)
  PROVE  ShellInv'
<1> USE DEF ShellInv
<1>1. CASE Subscribe(b)
  BY <1>1 DEF Subscribe, TypeOK, LeakIsLapse, EndsUnwatched, DesertedIsTimed, Deserted
<1>2. CASE Abandon(b)
  BY <1>2 DEF Abandon, TypeOK, Lapses, LeakIsLapse, EndsUnwatched, DesertedIsTimed, Deserted
<1>3. CASE Leave(b) /\ gate' = [gate EXCEPT ![b] = "leaving"]
  <2>1. \A c \in Browsers : gate'[c] = IF c = b THEN "leaving" ELSE gate[c]
    BY <1>3 DEF TypeOK
  <2>2. UNCHANGED <<row, timer, left, attempt, restarts, back, lapse>>
    BY <1>3, <2>1 DEF Leave, Stays
  <2> QED
    BY <1>3, <2>1, <2>2 DEF TypeOK, LeakIsLapse, EndsUnwatched, DesertedIsTimed, Deserted
<1>4. CASE Leave(b) /\ gate' = [gate EXCEPT ![b] = "away"] /\ LastLeft(Subscribed \ {b})
  BY <1>4, TeardownKeeps DEF Leave
<1>5. CASE PumpEnds(b)
  <2>1. Subscribed \ {b} = Subscribed
    BY <1>5 DEF PumpEnds, Subscribed
  <2> QED BY <1>5, <2>1, TeardownKeeps DEF PumpEnds
<1> QED BY <1>1, <1>2, <1>3, <1>4, <1>5 DEF Leave

(* The rest.                                                               *)
LEMMA CentralKeeps ==
  ASSUME ShellInv, EndElsewhere \/ Restart \/ Tick
  PROVE  ShellInv'
<1> USE ShellAssumption DEF ShellInv, TypeOK, Tasks, Lapses, LeakIsLapse, EndsUnwatched,
     DesertedIsTimed, Deserted
<1>1. CASE EndElsewhere
  BY <1>1 DEF EndElsewhere
<1>2. CASE Restart
  BY <1>2 DEF Restart, Sleeps
<1>3. CASE Tick
  BY <1>3 DEF Tick
<1> QED BY <1>1, <1>2, <1>3

LEMMA ShellStep == ShellInv /\ [Next]_vars => ShellInv'
<1> SUFFICES ASSUME ShellInv, [Next]_vars PROVE ShellInv'
  OBVIOUS
<1>1. CASE UNCHANGED vars
  BY <1>1 DEF vars, ShellInv, TypeOK, LeakIsLapse, EndsUnwatched, DesertedIsTimed, Deserted
<1>2. CASE Next
  BY <1>2, TaskKeeps, BrowserKeeps, CentralKeeps DEF Next
<1> QED BY <1>1, <1>2
-----------------------------------------------------------------------------
(* The invariant holds in every reachable state.                           *)
THEOREM ShellKeepsInv == Spec => []ShellInv
  BY ShellInit, ShellStep, PTL DEF Spec

(* Every variable holds a value of its kind; no task sleeps but one that   *)
(* is asleep, and no attempt is beyond the last.                           *)
THEOREM ShellTypes == Spec => []TypeOK
<1>1. ShellInv => TypeOK
  BY DEF ShellInv
<1> QED BY <1>1, ShellKeepsInv, PTL

(* A live shell with nobody left to watch it has a task that will end it,  *)
(* or something of the six lapses has happened since one was armed.        *)
THEOREM DesertedShellsAreTimed == Spec => []DesertedIsTimed
<1>1. ShellInv => DesertedIsTimed
  BY DEF ShellInv
<1> QED BY <1>1, ShellKeepsInv, PTL

(* The reaper ends a live shell under nobody who was subscribed when it    *)
(* last looked.                                                            *)
THEOREM WatchedShellsAreKept == Spec => WatchedIsKept
<1> DEFINE Kept == Reaped => \A b \in Browsers : gate[b] = "serving" => b \in back
<1>1. ShellInv => Kept
  BY DEF ShellInv, EndsUnwatched, Reaped
<1>2. ShellInv /\ [Next]_vars => [Kept]_vars
  BY <1>1
<1> QED BY <1>2, ShellKeepsInv, PTL DEF Spec, WatchedIsKept
=============================================================================
