------------------------------ MODULE HostUpdate ------------------------------
(***************************************************************************)
(* `sudo agentd update` on one node (daemon/internal/update/update.go and  *)
(* files.go): back the binary up, replace it, restart the unit, wait until *)
(* it is healthy, or else put the backup back and restart again.  Each is  *)
(* a process of its own.  The one lock of the code excludes two updates of *)
(* the same process, which never happen here: processes that overlap share *)
(* the binary, its backups and the unit.                                   *)
(*                                                                         *)
(* A file is the release it holds, or Partial while, or because, only some *)
(* of it has been written: a copy truncates the file first (copyFile), and *)
(* may fail or be killed before its end.  Asking for the release that the  *)
(* updating executable already is changes nothing.                         *)
(***************************************************************************)
EXTENDS Naturals

CONSTANTS
    Updaters,       \* `agentd update` processes at once
    Releases,       \* versions of the daemon
    FirstRelease,   \* the one installed first
    MaxUpdates,     \* bound: updates started
    Partial,        \* a file that holds a part of a release
    NoRelease       \* no file of that name

ASSUME HostAssumption ==
    /\ NoRelease \notin Releases \cup {Partial} /\ Partial \notin Releases
    /\ FirstRelease \in Releases
    /\ MaxUpdates \in Nat

VARIABLES
    binary,     \* the release installed
    backup,     \* what each backup holds, by the version in its name
    beside,     \* the files renamed over the binary: `.new` and `.rollback`
    runs,       \* the release the unit runs
    cli,        \* each `agentd update`
    left        \* updates that may still start

vars == <<binary, backup, beside, runs, cli, left>>
disk == <<binary, backup, beside>>

Outcomes == {"succeeded", "failed", "rolled_back"}

Files == Releases \cup {Partial}
Slots == Files \cup {NoRelease}

\* alone: no other update has been at work since this one began.  reads: what
\* the copy in progress reads (Partial between copies).
Process == [at : {"idle", "verified", "backing", "backed", "staging", "staged",
                  "swapped", "restarted", "undo", "copying", "copied", "restored"},
            from : Releases, target : Releases, alone : BOOLEAN, reads : Files,
            outcome : Outcomes \cup {"none"}]

TypeOK ==
    /\ binary \in Files /\ backup \in [Releases -> Slots]
    /\ beside \in [{"new", "rollback"} -> Slots]
    /\ runs \in Files /\ left \in Nat
    /\ cli \in [Updaters -> Process]

Ready == [at |-> "idle", from |-> FirstRelease, target |-> FirstRelease,
          alone |-> FALSE, reads |-> Partial, outcome |-> "none"]

Init ==
    /\ binary = FirstRelease /\ backup = [r \in Releases |-> NoRelease]
    /\ beside = [f \in {"new", "rollback"} |-> NoRelease]
    /\ runs = FirstRelease /\ left = MaxUpdates
    /\ cli = [u \in Updaters |-> Ready]
-----------------------------------------------------------------------------
(* The unit starts again, from the binary now installed.                   *)
UnitRestarts == runs' = binary /\ UNCHANGED <<disk, left>>

UnitCrashes == UnitRestarts /\ UNCHANGED cli

(* `agentd update`.  Its lock excludes updates of the same process only.   *)

(* The manifest, the archive, its digest and its version are checked; the  *)
(* version it replaces is the one of its own executable.                   *)
Start(u, r) ==
    /\ cli[u].at = "idle" /\ binary \in Releases \ {r}
    /\ cli' = [o \in Updaters |->
                 IF o = u
                 THEN [at |-> "verified", from |-> binary, target |-> r,
                       alone |-> \A p \in Updaters : cli[p].at = "idle",
                       reads |-> Partial, outcome |-> "none"]
                 ELSE [cli[o] EXCEPT !.alone = FALSE]]
    /\ left > 0 /\ left' = left - 1
    /\ UNCHANGED <<disk, runs>>

Moves(u, from, to, reads) ==
    /\ cli[u].at = from
    /\ cli' = [cli EXCEPT ![u] = [@ EXCEPT !.at = to, !.reads = reads]]

Finishes(u, outcome) == cli' = [cli EXCEPT ![u] = [Ready EXCEPT !.outcome = outcome]]

Aside == UNCHANGED <<runs, left>>
NothingDone == Aside /\ UNCHANGED disk

(* swapBinary: the backup.                                                 *)
BackUpOpens(u) ==
    /\ \/ /\ Moves(u, "verified", "backing", binary)
          /\ backup' = [backup EXCEPT ![cli[u].from] = Partial]
       \/ cli[u].at = "verified" /\ Finishes(u, "failed") /\ UNCHANGED backup
    /\ Aside /\ UNCHANGED <<binary, beside>>

(* Mutant: the backup takes the name of the release to come.               *)
BackUp_UnderTarget(u) ==
    /\ \/ /\ Moves(u, "backing", "backed", Partial)
          /\ backup' = [backup EXCEPT ![cli[u].target] = cli[u].reads]
       \/ cli[u].at = "backing" /\ Finishes(u, "failed") /\ UNCHANGED backup
    /\ Aside /\ UNCHANGED <<binary, beside>>

BackUp(u) ==
    /\ \/ /\ Moves(u, "backing", "backed", Partial)
          /\ backup' = [backup EXCEPT ![cli[u].from] = cli[u].reads]
       \/ cli[u].at = "backing" /\ Finishes(u, "failed") /\ UNCHANGED backup
    /\ Aside /\ UNCHANGED <<binary, beside>>

(* The file being written may have been renamed or taken away by an update *)
(* that overlaps: the rest lands in the binary then, or nowhere.           *)
LandsInBinary(u) ==
    \/ UNCHANGED binary
    \/ ~cli[u].alone /\ binary = Partial /\ binary' = cli[u].reads
LandsIn(u, f) ==
    \/ beside' = [beside EXCEPT ![f] = cli[u].reads]
    \/ ~cli[u].alone /\ UNCHANGED beside

(* swapBinary: the new binary beside the old one.  A failure takes `.new`  *)
(* away, whoever's it is.                                                  *)
StageOpens(u) ==
    /\ \/ /\ Moves(u, "backed", "staging", cli[u].target)
          /\ beside' = [beside EXCEPT !["new"] = Partial]
       \/ /\ cli[u].at = "backed" /\ Finishes(u, "failed")
          /\ beside' = [beside EXCEPT !["new"] = NoRelease]
    /\ Aside /\ UNCHANGED <<binary, backup>>

Stage(u) ==
    /\ LandsInBinary(u)
    /\ \/ /\ Moves(u, "staging", "staged", Partial) /\ beside["new"] # NoRelease
          /\ LandsIn(u, "new")
       \/ /\ cli[u].at = "staging" /\ Finishes(u, "failed")
          /\ beside' = [beside EXCEPT !["new"] = NoRelease]
    /\ Aside /\ UNCHANGED backup

Swap(u) ==
    /\ beside' = [beside EXCEPT !["new"] = NoRelease]
    /\ \/ /\ Moves(u, "staged", "swapped", Partial) /\ beside["new"] # NoRelease
          /\ binary' = beside["new"]
       \/ cli[u].at = "staged" /\ Finishes(u, "failed") /\ UNCHANGED binary
    /\ Aside /\ UNCHANGED backup

Restart(u) ==
    \/ Moves(u, "swapped", "restarted", Partial) /\ UnitRestarts
    \/ Moves(u, "swapped", "undo", Partial) /\ NothingDone

(* awaitHealthy, within HealthTimeout.  Part of a binary does not run.     *)
HealthCheck(u) ==
    /\ \/ cli[u].at = "restarted" /\ runs \in Releases /\ Finishes(u, "succeeded")
       \/ Moves(u, "restarted", "undo", Partial)
    /\ NothingDone

(* rollback: restoreBinary, then the unit again.  An update that overlaps  *)
(* may be writing the backup that is read.                                 *)
CopyOpens(u) ==
    /\ \/ /\ backup[cli[u].from] # NoRelease
          /\ \/ Moves(u, "undo", "copying", backup[cli[u].from])
             \/ ~cli[u].alone /\ Moves(u, "undo", "copying", Partial)
          /\ beside' = [beside EXCEPT !["rollback"] = Partial]
       \/ cli[u].at = "undo" /\ Finishes(u, "failed") /\ UNCHANGED beside
    /\ Aside /\ UNCHANGED <<binary, backup>>

Copy(u) ==
    /\ LandsInBinary(u)
    /\ \/ /\ Moves(u, "copying", "copied", Partial) /\ beside["rollback"] # NoRelease
          /\ LandsIn(u, "rollback")
       \/ cli[u].at = "copying" /\ Finishes(u, "failed") /\ UNCHANGED beside
    /\ Aside /\ UNCHANGED backup

(* Mutant: nobody looks whether there is a file to rename.                 *)
Restore_Unchecked(u) ==
    /\ beside' = [beside EXCEPT !["rollback"] = NoRelease]
    /\ Moves(u, "copied", "restored", Partial)
    /\ binary' = beside["rollback"]
    /\ Aside /\ UNCHANGED backup

Restore(u) ==
    /\ beside' = [beside EXCEPT !["rollback"] = NoRelease]
    /\ \/ /\ Moves(u, "copied", "restored", Partial) /\ beside["rollback"] # NoRelease
          /\ binary' = beside["rollback"]
       \/ cli[u].at = "copied" /\ Finishes(u, "failed") /\ UNCHANGED binary
    /\ Aside /\ UNCHANGED backup

RestartBack(u) ==
    /\ cli[u].at = "restored"
    /\ \/ Finishes(u, "rolled_back") /\ UnitRestarts
       \/ Finishes(u, "failed") /\ NothingDone

(* The operator stops it, or the host loses it, at any point.              *)
Killed(u) ==
    /\ cli[u].at # "idle"
    /\ Finishes(u, "none")
    /\ NothingDone
-----------------------------------------------------------------------------
Updating(u) ==
    \/ BackUpOpens(u) \/ BackUp(u) \/ StageOpens(u) \/ Stage(u) \/ Swap(u)
    \/ Restart(u) \/ HealthCheck(u)
    \/ CopyOpens(u) \/ Copy(u) \/ Restore(u) \/ RestartBack(u)

Next ==
    \/ UnitCrashes
    \/ \E u \in Updaters : Updating(u) \/ Killed(u) \/ \E r \in Releases : Start(u, r)

Spec == Init /\ [][Next]_vars
-----------------------------------------------------------------------------
(* An update that no other overlaps leaves a whole release installed, the  *)
(* old or the new one, however it ends, and tells the truth: when it       *)
(* succeeded the target is installed and is what the unit runs; when it    *)
(* rolled back, so is the release it replaced, whatever crashes, kills and *)
(* earlier updates have left behind.                                       *)
Truthful(u) ==
    cli[u].at # "idle" /\ cli[u].alone /\ cli'[u].at = "idle" =>
        /\ binary' \in {cli[u].from, cli[u].target}
        /\ cli'[u].outcome = "succeeded" => binary' = cli[u].target /\ runs' = cli[u].target
        /\ cli'[u].outcome = "rolled_back" => binary' = cli[u].from /\ runs' = cli[u].from
OutcomesAreTrue == [][\A u \in Updaters : Truthful(u)]_vars
=============================================================================
