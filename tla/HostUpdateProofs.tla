--------------------------- MODULE HostUpdateProofs ---------------------------
(***************************************************************************)
(* For any number of `agentd update` processes, releases and updates:      *)
(* HostUpdate keeps its types, and an update that no other overlaps tells  *)
(* the truth.  What it says at its end depends on everything it left on    *)
(* the disk, so the invariant carries that, step by step, with the fact    *)
(* that nobody else is about.                                              *)
(***************************************************************************)
EXTENDS HostUpdate, TLAPS

(* What an update that is alone has made of the disk so far.               *)
OnDisk(u) ==
    /\ cli[u].at \in {"verified", "backing", "backed", "staging", "staged", "restored"}
         => binary = cli[u].from
    /\ cli[u].at \in {"swapped", "restarted", "undo", "copying", "copied"}
         => binary = cli[u].target
    /\ cli[u].at \notin {"verified", "backing"} => backup[cli[u].from] = cli[u].from
    /\ cli[u].at \in {"backing", "copying"} => cli[u].reads = cli[u].from
    /\ cli[u].at = "staging" => cli[u].reads = cli[u].target
    /\ cli[u].at = "staged" => beside["new"] = cli[u].target
    /\ cli[u].at = "copied" => beside["rollback"] = cli[u].from
    /\ cli[u].at = "restarted" => runs = cli[u].target

Alone(u) == cli[u].at # "idle" /\ cli[u].alone

HostInv ==
    /\ TypeOK
    /\ \A u \in Updaters : Alone(u) => OnDisk(u)
    /\ \A u, o \in Updaters : Alone(u) /\ o # u => cli[o].at = "idle"

-----------------------------------------------------------------------------
LEMMA InitHolds == Init => HostInv
BY HostAssumption DEF Init, HostInv, TypeOK, Process, Ready, Outcomes, Alone, Files, Slots

(* A step of w, which was at work, leaves every other update as it was:    *)
(* idle, if w is alone; not alone, if it is not idle.                      *)
LEMMA OthersAreNotAlone ==
    ASSUME HostInv, NEW w \in Updaters, cli[w].at # "idle", NEW c \in Process,
           c.at = "idle" \/ c.alone = cli[w].alone,
           cli' = [cli EXCEPT ![w] = c]
    PROVE  /\ cli'[w] = c /\ cli' \in [Updaters -> Process]
           /\ \A u \in Updaters : Alone(u)' => u = w /\ Alone(w)
           /\ \A u, o \in Updaters : Alone(u)' /\ o # u => cli'[o].at = "idle"
<1>1. /\ cli'[w] = c /\ cli' \in [Updaters -> Process]
      /\ \A u \in Updaters : u # w => cli'[u] = cli[u]
  BY DEF HostInv, TypeOK
<1>2. ASSUME NEW u \in Updaters, Alone(u)'
      PROVE  u = w /\ Alone(w)
  <2>1. CASE u = w
    BY <2>1, <1>1, <1>2 DEF Alone
  <2>2. CASE u # w
    BY <2>2, <1>1, <1>2 DEF Alone, HostInv
  <2>. QED BY <2>1, <2>2
<1>3. ASSUME NEW u \in Updaters, NEW o \in Updaters, Alone(u)', o # u
      PROVE  cli'[o].at = "idle"
  BY <1>1, <1>2, <1>3 DEF HostInv
<1>. QED BY <1>1, <1>2, <1>3

(* An update that ends is at rest, and nobody is alone.                    *)
LEMMA FinishedFacts ==
    ASSUME HostInv, NEW w \in Updaters, cli[w].at # "idle",
           NEW out \in Outcomes \cup {"none"}, Finishes(w, out)
    PROVE  /\ cli'[w].at = "idle" /\ cli'[w].outcome = out
           /\ cli' \in [Updaters -> Process]
           /\ \A u \in Updaters : ~Alone(u)'
<1> DEFINE c == [Ready EXCEPT !.outcome = out]
<1>1. c \in Process /\ c.at = "idle" /\ c.outcome = out
  BY HostAssumption DEF Ready, Process, Files
<1>2. cli' = [cli EXCEPT ![w] = c]
  BY DEF Finishes
<1> HIDE DEF c
<1>3. /\ cli'[w] = c /\ cli' \in [Updaters -> Process]
      /\ \A u \in Updaters : Alone(u)' => u = w /\ Alone(w)
  BY <1>1, <1>2, OthersAreNotAlone
<1>. QED BY <1>1, <1>3 DEF Alone

Working == {"verified", "backing", "backed", "staging", "staged", "swapped", "restarted",
            "undo", "copying", "copied", "restored"}

(* An update that goes on keeps its releases and its being alone.          *)
LEMMA MovedFacts ==
    ASSUME HostInv, NEW w \in Updaters, NEW a \in Working, NEW b \in Working, NEW h \in Files,
           Moves(w, a, b, h)
    PROVE  /\ cli[w].at = a /\ cli'[w].at = b /\ cli'[w].reads = h
           /\ cli'[w].from = cli[w].from /\ cli'[w].target = cli[w].target
           /\ cli[w].from \in Releases /\ cli[w].target \in Releases
           /\ cli' \in [Updaters -> Process]
           /\ \A u \in Updaters : Alone(u)' => u = w /\ Alone(w)
           /\ \A u, o \in Updaters : Alone(u)' /\ o # u => cli'[o].at = "idle"
<1> DEFINE c == [cli[w] EXCEPT !.at = b, !.reads = h]
<1>1. cli[w] \in Process
  BY DEF HostInv, TypeOK
<1>2. /\ c \in Process /\ c.at = b /\ c.reads = h /\ c.from = cli[w].from /\ c.target = cli[w].target
      /\ c.alone = cli[w].alone /\ cli[w].from \in Releases /\ cli[w].target \in Releases
  BY <1>1 DEF Process, Working
<1>3. cli' = [cli EXCEPT ![w] = c] /\ cli[w].at = a /\ cli[w].at # "idle"
  BY <1>1 DEF Moves, Working, HostInv, TypeOK
<1> HIDE DEF c
<1>4. /\ cli'[w] = c /\ cli' \in [Updaters -> Process]
      /\ \A u \in Updaters : Alone(u)' => u = w /\ Alone(w)
      /\ \A u, o \in Updaters : Alone(u)' /\ o # u => cli'[o].at = "idle"
  BY <1>2, <1>3, OthersAreNotAlone
<1>. QED BY <1>2, <1>3, <1>4
-----------------------------------------------------------------------------
(* An update that ended without renaming anything else over the binary.    *)
LEMMA EndedKeeps ==
    ASSUME HostInv, NEW w \in Updaters, cli[w].at # "idle",
           NEW out \in Outcomes \cup {"none"}, Finishes(w, out),
           binary' \in Files, backup' \in [Releases -> Slots],
           beside' \in [{"new", "rollback"} -> Slots],
           runs' \in Files, left' \in Nat
    PROVE  HostInv'
<1>1. cli' \in [Updaters -> Process] /\ \A u \in Updaters : ~Alone(u)'
  BY FinishedFacts
<1>. QED BY <1>1 DEF HostInv, TypeOK

(* An update that went on, and left the disk as it should.                 *)
LEMMA MovedKeeps ==
    ASSUME HostInv, NEW w \in Updaters, NEW a \in Working, NEW b \in Working, NEW h \in Files,
           Moves(w, a, b, h), binary' \in Files, backup' \in [Releases -> Slots],
           beside' \in [{"new", "rollback"} -> Slots],
           runs' \in Files, left' \in Nat,
           Alone(w) => OnDisk(w)'
    PROVE  HostInv'
<1>1. /\ cli' \in [Updaters -> Process]
      /\ \A u \in Updaters : Alone(u)' => u = w /\ Alone(w)
      /\ \A u, o \in Updaters : Alone(u)' /\ o # u => cli'[o].at = "idle"
  BY MovedFacts
<1>2. TypeOK'
  BY <1>1 DEF TypeOK
<1>3. \A u \in Updaters : Alone(u)' => OnDisk(u)'
  BY <1>1
<1>. QED BY <1>1, <1>2, <1>3 DEF HostInv

LEMMA StartKeeps ==
    ASSUME HostInv, NEW w \in Updaters, NEW r \in Releases, Start(w, r)
    PROVE  HostInv'
<1> DEFINE c == [at |-> "verified", from |-> binary, target |-> r,
                 alone |-> \A p \in Updaters : cli[p].at = "idle",
                 reads |-> Partial, outcome |-> "none"]
<1>1. binary \in Releases /\ cli \in [Updaters -> Process]
  BY DEF HostInv, TypeOK, Start
<1>2. c \in Process
  BY <1>1 DEF Process, Files
<1>3. /\ cli'[w] = c
      /\ \A o \in Updaters : o # w => cli'[o] = [cli[o] EXCEPT !.alone = FALSE]
  BY DEF Start
<1>4. \A o \in Updaters : o # w => cli'[o].alone = FALSE /\ cli'[o].at = cli[o].at
  <2>. SUFFICES ASSUME NEW o \in Updaters, o # w
                PROVE  cli'[o].alone = FALSE /\ cli'[o].at = cli[o].at
    OBVIOUS
  <2>. HIDE DEF c
  <2>1. cli[o] \in Process /\ cli'[o] = [cli[o] EXCEPT !.alone = FALSE]
    BY <1>1, <1>3
  <2>. QED BY <2>1 DEF Process
<1>5. cli' \in [Updaters -> Process]
  <2>1. \A o \in Updaters : [cli[o] EXCEPT !.alone = FALSE] \in Process
    BY <1>1 DEF Process
  <2>. HIDE DEF c
  <2>2. cli' = [o \in Updaters |-> IF o = w THEN c ELSE [cli[o] EXCEPT !.alone = FALSE]]
    BY DEF Start, c
  <2>. QED BY <1>2, <2>1, <2>2
<1>6. \A u \in Updaters : Alone(u)' => u = w /\ \A p \in Updaters : cli[p].at = "idle"
  BY <1>3, <1>4 DEF Alone
<1>7. TypeOK'
  BY <1>5 DEF HostInv, TypeOK, Start, disk
<1>8. OnDisk(w)'
  BY <1>3 DEF OnDisk, Start, disk
<1>9. \A u, o \in Updaters : Alone(u)' /\ o # u => cli'[o].at = "idle"
  BY <1>4, <1>6
<1>. QED BY <1>6, <1>7, <1>8, <1>9 DEF HostInv

-----------------------------------------------------------------------------
LEMMA BackUpOpensKeeps ==
    ASSUME HostInv, NEW w \in Updaters, BackUpOpens(w)
    PROVE  HostInv'
<1>1. TypeOK /\ cli[w] \in Process /\ binary \in Files
  BY DEF HostInv, TypeOK
<1>2. CASE Moves(w, "verified", "backing", binary) /\ backup' = [backup EXCEPT ![cli[w].from] = Partial]
  <2>1. /\ cli[w].at = "verified" /\ cli'[w].at = "backing" /\ cli'[w].reads = binary
        /\ cli'[w].from = cli[w].from
    BY <1>1, <1>2, MovedFacts DEF Working
  <2>2. Alone(w) => binary = cli[w].from
    BY <2>1 DEF HostInv, OnDisk
  <2>3. Alone(w) => OnDisk(w)'
    BY <1>2, <2>1, <2>2 DEF OnDisk, BackUpOpens
  <2>4. backup' \in [Releases -> Slots]
    BY <1>1, <1>2 DEF TypeOK, Slots, Files
  <2>. QED BY <1>1, <1>2, <2>3, <2>4, MovedKeeps DEF Working, BackUpOpens, Aside, TypeOK
<1>3. CASE cli[w].at = "verified" /\ Finishes(w, "failed") /\ UNCHANGED backup
  BY <1>1, <1>3, EndedKeeps DEF BackUpOpens, Aside, TypeOK, Outcomes
<1>. QED BY <1>2, <1>3 DEF BackUpOpens

LEMMA BackUpKeeps ==
    ASSUME HostInv, NEW w \in Updaters, BackUp(w)
    PROVE  HostInv'
<1>1. TypeOK /\ cli[w] \in Process /\ Partial \in Files
  BY DEF HostInv, TypeOK, Files
<1>2. CASE /\ Moves(w, "backing", "backed", Partial)
           /\ backup' = [backup EXCEPT ![cli[w].from] = cli[w].reads]
  <2>1. /\ cli[w].at = "backing" /\ cli'[w].at = "backed"
        /\ cli'[w].from = cli[w].from /\ cli[w].from \in Releases
    BY <1>1, <1>2, MovedFacts DEF Working
  <2>2. Alone(w) => binary = cli[w].from /\ cli[w].reads = cli[w].from
    BY <2>1 DEF HostInv, OnDisk
  <2>3. Alone(w) => OnDisk(w)'
    BY <1>1, <1>2, <2>1, <2>2 DEF OnDisk, BackUp, Aside, TypeOK
  <2>4. backup' \in [Releases -> Slots]
    BY <1>1, <1>2 DEF TypeOK, Process, Slots
  <2>. QED BY <1>1, <1>2, <2>3, <2>4, MovedKeeps DEF Working, BackUp, Aside, TypeOK
<1>3. CASE cli[w].at = "backing" /\ Finishes(w, "failed") /\ UNCHANGED backup
  BY <1>1, <1>3, EndedKeeps DEF BackUp, Aside, TypeOK, Outcomes
<1>. QED BY <1>2, <1>3 DEF BackUp

LEMMA StageOpensKeeps ==
    ASSUME HostInv, NEW w \in Updaters, StageOpens(w)
    PROVE  HostInv'
<1>1. TypeOK /\ cli[w] \in Process /\ cli[w].target \in Files
  BY DEF HostInv, TypeOK, Files, Process
<1>2. CASE Moves(w, "backed", "staging", cli[w].target) /\ beside' = [beside EXCEPT !["new"] = Partial]
  <2>1. /\ cli[w].at = "backed" /\ cli'[w].at = "staging" /\ cli'[w].reads = cli[w].target
        /\ cli'[w].from = cli[w].from /\ cli'[w].target = cli[w].target
    BY <1>1, <1>2, MovedFacts DEF Working
  <2>2. Alone(w) => OnDisk(w)'
    BY <1>2, <2>1 DEF HostInv, OnDisk, StageOpens
  <2>3. beside' \in [{"new", "rollback"} -> Slots]
    BY <1>1, <1>2 DEF TypeOK, Slots, Files
  <2>. QED BY <1>1, <1>2, <2>2, <2>3, MovedKeeps DEF Working, StageOpens, Aside, TypeOK
<1>3. CASE /\ cli[w].at = "backed" /\ Finishes(w, "failed")
           /\ beside' = [beside EXCEPT !["new"] = NoRelease]
  <2>1. beside' \in [{"new", "rollback"} -> Slots]
    BY <1>1, <1>3 DEF TypeOK, Slots
  <2>. QED BY <1>1, <1>3, <2>1, EndedKeeps DEF StageOpens, Aside, TypeOK, Outcomes
<1>. QED BY <1>2, <1>3 DEF StageOpens

(* What is left to write of a copy is what it reads; alone, it lands where *)
(* it should.                                                              *)
LEMMA LandFacts ==
    ASSUME HostInv, NEW w \in Updaters, cli[w].at \in {"staging", "copying"}, LandsInBinary(w)
    PROVE  binary' \in Files /\ (Alone(w) => binary' = binary)
<1>1. binary \in Files /\ cli[w] \in Process
  BY DEF HostInv, TypeOK
<1>2. CASE UNCHANGED binary
  BY <1>1, <1>2
<1>3. CASE ~cli[w].alone /\ binary = Partial /\ binary' = cli[w].reads
  BY <1>1, <1>3 DEF Process, Alone
<1>. QED BY <1>2, <1>3 DEF LandsInBinary

LEMMA StageKeeps ==
    ASSUME HostInv, NEW w \in Updaters, Stage(w)
    PROVE  HostInv'
<1>1. /\ TypeOK /\ cli[w] \in Process /\ Partial \in Files
      /\ beside' \in [{"new", "rollback"} -> Slots]
  BY DEF HostInv, TypeOK, Slots, Files, Stage, LandsIn, Process
<1>2. binary' \in Files /\ (Alone(w) => binary' = binary)
  BY LandFacts DEF Stage, Moves
<1>3. CASE Moves(w, "staging", "staged", Partial) /\ LandsIn(w, "new")
  <2>1. /\ cli[w].at = "staging" /\ cli'[w].at = "staged"
        /\ cli'[w].from = cli[w].from /\ cli'[w].target = cli[w].target
    BY <1>1, <1>3, MovedFacts DEF Working
  <2>2. Alone(w) => OnDisk(w)'
    BY <1>1, <1>2, <1>3, <2>1 DEF HostInv, OnDisk, Stage, LandsIn, Alone, TypeOK
  <2>. QED BY <1>1, <1>2, <1>3, <2>2, MovedKeeps DEF Working, Stage, Aside, TypeOK
<1>4. CASE cli[w].at = "staging" /\ Finishes(w, "failed")
  BY <1>1, <1>2, <1>4, EndedKeeps DEF Stage, Aside, TypeOK, Outcomes
<1>. QED BY <1>3, <1>4 DEF Stage

LEMMA SwapKeeps ==
    ASSUME HostInv, NEW w \in Updaters, Swap(w)
    PROVE  HostInv'
<1>1. /\ TypeOK /\ cli[w] \in Process /\ Partial \in Files
      /\ binary' \in Files /\ beside' \in [{"new", "rollback"} -> Slots]
  BY DEF HostInv, TypeOK, Slots, Files, Swap
<1>2. CASE Moves(w, "staged", "swapped", Partial) /\ beside["new"] # NoRelease /\ binary' = beside["new"]
  <2>1. /\ cli[w].at = "staged" /\ cli'[w].at = "swapped"
        /\ cli'[w].from = cli[w].from /\ cli'[w].target = cli[w].target
    BY <1>1, <1>2, MovedFacts DEF Working
  <2>2. Alone(w) => OnDisk(w)'
    BY <1>1, <1>2, <2>1 DEF HostInv, OnDisk, Swap, Aside
  <2>. QED BY <1>1, <1>2, <2>2, MovedKeeps DEF Working, Swap, Aside, TypeOK
<1>3. CASE cli[w].at = "staged" /\ Finishes(w, "failed") /\ UNCHANGED binary
  BY <1>1, <1>3, EndedKeeps DEF Swap, Aside, TypeOK, Outcomes
<1>. QED BY <1>2, <1>3 DEF Swap

LEMMA RestartKeeps ==
    ASSUME HostInv, NEW w \in Updaters, Restart(w)
    PROVE  HostInv'
<1>1. TypeOK /\ cli[w] \in Process /\ Partial \in Files
  BY DEF HostInv, TypeOK, Files
<1>2. CASE Moves(w, "swapped", "restarted", Partial) /\ UnitRestarts
  <2>1. /\ cli[w].at = "swapped" /\ cli'[w].at = "restarted"
        /\ cli'[w].from = cli[w].from /\ cli'[w].target = cli[w].target
    BY <1>1, <1>2, MovedFacts DEF Working
  <2>2. Alone(w) => OnDisk(w)'
    BY <1>1, <1>2, <2>1 DEF HostInv, OnDisk, UnitRestarts, disk
  <2>. QED BY <1>1, <1>2, <2>2, MovedKeeps DEF Working, UnitRestarts, disk, TypeOK
<1>3. CASE Moves(w, "swapped", "undo", Partial) /\ NothingDone
  <2>1. /\ cli[w].at = "swapped" /\ cli'[w].at = "undo"
        /\ cli'[w].from = cli[w].from /\ cli'[w].target = cli[w].target
    BY <1>1, <1>3, MovedFacts DEF Working
  <2>2. Alone(w) => OnDisk(w)'
    BY <1>1, <1>3, <2>1 DEF HostInv, OnDisk, NothingDone, Aside, disk
  <2>. QED BY <1>1, <1>3, <2>2, MovedKeeps DEF Working, NothingDone, Aside, disk, TypeOK
<1>. QED BY <1>2, <1>3 DEF Restart

LEMMA HealthCheckKeeps ==
    ASSUME HostInv, NEW w \in Updaters, HealthCheck(w)
    PROVE  HostInv'
<1>1. TypeOK /\ cli[w] \in Process /\ NothingDone /\ Partial \in Files
  BY DEF HostInv, TypeOK, HealthCheck, Files
<1>2. CASE cli[w].at = "restarted" /\ Finishes(w, "succeeded")
  BY <1>1, <1>2, EndedKeeps DEF NothingDone, Aside, disk, TypeOK, Outcomes
<1>3. CASE Moves(w, "restarted", "undo", Partial)
  <2>1. /\ cli[w].at = "restarted" /\ cli'[w].at = "undo"
        /\ cli'[w].from = cli[w].from /\ cli'[w].target = cli[w].target
    BY <1>1, <1>3, MovedFacts DEF Working
  <2>2. Alone(w) => OnDisk(w)'
    BY <1>1, <2>1 DEF HostInv, OnDisk, NothingDone, Aside, disk
  <2>. QED BY <1>1, <1>3, <2>2, MovedKeeps DEF Working, NothingDone, Aside, disk, TypeOK
<1>. QED BY <1>2, <1>3 DEF HealthCheck

LEMMA CopyOpensKeeps ==
    ASSUME HostInv, NEW w \in Updaters, CopyOpens(w)
    PROVE  HostInv'
<1>1. /\ TypeOK /\ cli[w] \in Process /\ Partial \in Files
      /\ backup[cli[w].from] \in Slots /\ beside' \in [{"new", "rollback"} -> Slots]
  BY DEF HostInv, TypeOK, Slots, Files, Process, CopyOpens
<1>2. ASSUME NEW h \in Files, Moves(w, "undo", "copying", h), ~cli[w].alone \/ h = backup[cli[w].from],
             UNCHANGED backup
      PROVE  HostInv'
  <2>1. /\ cli[w].at = "undo" /\ cli'[w].at = "copying" /\ cli'[w].reads = h
        /\ cli'[w].from = cli[w].from /\ cli'[w].target = cli[w].target
    BY <1>1, <1>2, MovedFacts DEF Working
  <2>2. Alone(w) => OnDisk(w)'
    BY <1>2, <2>1 DEF HostInv, OnDisk, CopyOpens, Alone
  <2>. QED BY <1>1, <1>2, <2>2, MovedKeeps DEF Working, CopyOpens, Aside, TypeOK
<1>3. CASE cli[w].at = "undo" /\ Finishes(w, "failed")
  BY <1>1, <1>3, EndedKeeps DEF CopyOpens, Aside, TypeOK, Outcomes
<1>. QED BY <1>1, <1>2, <1>3 DEF CopyOpens, Slots, Aside

LEMMA CopyKeeps ==
    ASSUME HostInv, NEW w \in Updaters, Copy(w)
    PROVE  HostInv'
<1>1. /\ TypeOK /\ cli[w] \in Process /\ Partial \in Files
      /\ beside' \in [{"new", "rollback"} -> Slots]
  BY DEF HostInv, TypeOK, Slots, Files, Copy, LandsIn, Process
<1>2. binary' \in Files /\ (Alone(w) => binary' = binary)
  BY LandFacts DEF Copy, Moves
<1>3. CASE Moves(w, "copying", "copied", Partial) /\ LandsIn(w, "rollback")
  <2>1. /\ cli[w].at = "copying" /\ cli'[w].at = "copied"
        /\ cli'[w].from = cli[w].from /\ cli'[w].target = cli[w].target
    BY <1>1, <1>3, MovedFacts DEF Working
  <2>2. Alone(w) => OnDisk(w)'
    BY <1>1, <1>2, <1>3, <2>1 DEF HostInv, OnDisk, Copy, LandsIn, Alone, TypeOK
  <2>. QED BY <1>1, <1>2, <1>3, <2>2, MovedKeeps DEF Working, Copy, Aside, TypeOK
<1>4. CASE cli[w].at = "copying" /\ Finishes(w, "failed")
  BY <1>1, <1>2, <1>4, EndedKeeps DEF Copy, Aside, TypeOK, Outcomes
<1>. QED BY <1>3, <1>4 DEF Copy

LEMMA RestoreKeeps ==
    ASSUME HostInv, NEW w \in Updaters, Restore(w)
    PROVE  HostInv'
<1>1. /\ TypeOK /\ cli[w] \in Process /\ Partial \in Files
      /\ binary' \in Files /\ beside' \in [{"new", "rollback"} -> Slots]
  BY DEF HostInv, TypeOK, Slots, Files, Restore
<1>2. CASE /\ Moves(w, "copied", "restored", Partial) /\ beside["rollback"] # NoRelease
           /\ binary' = beside["rollback"]
  <2>1. /\ cli[w].at = "copied" /\ cli'[w].at = "restored"
        /\ cli'[w].from = cli[w].from /\ cli'[w].target = cli[w].target
    BY <1>1, <1>2, MovedFacts DEF Working
  <2>2. Alone(w) => OnDisk(w)'
    BY <1>1, <1>2, <2>1 DEF HostInv, OnDisk, Restore, Aside
  <2>. QED BY <1>1, <1>2, <2>2, MovedKeeps DEF Working, Restore, Aside, TypeOK
<1>3. CASE cli[w].at = "copied" /\ Finishes(w, "failed") /\ UNCHANGED binary
  BY <1>1, <1>3, EndedKeeps DEF Restore, Aside, TypeOK, Outcomes
<1>. QED BY <1>2, <1>3 DEF Restore

(* The steps that end an update, and what restarts the unit on its own.    *)
LEMMA EndKeeps ==
    ASSUME HostInv, NEW w \in Updaters, RestartBack(w) \/ Killed(w)
    PROVE  HostInv'
<1>1. TypeOK
  BY DEF HostInv
<1>2. CASE RestartBack(w)
  <2>1. CASE Finishes(w, "rolled_back") /\ UnitRestarts
    BY <1>1, <1>2, <2>1, EndedKeeps DEF RestartBack, UnitRestarts, disk, TypeOK, Outcomes
  <2>2. CASE Finishes(w, "failed") /\ NothingDone
    BY <1>1, <1>2, <2>2, EndedKeeps DEF RestartBack, NothingDone, Aside, disk, TypeOK, Outcomes
  <2>. QED BY <1>2, <2>1, <2>2 DEF RestartBack
<1>3. CASE Killed(w)
  BY <1>1, <1>3, EndedKeeps DEF Killed, NothingDone, Aside, disk, TypeOK, Outcomes
<1>. QED BY <1>2, <1>3

LEMMA CrashKeeps == HostInv /\ UnitCrashes => HostInv'
BY DEF HostInv, TypeOK, UnitCrashes, UnitRestarts, disk, Alone, OnDisk

LEMMA StepKeeps == HostInv /\ [Next]_vars => HostInv'
<1>. SUFFICES ASSUME HostInv, [Next]_vars PROVE HostInv'
  OBVIOUS
<1>1. CASE UnitCrashes
  BY <1>1, CrashKeeps
<1>2. ASSUME NEW u \in Updaters, NEW r \in Releases, Start(u, r) PROVE HostInv'
  BY <1>2, StartKeeps
<1>3. ASSUME NEW u \in Updaters, Updating(u) \/ Killed(u) PROVE HostInv'
  BY <1>3, BackUpOpensKeeps, BackUpKeeps, StageOpensKeeps, StageKeeps, SwapKeeps,
     RestartKeeps, HealthCheckKeeps, CopyOpensKeeps, CopyKeeps, RestoreKeeps, EndKeeps
     DEF Updating
<1>4. CASE UNCHANGED vars
  BY <1>4 DEF vars, HostInv, TypeOK, Alone, OnDisk
<1>. QED BY <1>1, <1>2, <1>3, <1>4 DEF Next
-----------------------------------------------------------------------------
(* HostInv holds in every reachable state.                                 *)
THEOREM HostKeepsInv == Spec => []HostInv
BY InitHolds, StepKeeps, PTL DEF Spec

(* The files and the processes keep their types: what is renamed over the  *)
(* binary is a file that exists, whole or, when updates overlap, in part.  *)
THEOREM HostTypes == Spec => []TypeOK
<1>1. HostInv => TypeOK
  BY DEF HostInv
<1>. QED BY <1>1, HostKeepsInv, PTL

(* An update that ends with success has found everything as it left it,    *)
(* one that rolled back has put the release of its name back, and one that *)
(* ends otherwise has left the binary it found or the one it installed.    *)
LEMMA EndIsTrue ==
    ASSUME HostInv, [Next]_vars, NEW u \in Updaters PROVE Truthful(u)
<1> DEFINE Whole == binary' \in {cli[u].from, cli[u].target}
           Silent == cli'[u].outcome \in {"failed", "none"}
<1>. SUFFICES ASSUME Alone(u), cli'[u].at = "idle" PROVE
        /\ Whole
        /\ cli'[u].outcome = "succeeded" => binary' = cli[u].target /\ runs' = cli[u].target
        /\ cli'[u].outcome = "rolled_back" => binary' = cli[u].from /\ runs' = cli[u].from
  BY DEF Truthful, Alone
<1>1. /\ cli \in [Updaters -> Process] /\ cli[u] \in Process /\ OnDisk(u)
      /\ binary \in Files /\ Partial \in Files
      /\ cli[u].at # "idle" /\ \A o \in Updaters : o # u => cli[o].at = "idle"
  BY DEF HostInv, TypeOK, Alone, Files
<1>2. binary \in {cli[u].from, cli[u].target}
  BY <1>1 DEF OnDisk, Process
<1>3. CASE UnitCrashes \/ UNCHANGED vars
  BY <1>1, <1>3 DEF UnitCrashes, vars
<1>4. ASSUME NEW w \in Updaters, NEW r \in Releases, Start(w, r) PROVE FALSE
  BY <1>1, <1>4 DEF Start, Process
<1>5. ASSUME NEW w \in Updaters, NEW a \in Working, NEW b \in Working, NEW h \in Files,
             Moves(w, a, b, h)
      PROVE  FALSE
  <2>1. cli[w].at = a /\ cli'[w].at = b
    BY <1>5, MovedFacts
  <2>. QED BY <1>1, <2>1 DEF Working
<1>6. ASSUME NEW w \in Updaters, cli[w].at # "idle", Finishes(w, "failed") \/ Finishes(w, "none")
      PROVE  w = u /\ Silent
  BY <1>1, <1>6, FinishedFacts DEF Outcomes
<1>7. ASSUME NEW w \in Updaters, cli[w].at = "restarted", Finishes(w, "succeeded"), NothingDone
      PROVE  w = u /\ binary' = cli[u].target /\ runs' = cli[u].target /\ cli'[u].outcome = "succeeded"
  BY <1>1, <1>7, FinishedFacts DEF NothingDone, Aside, disk, OnDisk, Outcomes
<1>8. ASSUME NEW w \in Updaters, cli[w].at = "restored", Finishes(w, "rolled_back"), UnitRestarts
      PROVE  w = u /\ binary' = cli[u].from /\ runs' = cli[u].from /\ cli'[u].outcome = "rolled_back"
  BY <1>1, <1>8, FinishedFacts DEF UnitRestarts, disk, OnDisk, Outcomes
<1>9. ASSUME NEW w \in Updaters, BackUpOpens(w) \/ StageOpens(w) \/ CopyOpens(w)
      PROVE  Whole /\ Silent
  <2>1. cli[w] \in Process /\ backup[cli[w].from] \in Slots
    BY <1>1 DEF HostInv, TypeOK, Process
  <2>2. ~(\E a \in Working, b \in Working, h \in Files : Moves(w, a, b, h))
    BY <1>5
  <2>3. Silent /\ UNCHANGED binary
    BY <1>1, <1>6, <1>9, <2>1, <2>2
       DEF BackUpOpens, StageOpens, CopyOpens, Working, Process, Slots, Files
  <2>. QED BY <1>2, <2>3
<1>10. ASSUME NEW w \in Updaters, BackUp(w) \/ Swap(w) \/ Restore(w) \/ Killed(w)
       PROVE  Whole /\ Silent
  <2>1. Silent /\ UNCHANGED binary
    BY <1>1, <1>5, <1>6, <1>10
       DEF BackUp, Swap, Restore, Killed, Working, NothingDone, disk
  <2>. QED BY <1>2, <2>1
<1>11. ASSUME NEW w \in Updaters, Stage(w) \/ Copy(w)
       PROVE  Whole /\ Silent
  <2>1. w = u /\ Silent
    BY <1>1, <1>5, <1>6, <1>11 DEF Stage, Copy, Working
  <2>2. cli[w].at \in {"staging", "copying"} /\ LandsInBinary(w)
    BY <1>11 DEF Stage, Copy, Moves
  <2>3. UNCHANGED binary
    BY <2>1, <2>2, LandFacts
  <2>. QED BY <1>2, <2>1, <2>3
<1>12. ASSUME NEW w \in Updaters, Restart(w) PROVE FALSE
  BY <1>1, <1>5, <1>12 DEF Restart, Working
<1>13. ASSUME NEW w \in Updaters, HealthCheck(w)
       PROVE  binary' = cli[u].target /\ runs' = cli[u].target /\ cli'[u].outcome = "succeeded"
  BY <1>1, <1>5, <1>7, <1>13 DEF HealthCheck, Working
<1>14. ASSUME NEW w \in Updaters, RestartBack(w)
       PROVE  \/ Whole /\ Silent
              \/ binary' = cli[u].from /\ runs' = cli[u].from /\ cli'[u].outcome = "rolled_back"
  <2>1. CASE Finishes(w, "rolled_back") /\ UnitRestarts
    BY <1>8, <1>14, <2>1 DEF RestartBack
  <2>2. CASE Finishes(w, "failed") /\ NothingDone
    BY <1>2, <1>6, <1>14, <2>2 DEF RestartBack, NothingDone, disk
  <2>. QED BY <1>14, <2>1, <2>2 DEF RestartBack
<1>. QED BY <1>3, <1>4, <1>9, <1>10, <1>11, <1>12, <1>13, <1>14 DEF Next, Updating

(* However many updates there were before, how they ended and whatever     *)
(* crashed: an update that no other overlaps leaves a whole release        *)
(* installed, and its outcome is what is installed and what the unit runs. *)
THEOREM UpdatesTellTheTruth == Spec => OutcomesAreTrue
<1>1. HostInv /\ [Next]_vars => [\A u \in Updaters : Truthful(u)]_vars
  BY EndIsTrue
<1>. QED BY <1>1, HostKeepsInv, PTL DEF Spec, OutcomesAreTrue
=============================================================================
