------------------------------- MODULE Apply -------------------------------
(***************************************************************************)
(* The apply pipeline: how birdy changes a running router.                 *)
(*                                                                         *)
(* An operator applies a configuration; birdy writes it over bird.conf,    *)
(* asks BIRD to check it, asks BIRD to load it with an auto-revert timer,  *)
(* puts the previous configuration back on disk, and records a pending     *)
(* version.  Confirming writes the new configuration again, disarms BIRD's *)
(* timer and advances the applied hash; rolling back undoes it; a pending  *)
(* version whose deadline has passed is written off by the next request.   *)
(*                                                                         *)
(* Every handler runs under one mutex (applyMu), so a single record, job,  *)
(* is the handler in progress.  A handler is not atomic to the outside:    *)
(* between any two of its steps the operator may edit bird.conf, BIRD may  *)
(* revert or restart, time may pass, and birdy itself may crash.           *)
(***************************************************************************)
EXTENDS Integers, Sequences

CONSTANTS
    Configs,      \* logical configurations birdy can render
    Foreign,      \* texts an operator writes into bird.conf by hand
    Torn,         \* texts a half-written file set reads back as
    None,         \* "" in the code: no file, no hash, no backup
    Timeout,      \* the safety timeout, in ticks of the clock
    SlowHandlers, \* FALSE: handlers take no time, and BIRD acts on its timer
                  \* before the next request; TRUE: neither is so
    MaxVersions,  \* bound: recorded versions
    MaxFaults,    \* bound: crashes, lost replies, failed writes, BIRD restarts
    MaxEdits      \* bound: things the operator does outside birdy

ASSUME ConfigsAssumption ==
    /\ Configs \cap Foreign = {} /\ Configs \cap Torn = {} /\ Foreign \cap Torn = {}
    /\ None \notin Configs \cup Foreign \cup Torn
ASSUME BoundsAssumption ==
    /\ Timeout \in Nat \ {0} /\ MaxVersions \in Nat
    /\ MaxFaults \in Nat /\ MaxEdits \in Nat
    /\ SlowHandlers \in BOOLEAN

VARIABLES
    disk,     \* what readLogicalConfig returns: a text, or None
    bird,     \* BIRD: running and previous configuration, revert timer, and
              \* the configuration whose filters the routing table has been through
    hash,     \* settings.applied_config_hash, as the text it is the hash of
    versions, \* the config_versions table, in id order
    job,      \* the handler that holds applyMu, and its local variables
    hand,     \* history: the operator put the text on disk while no handler ran
    faults,   \* faults injected so far
    edits     \* operator interventions so far

vars == <<disk, bird, hash, versions, job, hand, faults, edits>>

-----------------------------------------------------------------------------
(* Types.                                                                  *)

Texts == Configs \cup Foreign \cup Torn
Off == -1       \* BIRD's timer is not armed

Bird == [running : Texts \cup {None}, previous : Texts \cup {None},
         timer : Off..Timeout, table : Texts \cup {None}]

Version == [cfg : Configs, backup : Texts \cup {None},
            status : {"pending", "confirmed", "reverted"}, left : 0..Timeout]

Ops == {"apply", "reapply", "confirm", "changes", "rollback", "adopt"}

Pcs == {"reconcile", "revertReload", "gate", "snapshot", "write", "writing",
        "check", "arm", "reload", "restore", "record", "rollbackFiles", "load",
        "confirm", "stamp", "undo", "undoReload", "resolve", "read", "own"}

Idle == [op |-> "none", pc |-> "idle", cfg |-> None, backup |-> None,
         soft |-> FALSE, elapsed |-> 0, id |-> 0]

Job == [op : Ops, pc : Pcs, cfg : Texts \cup {None}, backup : Texts \cup {None},
        soft : BOOLEAN, elapsed : 0..Timeout, id : Nat]

-----------------------------------------------------------------------------
(* What the handlers compute.                                              *)

\* birdConfState: birdy's relationship to the file on disk.
Authorship(text, stored) ==
    CASE text = None /\ stored = None  -> "absent"
      [] text = None /\ stored # None  -> "edited"
      [] text # None /\ stored = None  -> "foreign"
      [] text # None /\ text = stored  -> "owned"
      [] OTHER                         -> "edited"

\* Mutant: the authorship guard lets every file through.
AlwaysApplies(text, stored) == TRUE

CanApply(text, stored) == Authorship(text, stored) \in {"owned", "absent"}

\* Mutant: the query forgets its WHERE status = 'pending'.
AllRows == DOMAIN versions

PendingRows == {i \in DOMAIN versions : versions[i].status = "pending"}

\* PendingConfigVersion: ORDER BY id DESC LIMIT 1.
PendingId == CHOOSE i \in PendingRows : \A j \in PendingRows : j <= i

\* Mutants: the deadline is taken to have passed a tick early, or never.
ExpiredEarly(v) == v.status = "pending" /\ v.left <= 1
NeverExpired(v) == v.status = "pending" /\ v.left < 0

Expired(v) == v.status = "pending" /\ v.left = 0

\* ResolveConfigVersion: a terminal status, and the deadline cleared.
Resolve(i, status) ==
    versions' = [versions EXCEPT ![i].status = status, ![i].left = 0]

-----------------------------------------------------------------------------
(* Control: taking the mutex, moving on, returning.                        *)

Goto(pc) == job' = [job EXCEPT !.pc = pc]
Done == job' = Idle
At(pc) == job.pc = pc

Fault == faults < MaxFaults /\ faults' = faults + 1
NoFault == UNCHANGED faults

\* Where a handler starts: roll back and adopt do not reconcile first.
Entry(op) == CASE op = "rollback" -> "undo"
               [] op = "adopt"    -> "read"
               [] OTHER           -> "reconcile"

\* A request enters its handler; with nothing pending, roll back returns at once.
Begin(op) ==
    /\ job = Idle
    /\ bird.timer # 0 \/ SlowHandlers
    /\ job' = [Idle EXCEPT !.op = op, !.pc = Entry(op)]
    /\ op = "rollback" => PendingRows # {}
    /\ UNCHANGED <<disk, bird, hash, versions, hand, faults, edits>>

\* What a handler does once reconcilePending has returned.
AfterReconcile ==
    CASE job.op \in {"apply", "reapply"} -> Goto("gate")
      [] job.op = "confirm"              -> Goto("load")
      [] OTHER                           -> Done

-----------------------------------------------------------------------------
(* reconcilePending: write off a pending version whose deadline has passed,  *)
(* on the belief that BIRD has already reverted, then re-run the filters.    *)

ReconcileNothing ==
    /\ At("reconcile")
    /\ PendingRows # {} => ~Expired(versions[PendingId])
    /\ AfterReconcile
    /\ UNCHANGED <<disk, bird, hash, versions, hand, faults, edits>>

ReconcileRevert ==
    /\ At("reconcile")
    /\ PendingRows # {} /\ Expired(versions[PendingId])
    /\ Resolve(PendingId, "reverted")
    /\ Goto("revertReload")
    /\ UNCHANGED <<disk, bird, hash, hand, faults, edits>>

\* Mutant: the filters are not re-run at all.
NoReload == bird' = bird /\ NoFault

\* `reload all` is best effort: a lost call leaves the table as it is.
Reload ==
    \/ bird' = [bird EXCEPT !.table = bird.running] /\ NoFault
    \/ bird' = bird /\ Fault

ReconcileReload ==
    /\ At("revertReload")
    /\ Reload
    /\ AfterReconcile
    /\ UNCHANGED <<disk, hash, versions, hand, edits>>

-----------------------------------------------------------------------------
(* handleApply and handleReapply.                                          *)

\* Mutant: canStartApply no longer asks whether a version is pending.
GateWithoutPendingCheck(cfg, soft) ==
    /\ At("gate")
    /\ Len(versions) < MaxVersions
    /\ CanApply(disk, hash)
    /\ disk # cfg
    /\ job' = [job EXCEPT !.pc = "snapshot", !.cfg = cfg, !.soft = soft]
    /\ UNCHANGED <<disk, bird, hash, versions, hand, faults, edits>>

\* canStartApply, rendering (or a stored version's text), and applyConfig up
\* to the pre-flight: no pending version, a file birdy may replace, and
\* something to change.
Gate(cfg, soft) ==
    /\ At("gate")
    /\ Len(versions) < MaxVersions
    /\ PendingRows = {}
    /\ job.op = "reapply" =>
           soft /\ \E i \in DOMAIN versions : versions[i].cfg = cfg
    /\ CanApply(disk, hash)
    /\ disk # cfg
    /\ job' = [job EXCEPT !.pc = "snapshot", !.cfg = cfg, !.soft = soft]
    /\ UNCHANGED <<disk, bird, hash, versions, hand, faults, edits>>

\* Any of the gates may turn the request away with nothing changed: a pending
\* version, a file birdy does not own, nothing to change, a model that does
\* not render, risks not acknowledged, bird -p saying no, a failed backup.
Refuse ==
    /\ job.pc \in {"gate", "snapshot"}
    /\ Done
    /\ UNCHANGED <<disk, bird, hash, versions, hand, faults, edits>>

\* now := time.Now(); snapshotConfig(now).  The deadline counts from here.
Snapshot ==
    /\ At("snapshot")
    /\ job' = [job EXCEPT !.pc = "write", !.backup = disk]
    /\ UNCHANGED <<disk, bird, hash, versions, hand, faults, edits>>

\* writeFileSet goes file by file: until it is done the set on disk reads
\* back as a text that is no configuration's and has never been hashed.
WriteBegin ==
    /\ At("write")
    /\ disk' \in Torn \ {hash}
    /\ hand' = FALSE
    /\ Goto("writing")
    /\ UNCHANGED <<bird, hash, versions, faults, edits>>

WriteEnd ==
    /\ At("writing")
    /\ disk' = job.cfg
    /\ hand' = FALSE
    /\ Goto(IF job.op = "confirm" THEN "confirm" ELSE "check")
    /\ UNCHANGED <<bird, hash, versions, faults, edits>>

\* A write that fails: applyConfig rolls the files back; handleApplyConfirm
\* returns with whatever is on disk.
WriteFail ==
    /\ job.pc \in {"write", "writing"}
    /\ Fault
    /\ IF job.op = "confirm" THEN Done ELSE Goto("rollbackFiles")
    /\ UNCHANGED <<disk, bird, hash, versions, hand, edits>>

\* rollbackConfig: put the backup back, then return to the operator.
RollbackFiles ==
    /\ At("rollbackFiles")
    /\ disk' = job.backup
    /\ hand' = FALSE
    /\ Done
    /\ UNCHANGED <<bird, hash, versions, faults, edits>>

RollbackFilesFail ==
    /\ At("rollbackFiles")
    /\ Fault
    /\ disk' \in {disk} \cup (Torn \ {hash})
    /\ hand' = FALSE
    /\ Done
    /\ UNCHANGED <<bird, hash, versions, edits>>

\* `configure check` changes nothing; BIRD may accept, reject or not answer.
Check ==
    /\ At("check")
    /\ \E verdict \in {"arm", "rollbackFiles"} : Goto(verdict)
    /\ UNCHANGED <<disk, bird, hash, versions, hand, faults, edits>>

\* BIRD loads the file, keeps what it ran, and starts the timer.  A hard
\* reconfigure restarts the protocols that changed; a soft one leaves the
\* routes in the table under the old filters.
Armed ==
    [running |-> disk, previous |-> bird.running, timer |-> Timeout,
     table |-> IF job.soft THEN bird.table ELSE disk]

ArmOK ==
    /\ At("arm")
    /\ disk # None
    /\ bird' = Armed
    /\ Goto(IF job.soft THEN "reload" ELSE "restore")
    /\ UNCHANGED <<disk, hash, versions, hand, faults, edits>>

\* BIRD says no: nothing changed there, and the files go back.
ArmRefused ==
    /\ At("arm")
    /\ Goto("rollbackFiles")
    /\ UNCHANGED <<disk, bird, hash, versions, hand, faults, edits>>

\* BIRD armed, but the answer never came: handled as if it had refused.
ArmLost ==
    /\ At("arm")
    /\ disk # None
    /\ Fault
    /\ bird' = Armed
    /\ Goto("rollbackFiles")
    /\ UNCHANGED <<disk, hash, versions, hand, edits>>

ApplyReload ==
    /\ At("reload")
    /\ Reload
    /\ Goto("restore")
    /\ UNCHANGED <<disk, hash, versions, hand, edits>>

\* Mutant: the new configuration is left on disk while it is armed.
RestoreNothing ==
    /\ At("restore")
    /\ Goto("record")
    /\ UNCHANGED <<disk, bird, hash, versions, hand, faults, edits>>

\* restoreConfig: the previous configuration goes back on disk, so that disk
\* matches what BIRD would revert to.
Restore ==
    /\ At("restore")
    /\ disk' = job.backup
    /\ hand' = FALSE
    /\ Goto("record")
    /\ UNCHANGED <<bird, hash, versions, faults, edits>>

RestoreFail ==
    /\ At("restore")
    /\ Fault
    /\ disk' \in {disk} \cup (Torn \ {hash})
    /\ hand' = FALSE
    /\ Done
    /\ UNCHANGED <<bird, hash, versions, edits>>

\* Mutant: the time already spent is added to the deadline, not taken off.
RecordLate ==
    /\ At("record")
    /\ versions' = Append(versions,
           [cfg |-> job.cfg, backup |-> job.backup, status |-> "pending",
            left |-> Timeout + job.elapsed])
    /\ Done
    /\ UNCHANGED <<disk, bird, hash, hand, faults, edits>>

\* CreateConfigVersion with deadline = now + timeout, now being Snapshot's.
Record ==
    /\ At("record")
    /\ versions' = Append(versions,
           [cfg |-> job.cfg, backup |-> job.backup, status |-> "pending",
            left |-> Timeout - job.elapsed])
    /\ Done
    /\ UNCHANGED <<disk, bird, hash, hand, faults, edits>>

RecordFail ==
    /\ At("record")
    /\ Fault
    /\ Done
    /\ UNCHANGED <<disk, bird, hash, versions, hand, edits>>

-----------------------------------------------------------------------------
(* handleApplyConfirm.                                                     *)

LoadPending ==
    /\ At("load")
    /\ IF PendingRows = {}
       THEN Done
       ELSE job' = [job EXCEPT !.pc = "write", !.id = PendingId,
                               !.cfg = versions[PendingId].cfg,
                               !.backup = versions[PendingId].backup]
    /\ UNCHANGED <<disk, bird, hash, versions, hand, faults, edits>>

\* `configure confirm` stops the timer.  With no timer running BIRD has
\* nothing to do and says so, which is not one of its error replies, so
\* ConfigureConfirm reports it as OK.
ConfirmOK ==
    /\ At("confirm")
    /\ bird' = [bird EXCEPT !.timer = Off]
    /\ Goto("stamp")
    /\ UNCHANGED <<disk, hash, versions, hand, faults, edits>>

\* BIRD cannot be asked, or its answer is lost after it confirmed.
ConfirmLost ==
    /\ At("confirm")
    /\ Fault
    /\ bird' \in {bird, [bird EXCEPT !.timer = Off]}
    /\ Goto("rollbackFiles")
    /\ UNCHANGED <<disk, hash, versions, hand, edits>>

\* Mutant: the version is resolved but the applied hash is not advanced.
StampWithoutHash ==
    /\ At("stamp")
    /\ Resolve(job.id, "confirmed")
    /\ Done
    /\ UNCHANGED <<disk, bird, hash, hand, faults, edits>>

\* ConfirmAppliedVersion: hash and status in one transaction.
Stamp ==
    /\ At("stamp")
    /\ hash' = versions[job.id].cfg
    /\ Resolve(job.id, "confirmed")
    /\ Done
    /\ UNCHANGED <<disk, bird, hand, faults, edits>>

StampFail ==
    /\ At("stamp")
    /\ Fault
    /\ Done
    /\ UNCHANGED <<disk, bird, hash, versions, hand, edits>>

-----------------------------------------------------------------------------
(* handleApplyRollback: undo is best effort, the outcome is recorded anyway. *)

Undone == IF bird.previous = None THEN bird
          ELSE [running |-> bird.previous, previous |-> None,
                timer |-> Off, table |-> bird.table]

\* The table is untouched by the undo itself; UndoReload moves it.
Undo ==
    /\ At("undo")
    /\ bird' = Undone
    /\ job' = [job EXCEPT !.pc = "undoReload", !.id = PendingId]
    /\ UNCHANGED <<disk, hash, versions, hand, faults, edits>>

UndoLost ==
    /\ At("undo")
    /\ Fault
    /\ bird' \in {bird, Undone}
    /\ job' = [job EXCEPT !.pc = "undoReload", !.id = PendingId]
    /\ UNCHANGED <<disk, hash, versions, hand, edits>>

UndoReload ==
    /\ At("undoReload")
    /\ Reload
    /\ Goto("resolve")
    /\ UNCHANGED <<disk, hash, versions, hand, edits>>

ResolveRolledBack ==
    /\ At("resolve")
    /\ Resolve(job.id, "reverted")
    /\ Done
    /\ UNCHANGED <<disk, bird, hash, hand, faults, edits>>

ResolveFail ==
    /\ At("resolve")
    /\ Fault
    /\ Done
    /\ UNCHANGED <<disk, bird, hash, versions, hand, edits>>

-----------------------------------------------------------------------------
(* handleAdopt: record the hash of what is on disk; a version may be pending. *)

AdoptRead ==
    /\ At("read")
    /\ job' = [job EXCEPT !.pc = "own", !.cfg = disk]
    /\ UNCHANGED <<disk, bird, hash, versions, hand, faults, edits>>

AdoptOwn ==
    /\ At("own")
    /\ hash' = job.cfg
    /\ hand' = (hand /\ disk # job.cfg)
    /\ Done
    /\ UNCHANGED <<disk, bird, versions, faults, edits>>

-----------------------------------------------------------------------------
(* The outside world.                                                      *)

\* birdy dies and is started again: the handler and its locals are gone.
Crash ==
    /\ Fault
    /\ Done
    /\ UNCHANGED <<disk, bird, hash, versions, hand, edits>>

SinceSnapshot ==
    /\ job.op \in {"apply", "reapply"}
    /\ job.pc \notin {"reconcile", "revertReload", "gate", "snapshot"}

\* One tick for everybody; BIRD acts on its timer before time moves on.
Tick ==
    /\ bird.timer # 0
    /\ job = Idle \/ SlowHandlers
    /\ bird' = [bird EXCEPT !.timer = IF @ = Off THEN Off ELSE @ - 1]
    /\ versions' = [i \in DOMAIN versions |->
           IF versions[i].status = "pending" /\ versions[i].left > 0
           THEN [versions[i] EXCEPT !.left = @ - 1] ELSE versions[i]]
    /\ job' = IF SinceSnapshot /\ job.elapsed < Timeout
              THEN [job EXCEPT !.elapsed = @ + 1] ELSE job
    /\ UNCHANGED <<disk, hash, hand, faults, edits>>

\* Nobody confirmed in time: BIRD goes back by itself.  Whether that re-runs
\* the filters is BIRD's business; birdy does not count on it.
TimerFires ==
    /\ bird.timer = 0
    /\ job = Idle \/ SlowHandlers
    /\ bird' \in {[running |-> bird.previous, previous |-> None, timer |-> Off, table |-> t] :
                     t \in {bird.table, bird.previous}}
    /\ UNCHANGED <<disk, hash, versions, job, hand, faults, edits>>

\* BIRD restarts and loads whatever is on disk.
BirdRestart ==
    /\ disk # None
    /\ Fault
    /\ bird' = [running |-> disk, previous |-> None, timer |-> Off, table |-> disk]
    /\ UNCHANGED <<disk, hash, versions, job, hand, edits>>

\* The operator edits or deletes bird.conf by hand.
Edit ==
    /\ edits < MaxEdits
    /\ disk' \in (Foreign \cup {None}) \ {disk}
    /\ edits' = edits + 1
    /\ hand' = (job = Idle /\ disk' # hash)
    /\ UNCHANGED <<bird, hash, versions, job, faults>>

\* The operator runs `birdc configure`.
OperatorConfigure ==
    /\ edits < MaxEdits /\ disk # None
    /\ bird' = [running |-> disk, previous |-> bird.running, timer |-> Off, table |-> disk]
    /\ edits' = edits + 1
    /\ UNCHANGED <<disk, hash, versions, job, hand, faults>>

-----------------------------------------------------------------------------
(* The system.                                                             *)

\* A fresh install: birdy has never written, BIRD runs the operator's file.
Init ==
    /\ \E f \in Foreign :
           /\ bird = [running |-> f, previous |-> None, timer |-> Off, table |-> f]
           /\ disk \in {f, None}
    /\ hash = None
    /\ versions = <<>>
    /\ job = Idle
    /\ hand = (disk # None)
    /\ faults = 0
    /\ edits = 0

ReconcileStep == ReconcileNothing \/ ReconcileRevert \/ ReconcileReload

ApplyStep ==
    \/ \E cfg \in Configs, soft \in BOOLEAN : Gate(cfg, soft)
    \/ Refuse \/ Snapshot
    \/ WriteBegin \/ WriteEnd \/ WriteFail \/ RollbackFiles \/ RollbackFilesFail
    \/ Check \/ ArmOK \/ ArmRefused \/ ArmLost \/ ApplyReload
    \/ Restore \/ RestoreFail \/ Record \/ RecordFail

ConfirmStep == LoadPending \/ ConfirmOK \/ ConfirmLost \/ Stamp \/ StampFail

RollbackStep == Undo \/ UndoLost \/ UndoReload \/ ResolveRolledBack \/ ResolveFail

AdoptStep == AdoptRead \/ AdoptOwn

HandlerStep == ReconcileStep \/ ApplyStep \/ ConfirmStep \/ RollbackStep \/ AdoptStep

Outside == Tick \/ TimerFires \/ BirdRestart \/ Edit \/ OperatorConfigure

Work == (\E op \in Ops : Begin(op)) \/ HandlerStep \/ Outside

Next == Work \/ Crash

Spec == Init /\ [][Next]_vars

\* A handler that has started runs on, detached from its request; time passes
\* (strongly fair because prompt handlers suspend it) and BIRD keeps it; an open
\* Changes page reloads itself when its countdown ends (apply.js), and its
\* request is not starved of the mutex (Go's has a starvation mode).
Fairness ==
    /\ WF_vars(HandlerStep)
    /\ SF_vars(Tick)
    /\ WF_vars(TimerFires)
    /\ SF_vars(Begin("changes"))

FairSpec == Spec /\ Fairness

-----------------------------------------------------------------------------
(* Invariants.                                                             *)

\* Types: what is on disk, in BIRD and in the hash is a text or nothing, and each row a version.
TypeOK ==
    /\ disk \in Texts \cup {None}
    /\ bird \in Bird
    /\ hash \in Texts \cup {None}
    /\ versions \in Seq(Version)
    /\ job \in Job \cup {Idle}
    /\ hand \in BOOLEAN
    /\ faults \in 0..MaxFaults
    /\ edits \in 0..MaxEdits

\* At most one version is ever pending, so the row PendingConfigVersion picks
\* with LIMIT 1 is the only one; crashes and lost replies included.
AtMostOnePending == \A i, j \in PendingRows : i = j

\* With the timing left free, birdy alone never makes its own file
\* unrecognisable: while nothing failed and nobody edited, a settled birdy that
\* owns a configuration still reads that configuration back from disk.
NeverLocksItselfOut ==
    job = Idle /\ faults = 0 /\ edits = 0 /\ hash # None => disk = hash

\* With a version pending, the disk holds its backup, the text BIRD would
\* revert to; and BIRD will revert to what birdy believes it was running.
ArmedDiskIsRevert ==
    job = Idle /\ PendingRows # {} /\ bird.timer # Off /\ edits = 0 /\ faults = 0 =>
        /\ disk = versions[PendingId].backup
        /\ bird.running = versions[PendingId].cfg
        /\ hash \in Configs => bird.previous = hash

\* Once everything has settled, the file, the running configuration, the
\* filters the table went through and the recorded hash all agree.
SettledAgree ==
    job = Idle /\ PendingRows = {} /\ hash \in Configs /\ edits = 0 /\ faults = 0 =>
        /\ disk = hash
        /\ bird.running = hash
        /\ bird.table = hash
        /\ bird.timer = Off

\* PendingConfigVersion's comment: birdy allows only one armed reconfigure at a
\* time, because BIRD holds only one previous configuration to revert to.  No
\* reconfigure is armed while an earlier timer still has time to run.
OneArmed == At("arm") => bird.timer \in {Off, 0}

-----------------------------------------------------------------------------
(* Action properties.                                                      *)

\* A resolved version never looks pending again, is never resolved twice, and
\* no version changes its configuration or backup once recorded.
ResolvedIsFinal ==
    [][\A i \in DOMAIN versions :
          /\ i \in DOMAIN versions'
          /\ versions'[i].cfg = versions[i].cfg
          /\ versions'[i].backup = versions[i].backup
          /\ versions[i].status # "pending" => versions'[i] = versions[i]]_vars

\* A text the operator put on disk while no handler ran is never replaced by
\* an apply: the authorship gate holds through every interleaving.
ApplySparesHandEdits ==
    [][hand /\ job.op \in {"apply", "reapply"} => disk' = disk \/ edits' # edits]_vars

\* The comment on authorship: a configuration birdy did not write must be
\* adopted first, so a hand-managed router is never silently clobbered.
HandEditsSurvive == [][hand => disk' = disk \/ edits' # edits]_vars

\* SetAppliedConfigHash's comment: the hash is that of the bytes BIRD runs.
ConfirmedIsRunning ==
    [][hash' # hash /\ job.op = "confirm" => bird.running = hash']_vars

-----------------------------------------------------------------------------
(* Refinement: whatever fails, birdy's record is that of ChangeControl.    *)

Ledger == [i \in DOMAIN versions |->
              [cfg |-> versions[i].cfg, status |-> versions[i].status]]

Change == INSTANCE ChangeControl WITH baseline <- hash, ledger <- Ledger

\* Accepting is one step: the hash advances exactly when a pending version is
\* confirmed, to that version's configuration, through crashes and lost replies.
ImplementsChangeControl == Change!Spec

-----------------------------------------------------------------------------
(* Liveness.                                                               *)

\* A pending version does not stay pending: somebody confirms or rolls it
\* back, or the deadline passes and the open page has it written off.
PendingIsResolved == (PendingRows # {}) ~> (PendingRows = {})

=============================================================================
