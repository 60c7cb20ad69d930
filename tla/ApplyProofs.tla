---------------------------- MODULE ApplyProofs ----------------------------
(***************************************************************************)
(* Theorems about the apply pipeline, for every set of configurations,     *)
(* every timeout, any number of versions, faults and interventions, and    *)
(* handlers as slow as they like: first its records, then who the file     *)
(* belongs to and what BIRD would go back to.                              *)
(***************************************************************************)
EXTENDS Drift, SequenceTheorems, TLAPS

-----------------------------------------------------------------------------
(* The inductive invariant.  A handler's place in its code and the table of *)
(* versions go together: past the gate of an apply nothing is pending, and  *)
(* a confirm or a roll back holds the id of a version that still is.        *)

ApplyOps == {"apply", "reapply"}
PastGate == {"snapshot", "write", "writing", "check", "arm", "reload", "restore",
             "record", "rollbackFiles"}
Confirming == {"write", "writing", "confirm", "stamp", "rollbackFiles"}

PcFitsOp ==
    /\ job.pc \in {"reconcile", "revertReload"} =>
           job.op \in ApplyOps \cup {"confirm", "changes"}
    /\ job.pc = "gate" => job.op \in ApplyOps
    /\ job.pc \in PastGate => job.op \in ApplyOps \cup {"confirm"}
    /\ job.pc \in PastGate \ Confirming => job.op \in ApplyOps
    /\ job.pc \in {"load", "confirm", "stamp"} => job.op = "confirm"
    /\ job.pc \in {"undo", "undoReload", "resolve"} => job.op = "rollback"
    /\ job.pc \in {"read", "own"} => job.op = "adopt"

ApplyHoldsGate ==
    job.op \in ApplyOps /\ job.pc \in PastGate =>
        PendingRows = {} /\ job.cfg \in Configs

ConfirmHoldsVersion ==
    job.op = "confirm" /\ job.pc \in Confirming =>
        job.id \in PendingRows /\ job.cfg = versions[job.id].cfg

RollbackHoldsVersion ==
    /\ job.pc = "undo" => PendingRows # {}
    /\ job.pc \in {"undoReload", "resolve"} => job.id \in PendingRows

IInv == /\ TypeOK /\ AtMostOnePending
        /\ PcFitsOp /\ ApplyHoldsGate /\ ConfirmHoldsVersion /\ RollbackHoldsVersion

-----------------------------------------------------------------------------
(* The version table under each of the three ways it changes.              *)

LEMMA VersionsAreRows ==
    ASSUME versions \in Seq(Version)
    PROVE  /\ Len(versions) \in Nat
           /\ DOMAIN versions = 1..Len(versions)
           /\ \A i \in DOMAIN versions : versions[i] \in Version
BY LenProperties, ElementOfSeq

LEMMA PendingIdIsPending ==
    ASSUME AtMostOnePending, PendingRows # {}, versions \in Seq(Version)
    PROVE  PendingId \in PendingRows /\ PendingId \in Nat /\ PendingRows = {PendingId}
<1>1. PICK i \in PendingRows : TRUE
  OBVIOUS
<1>2. \A j \in PendingRows : j <= i
  BY <1>1, VersionsAreRows DEF AtMostOnePending, PendingRows
<1>3. PendingId \in PendingRows
  BY <1>1, <1>2 DEF PendingId
<1>. QED
  BY <1>3, VersionsAreRows DEF AtMostOnePending, PendingRows

LEMMA ResolvedRow ==
    ASSUME NEW r \in Version, NEW s \in {"confirmed", "reverted"}
    PROVE  /\ [r EXCEPT !.status = s, !.left = 0] \in Version
           /\ [r EXCEPT !.status = s, !.left = 0].cfg = r.cfg
           /\ [r EXCEPT !.status = s, !.left = 0].backup = r.backup
           /\ [r EXCEPT !.status = s, !.left = 0].status = s
<1>1. 0 \in 0..Timeout
  BY BoundsAssumption DEF BoundsAssumption
<1>2. [r EXCEPT !.status = s, !.left = 0] \in Version
  BY <1>1 DEF Version
<1>3. /\ [r EXCEPT !.status = s, !.left = 0].cfg = r.cfg
      /\ [r EXCEPT !.status = s, !.left = 0].backup = r.backup
      /\ [r EXCEPT !.status = s, !.left = 0].status = s
  BY DEF Version
<1>. QED
  BY <1>2, <1>3

\* Resolving touches one row, and that row is no longer pending.
LEMMA ResolveLemma ==
    ASSUME versions \in Seq(Version), NEW i \in PendingRows,
           NEW status \in {"confirmed", "reverted"}, Resolve(i, status)
    PROVE  /\ versions' \in Seq(Version)
           /\ DOMAIN versions' = DOMAIN versions
           /\ \A j \in DOMAIN versions : j # i => versions'[j] = versions[j]
           /\ versions'[i].cfg = versions[i].cfg
           /\ versions'[i].backup = versions[i].backup
           /\ versions'[i].status = status
           /\ PendingRows' = PendingRows \ {i}
<1>1. i \in DOMAIN versions /\ i \in 1..Len(versions) /\ versions[i] \in Version
  BY VersionsAreRows DEF PendingRows
<1>2. PICK row \in Version :
          /\ row = [versions[i] EXCEPT !.status = status, !.left = 0]
          /\ row.cfg = versions[i].cfg /\ row.backup = versions[i].backup
          /\ row.status = status
  <2>. [versions[i] EXCEPT !.status = status, !.left = 0] \in Version
    BY <1>1, ResolvedRow
  <2>. WITNESS [versions[i] EXCEPT !.status = status, !.left = 0] \in Version
  <2>. QED
    BY <1>1, ResolvedRow
<1>3. versions' = [versions EXCEPT ![i] = row]
  BY <1>1, <1>2, VersionsAreRows DEF Resolve
<1>4. /\ versions' \in Seq(Version)
      /\ Len(versions') = Len(versions)
      /\ \A j \in 1..Len(versions) : versions'[j] = IF j = i THEN row ELSE versions[j]
  BY <1>1, <1>3, ExceptSeq
<1>5. DOMAIN versions' = DOMAIN versions
  BY <1>4, VersionsAreRows, LenProperties
<1>. QED
  BY <1>1, <1>2, <1>4, <1>5, VersionsAreRows DEF PendingRows

\* Recording appends one pending row.
LEMMA RecordLemma ==
    ASSUME versions \in Seq(Version), NEW row \in Version, row.status = "pending",
           versions' = Append(versions, row)
    PROVE  /\ versions' \in Seq(Version)
           /\ DOMAIN versions' = DOMAIN versions \cup {Len(versions) + 1}
           /\ \A j \in DOMAIN versions : versions'[j] = versions[j]
           /\ versions'[Len(versions) + 1] = row
           /\ PendingRows' = PendingRows \cup {Len(versions) + 1}
<1>1. /\ versions' \in Seq(Version) /\ Len(versions') = Len(versions) + 1
      /\ \A j \in 1..Len(versions) : versions'[j] = versions[j]
      /\ versions'[Len(versions) + 1] = row
  BY AppendProperties
<1>2. DOMAIN versions' = 1..(Len(versions) + 1) /\ DOMAIN versions = 1..Len(versions)
  BY <1>1, LenProperties
<1>3. DOMAIN versions' = DOMAIN versions \cup {Len(versions) + 1}
  BY <1>2, VersionsAreRows
<1>. QED
  BY <1>1, <1>2, <1>3, VersionsAreRows DEF PendingRows

\* A tick ages the rows and changes nothing else about them.
Aged(v) == IF v.status = "pending" /\ v.left > 0 THEN [v EXCEPT !.left = @ - 1] ELSE v

LEMMA AgedRow ==
    ASSUME NEW v \in Version
    PROVE  /\ Aged(v) \in Version /\ Aged(v).cfg = v.cfg /\ Aged(v).backup = v.backup
           /\ Aged(v).status = v.status
           /\ v.status # "pending" => Aged(v) = v
<1>1. CASE ~(v.status = "pending" /\ v.left > 0)
  BY <1>1 DEF Aged
<1>2. CASE v.status = "pending" /\ v.left > 0
  <2>1. v.left - 1 \in 0..Timeout
    BY <1>2, BoundsAssumption DEF Version, BoundsAssumption
  <2>2. Aged(v) = [v EXCEPT !.left = v.left - 1]
    BY <1>2 DEF Aged
  <2>3. [v EXCEPT !.left = v.left - 1] \in Version
    BY <2>1 DEF Version
  <2>. QED
    BY <1>2, <2>2, <2>3 DEF Version
<1>. QED
  BY <1>1, <1>2

LEMMA TickLemma ==
    ASSUME versions \in Seq(Version), Tick
    PROVE  /\ versions' \in Seq(Version)
           /\ DOMAIN versions' = DOMAIN versions
           /\ \A j \in DOMAIN versions : versions'[j] = Aged(versions[j])
           /\ PendingRows' = PendingRows
<1>1. /\ Len(versions) \in Nat /\ DOMAIN versions = 1..Len(versions)
      /\ \A i \in DOMAIN versions : versions[i] \in Version
  BY VersionsAreRows
<1>2. versions' = [i \in 1..Len(versions) |-> Aged(versions[i])]
  BY <1>1 DEF Tick, Aged
<1>3. \A i \in 1..Len(versions) : Aged(versions[i]) \in Version
  BY <1>1, AgedRow
<1>4. versions' \in Seq(Version)
  BY <1>1, <1>2, <1>3, IsASeq
<1>5. DOMAIN versions' = DOMAIN versions
  BY <1>1, <1>2
<1>. QED
  BY <1>1, <1>2, <1>4, <1>5, AgedRow DEF PendingRows

-----------------------------------------------------------------------------
(* The handler's record under the ways it changes.                         *)

LEMMA IdleFields ==
    /\ Idle.op = "none" /\ Idle.pc = "idle" /\ Idle.cfg = None /\ Idle.backup = None
    /\ Idle.soft = FALSE /\ Idle.elapsed = 0 /\ Idle.id = 0
BY DEF Idle

LEMMA BusyJob ==
    ASSUME TypeOK, job.pc \in Pcs
    PROVE  job \in Job
BY IdleFields DEF TypeOK, Pcs

LEMMA GotoLemma ==
    ASSUME TypeOK, job.pc \in Pcs, NEW pc \in Pcs, Goto(pc)
    PROVE  /\ job' \in Job /\ job'.pc = pc
           /\ job'.op = job.op /\ job'.cfg = job.cfg
           /\ job'.backup = job.backup /\ job'.id = job.id
BY BusyJob DEF Goto, Job

LEMMA DoneLemma ==
    ASSUME Done
    PROVE  job' = Idle /\ job'.pc = "idle" /\ job'.op = "none"
BY IdleFields DEF Done

LEMMA AfterReconcileLemma ==
    ASSUME TypeOK, job.pc \in Pcs, AfterReconcile
    PROVE  \/ job' = Idle
           \/ /\ job' \in Job /\ job'.op = job.op
              /\ \/ job.op \in ApplyOps /\ job'.pc = "gate"
                 \/ job.op = "confirm" /\ job'.pc = "load"
<1>1. CASE job.op \in ApplyOps
  <2>1. Goto("gate")
    BY <1>1 DEF AfterReconcile, ApplyOps
  <2>. QED
    BY <1>1, <2>1, GotoLemma DEF Pcs
<1>2. CASE job.op = "confirm"
  <2>1. Goto("load")
    BY <1>2 DEF AfterReconcile
  <2>. QED
    BY <1>2, <2>1, GotoLemma DEF Pcs
<1>3. CASE job.op \notin ApplyOps /\ job.op # "confirm"
  BY <1>3, DoneLemma DEF AfterReconcile, ApplyOps
<1>. QED
  BY <1>1, <1>2, <1>3

-----------------------------------------------------------------------------
(* Type correctness of every step.                                         *)

LEMMA ReloadType ==
    ASSUME TypeOK, Reload
    PROVE  bird' \in Bird /\ faults' \in 0..MaxFaults
BY BoundsAssumption DEF TypeOK, Reload, Fault, NoFault, Bird, BoundsAssumption

LEMMA FaultType ==
    ASSUME TypeOK, Fault
    PROVE  faults' \in 0..MaxFaults
BY BoundsAssumption DEF TypeOK, Fault, BoundsAssumption

LEMMA BirdFields ==
    ASSUME TypeOK
    PROVE  /\ bird.running \in Texts \cup {None} /\ bird.previous \in Texts \cup {None}
           /\ bird.timer \in Off..Timeout /\ bird.table \in Texts \cup {None}
BY DEF TypeOK, Bird

LEMMA TypeReconcile ==
    ASSUME IInv, ReconcileStep
    PROVE  TypeOK'
<1>. TypeOK /\ AtMostOnePending /\ versions \in Seq(Version)
  BY DEF IInv, TypeOK
<1>1. CASE ReconcileNothing
  BY <1>1, AfterReconcileLemma DEF ReconcileNothing, At, Pcs, TypeOK
<1>2. CASE ReconcileRevert
  <2>1. versions' \in Seq(Version)
    BY <1>2, PendingIdIsPending, ResolveLemma DEF ReconcileRevert
  <2>2. job' \in Job
    BY <1>2, GotoLemma DEF ReconcileRevert, At, Pcs
  <2>. QED
    BY <1>2, <2>1, <2>2 DEF ReconcileRevert, TypeOK
<1>3. CASE ReconcileReload
  BY <1>3, AfterReconcileLemma, ReloadType DEF ReconcileReload, At, Pcs, TypeOK
<1>. QED
  BY <1>1, <1>2, <1>3 DEF ReconcileStep

\* The steps of an apply that only move on, return, or write the disk.
LEMMA TypeApplyFiles ==
    ASSUME IInv,
           \/ Refuse \/ WriteBegin \/ WriteEnd \/ WriteFail
           \/ RollbackFiles \/ RollbackFilesFail \/ Check \/ ArmRefused
           \/ Restore \/ RestoreFail \/ RecordFail
    PROVE  TypeOK'
<1>. TypeOK
  BY DEF IInv
<1>1. CASE Refuse
  BY <1>1, DoneLemma DEF Refuse, TypeOK
<1>2. CASE WriteBegin
  BY <1>2, GotoLemma DEF WriteBegin, At, Pcs, TypeOK, Texts
<1>3. CASE WriteEnd
  BY <1>3, GotoLemma, BusyJob DEF WriteEnd, At, Pcs, TypeOK, Job
<1>4. CASE WriteFail
  BY <1>4, GotoLemma, DoneLemma, FaultType DEF WriteFail, Pcs, TypeOK
<1>5. CASE RollbackFiles
  BY <1>5, DoneLemma, BusyJob DEF RollbackFiles, At, Pcs, TypeOK, Job
<1>6. CASE RollbackFilesFail
  BY <1>6, DoneLemma, FaultType DEF RollbackFilesFail, TypeOK, Texts
<1>7. CASE Check
  BY <1>7, GotoLemma DEF Check, At, Pcs, TypeOK
<1>8. CASE ArmRefused
  BY <1>8, GotoLemma DEF ArmRefused, At, Pcs, TypeOK
<1>9. CASE Restore
  BY <1>9, GotoLemma, BusyJob DEF Restore, At, Pcs, TypeOK, Job
<1>10. CASE RestoreFail
  BY <1>10, DoneLemma, FaultType DEF RestoreFail, TypeOK, Texts
<1>11. CASE RecordFail
  BY <1>11, DoneLemma, FaultType DEF RecordFail, TypeOK
<1>. QED
  BY <1>1, <1>2, <1>3, <1>4, <1>5, <1>6, <1>7, <1>8, <1>9, <1>10, <1>11

LEMMA RecordRow ==
    ASSUME IInv, At("record")
    PROVE  [cfg |-> job.cfg, backup |-> job.backup, status |-> "pending",
            left |-> Timeout - job.elapsed] \in Version
<1>1. job \in Job
  BY BusyJob DEF IInv, At, Pcs
<1>2. job.op \in ApplyOps /\ job.cfg \in Configs
  BY DEF IInv, PcFitsOp, ApplyHoldsGate, At, PastGate, Confirming
<1>3. Timeout - job.elapsed \in 0..Timeout
  BY <1>1, BoundsAssumption DEF Job, BoundsAssumption
<1>. QED
  BY <1>1, <1>2, <1>3 DEF Job, Version

LEMMA TypeApplyRest ==
    ASSUME IInv,
           \/ \E cfg \in Configs, soft \in BOOLEAN : Gate(cfg, soft)
           \/ Snapshot \/ ArmOK \/ ArmLost \/ ApplyReload \/ Record
    PROVE  TypeOK'
<1>. TypeOK
  BY DEF IInv
<1>a. Armed \in Bird
  BY BirdFields, BoundsAssumption DEF Armed, Bird, TypeOK, Off, BoundsAssumption
<1>1. ASSUME NEW cfg \in Configs, NEW soft \in BOOLEAN, Gate(cfg, soft)
      PROVE  TypeOK'
  <2>1. job' \in Job
    BY <1>1, BusyJob DEF Gate, At, Pcs, Job, Texts
  <2>. QED
    BY <1>1, <2>1 DEF Gate, TypeOK
<1>2. CASE Snapshot
  <2>1. job' \in Job
    BY <1>2, BusyJob, BoundsAssumption DEF Snapshot, At, Pcs, Job, TypeOK, BoundsAssumption
  <2>. QED
    BY <1>2, <2>1 DEF Snapshot, TypeOK
<1>3. CASE ArmOK
  BY <1>3, <1>a, GotoLemma DEF ArmOK, At, Pcs, TypeOK
<1>4. CASE ArmLost
  BY <1>4, <1>a, GotoLemma, FaultType DEF ArmLost, At, Pcs, TypeOK
<1>5. CASE ApplyReload
  BY <1>5, ReloadType, GotoLemma DEF ApplyReload, At, Pcs, TypeOK
<1>6. CASE Record
  <2>1. versions' \in Seq(Version)
    BY <1>6, RecordRow, RecordLemma DEF Record, TypeOK
  <2>. QED
    BY <1>6, <2>1, DoneLemma DEF Record, TypeOK
<1>. QED
  BY <1>1, <1>2, <1>3, <1>4, <1>5, <1>6

LEMMA TypeConfirm ==
    ASSUME IInv, ConfirmStep
    PROVE  TypeOK'
<1>. TypeOK /\ AtMostOnePending /\ versions \in Seq(Version)
  BY DEF IInv, TypeOK
<1>1. CASE LoadPending
  <2>1. CASE PendingRows = {}
    BY <1>1, <2>1, DoneLemma DEF LoadPending, TypeOK
  <2>2. CASE PendingRows # {}
    <3>1. PendingId \in Nat /\ versions[PendingId] \in Version
      BY <2>2, PendingIdIsPending, VersionsAreRows DEF PendingRows
    <3>2. job' \in Job
      BY <1>1, <2>2, <3>1, BusyJob DEF LoadPending, At, Pcs, Job, Version, Texts
    <3>. QED
      BY <1>1, <3>2 DEF LoadPending, TypeOK
  <2>. QED
    BY <2>1, <2>2
<1>2. CASE ConfirmOK
  <2>1. bird' \in Bird
    BY <1>2, BoundsAssumption DEF ConfirmOK, Bird, Off, TypeOK, BoundsAssumption
  <2>. QED
    BY <1>2, <2>1, GotoLemma DEF ConfirmOK, At, Pcs, TypeOK
<1>3. CASE ConfirmLost
  <2>1. bird' \in Bird
    BY <1>3, BoundsAssumption DEF ConfirmLost, Bird, Off, TypeOK, BoundsAssumption
  <2>. QED
    BY <1>3, <2>1, GotoLemma, FaultType DEF ConfirmLost, At, Pcs, TypeOK
<1>4. CASE Stamp
  <2>1. job.id \in PendingRows
    BY <1>4 DEF IInv, PcFitsOp, ConfirmHoldsVersion, Stamp, At, Confirming
  <2>2. versions' \in Seq(Version) /\ versions[job.id] \in Version
    BY <1>4, <2>1, ResolveLemma, VersionsAreRows DEF Stamp, PendingRows
  <2>. QED
    BY <1>4, <2>2, DoneLemma DEF Stamp, TypeOK, Version, Texts
<1>5. CASE StampFail
  BY <1>5, DoneLemma, FaultType DEF StampFail, TypeOK
<1>. QED
  BY <1>1, <1>2, <1>3, <1>4, <1>5 DEF ConfirmStep

LEMMA TypeRollback ==
    ASSUME IInv, RollbackStep
    PROVE  TypeOK'
<1>. TypeOK /\ AtMostOnePending /\ versions \in Seq(Version)
  BY DEF IInv, TypeOK
<1>a. Undone \in Bird
  BY BirdFields, BoundsAssumption DEF Undone, Bird, Off, TypeOK, BoundsAssumption
<1>b. ASSUME At("undo"), job' = [job EXCEPT !.pc = "undoReload", !.id = PendingId]
      PROVE  job' \in Job
  <2>1. PendingId \in Nat
    BY <1>b, PendingIdIsPending DEF IInv, RollbackHoldsVersion, At
  <2>. QED
    BY <1>b, <2>1, BusyJob DEF At, Pcs, Job
<1>1. CASE Undo
  BY <1>1, <1>a, <1>b DEF Undo, TypeOK
<1>2. CASE UndoLost
  BY <1>2, <1>a, <1>b, FaultType DEF UndoLost, TypeOK
<1>3. CASE UndoReload
  BY <1>3, ReloadType, GotoLemma DEF UndoReload, At, Pcs, TypeOK
<1>4. CASE ResolveRolledBack
  <2>1. job.id \in PendingRows
    BY <1>4 DEF IInv, RollbackHoldsVersion, ResolveRolledBack, At
  <2>2. versions' \in Seq(Version)
    BY <1>4, <2>1, ResolveLemma DEF ResolveRolledBack
  <2>. QED
    BY <1>4, <2>2, DoneLemma DEF ResolveRolledBack, TypeOK
<1>5. CASE ResolveFail
  BY <1>5, DoneLemma, FaultType DEF ResolveFail, TypeOK
<1>. QED
  BY <1>1, <1>2, <1>3, <1>4, <1>5 DEF RollbackStep

LEMMA TypeAdopt ==
    ASSUME IInv, AdoptStep
    PROVE  TypeOK'
<1>. TypeOK
  BY DEF IInv
<1>1. CASE AdoptRead
  <2>1. job' \in Job
    BY <1>1, BusyJob DEF AdoptRead, At, Pcs, Job, TypeOK
  <2>. QED
    BY <1>1, <2>1 DEF AdoptRead, TypeOK
<1>2. CASE AdoptOwn
  BY <1>2, DoneLemma, BusyJob DEF AdoptOwn, At, Pcs, Job, TypeOK
<1>. QED
  BY <1>1, <1>2 DEF AdoptStep

LEMMA TypeOutside ==
    ASSUME IInv, (\E op \in Ops : Begin(op)) \/ Outside \/ Crash \/ UNCHANGED vars
    PROVE  TypeOK'
<1>. TypeOK
  BY DEF IInv
<1>1. ASSUME NEW op \in Ops, Begin(op) PROVE TypeOK'
  <2>1. job' \in Job
    <3>1. Entry(op) \in Pcs
      BY DEF Entry, Pcs
    <3>2. 0 \in 0..Timeout
      BY BoundsAssumption DEF BoundsAssumption
    <3>3. job' = [op |-> op, pc |-> Entry(op), cfg |-> None, backup |-> None,
                  soft |-> FALSE, elapsed |-> 0, id |-> 0]
      BY <1>1 DEF Begin, Idle
    <3>. QED
      BY <3>1, <3>2, <3>3 DEF Job
  <2>. QED
    BY <1>1, <2>1 DEF Begin, TypeOK
<1>2. CASE Tick
  <2>1. versions' \in Seq(Version)
    BY <1>2, TickLemma DEF TypeOK
  <2>2. bird' \in Bird
    BY <1>2, BirdFields, BoundsAssumption DEF Tick, Bird, Off, TypeOK, BoundsAssumption
  <2>3. job' \in Job \cup {Idle}
    <3>1. CASE SinceSnapshot /\ job.elapsed < Timeout
      <4>1. job \in Job
        BY <3>1, IdleFields DEF SinceSnapshot, TypeOK
      <4>. QED
        BY <1>2, <3>1, <4>1, BoundsAssumption DEF Tick, Job, BoundsAssumption
    <3>2. CASE ~(SinceSnapshot /\ job.elapsed < Timeout)
      BY <1>2, <3>2 DEF Tick, TypeOK
    <3>. QED
      BY <3>1, <3>2
  <2>. QED
    BY <1>2, <2>1, <2>2, <2>3 DEF Tick, TypeOK
<1>3. CASE TimerFires
  <2>1. bird' \in Bird
    BY <1>3, BirdFields, BoundsAssumption DEF TimerFires, Bird, Off, BoundsAssumption
  <2>. QED
    BY <1>3, <2>1 DEF TimerFires, TypeOK
<1>4. CASE BirdRestart
  <2>1. bird' \in Bird
    BY <1>4, BoundsAssumption DEF BirdRestart, Bird, Off, TypeOK, BoundsAssumption
  <2>. QED
    BY <1>4, <2>1, FaultType DEF BirdRestart, TypeOK
<1>5. CASE Edit
  BY <1>5, BoundsAssumption DEF Edit, TypeOK, Texts, BoundsAssumption
<1>6. CASE OperatorConfigure
  <2>1. bird' \in Bird
    BY <1>6, BirdFields, BoundsAssumption DEF OperatorConfigure, Bird, Off, TypeOK, BoundsAssumption
  <2>. QED
    BY <1>6, <2>1, BoundsAssumption DEF OperatorConfigure, TypeOK, BoundsAssumption
<1>7. CASE Crash
  BY <1>7, DoneLemma, FaultType DEF Crash, TypeOK
<1>8. CASE UNCHANGED vars
  BY <1>8 DEF vars, TypeOK
<1>. QED
  BY <1>1, <1>2, <1>3, <1>4, <1>5, <1>6, <1>7, <1>8 DEF Outside

LEMMA TypeStep ==
    ASSUME IInv, [Next]_vars
    PROVE  TypeOK'
<1>. USE DEF Next, Work, HandlerStep, ApplyStep
<1>. QED
  BY TypeReconcile, TypeApplyFiles, TypeApplyRest, TypeConfirm, TypeRollback,
     TypeAdopt, TypeOutside

-----------------------------------------------------------------------------
(* The control invariant under every step.                                 *)

Control == PcFitsOp /\ ApplyHoldsGate /\ ConfirmHoldsVersion /\ RollbackHoldsVersion

LEMMA SameRows ==
    ASSUME UNCHANGED versions
    PROVE  PendingRows' = PendingRows
BY DEF PendingRows

\* A handler that returns holds nothing.
LEMMA ControlIdle ==
    ASSUME job' = Idle
    PROVE  Control'
<1>1. job'.pc = "idle" /\ job'.op = "none"
  BY IdleFields
<1>. QED
  BY <1>1 DEF Control, PcFitsOp, ApplyHoldsGate, ConfirmHoldsVersion,
              RollbackHoldsVersion, ApplyOps, PastGate, Confirming

\* A step that changes no version, and stays in its handler.
LEMMA ControlReconcile ==
    ASSUME IInv, ReconcileStep
    PROVE  Control' /\ AtMostOnePending'
<1>. TypeOK /\ AtMostOnePending /\ versions \in Seq(Version)
  BY DEF IInv, TypeOK
<1>. DEFINE Onwards == \/ job.op \in ApplyOps /\ job'.pc = "gate"
                       \/ job.op = "confirm" /\ job'.pc = "load"
<1>a. ASSUME job' \in Job, job'.op = job.op, Onwards
      PROVE  Control'
  BY <1>a DEF Control, PcFitsOp, ApplyHoldsGate, ConfirmHoldsVersion,
              RollbackHoldsVersion, ApplyOps, PastGate, Confirming
<1>1. CASE ReconcileNothing
  <2>1. Control'
    BY <1>1, <1>a, AfterReconcileLemma, ControlIdle DEF ReconcileNothing, At, Pcs
  <2>. QED
    BY <1>1, <2>1, SameRows DEF ReconcileNothing, AtMostOnePending
<1>2. CASE ReconcileRevert
  <2>1. PendingRows' = {}
    BY <1>2, PendingIdIsPending, ResolveLemma DEF ReconcileRevert
  <2>2. /\ job'.pc = "revertReload" /\ job'.op = job.op
        /\ job.op \in ApplyOps \cup {"confirm", "changes"}
    BY <1>2, GotoLemma DEF ReconcileRevert, At, Pcs, IInv, PcFitsOp
  <2>. QED
    BY <2>1, <2>2 DEF Control, PcFitsOp, ApplyHoldsGate, ConfirmHoldsVersion,
              RollbackHoldsVersion, PastGate, Confirming, AtMostOnePending
<1>3. CASE ReconcileReload
  <2>1. Control'
    BY <1>3, <1>a, AfterReconcileLemma, ControlIdle DEF ReconcileReload, At, Pcs
  <2>. QED
    BY <1>3, <2>1, SameRows DEF ReconcileReload, AtMostOnePending
<1>. QED
  BY <1>1, <1>2, <1>3 DEF ReconcileStep

LEMMA ControlApply ==
    ASSUME IInv, ApplyStep
    PROVE  Control' /\ AtMostOnePending'
<1>. TypeOK /\ AtMostOnePending /\ versions \in Seq(Version)
  BY DEF IInv, TypeOK
<1>. USE DEF At
<1>a. ASSUME UNCHANGED versions, job.pc \in PastGate, NEW pc \in PastGate,
             Goto(pc), pc \in PastGate \ Confirming => job.op \in ApplyOps
      PROVE  Control' /\ AtMostOnePending'
  <2>1. /\ job'.pc = pc /\ job'.op = job.op /\ job'.cfg = job.cfg /\ job'.id = job.id
    BY <1>a, GotoLemma DEF PastGate, Pcs
  <2>2. PendingRows' = PendingRows
    BY <1>a, SameRows
  <2>3. job.op \in ApplyOps \cup {"confirm"}
    BY <1>a DEF IInv, PcFitsOp
  <2>4. job.op = "confirm" => job.pc \in Confirming
    BY <1>a DEF IInv, PcFitsOp, ApplyOps
  <2>5. job.op = "confirm" => pc \in Confirming
    BY <1>a DEF ApplyOps
  <2>6. PcFitsOp'
    BY <2>1, <2>3, <2>5, <1>a DEF PcFitsOp, PastGate, Confirming, ApplyOps
  <2>7. ApplyHoldsGate' /\ ConfirmHoldsVersion'
    BY <2>1, <2>2, <2>4, <2>5, <1>a DEF IInv, ApplyHoldsGate, ConfirmHoldsVersion
  <2>. QED
    BY <2>1, <2>2, <2>6, <2>7, <1>a
    DEF Control, RollbackHoldsVersion, PastGate, AtMostOnePending
<1>b. ASSUME UNCHANGED versions, Done
      PROVE  Control' /\ AtMostOnePending'
  BY <1>b, SameRows, DoneLemma, ControlIdle DEF AtMostOnePending
<1>c. /\ job.pc \in {"check", "arm", "reload", "restore", "record"} => job.op \in ApplyOps
  BY DEF IInv, PcFitsOp, PastGate, Confirming
<1>1. ASSUME NEW cfg \in Configs, NEW soft \in BOOLEAN, Gate(cfg, soft)
      PROVE  Control' /\ AtMostOnePending'
  <2>1. job \in Job /\ job.op \in ApplyOps
    BY <1>1, BusyJob DEF Gate, Pcs, IInv, PcFitsOp
  <2>2. job'.pc = "snapshot" /\ job'.op = job.op /\ job'.cfg = cfg
    BY <1>1, <2>1 DEF Gate, Job
  <2>. QED
    BY <1>1, <2>1, <2>2, SameRows DEF Gate, Control, PcFitsOp, ApplyHoldsGate,
       ConfirmHoldsVersion, RollbackHoldsVersion, ApplyOps, PastGate, Confirming,
       AtMostOnePending
<1>2. CASE Snapshot
  <2>1. job \in Job /\ job.op \in ApplyOps
    BY <1>2, BusyJob DEF Snapshot, Pcs, IInv, PcFitsOp, PastGate, Confirming
  <2>2. job'.pc = "write" /\ job'.op = job.op /\ job'.cfg = job.cfg
    BY <1>2, <2>1 DEF Snapshot, Job
  <2>. QED
    BY <1>2, <2>1, <2>2, SameRows DEF Snapshot, IInv, Control, PcFitsOp, ApplyHoldsGate,
       ConfirmHoldsVersion, RollbackHoldsVersion, ApplyOps, PastGate, Confirming,
       AtMostOnePending
<1>3. CASE WriteBegin
  BY <1>3, <1>a DEF WriteBegin, PastGate, Confirming
<1>4. CASE WriteEnd
  <2>1. CASE job.op = "confirm"
    <3>1. Goto("confirm") /\ job.pc = "writing" /\ UNCHANGED versions
      BY <1>4, <2>1 DEF WriteEnd
    <3>2. job'.pc = "confirm" /\ job'.op = job.op /\ job'.cfg = job.cfg /\ job'.id = job.id
      BY <3>1, GotoLemma DEF Pcs
    <3>. QED
      BY <2>1, <3>1, <3>2, SameRows DEF IInv, Control, PcFitsOp, ApplyHoldsGate,
         ConfirmHoldsVersion, RollbackHoldsVersion, ApplyOps, PastGate, Confirming,
         AtMostOnePending
  <2>2. CASE job.op # "confirm"
    <3>1. job.op \in ApplyOps
      BY <1>4, <2>2 DEF WriteEnd, IInv, PcFitsOp, PastGate
    <3>. QED
      BY <1>4, <1>a, <2>2, <3>1 DEF WriteEnd, PastGate, Confirming
  <2>. QED
    BY <2>1, <2>2
<1>5. CASE WriteFail
  BY <1>5, <1>a, <1>b DEF WriteFail, PastGate, Confirming
<1>6. CASE Check
  BY <1>6, <1>a, <1>c DEF Check, PastGate, Confirming
<1>7. CASE ArmOK
  BY <1>7, <1>a, <1>c DEF ArmOK, PastGate, Confirming
<1>8. CASE ArmRefused \/ ArmLost
  BY <1>8, <1>a, <1>c DEF ArmRefused, ArmLost, PastGate, Confirming
<1>9. CASE ApplyReload
  BY <1>9, <1>a, <1>c DEF ApplyReload, PastGate, Confirming
<1>10. CASE Restore
  BY <1>10, <1>a, <1>c DEF Restore, PastGate, Confirming
<1>11. CASE Record
  <2>1. PendingRows = {}
    BY <1>11, <1>c DEF Record, IInv, ApplyHoldsGate, PastGate
  <2>2. PendingRows' = {Len(versions) + 1}
    BY <1>11, <2>1, RecordRow, RecordLemma DEF Record
  <2>. QED
    BY <1>11, <2>2, DoneLemma, ControlIdle DEF Record, AtMostOnePending
<1>12. CASE Refuse \/ RollbackFiles \/ RollbackFilesFail \/ RestoreFail \/ RecordFail
  BY <1>12, <1>b DEF Refuse, RollbackFiles, RollbackFilesFail, RestoreFail, RecordFail
<1>. QED
  BY <1>1, <1>2, <1>3, <1>4, <1>5, <1>6, <1>7, <1>8, <1>9, <1>10, <1>11, <1>12
  DEF ApplyStep

LEMMA ControlConfirm ==
    ASSUME IInv, ConfirmStep
    PROVE  Control' /\ AtMostOnePending'
<1>. TypeOK /\ AtMostOnePending /\ versions \in Seq(Version)
  BY DEF IInv, TypeOK
<1>. USE DEF At
<1>a. ASSUME UNCHANGED versions, Done
      PROVE  Control' /\ AtMostOnePending'
  BY <1>a, SameRows, DoneLemma, ControlIdle DEF AtMostOnePending
<1>b. ASSUME UNCHANGED versions, job.pc = "confirm", NEW pc \in {"stamp", "rollbackFiles"},
             Goto(pc)
      PROVE  Control' /\ AtMostOnePending'
  <2>1. job'.pc = pc /\ job'.op = job.op /\ job'.cfg = job.cfg /\ job'.id = job.id
    BY <1>b, GotoLemma DEF Pcs
  <2>2. job.op = "confirm"
    BY <1>b DEF IInv, PcFitsOp
  <2>. QED
    BY <1>b, <2>1, <2>2, SameRows DEF IInv, Control, PcFitsOp, ApplyHoldsGate,
       ConfirmHoldsVersion, RollbackHoldsVersion, ApplyOps, PastGate, Confirming,
       AtMostOnePending
<1>1. CASE LoadPending
  <2>1. CASE PendingRows = {}
    BY <1>1, <1>a, <2>1 DEF LoadPending
  <2>2. CASE PendingRows # {}
    <3>1. PendingId \in PendingRows
      BY <2>2, PendingIdIsPending
    <3>2. job \in Job /\ job.op = "confirm"
      BY <1>1, BusyJob DEF LoadPending, Pcs, IInv, PcFitsOp
    <3>3. job' = [job EXCEPT !.pc = "write", !.id = PendingId,
                             !.cfg = versions[PendingId].cfg,
                             !.backup = versions[PendingId].backup]
      BY <1>1, <2>2 DEF LoadPending
    <3>4. /\ job'.pc = "write" /\ job'.op = job.op
          /\ job'.cfg = versions[PendingId].cfg /\ job'.id = PendingId
      BY <3>2, <3>3 DEF Job
    <3>. QED
      BY <1>1, <3>1, <3>2, <3>4, SameRows DEF LoadPending, Control, PcFitsOp,
         ApplyHoldsGate, ConfirmHoldsVersion, RollbackHoldsVersion, ApplyOps, PastGate,
         Confirming, AtMostOnePending
  <2>. QED
    BY <2>1, <2>2
<1>2. CASE ConfirmOK \/ ConfirmLost
  BY <1>2, <1>b DEF ConfirmOK, ConfirmLost
<1>3. CASE Stamp
  <2>1. job.id \in PendingRows
    BY <1>3 DEF IInv, PcFitsOp, ConfirmHoldsVersion, Stamp, Confirming
  <2>2. PendingRows' = PendingRows \ {job.id}
    BY <1>3, <2>1, ResolveLemma DEF Stamp
  <2>. QED
    BY <1>3, <2>2, DoneLemma, ControlIdle DEF Stamp, AtMostOnePending
<1>4. CASE StampFail
  BY <1>4, <1>a DEF StampFail
<1>. QED
  BY <1>1, <1>2, <1>3, <1>4 DEF ConfirmStep

LEMMA ControlRollback ==
    ASSUME IInv, RollbackStep
    PROVE  Control' /\ AtMostOnePending'
<1>. TypeOK /\ AtMostOnePending /\ versions \in Seq(Version)
  BY DEF IInv, TypeOK
<1>. USE DEF At
<1>1. CASE Undo \/ UndoLost
  <2>1. PendingId \in PendingRows /\ job \in Job /\ job.op = "rollback"
    BY <1>1, PendingIdIsPending, BusyJob
    DEF Undo, UndoLost, IInv, RollbackHoldsVersion, PcFitsOp, Pcs
  <2>2. job'.pc = "undoReload" /\ job'.op = job.op /\ job'.id = PendingId
    BY <1>1, <2>1 DEF Undo, UndoLost, Job
  <2>. QED
    BY <1>1, <2>1, <2>2, SameRows DEF Undo, UndoLost, Control, PcFitsOp, ApplyHoldsGate,
       ConfirmHoldsVersion, RollbackHoldsVersion, ApplyOps, PastGate, Confirming,
       AtMostOnePending
<1>2. CASE UndoReload
  <2>1. job'.pc = "resolve" /\ job'.op = job.op /\ job'.id = job.id /\ job.op = "rollback"
    BY <1>2, GotoLemma DEF UndoReload, Pcs, IInv, PcFitsOp
  <2>. QED
    BY <1>2, <2>1, SameRows DEF UndoReload, IInv, Control, PcFitsOp, ApplyHoldsGate,
       ConfirmHoldsVersion, RollbackHoldsVersion, ApplyOps, PastGate, Confirming,
       AtMostOnePending
<1>3. CASE ResolveRolledBack
  <2>1. PendingRows' = PendingRows \ {job.id}
    BY <1>3, ResolveLemma DEF ResolveRolledBack, IInv, RollbackHoldsVersion
  <2>. QED
    BY <1>3, <2>1, DoneLemma, ControlIdle DEF ResolveRolledBack, AtMostOnePending
<1>4. CASE ResolveFail
  BY <1>4, SameRows, DoneLemma, ControlIdle DEF ResolveFail, AtMostOnePending
<1>. QED
  BY <1>1, <1>2, <1>3, <1>4 DEF RollbackStep

LEMMA ControlAdopt ==
    ASSUME IInv, AdoptStep
    PROVE  Control' /\ AtMostOnePending'
<1>. TypeOK /\ AtMostOnePending
  BY DEF IInv
<1>1. CASE AdoptRead
  <2>1. job \in Job /\ job.op = "adopt"
    BY <1>1, BusyJob DEF AdoptRead, At, Pcs, IInv, PcFitsOp
  <2>2. job'.pc = "own" /\ job'.op = "adopt"
    BY <1>1, <2>1 DEF AdoptRead, Job
  <2>. QED
    BY <1>1, <2>2, SameRows DEF AdoptRead, Control, PcFitsOp, ApplyHoldsGate,
       ConfirmHoldsVersion, RollbackHoldsVersion, ApplyOps, PastGate, Confirming,
       AtMostOnePending
<1>2. CASE AdoptOwn
  BY <1>2, SameRows, DoneLemma, ControlIdle DEF AdoptOwn, AtMostOnePending
<1>. QED
  BY <1>1, <1>2 DEF AdoptStep

LEMMA ControlOutside ==
    ASSUME IInv, (\E op \in Ops : Begin(op)) \/ Outside \/ Crash \/ UNCHANGED vars
    PROVE  Control' /\ AtMostOnePending'
<1>. TypeOK /\ AtMostOnePending /\ versions \in Seq(Version)
  BY DEF IInv, TypeOK
<1>1. ASSUME NEW op \in Ops, Begin(op) PROVE Control' /\ AtMostOnePending'
  <2>1. job'.pc = Entry(op) /\ job'.op = op
    BY <1>1 DEF Begin, Idle
  <2>. QED
    BY <1>1, <2>1, SameRows DEF Begin, Entry, Ops, Control, PcFitsOp, ApplyHoldsGate,
       ConfirmHoldsVersion, RollbackHoldsVersion, ApplyOps, PastGate, Confirming,
       AtMostOnePending
<1>2. CASE UNCHANGED <<versions, job>>
  BY <1>2, SameRows DEF IInv, Control, PcFitsOp, ApplyHoldsGate, ConfirmHoldsVersion,
     RollbackHoldsVersion, AtMostOnePending
<1>3. CASE Tick
  <2>1. /\ job'.pc = job.pc /\ job'.op = job.op /\ job'.cfg = job.cfg /\ job'.id = job.id
    <3>1. CASE SinceSnapshot /\ job.elapsed < Timeout
      <4>1. job \in Job
        BY <3>1, IdleFields DEF SinceSnapshot, TypeOK
      <4>. QED
        BY <1>3, <3>1, <4>1 DEF Tick, Job
    <3>2. CASE ~(SinceSnapshot /\ job.elapsed < Timeout)
      BY <1>3, <3>2 DEF Tick
    <3>. QED
      BY <3>1, <3>2
  <2>2. PendingRows' = PendingRows
    BY <1>3, TickLemma
  <2>3. \A i \in PendingRows : versions'[i].cfg = versions[i].cfg
    BY <1>3, TickLemma, AgedRow, VersionsAreRows DEF PendingRows
  <2>. QED
    BY <2>1, <2>2, <2>3 DEF IInv, Control, PcFitsOp, ApplyHoldsGate, ConfirmHoldsVersion,
       RollbackHoldsVersion, AtMostOnePending
<1>4. CASE Crash
  BY <1>4, SameRows, DoneLemma, ControlIdle DEF Crash, AtMostOnePending
<1>. QED
  BY <1>1, <1>2, <1>3, <1>4
  DEF Outside, TimerFires, BirdRestart, Edit, OperatorConfigure, vars

-----------------------------------------------------------------------------
(* The invariant holds.                                                    *)

LEMMA InitIInv ==
    ASSUME Init
    PROVE  IInv
<1>1. PendingRows = {}
  BY EmptySeq DEF Init, PendingRows
<1>2. TypeOK
  <2>1. versions \in Seq(Version)
    BY EmptySeq DEF Init
  <2>2. bird \in Bird
    BY BoundsAssumption DEF Init, Bird, Off, Texts, BoundsAssumption
  <2>. QED
    BY <2>1, <2>2, BoundsAssumption DEF Init, TypeOK, Texts, BoundsAssumption
<1>3. job.pc = "idle" /\ job.op = "none"
  BY IdleFields DEF Init
<1>. QED
  BY <1>1, <1>2, <1>3 DEF IInv, AtMostOnePending, PcFitsOp, ApplyHoldsGate,
     ConfirmHoldsVersion, RollbackHoldsVersion, ApplyOps, PastGate, Confirming

LEMMA NextIInv ==
    ASSUME IInv, [Next]_vars
    PROVE  IInv'
<1>1. Control' /\ AtMostOnePending'
  BY ControlReconcile, ControlApply, ControlConfirm, ControlRollback, ControlAdopt,
     ControlOutside DEF Next, Work, HandlerStep
<1>. QED
  BY <1>1, TypeStep DEF IInv, Control

THEOREM Inductive == Spec => []IInv
<1>1. Init => IInv
  BY InitIInv
<1>2. IInv /\ [Next]_vars => IInv'
  BY NextIInv
<1>. QED
  BY <1>1, <1>2, PTL DEF Spec

\* Every variable keeps its type, whatever the environment does.
THEOREM TypeCorrect == Spec => []TypeOK
<1>1. IInv => TypeOK
  BY DEF IInv
<1>. QED
  BY <1>1, Inductive, PTL

\* At most one version is pending: the mutex and the pending check of
\* canStartApply suffice, through every crash, lost reply and slow handler.
THEOREM OnlyOnePending == Spec => []AtMostOnePending
<1>1. IInv => AtMostOnePending
  BY DEF IInv
<1>. QED
  BY <1>1, Inductive, PTL

-----------------------------------------------------------------------------
(* The five things a step can do to the version table and the hash.        *)

Resolves(i) == i \in PendingRows /\ Resolve(i, "reverted") /\ UNCHANGED hash

Confirms(i) ==
    i \in PendingRows /\ Resolve(i, "confirmed") /\ hash' = versions[i].cfg

Records ==
    /\ PendingRows = {} /\ UNCHANGED hash
    /\ \E row \in Version : row.status = "pending" /\ versions' = Append(versions, row)

Ages == Tick /\ UNCHANGED hash

Keeps == UNCHANGED versions /\ hash' \in Texts \cup {None}

LEMMA VersionSteps ==
    ASSUME IInv, [Next]_vars
    PROVE  (\E i \in PendingRows : Resolves(i) \/ Confirms(i)) \/ Records \/ Ages \/ Keeps
<1>. TypeOK /\ AtMostOnePending /\ versions \in Seq(Version)
  BY DEF IInv, TypeOK
<1>. USE DEF At
<1>1. CASE ReconcileRevert
  BY <1>1, PendingIdIsPending DEF ReconcileRevert, Resolves
<1>2. CASE ResolveRolledBack
  BY <1>2 DEF ResolveRolledBack, Resolves, IInv, RollbackHoldsVersion
<1>3. CASE Stamp
  <2>1. job.id \in PendingRows
    BY <1>3 DEF IInv, PcFitsOp, ConfirmHoldsVersion, Stamp, Confirming
  <2>. QED
    BY <1>3, <2>1 DEF Stamp, Confirms
<1>4. CASE Record
  <2>1. PendingRows = {}
    BY <1>4 DEF Record, IInv, PcFitsOp, ApplyHoldsGate, PastGate, Confirming
  <2>. QED
    BY <1>4, <2>1, RecordRow DEF Record, Records
<1>5. CASE Tick
  BY <1>5 DEF Tick, Ages
<1>6. CASE AdoptStep
  BY <1>6, TypeStep DEF AdoptStep, AdoptRead, AdoptOwn, Keeps, TypeOK
<1>. DEFINE Quiet == UNCHANGED <<versions, hash>>
<1>7. Quiet => Keeps
  BY DEF Keeps, TypeOK
<1>8. CASE ReconcileNothing \/ ReconcileReload
  BY <1>7, <1>8 DEF ReconcileNothing, ReconcileReload
<1>9. CASE ApplyStep /\ ~Record
  BY <1>7, <1>9 DEF ApplyStep, Gate, Refuse, Snapshot, WriteBegin, WriteEnd, WriteFail,
     RollbackFiles, RollbackFilesFail, Check, ArmOK, ArmRefused, ArmLost, ApplyReload,
     Restore, RestoreFail, RecordFail
<1>10. CASE ConfirmStep /\ ~Stamp
  BY <1>7, <1>10 DEF ConfirmStep, LoadPending, ConfirmOK, ConfirmLost, StampFail
<1>11. CASE RollbackStep /\ ~ResolveRolledBack
  BY <1>7, <1>11 DEF RollbackStep, Undo, UndoLost, UndoReload, ResolveFail
<1>12. CASE \/ \E op \in Ops : Begin(op)
            \/ Outside /\ ~Tick
            \/ Crash \/ UNCHANGED vars
  BY <1>7, <1>12 DEF Begin, Outside, TimerFires, BirdRestart, Edit, OperatorConfigure,
     Crash, vars
<1>. QED
  BY <1>1, <1>2, <1>3, <1>4, <1>5, <1>6, <1>8, <1>9, <1>10, <1>11, <1>12
  DEF Next, Work, HandlerStep, ReconcileStep

\* No step changes what a row says it would apply, or a row that is resolved.
LEMMA RowsAreKept ==
    ASSUME IInv, [Next]_vars, NEW i \in DOMAIN versions
    PROVE  /\ i \in DOMAIN versions'
           /\ versions'[i].cfg = versions[i].cfg
           /\ versions'[i].backup = versions[i].backup
           /\ versions[i].status # "pending" => versions'[i] = versions[i]
<1>. versions \in Seq(Version)
  BY DEF IInv, TypeOK
<1>1. ASSUME NEW k \in PendingRows, NEW status \in {"confirmed", "reverted"},
             Resolve(k, status)
      PROVE  /\ i \in DOMAIN versions'
             /\ versions'[i].cfg = versions[i].cfg
             /\ versions'[i].backup = versions[i].backup
             /\ versions[i].status # "pending" => versions'[i] = versions[i]
  BY <1>1, ResolveLemma DEF PendingRows
<1>2. CASE \E k \in PendingRows : Resolves(k) \/ Confirms(k)
  BY <1>1, <1>2 DEF Resolves, Confirms
<1>3. CASE Records
  BY <1>3, RecordLemma DEF Records
<1>4. CASE Ages
  BY <1>4, TickLemma, AgedRow, VersionsAreRows DEF Ages
<1>5. CASE Keeps
  BY <1>5 DEF Keeps
<1>. QED
  BY <1>2, <1>3, <1>4, <1>5, VersionSteps

\* A resolved version stays as it was recorded, for ever.
THEOREM ResolutionIsFinal == Spec => ResolvedIsFinal
<1>1. IInv /\ [Next]_vars =>
        [\A i \in DOMAIN versions :
            /\ i \in DOMAIN versions'
            /\ versions'[i].cfg = versions[i].cfg
            /\ versions'[i].backup = versions[i].backup
            /\ versions[i].status # "pending" => versions'[i] = versions[i]]_vars
  BY RowsAreKept
<1>. QED
  BY <1>1, Inductive, PTL DEF Spec, ResolvedIsFinal

-----------------------------------------------------------------------------
(* The pipeline implements ChangeControl.                                  *)

LEMMA LedgerRows ==
    ASSUME versions \in Seq(Version)
    PROVE  /\ DOMAIN Ledger = DOMAIN versions
           /\ Ledger \in Seq([cfg : Configs, status : {"pending", "confirmed", "reverted"}])
           /\ Len(Ledger) = Len(versions)
           /\ \A i \in DOMAIN versions : /\ Ledger[i].cfg = versions[i].cfg
                                         /\ Ledger[i].status = versions[i].status
           /\ Change!Open = PendingRows
<1>. DEFINE Entries == [cfg : Configs, status : {"pending", "confirmed", "reverted"}]
            entry(i) == [cfg |-> versions[i].cfg, status |-> versions[i].status]
<1>1. \A i \in 1..Len(versions) : entry(i) \in Entries
  BY VersionsAreRows DEF Version
<1>2. Ledger = [i \in 1..Len(versions) |-> entry(i)]
  BY VersionsAreRows DEF Ledger
<1>3. Ledger \in Seq(Entries)
  BY <1>1, <1>2, VersionsAreRows, IsASeq
<1>4. DOMAIN Ledger = DOMAIN versions
  BY DEF Ledger
<1>5. Len(Ledger) = Len(versions)
  BY <1>3, <1>4, LenProperties, VersionsAreRows
<1>. QED
  BY <1>3, <1>4, <1>5 DEF Ledger, Change!Open, PendingRows

LEMMA LedgerResolve ==
    ASSUME versions \in Seq(Version), NEW i \in PendingRows,
           NEW status \in {"confirmed", "reverted"}, Resolve(i, status)
    PROVE  Ledger' = [Ledger EXCEPT ![i].status = status]
<1>. DEFINE old(j) == [cfg |-> versions[j].cfg, status |-> versions[j].status]
            new(j) == IF j = i THEN [cfg |-> versions[i].cfg, status |-> status]
                               ELSE old(j)
<1>1. /\ DOMAIN versions' = DOMAIN versions /\ i \in DOMAIN versions
      /\ \A j \in DOMAIN versions : j # i => versions'[j] = versions[j]
      /\ versions'[i].cfg = versions[i].cfg /\ versions'[i].status = status
  BY ResolveLemma DEF PendingRows
<1>2. Ledger' = [j \in DOMAIN versions |-> new(j)]
  BY <1>1 DEF Ledger
<1>3. Ledger = [j \in DOMAIN versions |-> old(j)]
  BY DEF Ledger
<1>4. [old(i) EXCEPT !.status = status] = new(i)
  OBVIOUS
<1>5. [Ledger EXCEPT ![i].status = status] =
        [j \in DOMAIN versions |-> IF j = i THEN [old(i) EXCEPT !.status = status]
                                           ELSE old(j)]
  <2>. HIDE DEF old
  <2>. QED
    BY <1>1, <1>3
<1>. QED
  BY <1>2, <1>4, <1>5

LEMMA LedgerRecord ==
    ASSUME versions \in Seq(Version), NEW row \in Version, row.status = "pending",
           versions' = Append(versions, row)
    PROVE  Ledger' = Append(Ledger, [cfg |-> row.cfg, status |-> "pending"])
<1>. DEFINE Entries == [cfg : Configs, status : {"pending", "confirmed", "reverted"}]
            last == [cfg |-> row.cfg, status |-> "pending"]
<1>1. /\ versions' \in Seq(Version)
      /\ \A j \in DOMAIN versions : versions'[j] = versions[j]
      /\ versions'[Len(versions) + 1] = row
  BY RecordLemma
<1>2. Len(versions') = Len(versions) + 1
  BY AppendProperties
<1>3. Ledger' \in Seq(Entries) /\ Len(Ledger') = Len(versions) + 1
  <2>2. Ledger' = [i \in 1..Len(versions') |->
                      [cfg |-> versions'[i].cfg, status |-> versions'[i].status]]
    BY <1>1, LenProperties DEF Ledger
  <2>3. \A i \in 1..Len(versions') :
            [cfg |-> versions'[i].cfg, status |-> versions'[i].status] \in Entries
    <3>1. TAKE i \in 1..Len(versions')
    <3>2. versions'[i] \in Version
      BY <1>1, ElementOfSeq
    <3>3. /\ versions'[i].cfg \in Configs
          /\ versions'[i].status \in {"pending", "confirmed", "reverted"}
      BY <3>2 DEF Version
    <3>. QED
      BY <3>3
  <2>4. Len(versions') \in Nat
    BY <1>1, LenProperties
  <2>5. Ledger' \in Seq(Entries)
    BY <2>2, <2>3, <2>4, IsASeq
  <2>6. DOMAIN Ledger' = 1..Len(versions')
    BY <2>2
  <2>. QED
    BY <1>2, <2>4, <2>5, <2>6, LenProperties
<1>4. last \in Entries
  BY DEF Version
<1>5. /\ Ledger \in Seq(Entries) /\ Len(Ledger) = Len(versions)
  BY LedgerRows
<1>6. /\ Append(Ledger, last) \in Seq(Entries)
      /\ Len(Append(Ledger, last)) = Len(versions) + 1
      /\ \A j \in 1..Len(versions) : Append(Ledger, last)[j] = Ledger[j]
      /\ Append(Ledger, last)[Len(versions) + 1] = last
  BY <1>4, <1>5, AppendProperties
<1>7. DOMAIN versions' = 1..(Len(versions) + 1) /\ DOMAIN versions = 1..Len(versions)
  BY <1>1, <1>2, LenProperties
<1>8. \A j \in 1..(Len(versions) + 1) : Ledger'[j] = Append(Ledger, last)[j]
  <2>1. \A j \in 1..Len(versions) : Ledger'[j] = Ledger[j]
    BY <1>1, <1>7, VersionsAreRows DEF Ledger
  <2>2. Ledger'[Len(versions) + 1] = last
    BY <1>1, <1>7, VersionsAreRows DEF Ledger
  <2>. QED
    BY <1>6, <2>1, <2>2, VersionsAreRows
<1>. QED
  BY <1>3, <1>6, <1>8, SeqEqual

LEMMA ChangeInit ==
    ASSUME Init
    PROVE  Change!Init
<1>1. versions = <<>> /\ hash = None
  BY DEF Init
<1>2. Ledger = <<>>
  BY <1>1 DEF Ledger
<1>. QED
  BY <1>1, <1>2 DEF Change!Init

LEMMA ChangeStep ==
    ASSUME IInv, [Next]_vars
    PROVE  [Change!Next]_<<hash, Ledger>>
<1>. versions \in Seq(Version)
  BY DEF IInv, TypeOK
<1>1. ASSUME NEW i \in PendingRows, Resolves(i)
      PROVE  Change!Withdraw(i)
  BY <1>1, LedgerResolve, LedgerRows DEF Resolves, Change!Withdraw
<1>2. ASSUME NEW i \in PendingRows, Confirms(i)
      PROVE  Change!Accept(i)
  BY <1>2, LedgerResolve, LedgerRows DEF Confirms, Change!Accept, PendingRows
<1>3. ASSUME Records
      PROVE  \E cfg \in Configs : Change!Propose(cfg)
  <2>1. PICK row \in Version : row.status = "pending" /\ versions' = Append(versions, row)
    BY <1>3 DEF Records
  <2>2. row.cfg \in Configs
    BY DEF Version
  <2>. QED
    BY <1>3, <2>1, <2>2, LedgerRecord, LedgerRows DEF Records, Change!Propose
<1>4. ASSUME Ages
      PROVE  UNCHANGED <<hash, Ledger>>
  <2>1. /\ DOMAIN versions' = DOMAIN versions
        /\ \A j \in DOMAIN versions : /\ versions'[j].cfg = versions[j].cfg
                                      /\ versions'[j].status = versions[j].status
    BY <1>4, TickLemma, AgedRow, VersionsAreRows DEF Ages
  <2>. QED
    BY <1>4, <2>1 DEF Ages, Ledger
<1>5. ASSUME Keeps
      PROVE  \E text \in Texts \cup {None} : Change!Adopt(text)
  BY <1>5 DEF Keeps, Ledger, Change!Adopt
<1>6. PendingRows \subseteq DOMAIN Ledger
  BY LedgerRows DEF PendingRows
<1>. QED
  BY <1>1, <1>2, <1>3, <1>4, <1>5, <1>6, VersionSteps DEF Change!Next

\* Whatever fails, birdy's record of the router is that of ChangeControl: the
\* hash advances exactly when a pending version is confirmed, or by adoption.
THEOREM Refinement == Spec => ImplementsChangeControl
<1>1. Init => Change!Init
  BY ChangeInit
<1>2. IInv /\ [Next]_vars => [Change!Next]_<<hash, Ledger>>
  BY ChangeStep
<1>. QED
  BY <1>1, <1>2, Inductive, PTL DEF Spec, ImplementsChangeControl, Change!Spec

-----------------------------------------------------------------------------
(***************************************************************************)
(* Who the file belongs to, and what BIRD would go back to.                *)
(*                                                                         *)
(* First: an apply never replaces what the operator put on disk, whatever  *)
(* the interleaving.  The authorship gate is checked once, early; what     *)
(* makes that enough is that the mutex keeps every other handler out, and  *)
(* that an edit under a running handler is not yet the operator's last     *)
(* word (it lands between two writes of the same file).                    *)
(*                                                                         *)
(* Then, the other way round: while nothing fails and nobody intervenes,   *)
(* birdy knows its own file, and the drift watcher has nothing to say.     *)
(*                                                                         *)
(* Last, for handlers that take no time: one configuration is armed at a   *)
(* time, and the file, BIRD and the record agree on what it would revert   *)
(* to, and on what runs once everything has settled.                       *)
(***************************************************************************)

\* The places where a handler has already replaced, or may replace, the file.
Guarded == {"snapshot", "writing", "check", "arm", "reload", "restore", "record",
            "rollbackFiles", "confirm", "stamp"}

\* A hand edit shows against the hash, and no apply is past its gate with one.
HandShows ==
    /\ hand => disk # hash
    /\ job.pc \in Guarded => ~hand
    /\ job.pc = "write" /\ job.op \in ApplyOps => ~hand

LEMMA HandInit ==
    ASSUME Init
    PROVE  HandShows
BY IdleFields DEF Init, HandShows, Guarded, ApplyOps

\* The two easy ways to keep it.
LEMMA NoHand ==
    ASSUME ~hand'
    PROVE  HandShows'
BY DEF HandShows

LEMMA Elsewhere ==
    ASSUME HandShows, UNCHANGED <<disk, hash, hand>>, job'.pc \notin Guarded,
           job'.pc = "write" => job'.op \notin ApplyOps
    PROVE  HandShows'
BY DEF HandShows

LEMMA ReturnShows ==
    ASSUME HandShows, UNCHANGED <<disk, hash, hand>>, Done
    PROVE  HandShows'
BY DoneLemma, Elsewhere DEF Guarded

LEMMA HandReconcile ==
    ASSUME IInv, HandShows, ReconcileStep
    PROVE  HandShows'
<1>. USE DEF At
<1>1. CASE ReconcileNothing \/ ReconcileReload
  <2>1. job'.pc \in {"gate", "load", "idle"}
    BY <1>1, AfterReconcileLemma, BusyJob, IdleFields
    DEF ReconcileNothing, ReconcileReload, IInv, PcFitsOp, Pcs, ApplyOps
  <2>. QED
    BY <1>1, <2>1, Elsewhere DEF ReconcileNothing, ReconcileReload, Guarded
<1>2. CASE ReconcileRevert
  <2>1. job'.pc = "revertReload"
    BY <1>2, GotoLemma DEF ReconcileRevert, Pcs, IInv
  <2>. QED
    BY <1>2, <2>1, Elsewhere DEF ReconcileRevert, Guarded
<1>. QED
  BY <1>1, <1>2 DEF ReconcileStep

LEMMA HandApply ==
    ASSUME IInv, HandShows, ApplyStep
    PROVE  HandShows'
<1>. USE DEF At
<1>1. ASSUME NEW cfg \in Configs, NEW soft \in BOOLEAN, Gate(cfg, soft)
      PROVE  HandShows'
  <2>1. disk = hash
    BY <1>1 DEF Gate, CanApply, Authorship
  <2>. QED
    BY <1>1, <2>1, NoHand DEF Gate, HandShows
<1>2. CASE Refuse
  BY <1>2, ReturnShows DEF Refuse
<1>3. CASE Snapshot
  BY <1>3, NoHand DEF Snapshot, HandShows, Guarded
<1>4. CASE \/ WriteBegin \/ WriteEnd \/ RollbackFiles \/ RollbackFilesFail
           \/ Restore \/ RestoreFail
  BY <1>4, NoHand DEF WriteBegin, WriteEnd, RollbackFiles, RollbackFilesFail, Restore,
     RestoreFail
<1>5. CASE WriteFail
  <2>1. CASE job.op = "confirm"
    BY <1>5, <2>1, ReturnShows DEF WriteFail
  <2>2. CASE job.op # "confirm"
    <3>1. job.op \in ApplyOps
      BY <1>5, <2>2 DEF WriteFail, IInv, PcFitsOp, PastGate
    <3>. QED
      BY <1>5, <3>1, NoHand DEF WriteFail, HandShows, Guarded
  <2>. QED
    BY <2>1, <2>2
<1>6. CASE Check \/ ArmOK \/ ArmRefused \/ ArmLost \/ ApplyReload
  BY <1>6, NoHand DEF Check, ArmOK, ArmRefused, ArmLost, ApplyReload, HandShows, Guarded
<1>7. CASE Record \/ RecordFail
  BY <1>7, ReturnShows DEF Record, RecordFail
<1>. QED
  BY <1>1, <1>2, <1>3, <1>4, <1>5, <1>6, <1>7 DEF ApplyStep

LEMMA HandConfirm ==
    ASSUME IInv, HandShows, ConfirmStep
    PROVE  HandShows'
<1>. USE DEF At
<1>1. CASE LoadPending
  <2>1. CASE PendingRows = {}
    BY <1>1, <2>1, ReturnShows DEF LoadPending
  <2>2. CASE PendingRows # {}
    <3>1. job \in Job /\ job.op = "confirm"
      BY <1>1, BusyJob DEF LoadPending, Pcs, IInv, PcFitsOp
    <3>2. job' = [job EXCEPT !.pc = "write", !.id = PendingId,
                             !.cfg = versions[PendingId].cfg,
                             !.backup = versions[PendingId].backup]
      BY <1>1, <2>2 DEF LoadPending
    <3>3. job'.pc = "write" /\ job'.op = "confirm"
      BY <3>1, <3>2 DEF Job
    <3>. QED
      BY <1>1, <3>3, Elsewhere DEF LoadPending, Guarded, ApplyOps
  <2>. QED
    BY <2>1, <2>2
<1>2. CASE ConfirmOK \/ ConfirmLost \/ Stamp
  BY <1>2, NoHand DEF ConfirmOK, ConfirmLost, Stamp, HandShows, Guarded
<1>3. CASE StampFail
  BY <1>3, ReturnShows DEF StampFail
<1>. QED
  BY <1>1, <1>2, <1>3 DEF ConfirmStep

LEMMA HandRollback ==
    ASSUME IInv, HandShows, RollbackStep
    PROVE  HandShows'
<1>. USE DEF At
<1>1. CASE Undo \/ UndoLost
  <2>1. job \in Job
    BY <1>1, BusyJob DEF Undo, UndoLost, Pcs, IInv
  <2>2. job'.pc = "undoReload"
    BY <1>1, <2>1 DEF Undo, UndoLost, Job
  <2>. QED
    BY <1>1, <2>2, Elsewhere DEF Undo, UndoLost, Guarded
<1>2. CASE UndoReload
  <2>1. job'.pc = "resolve"
    BY <1>2, GotoLemma DEF UndoReload, Pcs, IInv
  <2>. QED
    BY <1>2, <2>1, Elsewhere DEF UndoReload, Guarded
<1>3. CASE ResolveRolledBack \/ ResolveFail
  BY <1>3, ReturnShows DEF ResolveRolledBack, ResolveFail
<1>. QED
  BY <1>1, <1>2, <1>3 DEF RollbackStep

LEMMA HandAdopt ==
    ASSUME IInv, HandShows, AdoptStep
    PROVE  HandShows'
<1>. USE DEF At
<1>1. CASE AdoptRead
  <2>1. job \in Job
    BY <1>1, BusyJob DEF AdoptRead, Pcs, IInv
  <2>2. job'.pc = "own"
    BY <1>1, <2>1 DEF AdoptRead, Job
  <2>. QED
    BY <1>1, <2>2, Elsewhere DEF AdoptRead, Guarded
<1>2. CASE AdoptOwn
  BY <1>2, DoneLemma DEF AdoptOwn, HandShows, Guarded
<1>. QED
  BY <1>1, <1>2 DEF AdoptStep

LEMMA HandOutside ==
    ASSUME IInv, HandShows,
           (\E op \in Ops : Begin(op)) \/ Outside \/ Crash \/ UNCHANGED vars
    PROVE  HandShows'
<1>1. ASSUME NEW op \in Ops, Begin(op) PROVE HandShows'
  <2>1. job'.pc = Entry(op)
    BY <1>1 DEF Begin, Idle
  <2>. QED
    BY <1>1, <2>1, Elsewhere DEF Begin, Entry, Ops, Guarded
<1>2. CASE Tick
  <2>1. job'.pc = job.pc /\ job'.op = job.op
    <3>1. CASE SinceSnapshot /\ job.elapsed < Timeout
      <4>1. job \in Job
        BY <3>1, IdleFields DEF SinceSnapshot, IInv, TypeOK
      <4>. QED
        BY <1>2, <3>1, <4>1 DEF Tick, Job
    <3>2. CASE ~(SinceSnapshot /\ job.elapsed < Timeout)
      BY <1>2, <3>2 DEF Tick
    <3>. QED
      BY <3>1, <3>2
  <2>. QED
    BY <1>2, <2>1 DEF Tick, HandShows
<1>3. CASE Edit
  BY <1>3, IdleFields DEF Edit, HandShows, Guarded
<1>4. CASE Crash
  BY <1>4, ReturnShows DEF Crash
<1>5. CASE TimerFires \/ BirdRestart \/ OperatorConfigure \/ UNCHANGED vars
  BY <1>5 DEF TimerFires, BirdRestart, OperatorConfigure, vars, HandShows
<1>. QED
  BY <1>1, <1>2, <1>3, <1>4, <1>5 DEF Outside

THEOREM HandAlwaysShows == Spec => []HandShows
<1>1. Init => HandShows
  BY HandInit
<1>2. IInv /\ HandShows /\ [Next]_vars => HandShows'
  BY HandReconcile, HandApply, HandConfirm, HandRollback, HandAdopt, HandOutside
  DEF Next, Work, HandlerStep
<1>. QED
  BY <1>1, <1>2, Inductive, PTL DEF Spec

-----------------------------------------------------------------------------
\* No step of an apply or a re-apply replaces a text the operator put on disk
\* while no handler ran; only another edit does.
THEOREM ApplyRespectsHandEdits == Spec => ApplySparesHandEdits
<1>1. IInv /\ HandShows /\ [Next]_vars =>
        [hand /\ job.op \in {"apply", "reapply"} => disk' = disk \/ edits' # edits]_vars
  <2>. SUFFICES ASSUME IInv, HandShows, Next, hand, job.op \in ApplyOps
                PROVE  disk' = disk \/ edits' # edits
    BY DEF ApplyOps
  <2>. USE DEF At
  <2>1. CASE ReconcileStep
    BY <2>1 DEF ReconcileStep, ReconcileNothing, ReconcileRevert, ReconcileReload
  <2>2. CASE ApplyStep
    BY <2>2 DEF ApplyStep, Gate, Refuse, Snapshot, WriteBegin, WriteEnd, WriteFail,
       RollbackFiles, RollbackFilesFail, Check, ArmOK, ArmRefused, ArmLost, ApplyReload,
       Restore, RestoreFail, Record, RecordFail, HandShows, Guarded
  <2>3. CASE ConfirmStep \/ RollbackStep \/ AdoptStep
    BY <2>3 DEF ConfirmStep, LoadPending, ConfirmOK, ConfirmLost, Stamp, StampFail,
       RollbackStep, Undo, UndoLost, UndoReload, ResolveRolledBack, ResolveFail,
       AdoptStep, AdoptRead, AdoptOwn
  <2>4. CASE Edit
    BY <2>4, BoundsAssumption DEF Edit, IInv, TypeOK, BoundsAssumption
  <2>5. CASE (\E op \in Ops : Begin(op)) \/ Crash \/ (Outside /\ ~Edit)
    BY <2>5 DEF Begin, Crash, Outside, Tick, TimerFires, BirdRestart, OperatorConfigure
  <2>. QED
    BY <2>1, <2>2, <2>3, <2>4, <2>5 DEF Next, Work, HandlerStep
<1>. QED
  BY <1>1, HandAlwaysShows, Inductive, PTL DEF Spec, ApplySparesHandEdits

-----------------------------------------------------------------------------
(* Left alone, birdy always knows its own file.                            *)

\* Nothing failed and nobody intervened so far.
Undisturbed == faults = 0 /\ edits = 0

\* What birdy takes for its own configuration is the one it recorded.
Known(text) == (hash # None \/ text \in Configs) => text = hash

\* The places where the file holds something else than before the handler, those where an
\* apply still has the backup of it, and those where it holds the new configuration.
Replaced == {"writing", "check", "arm", "reload", "restore", "rollbackFiles", "confirm", "stamp"}
Held == {"write", "writing", "check", "arm", "reload", "restore", "rollbackFiles"}
Loaded == {"check", "arm", "reload", "restore", "confirm", "stamp"}

\* The inductive form of NeverLocksItselfOut: while a handler has replaced the file, its backup
\* stands in for it; a confirm has none, but nothing can make it roll back.
OwnFile ==
    Undisturbed =>
        /\ job.pc \notin Replaced => Known(disk)
        /\ job.op \in ApplyOps /\ job.pc \in Held => Known(job.backup)
        /\ job.pc \in Loaded => disk = job.cfg
        /\ job.pc = "rollbackFiles" => job.op \in ApplyOps
        /\ job.pc = "own" => job.cfg = disk

LEMMA NoFaultYet ==
    ASSUME IInv, Fault
    PROVE  faults' # 0
BY BoundsAssumption DEF IInv, TypeOK, Fault, BoundsAssumption

LEMMA NoEditYet ==
    ASSUME IInv, edits' = edits + 1
    PROVE  edits' # 0
BY BoundsAssumption DEF IInv, TypeOK, BoundsAssumption

\* A handler that returns needs only leave a file birdy knows.
LEMMA ReturnOwn ==
    ASSUME Done, Undisturbed' => Known(disk)'
    PROVE  OwnFile'
BY DoneLemma DEF OwnFile, Replaced, Held, Loaded, ApplyOps

LEMMA OwnReconcile ==
    ASSUME IInv, OwnFile, ReconcileStep
    PROVE  OwnFile'
<1>. USE DEF At
<1>1. UNCHANGED <<disk, hash, edits>> /\ job.pc \in {"reconcile", "revertReload"} /\ TypeOK
  BY DEF ReconcileStep, ReconcileNothing, ReconcileRevert, ReconcileReload, IInv
<1>2. Undisturbed' => Undisturbed
  BY <1>1, NoFaultYet DEF ReconcileStep, ReconcileNothing, ReconcileRevert, ReconcileReload,
     Reload, NoFault, Undisturbed
<1>3. Undisturbed => Known(disk)
  BY <1>1 DEF OwnFile, Replaced
<1>4. CASE ReconcileNothing \/ ReconcileReload
  <2>1. \/ job' = Idle
        \/ job'.pc \in {"gate", "load"}
    BY <1>1, <1>4, AfterReconcileLemma DEF ReconcileNothing, ReconcileReload, Pcs
  <2>. QED
    BY <1>1, <1>2, <1>3, <2>1, IdleFields DEF OwnFile, Known, Replaced, Held, Loaded
<1>5. CASE ReconcileRevert
  <2>1. job'.pc = "revertReload"
    BY <1>1, <1>5, GotoLemma DEF ReconcileRevert, Pcs
  <2>. QED
    BY <1>1, <1>2, <1>3, <2>1 DEF OwnFile, Known, Replaced, Held, Loaded
<1>. QED
  BY <1>4, <1>5 DEF ReconcileStep

LEMMA OwnApply ==
    ASSUME IInv, OwnFile, ApplyStep
    PROVE  OwnFile'
<1>. USE DEF At
<1>1. CASE ~Undisturbed'
  BY <1>1 DEF OwnFile
<1>2. CASE Undisturbed'
  <2>1. /\ UNCHANGED <<hash, edits>> /\ UNCHANGED faults /\ ~Fault
        /\ Undisturbed /\ TypeOK /\ PcFitsOp
    BY <1>2, NoFaultYet DEF ApplyStep, Gate, Refuse, Snapshot, WriteBegin, WriteEnd, WriteFail,
       RollbackFiles, RollbackFilesFail, Check, ArmOK, ArmRefused, ArmLost, ApplyReload,
       Restore, RestoreFail, Record, RecordFail, Reload, NoFault, Undisturbed, IInv
  <2>2. job.pc \in {"check", "arm", "reload", "restore", "record", "rollbackFiles"} =>
            job.op \in ApplyOps
    BY <2>1 DEF OwnFile, PcFitsOp, PastGate, Confirming
  <2>3. ASSUME NEW cfg \in Configs, NEW soft \in BOOLEAN, Gate(cfg, soft)
        PROVE  OwnFile'
    <3>1. job \in Job
      BY <2>1, <2>3, BusyJob DEF Gate, Pcs
    <3>2. job'.pc = "snapshot" /\ job'.op = job.op
      BY <2>3, <3>1 DEF Gate, Job
    <3>. QED
      BY <2>1, <2>3, <3>2 DEF Gate, OwnFile, Known, Replaced, Held, Loaded
  <2>4. CASE Refuse \/ Record
    BY <2>1, <2>4, ReturnOwn DEF Refuse, Record, OwnFile, Known, Replaced
  <2>5. CASE Snapshot
    <3>1. job \in Job
      BY <2>1, <2>5, BusyJob DEF Snapshot, Pcs
    <3>2. job'.pc = "write" /\ job'.op = job.op /\ job'.backup = disk
      BY <2>5, <3>1 DEF Snapshot, Job
    <3>. QED
      BY <2>1, <2>5, <3>2 DEF Snapshot, OwnFile, Known, Replaced, Held, Loaded
  <2>6. CASE WriteBegin
    <3>1. job'.pc = "writing" /\ job'.op = job.op /\ job'.backup = job.backup
      BY <2>1, <2>6, GotoLemma DEF WriteBegin, Pcs
    <3>. QED
      BY <2>1, <2>6, <3>1 DEF WriteBegin, OwnFile, Known, Replaced, Held, Loaded
  <2>7. CASE WriteEnd
    <3>1. /\ job'.pc = IF job.op = "confirm" THEN "confirm" ELSE "check"
          /\ job'.op = job.op /\ job'.backup = job.backup /\ job'.cfg = job.cfg
      BY <2>1, <2>7, GotoLemma DEF WriteEnd, Pcs
    <3>. QED
      BY <2>1, <2>7, <3>1 DEF WriteEnd, OwnFile, Known, Replaced, Held, Loaded
  <2>8. CASE RollbackFiles
    BY <2>1, <2>2, <2>8, ReturnOwn DEF RollbackFiles, OwnFile, Known, Held
  <2>9. CASE Restore
    <3>1. job'.pc = "record"
      BY <2>1, <2>9, GotoLemma DEF Restore, Pcs
    <3>. QED
      BY <2>1, <2>2, <2>9, <3>1 DEF Restore, OwnFile, Known, Replaced, Held, Loaded
  <2>10. ASSUME UNCHANGED <<disk, hash>>, job.pc \in {"check", "arm", "reload"},
                NEW pc \in {"arm", "rollbackFiles", "reload", "restore"}, Goto(pc)
         PROVE  OwnFile'
    <3>1. job'.pc = pc /\ job'.op = job.op /\ job'.backup = job.backup /\ job'.cfg = job.cfg
      BY <2>1, <2>10, GotoLemma DEF Pcs
    <3>. QED
      BY <2>1, <2>2, <2>10, <3>1 DEF OwnFile, Known, Replaced, Held, Loaded
  <2>11. CASE Check \/ ArmOK \/ ArmRefused \/ ApplyReload
    BY <2>10, <2>11 DEF Check, ArmOK, ArmRefused, ApplyReload
  <2>. QED
    BY <2>1, <2>3, <2>4, <2>5, <2>6, <2>7, <2>8, <2>9, <2>11 DEF ApplyStep, WriteFail,
       RollbackFilesFail, ArmLost, RestoreFail, RecordFail
<1>. QED
  BY <1>1, <1>2

LEMMA OwnConfirm ==
    ASSUME IInv, OwnFile, ConfirmStep
    PROVE  OwnFile'
<1>. USE DEF At
<1>1. CASE ~Undisturbed'
  BY <1>1 DEF OwnFile
<1>2. CASE Undisturbed'
  <2>1. Undisturbed /\ ~Fault /\ TypeOK /\ PcFitsOp /\ ConfirmHoldsVersion
    BY <1>2, NoFaultYet DEF ConfirmStep, LoadPending, ConfirmOK, ConfirmLost, Stamp, StampFail,
       Undisturbed, IInv
  <2>2. CASE LoadPending
    <3>1. CASE PendingRows = {}
      BY <2>1, <2>2, <3>1, ReturnOwn DEF LoadPending, OwnFile, Known, Replaced
    <3>2. CASE PendingRows # {}
      <4>1. job \in Job /\ job.op = "confirm"
        BY <2>1, <2>2, BusyJob DEF LoadPending, Pcs, PcFitsOp
      <4>2. job' = [job EXCEPT !.pc = "write", !.id = PendingId,
                               !.cfg = versions[PendingId].cfg,
                               !.backup = versions[PendingId].backup]
        BY <2>2, <3>2 DEF LoadPending
      <4>3. job'.pc = "write" /\ job'.op = "confirm"
        BY <4>1, <4>2 DEF Job
      <4>. QED
        BY <2>1, <2>2, <4>3
        DEF LoadPending, OwnFile, Known, Replaced, Held, Loaded, ApplyOps
    <3>. QED
      BY <3>1, <3>2
  <2>3. CASE ConfirmOK
    <3>1. job'.pc = "stamp" /\ job'.op = job.op /\ job'.cfg = job.cfg
      BY <2>1, <2>3, GotoLemma DEF ConfirmOK, Pcs
    <3>. QED
      BY <2>1, <2>3, <3>1 DEF ConfirmOK, OwnFile, Known, Replaced, Held, Loaded
  <2>4. CASE Stamp
    <3>1. disk' = hash'
      BY <2>1, <2>4 DEF Stamp, OwnFile, Loaded, PcFitsOp, ConfirmHoldsVersion, Confirming
    <3>. QED
      BY <2>4, <3>1, ReturnOwn DEF Stamp, Known
  <2>. QED
    BY <2>1, <2>2, <2>3, <2>4 DEF ConfirmStep, ConfirmLost, StampFail
<1>. QED
  BY <1>1, <1>2

LEMMA OwnRest ==
    ASSUME IInv, OwnFile, RollbackStep \/ AdoptStep
    PROVE  OwnFile'
<1>. USE DEF At
<1>1. CASE ~Undisturbed'
  BY <1>1 DEF OwnFile
<1>2. CASE Undisturbed'
  <2>1. Undisturbed /\ ~Fault /\ TypeOK /\ UNCHANGED disk
    BY <1>2, NoFaultYet DEF RollbackStep, Undo, UndoLost, UndoReload, ResolveRolledBack,
       ResolveFail, AdoptStep, AdoptRead, AdoptOwn, Reload, NoFault, Undisturbed, IInv
  <2>2. CASE Undo
    <3>1. job \in Job
      BY <2>1, <2>2, BusyJob DEF Undo, Pcs
    <3>2. job'.pc = "undoReload"
      BY <2>2, <3>1 DEF Undo, Job
    <3>. QED
      BY <2>1, <2>2, <3>2 DEF Undo, OwnFile, Known, Replaced, Held, Loaded
  <2>3. CASE UndoReload
    <3>1. job'.pc = "resolve"
      BY <2>1, <2>3, GotoLemma DEF UndoReload, Pcs
    <3>. QED
      BY <2>1, <2>3, <3>1 DEF UndoReload, OwnFile, Known, Replaced, Held, Loaded
  <2>4. CASE ResolveRolledBack
    BY <2>1, <2>4, ReturnOwn DEF ResolveRolledBack, OwnFile, Known, Replaced
  <2>5. CASE AdoptRead
    <3>1. job \in Job
      BY <2>1, <2>5, BusyJob DEF AdoptRead, Pcs
    <3>2. job'.pc = "own" /\ job'.cfg = disk
      BY <2>5, <3>1 DEF AdoptRead, Job
    <3>. QED
      BY <2>1, <2>5, <3>2 DEF AdoptRead, OwnFile, Known, Replaced, Held, Loaded
  <2>6. CASE AdoptOwn
    BY <2>1, <2>6, ReturnOwn DEF AdoptOwn, OwnFile, Known
  <2>. QED
    BY <2>1, <2>2, <2>3, <2>4, <2>5, <2>6 DEF RollbackStep, AdoptStep, UndoLost, ResolveFail
<1>. QED
  BY <1>1, <1>2

\* The outside world undisturbed is the clock and BIRD's timer: neither touches the file.
LEMMA OwnOutside ==
    ASSUME IInv, OwnFile,
           (\E op \in Ops : Begin(op)) \/ Outside \/ Crash \/ UNCHANGED vars
    PROVE  OwnFile'
<1>1. ASSUME NEW op \in Ops, Begin(op) PROVE OwnFile'
  <2>1. job.pc = "idle" /\ job'.pc = Entry(op)
    BY <1>1, IdleFields DEF Begin, Idle
  <2>. QED
    BY <1>1, <2>1
    DEF Begin, Entry, Ops, OwnFile, Undisturbed, Known, Replaced, Held, Loaded
<1>2. CASE Tick
  <2>1. /\ job'.pc = job.pc /\ job'.op = job.op /\ job'.cfg = job.cfg
        /\ job'.backup = job.backup
    <3>1. CASE SinceSnapshot /\ job.elapsed < Timeout
      <4>1. job \in Job
        BY <3>1, IdleFields DEF SinceSnapshot, IInv, TypeOK
      <4>. QED
        BY <1>2, <3>1, <4>1 DEF Tick, Job
    <3>2. CASE ~(SinceSnapshot /\ job.elapsed < Timeout)
      BY <1>2, <3>2 DEF Tick
    <3>. QED
      BY <3>1, <3>2
  <2>. QED
    BY <1>2, <2>1 DEF Tick, OwnFile, Undisturbed, Known
<1>3. CASE TimerFires \/ UNCHANGED vars
  BY <1>3 DEF TimerFires, vars, OwnFile, Undisturbed, Known
<1>4. CASE BirdRestart \/ Crash
  BY <1>4, NoFaultYet DEF BirdRestart, Crash, OwnFile, Undisturbed
<1>5. CASE Edit \/ OperatorConfigure
  BY <1>5, NoEditYet DEF Edit, OperatorConfigure, OwnFile, Undisturbed
<1>. QED
  BY <1>1, <1>2, <1>3, <1>4, <1>5 DEF Outside

THEOREM OwnFileIsKept == Spec => []OwnFile
<1>1. Init => OwnFile
  BY ConfigsAssumption, IdleFields
  DEF Init, OwnFile, Known, Replaced, Held, Loaded, ConfigsAssumption
<1>2. IInv /\ OwnFile /\ [Next]_vars => OwnFile'
  BY OwnReconcile, OwnApply, OwnConfirm, OwnRest, OwnOutside DEF Next, Work, HandlerStep
<1>. QED
  BY <1>1, <1>2, Inductive, PTL DEF Spec

\* While nothing failed and nobody intervened, birdy between two handlers reads back from
\* disk the configuration it recorded, however the handlers and the clock interleave.
THEOREM FileStaysItsOwn == Spec => []NeverLocksItselfOut
<1>1. OwnFile => NeverLocksItselfOut
  BY IdleFields DEF OwnFile, Undisturbed, NeverLocksItselfOut, Known, Replaced
<1>. QED
  BY <1>1, OwnFileIsKept, PTL

-----------------------------------------------------------------------------
(* The watcher beside the pipeline.                                        *)

\* The watcher only reads: with it, the pipeline behaves as without.
LEMMA WatcherOnlyReads == DriftSpec => Spec
<1>1. DriftInit => Init
  BY DEF DriftInit
<1>2. [DriftNext]_driftVars => [Next]_vars
  BY DEF DriftNext, driftVars, CheckDrift, Next, vars
<1>. QED
  BY <1>1, <1>2, PTL DEF DriftSpec, Spec

LEMMA DriftStep ==
    ASSUME IInv, OwnFile, NoFalseAlarm, [DriftNext]_driftVars
    PROVE  NoFalseAlarm'
<1>1. CASE Crash /\ lastAlerted' = None
  BY <1>1 DEF NoFalseAlarm
<1>2. CASE CheckDrift
  <2>1. NeverLocksItselfOut
    BY IdleFields DEF OwnFile, Undisturbed, NeverLocksItselfOut, Known, Replaced
  <2>. QED
    BY <1>2, <2>1 DEF CheckDrift, NeverLocksItselfOut, NoFalseAlarm, OnDisk, vars
<1>3. CASE Work /\ UNCHANGED lastAlerted
  <2>1. faults' = 0 /\ edits' = 0 => faults = 0 /\ edits = 0
    BY <1>3, NoFaultYet, NoEditYet
    DEF Work, HandlerStep, Begin, Outside, Tick, TimerFires, BirdRestart, Edit,
       OperatorConfigure, ReconcileStep, ReconcileNothing, ReconcileRevert, ReconcileReload,
       Reload, NoFault, ApplyStep, Gate, Refuse, Snapshot, WriteBegin, WriteEnd, WriteFail,
       RollbackFiles, RollbackFilesFail, Check, ArmOK, ArmRefused, ArmLost, ApplyReload,
       Restore, RestoreFail, Record, RecordFail, ConfirmStep, LoadPending, ConfirmOK,
       ConfirmLost, Stamp, StampFail, RollbackStep, Undo, UndoLost, UndoReload,
       ResolveRolledBack, ResolveFail, AdoptStep, AdoptRead, AdoptOwn
  <2>. QED
    BY <1>3, <2>1 DEF NoFalseAlarm
<1>4. CASE UNCHANGED driftVars
  BY <1>4 DEF driftVars, NoFalseAlarm
<1>. QED
  BY <1>1, <1>2, <1>3, <1>4 DEF DriftNext

\* Whatever the handlers do in the meantime, the watcher raises no alarm about a file that
\* nobody but birdy has touched.
THEOREM NoAlarmOfItsOwn == DriftSpec => []NoFalseAlarm
<1>1. DriftInit => NoFalseAlarm
  BY DEF DriftInit, NoFalseAlarm
<1>2. DriftSpec => []IInv /\ []OwnFile
  BY WatcherOnlyReads, Inductive, OwnFileIsKept, PTL
<1>3. IInv /\ OwnFile /\ NoFalseAlarm /\ [DriftNext]_driftVars => NoFalseAlarm'
  BY DriftStep
<1>. QED
  BY <1>1, <1>2, <1>3, PTL DEF DriftSpec

-----------------------------------------------------------------------------
(* Prompt handlers: BIRD's timer, birdy's deadline and the file agree.     *)

\* What prompt handlers add, faults and interventions or not: a handler takes no time, none
\* runs while BIRD's timer is due, and there is a configuration to go back to.
Prompt ==
    /\ job.elapsed = 0
    /\ job # Idle => bird.timer # 0
    /\ bird.running # None
    /\ bird.timer # Off => bird.previous # None

LEMMA GotoElapsed ==
    ASSUME TypeOK, job.pc \in Pcs, NEW pc \in Pcs, Goto(pc)
    PROVE  job'.elapsed = job.elapsed /\ job'.soft = job.soft /\ job' # Idle
<1>1. job \in Job
  BY BusyJob
<1>2. job'.pc = pc /\ job'.elapsed = job.elapsed /\ job'.soft = job.soft
  BY <1>1 DEF Goto, Job
<1>. QED
  BY <1>2, IdleFields DEF Pcs

LEMMA AfterReconcileElapsed ==
    ASSUME TypeOK, job.pc \in Pcs, job.elapsed = 0, AfterReconcile
    PROVE  job'.elapsed = 0
<1>1. \/ Goto("gate") \/ Goto("load") \/ Done
  BY DEF AfterReconcile
<1>. QED
  BY <1>1, GotoElapsed, IdleFields DEF Pcs, Done

LEMMA TimeoutIsPositive == Off = -1 /\ Timeout \in Nat /\ Timeout # 0 /\ Timeout # Off
BY BoundsAssumption DEF BoundsAssumption, Off

LEMMA PromptHandlers ==
    ASSUME IInv, Prompt, HandlerStep
    PROVE  Prompt'
<1>. USE DEF At
<1>1. TypeOK /\ job.pc \in Pcs
  BY DEF IInv, HandlerStep, ReconcileStep, ReconcileNothing, ReconcileRevert, ReconcileReload,
     ApplyStep, Gate, Refuse, Snapshot, WriteBegin, WriteEnd, WriteFail,
     RollbackFiles, RollbackFilesFail, Check, ArmOK, ArmRefused, ArmLost, ApplyReload,
     Restore, RestoreFail, Record, RecordFail, ConfirmStep, LoadPending, ConfirmOK,
     ConfirmLost, Stamp, StampFail, RollbackStep, Undo, UndoLost, UndoReload,
     ResolveRolledBack, ResolveFail, AdoptStep, AdoptRead, AdoptOwn, Pcs
<1>2. job \in Job /\ job # Idle
  BY <1>1, BusyJob, IdleFields DEF Pcs
<1>3. job'.elapsed = 0
  <2>1. ASSUME NEW pc \in Pcs, Goto(pc) PROVE job'.elapsed = 0
    BY <1>1, <2>1, GotoElapsed DEF Prompt
  <2>2. CASE Done
    BY <2>2, IdleFields DEF Done
  <2>3. CASE AfterReconcile
    BY <1>1, <2>3, AfterReconcileElapsed DEF Prompt
  <2>4. ASSUME NEW cfg, NEW soft, Gate(cfg, soft) PROVE job'.elapsed = 0
    BY <1>2, <2>4 DEF Gate, Job, Prompt
  <2>5. CASE Snapshot \/ LoadPending \/ Undo \/ UndoLost \/ AdoptRead
    BY <1>2, <2>2, <2>5 DEF Snapshot, LoadPending, Undo, UndoLost, AdoptRead, Job, Prompt
  <2>. QED
    BY <2>1, <2>2, <2>3, <2>4, <2>5
    DEF HandlerStep, ReconcileStep, ReconcileNothing, ReconcileRevert, ReconcileReload,
       ApplyStep, Refuse, WriteBegin, WriteEnd, WriteFail,
       RollbackFiles, RollbackFilesFail, Check, ArmOK, ArmRefused, ArmLost, ApplyReload,
       Restore, RestoreFail, Record, RecordFail, ConfirmStep, ConfirmOK,
       ConfirmLost, Stamp, StampFail, RollbackStep, UndoReload,
       ResolveRolledBack, ResolveFail, AdoptStep, AdoptOwn, Pcs
<1>4. /\ bird'.timer # 0 /\ bird'.running # None
      /\ bird'.timer # Off => bird'.previous # None
  <2>1. bird \in Bird /\ bird.timer # 0 /\ bird.running # None
        /\ (bird.timer # Off => bird.previous # None)
    BY <1>1, <1>2 DEF Prompt, TypeOK
  <2>2. CASE bird' = bird
    BY <2>1, <2>2
  <2>3. CASE bird' = Armed /\ disk # None
    BY <2>1, <2>3, TimeoutIsPositive DEF Armed
  <2>4. CASE bird' \in {[bird EXCEPT !.timer = Off], [bird EXCEPT !.table = bird.running], Undone}
    BY <2>1, <2>4, TimeoutIsPositive DEF Bird, Undone
  <2>. QED
    BY <2>2, <2>3, <2>4
    DEF HandlerStep, ReconcileStep, ReconcileNothing, ReconcileRevert, ReconcileReload,
       ApplyStep, Gate, Refuse, Snapshot, WriteBegin, WriteEnd, WriteFail,
       RollbackFiles, RollbackFilesFail, Check, ArmOK, ArmRefused, ArmLost, ApplyReload,
       Restore, RestoreFail, Record, RecordFail, ConfirmStep, LoadPending, ConfirmOK,
       ConfirmLost, Stamp, StampFail, RollbackStep, Undo, UndoLost, UndoReload, Reload,
       ResolveRolledBack, ResolveFail, AdoptStep, AdoptRead, AdoptOwn
<1>. QED
  BY <1>3, <1>4 DEF Prompt

LEMMA PromptOutside ==
    ASSUME ~SlowHandlers, IInv, Prompt,
           (\E op \in Ops : Begin(op)) \/ Outside \/ Crash \/ UNCHANGED vars
    PROVE  Prompt'
<1>1. bird \in Bird
  BY DEF IInv, TypeOK
<1>2. ASSUME NEW op \in Ops, Begin(op) PROVE Prompt'
  BY <1>2 DEF Begin, Prompt, Idle
<1>3. CASE Tick
  <2>1. job = Idle /\ job' = Idle
    BY <1>3, IdleFields DEF Tick, SinceSnapshot
  <2>2. /\ bird'.running = bird.running /\ bird'.previous = bird.previous
        /\ bird.timer = Off => bird'.timer = Off
    BY <1>1, <1>3 DEF Tick, Bird
  <2>. QED
    BY <2>1, <2>2, IdleFields DEF Prompt
<1>4. CASE TimerFires
  <2>1. job = Idle /\ bird.previous # None
    BY <1>4 DEF TimerFires, Prompt, Off
  <2>. QED
    BY <1>4, <2>1 DEF TimerFires, Prompt
<1>5. CASE BirdRestart \/ OperatorConfigure
  BY <1>5 DEF BirdRestart, OperatorConfigure, Prompt, Off
<1>6. CASE Edit \/ Crash \/ UNCHANGED vars
  BY <1>6, IdleFields DEF Edit, Crash, Done, vars, Prompt
<1>. QED
  BY <1>2, <1>3, <1>4, <1>5, <1>6 DEF Outside

LEMMA PromptIsKept ==
    ASSUME ~SlowHandlers
    PROVE  Spec => []Prompt
<1>1. Init => Prompt
  BY ConfigsAssumption DEF Init, Prompt, Idle, ConfigsAssumption
<1>2. IInv /\ Prompt /\ [Next]_vars => Prompt'
  BY PromptHandlers, PromptOutside DEF Next, Work
<1>. QED
  BY <1>1, <1>2, Inductive, PTL DEF Spec

-----------------------------------------------------------------------------
\* The places of an apply between arming and recording, and those of a confirm or a roll back
\* that has stopped the timer but not resolved its version.
ArmedPcs == {"reload", "restore", "record"}
Resolving == {"stamp", "undoReload", "resolve"}

\* The inductive form of OneArmed: without a lost reply, BIRD's timer runs only for the version
\* that is pending, or for the one about to be recorded, and as long as its deadline does.
TimersMatch ==
    faults = 0 =>
        /\ PendingRows = {} /\ job.pc \notin ArmedPcs => bird.timer = Off
        /\ job.pc \in ArmedPcs => bird.timer \in {Off, Timeout}
        /\ \A i \in PendingRows : bird.timer \in {Off, versions[i].left}
        /\ job.pc \in Resolving => bird.timer = Off

\* A step that stays on its side of the arming and touches neither BIRD's timer nor a version.
LEMMA SameTimers ==
    ASSUME TimersMatch, faults' = 0 => faults = 0, bird'.timer = bird.timer, UNCHANGED versions,
           job'.pc \in ArmedPcs => job.pc \in ArmedPcs,
           job.pc \in ArmedPcs => job'.pc \in ArmedPcs,
           job'.pc \in Resolving => bird.timer = Off
    PROVE  TimersMatch'
<1>1. PendingRows' = PendingRows
  BY SameRows
<1>. QED
  BY <1>1 DEF TimersMatch

\* A step after which nothing runs and nothing is being armed.
LEMMA TimerOff ==
    ASSUME bird'.timer = Off, job'.pc \notin ArmedPcs
    PROVE  TimersMatch'
BY DEF TimersMatch

LEMMA TimersReconcile ==
    ASSUME IInv, Prompt, TimersMatch, ReconcileStep
    PROVE  TimersMatch'
<1>. USE DEF At
<1>1. CASE faults' # 0
  BY <1>1 DEF TimersMatch
<1>2. CASE faults' = 0
  <2>1. /\ TypeOK /\ ~Fault /\ UNCHANGED faults /\ job.pc \in Pcs /\ job # Idle
        /\ job.pc \notin ArmedPcs
    BY <1>2, NoFaultYet, IdleFields DEF IInv, ReconcileStep, ReconcileNothing, ReconcileRevert,
       ReconcileReload, Reload, NoFault, Pcs, ArmedPcs
  <2>2. CASE ReconcileNothing \/ ReconcileReload
    <3>1. job'.pc \in {"gate", "load", "idle"}
      BY <2>1, <2>2, AfterReconcileLemma, IdleFields DEF ReconcileNothing, ReconcileReload
    <3>2. bird'.timer = bird.timer
      BY <2>1, <2>2 DEF ReconcileNothing, ReconcileReload, Reload, TypeOK, Bird
    <3>. QED
      BY <2>1, <2>2, <3>1, <3>2, SameTimers
      DEF ReconcileNothing, ReconcileReload, ArmedPcs, Resolving
  <2>3. CASE ReconcileRevert
    <3>1. job'.pc = "revertReload"
      BY <2>1, <2>3, GotoLemma DEF ReconcileRevert, Pcs
    <3>2. PendingId \in PendingRows
      BY <2>3, PendingIdIsPending DEF ReconcileRevert, IInv, TypeOK
    <3>3. bird.timer \in {Off, 0} /\ bird.timer # 0
      BY <1>2, <2>1, <2>3, <3>2 DEF ReconcileRevert, TimersMatch, Expired, Prompt
    <3>. QED
      BY <2>3, <3>1, <3>3, TimerOff DEF ReconcileRevert, ArmedPcs
  <2>. QED
    BY <2>2, <2>3 DEF ReconcileStep
<1>. QED
  BY <1>1, <1>2

LEMMA TimersApply ==
    ASSUME IInv, Prompt, TimersMatch, ApplyStep
    PROVE  TimersMatch'
<1>. USE DEF At
<1>1. CASE faults' # 0
  BY <1>1 DEF TimersMatch
<1>2. CASE faults' = 0
  <2>1. TypeOK /\ PcFitsOp /\ ApplyHoldsGate /\ ~Fault /\ UNCHANGED faults
    BY <1>2, NoFaultYet DEF IInv, ApplyStep, Gate, Refuse, Snapshot, WriteBegin, WriteEnd,
       WriteFail, RollbackFiles, RollbackFilesFail, Check, ArmOK, ArmRefused, ArmLost,
       ApplyReload, Restore, RestoreFail, Record, RecordFail, Reload, NoFault
  <2>2. job.pc \in {"arm", "reload", "restore", "record"} => PendingRows = {}
    BY <2>1 DEF PcFitsOp, ApplyHoldsGate, PastGate, Confirming
  <2>3. ASSUME NEW cfg \in Configs, NEW soft \in BOOLEAN, Gate(cfg, soft)
        PROVE  TimersMatch'
    <3>1. job \in Job
      BY <2>1, <2>3, BusyJob DEF Gate, Pcs
    <3>2. job'.pc = "snapshot"
      BY <2>3, <3>1 DEF Gate, Job
    <3>. QED
      BY <2>3, <3>2, SameTimers DEF Gate, ArmedPcs, Resolving
  <2>4. CASE Refuse \/ RollbackFiles
    BY <2>4, DoneLemma, SameTimers DEF Refuse, RollbackFiles, ArmedPcs, Resolving
  <2>5. CASE Snapshot
    <3>1. job \in Job
      BY <2>1, <2>5, BusyJob DEF Snapshot, Pcs
    <3>2. job'.pc = "write"
      BY <2>5, <3>1 DEF Snapshot, Job
    <3>. QED
      BY <2>5, <3>2, SameTimers DEF Snapshot, ArmedPcs, Resolving
  <2>6. CASE WriteBegin \/ WriteEnd \/ Check \/ ArmRefused
    <3>1. job'.pc \in {"writing", "confirm", "check", "arm", "rollbackFiles"}
      BY <2>1, <2>6, GotoLemma DEF WriteBegin, WriteEnd, Check, ArmRefused, Pcs
    <3>. QED
      BY <2>6, <3>1, SameTimers
      DEF WriteBegin, WriteEnd, Check, ArmRefused, ArmedPcs, Resolving
  <2>7. CASE ArmOK
    <3>1. job'.pc \in {"reload", "restore"} /\ bird'.timer = Timeout
      BY <2>1, <2>7, GotoLemma DEF ArmOK, Pcs, Armed
    <3>2. PendingRows' = {}
      BY <2>2, <2>7, SameRows DEF ArmOK
    <3>. QED
      BY <3>1, <3>2 DEF TimersMatch, ArmedPcs, Resolving
  <2>8. CASE ApplyReload \/ Restore
    <3>1. job'.pc \in {"restore", "record"}
      BY <2>1, <2>8, GotoLemma DEF ApplyReload, Restore, Pcs
    <3>2. bird'.timer = bird.timer
      BY <2>1, <2>8 DEF ApplyReload, Restore, Reload, TypeOK, Bird
    <3>. QED
      BY <2>1, <2>8, <3>1, <3>2, SameTimers DEF ApplyReload, Restore, ArmedPcs, Resolving
  <2>9. CASE Record
    <3>. DEFINE row == [cfg |-> job.cfg, backup |-> job.backup, status |-> "pending",
                        left |-> Timeout - job.elapsed]
                n == Len(versions) + 1
    <3>1. row \in Version /\ versions \in Seq(Version) /\ row.status = "pending"
      BY <2>1, <2>9, RecordRow DEF Record, TypeOK
    <3>2. PendingRows' = {n} /\ versions'[n] = row
      BY <2>2, <2>9, <3>1, RecordLemma DEF Record
    <3>3. row.left = Timeout
      BY TimeoutIsPositive DEF Prompt
    <3>. QED
      BY <1>2, <2>1, <2>9, <3>2, <3>3, DoneLemma DEF Record, TimersMatch, ArmedPcs, Resolving
  <2>. QED
    BY <2>1, <2>3, <2>4, <2>5, <2>6, <2>7, <2>8, <2>9 DEF ApplyStep, WriteFail,
       RollbackFilesFail, ArmLost, RestoreFail, RecordFail
<1>. QED
  BY <1>1, <1>2

LEMMA TimersRest ==
    ASSUME IInv, Prompt, TimersMatch, ConfirmStep \/ RollbackStep \/ AdoptStep
    PROVE  TimersMatch'
<1>. USE DEF At
<1>1. CASE faults' # 0
  BY <1>1 DEF TimersMatch
<1>2. CASE faults' = 0
  <2>1. TypeOK /\ bird \in Bird /\ ~Fault /\ UNCHANGED faults
    BY <1>2, NoFaultYet DEF IInv, TypeOK, ConfirmStep, LoadPending, ConfirmOK, ConfirmLost,
       Stamp, StampFail, RollbackStep, Undo, UndoLost, UndoReload, ResolveRolledBack,
       ResolveFail, AdoptStep, AdoptRead, AdoptOwn, Reload, NoFault
  <2>2. CASE LoadPending \/ AdoptRead
    <3>1. job \in Job
      BY <2>1, <2>2, BusyJob DEF LoadPending, AdoptRead, Pcs
    <3>2. job'.pc \in {"idle", "write", "own"}
      BY <2>2, <3>1, DoneLemma DEF LoadPending, AdoptRead, Job
    <3>. QED
      BY <2>2, <3>2, SameTimers DEF LoadPending, AdoptRead, ArmedPcs, Resolving
  <2>3. CASE ConfirmOK
    <3>1. job'.pc = "stamp" /\ bird'.timer = Off
      BY <2>1, <2>3, GotoLemma DEF ConfirmOK, Pcs, Bird
    <3>. QED
      BY <3>1, TimerOff DEF ArmedPcs
  <2>4. CASE Stamp \/ ResolveRolledBack
    <3>1. bird'.timer = Off /\ job'.pc = "idle"
      BY <1>2, <2>1, <2>4, DoneLemma DEF Stamp, ResolveRolledBack, TimersMatch, Resolving
    <3>. QED
      BY <3>1, TimerOff DEF ArmedPcs
  <2>5. CASE Undo
    <3>1. job \in Job
      BY <2>1, <2>5, BusyJob DEF Undo, Pcs
    <3>2. job'.pc = "undoReload"
      BY <2>5, <3>1 DEF Undo, Job
    <3>3. bird'.timer = Off
      BY <2>5 DEF Undo, Undone, Prompt
    <3>. QED
      BY <3>2, <3>3, TimerOff DEF ArmedPcs
  <2>6. CASE UndoReload
    <3>1. job'.pc = "resolve"
      BY <2>1, <2>6, GotoLemma DEF UndoReload, Pcs
    <3>2. bird'.timer = Off
      BY <1>2, <2>1, <2>6 DEF UndoReload, Reload, TimersMatch, Resolving, Bird
    <3>. QED
      BY <3>1, <3>2, TimerOff DEF ArmedPcs
  <2>7. CASE AdoptOwn
    BY <2>7, DoneLemma, SameTimers DEF AdoptOwn, ArmedPcs, Resolving
  <2>. QED
    BY <2>1, <2>2, <2>3, <2>4, <2>5, <2>6, <2>7
    DEF ConfirmStep, RollbackStep, AdoptStep, ConfirmLost, StampFail, UndoLost, ResolveFail
<1>. QED
  BY <1>1, <1>2

\* One tick is one tick for the timer and for the deadline of the version it runs for.
LEMMA OneTick ==
    ASSUME IInv, Tick, NEW i \in PendingRows, bird.timer \in {Off, versions[i].left}
    PROVE  bird'.timer \in {Off, versions'[i].left} /\ (bird.timer # Off => bird'.timer # Off)
<1>1. versions[i] \in Version /\ versions[i].status = "pending" /\ i \in DOMAIN versions
  BY VersionsAreRows DEF IInv, TypeOK, PendingRows
<1>2. versions'[i] = Aged(versions[i])
  BY <1>1, TickLemma DEF IInv, TypeOK
<1>3. CASE bird.timer = Off
  BY <1>3 DEF Tick, IInv, TypeOK, Bird
<1>4. CASE bird.timer # Off
  <2>1. bird.timer = versions[i].left /\ versions[i].left \in 0..Timeout /\ bird.timer # 0
    BY <1>1, <1>4 DEF Tick, Version
  <2>2. bird'.timer = bird.timer - 1
    BY <1>4 DEF Tick, IInv, TypeOK, Bird
  <2>3. versions'[i].left = versions[i].left - 1
    BY <1>1, <1>2, <2>1, TimeoutIsPositive DEF Aged, Version
  <2>. QED
    BY <2>1, <2>2, <2>3, TimeoutIsPositive
<1>. QED
  BY <1>3, <1>4

LEMMA TimersOutside ==
    ASSUME ~SlowHandlers, IInv, Prompt, TimersMatch,
           (\E op \in Ops : Begin(op)) \/ Outside \/ Crash \/ UNCHANGED vars
    PROVE  TimersMatch'
<1>1. CASE faults' # 0
  BY <1>1 DEF TimersMatch
<1>2. CASE faults' = 0
  <2>1. ASSUME NEW op \in Ops, Begin(op) PROVE TimersMatch'
    <3>1. job.pc = "idle" /\ job'.pc \in {"undo", "read", "reconcile"}
      BY <2>1, IdleFields DEF Begin, Idle, Entry
    <3>2. UNCHANGED <<bird, versions, faults>>
      BY <2>1 DEF Begin
    <3>. QED
      BY <3>1, <3>2, SameTimers DEF ArmedPcs, Resolving
  <2>2. CASE Tick
    <3>1. job = Idle /\ job' = Idle
      BY <2>2, IdleFields DEF Tick, SinceSnapshot
    <3>2. UNCHANGED faults /\ PendingRows' = PendingRows
      BY <2>2, TickLemma DEF Tick, IInv, TypeOK
    <3>3. bird.timer = Off => bird'.timer = Off
      BY <2>2 DEF Tick, IInv, TypeOK, Bird
    <3>. QED
      BY <1>2, <2>2, <3>1, <3>2, <3>3, OneTick, IdleFields DEF TimersMatch, ArmedPcs, Resolving
  <2>3. CASE TimerFires
    <3>1. bird'.timer = Off /\ job.pc = "idle" /\ UNCHANGED job
      BY <2>3, IdleFields DEF TimerFires
    <3>. QED
      BY <3>1, TimerOff DEF ArmedPcs
  <2>4. CASE OperatorConfigure
    BY <1>2, <2>4, SameRows DEF OperatorConfigure, TimersMatch
  <2>5. CASE BirdRestart \/ Crash
    BY <1>2, <2>5, NoFaultYet DEF BirdRestart, Crash
  <2>6. CASE Edit \/ UNCHANGED vars
    BY <1>2, <2>6, SameRows DEF Edit, vars, TimersMatch
  <2>. QED
    BY <2>1, <2>2, <2>3, <2>4, <2>5, <2>6 DEF Outside
<1>. QED
  BY <1>1, <1>2

LEMMA TimersAreKept ==
    ASSUME ~SlowHandlers
    PROVE  Spec => []TimersMatch
<1>1. Init => TimersMatch
  BY IdleFields DEF Init, TimersMatch, ArmedPcs, Resolving, PendingRows
<1>2. IInv /\ Prompt /\ TimersMatch /\ [Next]_vars => TimersMatch'
  BY TimersReconcile, TimersApply, TimersRest, TimersOutside DEF Next, Work, HandlerStep
<1>3. Spec => []Prompt
  BY PromptIsKept
<1>. QED
  BY <1>1, <1>2, <1>3, Inductive, PTL DEF Spec

\* With handlers that take no time and no reply lost, no configuration is armed while BIRD still
\* has an earlier one to revert: its timer runs for the pending version alone, as long as that
\* version's deadline, and a pending version keeps the gate shut.
THEOREM ArmsOneAtATime ==
    ASSUME ~SlowHandlers, MaxFaults = 0
    PROVE  Spec => []OneArmed
<1>1. IInv /\ TimersMatch => OneArmed
  <2>. SUFFICES ASSUME IInv, TimersMatch, job.pc = "arm" PROVE bird.timer = Off
    BY DEF OneArmed, At
  <2>1. faults = 0
    BY DEF IInv, TypeOK
  <2>2. PendingRows = {}
    BY DEF IInv, PcFitsOp, ApplyHoldsGate, PastGate, Confirming
  <2>. QED
    BY <2>1, <2>2 DEF TimersMatch, ArmedPcs
<1>2. Spec => []TimersMatch
  BY TimersAreKept
<1>. QED
  BY <1>1, <1>2, Inductive, PTL

-----------------------------------------------------------------------------
(* Left alone, BIRD reverts to what birdy recorded.                        *)

\* If birdy recorded a configuration of its own, it is this text.
Ours(text) == hash \in Configs => text = hash

\* BIRD runs a pending version until its deadline, and would go back to the recorded one; past
\* the deadline it has.
Follows(v) ==
    /\ bird.timer = v.left
    /\ bird.running = v.cfg /\ bird.table = v.cfg
    /\ Ours(bird.previous)
WentBack(v) == bird.timer = Off /\ v.left = 0 /\ Ours(bird.running) /\ bird.previous = None

NothingPending ==
    PendingRows = {} /\ job.pc \notin ArmedPcs =>
        Ours(bird.running) /\ (job.pc # "revertReload" => Ours(bird.table))

JustArmed ==
    job.pc \in ArmedPcs =>
        /\ bird.running = job.cfg /\ bird.timer = Timeout /\ Ours(bird.previous)
        /\ job.pc # "reload" => bird.table = job.cfg
        /\ job.pc = "record" => disk = job.backup

StillPending(v) ==
    /\ job.pc \notin {"writing", "confirm", "stamp"} => disk = v.backup
    /\ job.pc \notin Resolving => Follows(v) \/ WentBack(v)
    /\ job.pc \in {"load", "write", "writing", "confirm"} => bird.timer # Off
    /\ job.pc = "stamp" => bird.running = v.cfg /\ bird.table = v.cfg
    /\ job.pc \in {"undoReload", "resolve"} => Ours(bird.running)
    /\ job.pc = "resolve" => Ours(bird.table)

RevertsMatch ==
    Undisturbed =>
        /\ NothingPending /\ JustArmed
        /\ \A i \in PendingRows : StillPending(versions[i])
        /\ job.pc = "revertReload" => PendingRows = {}

\* A step before anything is armed, with nothing pending, that leaves BIRD and the hash alone.
LEMMA BeforeArming ==
    ASSUME RevertsMatch, Undisturbed, UNCHANGED <<bird, hash, versions>>,
           PendingRows = {}, job.pc \notin ArmedPcs \cup {"revertReload"}, job'.pc \notin ArmedPcs
    PROVE  RevertsMatch'
<1>1. PendingRows' = {}
  BY SameRows
<1>. QED
  BY <1>1 DEF RevertsMatch, NothingPending, JustArmed, Ours

\* A step that leaves everything but its place alone, with a version pending perhaps.
LEMMA SameReverts ==
    ASSUME RevertsMatch, Undisturbed, UNCHANGED <<disk, bird, hash, versions>>,
           job.pc \notin ArmedPcs \cup Resolving \cup {"writing", "confirm", "revertReload"},
           job'.pc \notin ArmedPcs \cup Resolving \cup {"writing", "confirm", "revertReload"},
           job'.pc \in {"load", "write"} =>
               \A i \in PendingRows : bird.timer # Off
    PROVE  RevertsMatch'
<1>1. PendingRows' = PendingRows
  BY SameRows
<1>2. ASSUME NEW i \in PendingRows
      PROVE  StillPending(versions[i])'
  <2>1. StillPending(versions[i])
    BY DEF RevertsMatch
  <2>. QED
    BY <2>1 DEF StillPending, Follows, WentBack, Ours, Resolving
<1>3. NothingPending' /\ JustArmed'
  BY <1>1 DEF RevertsMatch, NothingPending, JustArmed, Ours
<1>. QED
  BY <1>1, <1>2, <1>3 DEF RevertsMatch

LEMMA RevertsReconcile ==
    ASSUME IInv, Prompt, RevertsMatch, ReconcileStep
    PROVE  RevertsMatch'
<1>. USE DEF At
<1>1. CASE ~Undisturbed'
  BY <1>1 DEF RevertsMatch
<1>2. CASE Undisturbed'
  <2>1. /\ Undisturbed /\ TypeOK /\ bird \in Bird /\ ~Fault /\ UNCHANGED <<disk, hash>>
        /\ job.pc \in Pcs
    BY <1>2, NoFaultYet DEF IInv, TypeOK, ReconcileStep, ReconcileNothing, ReconcileRevert,
       ReconcileReload, Reload, NoFault, Pcs, Undisturbed
  <2>2. PendingRows # {} => PendingId \in PendingRows /\ PendingRows = {PendingId}
    BY PendingIdIsPending DEF IInv, TypeOK
  <2>3. CASE ReconcileNothing
    <3>1. job'.pc \in {"gate", "load", "idle"}
      BY <2>1, <2>3, AfterReconcileLemma, IdleFields DEF ReconcileNothing
    <3>2. ASSUME NEW i \in PendingRows PROVE bird.timer # Off
      <4>1. versions[i] \in Version /\ versions[i].status = "pending"
        BY VersionsAreRows DEF IInv, TypeOK, PendingRows
      <4>2. versions[i].left # 0
        BY <2>2, <2>3, <4>1 DEF ReconcileNothing, Expired
      <4>3. Follows(versions[i])
        BY <2>1, <2>3, <4>2
        DEF ReconcileNothing, RevertsMatch, StillPending, WentBack, Resolving
      <4>. QED
        BY <4>1, <4>3 DEF Follows, Version, Off
    <3>. QED
      BY <2>1, <2>3, <3>1, <3>2, SameReverts DEF ReconcileNothing, ArmedPcs, Resolving
  <2>4. CASE ReconcileRevert
    <3>1. job'.pc = "revertReload" /\ job # Idle
      BY <2>1, <2>4, GotoLemma, IdleFields DEF ReconcileRevert, Pcs
    <3>2. PendingRows' = {}
      BY <2>2, <2>4, ResolveLemma DEF ReconcileRevert, IInv, TypeOK
    <3>3. Ours(bird.running)
      <4>1. ~Follows(versions[PendingId])
        BY <2>4, <3>1 DEF ReconcileRevert, Expired, Follows, Prompt
      <4>. QED
        BY <2>1, <2>2, <2>4, <4>1
        DEF ReconcileRevert, RevertsMatch, StillPending, WentBack, Resolving
    <3>. QED
      BY <2>1, <2>4, <3>1, <3>2, <3>3
      DEF ReconcileRevert, RevertsMatch, NothingPending, JustArmed, Ours, ArmedPcs
  <2>5. CASE ReconcileReload
    <3>1. job'.pc \in {"gate", "load", "idle"}
      BY <2>1, <2>5, AfterReconcileLemma, IdleFields DEF ReconcileReload
    <3>2. PendingRows = {} /\ PendingRows' = {}
      BY <2>1, <2>5, SameRows DEF ReconcileReload, RevertsMatch
    <3>3. bird'.running = bird.running /\ bird'.table = bird.running
      BY <2>1, <2>5 DEF ReconcileReload, Reload, Bird
    <3>. QED
      BY <2>1, <2>5, <3>1, <3>2, <3>3
      DEF ReconcileReload, RevertsMatch, NothingPending, JustArmed, Ours, ArmedPcs
  <2>. QED
    BY <2>3, <2>4, <2>5 DEF ReconcileStep
<1>. QED
  BY <1>1, <1>2

LEMMA RevertsApply ==
    ASSUME IInv, OwnFile, Prompt, RevertsMatch, ApplyStep
    PROVE  RevertsMatch'
<1>. USE DEF At
<1>1. CASE ~Undisturbed'
  BY <1>1 DEF RevertsMatch
<1>2. CASE Undisturbed'
  <2>1. /\ Undisturbed /\ TypeOK /\ bird \in Bird /\ ~Fault /\ UNCHANGED hash
        /\ PcFitsOp /\ ApplyHoldsGate
    BY <1>2, NoFaultYet DEF IInv, TypeOK, ApplyStep, Gate, Refuse, Snapshot, WriteBegin,
       WriteEnd, WriteFail, RollbackFiles, RollbackFilesFail, Check, ArmOK, ArmRefused, ArmLost,
       ApplyReload, Restore, RestoreFail, Record, RecordFail, Reload, NoFault, Undisturbed
  <2>2. /\ job.pc \in {"snapshot", "check", "arm", "reload", "restore", "record",
                       "rollbackFiles"} => job.op \in ApplyOps
        /\ job.op \in ApplyOps /\ job.pc \in PastGate => PendingRows = {}
    BY <2>1 DEF OwnFile, PcFitsOp, ApplyHoldsGate, PastGate, Confirming
  <2>3. ASSUME NEW cfg \in Configs, NEW soft \in BOOLEAN, Gate(cfg, soft)
        PROVE  RevertsMatch'
    <3>1. job \in Job
      BY <2>1, <2>3, BusyJob DEF Gate, Pcs
    <3>2. job'.pc = "snapshot"
      BY <2>3, <3>1 DEF Gate, Job
    <3>. QED
      BY <2>1, <2>3, <3>2, BeforeArming DEF Gate, ArmedPcs
  <2>4. CASE Refuse
    BY <2>1, <2>4, DoneLemma, SameReverts DEF Refuse, ArmedPcs, Resolving
  <2>5. CASE Snapshot
    <3>1. job \in Job
      BY <2>1, <2>5, BusyJob DEF Snapshot, Pcs
    <3>2. job'.pc = "write"
      BY <2>5, <3>1 DEF Snapshot, Job
    <3>. QED
      BY <2>1, <2>2, <2>5, <3>2, BeforeArming DEF Snapshot, PastGate, ArmedPcs
  <2>6. CASE WriteBegin \/ WriteEnd
    <3>1. /\ job.pc \in {"write", "writing"}
          /\ job'.pc = "check" => job.op # "confirm"
          /\ job'.pc \in {"writing", "confirm", "check"}
      BY <2>1, <2>6, GotoLemma DEF WriteBegin, WriteEnd, Pcs
    <3>2. CASE job.op = "confirm"
      <4>1. PendingRows # {} /\ PendingRows' = PendingRows /\ UNCHANGED <<bird, versions>>
        BY <2>6, <3>1, <3>2, SameRows
        DEF WriteBegin, WriteEnd, IInv, ConfirmHoldsVersion, Confirming
      <4>2. job'.pc \in {"writing", "confirm"}
        BY <3>1, <3>2
      <4>3. ASSUME NEW i \in PendingRows
            PROVE  StillPending(versions[i])'
        BY <2>1, <3>1, <4>1, <4>2
        DEF RevertsMatch, StillPending, Follows, WentBack, Ours, Resolving
      <4>. QED
        BY <4>1, <4>2, <4>3 DEF RevertsMatch, NothingPending, JustArmed, ArmedPcs
    <3>3. CASE job.op # "confirm"
      <4>1. PendingRows = {}
        BY <2>1, <2>2, <3>1, <3>3 DEF PcFitsOp, PastGate
      <4>. QED
        BY <2>1, <2>6, <3>1, <4>1, BeforeArming DEF WriteBegin, WriteEnd, ArmedPcs
    <3>. QED
      BY <3>2, <3>3
  <2>7. CASE RollbackFiles \/ Check \/ ArmRefused
    <3>1. job'.pc \in {"idle", "arm", "rollbackFiles"}
      BY <2>1, <2>7, GotoLemma, DoneLemma DEF RollbackFiles, Check, ArmRefused, Pcs
    <3>. QED
      BY <2>1, <2>2, <2>7, <3>1, BeforeArming
      DEF RollbackFiles, Check, ArmRefused, PastGate, ArmedPcs
  <2>8. CASE ArmOK
    <3>1. /\ job'.pc = (IF job.soft THEN "reload" ELSE "restore")
          /\ job'.cfg = job.cfg /\ disk = job.cfg
      BY <2>1, <2>8, GotoLemma DEF ArmOK, Pcs, OwnFile, Loaded
    <3>2. PendingRows = {} /\ PendingRows' = {}
      BY <2>2, <2>8, SameRows DEF ArmOK, PastGate
    <3>3. Ours(bird.running)
      BY <2>1, <2>8, <3>2 DEF ArmOK, RevertsMatch, NothingPending, ArmedPcs
    <3>. QED
      BY <2>1, <2>8, <3>1, <3>2, <3>3
      DEF ArmOK, Armed, RevertsMatch, NothingPending, JustArmed, Ours, ArmedPcs
  <2>9. CASE ApplyReload \/ Restore
    <3>1. /\ job.pc \in {"reload", "restore"} /\ job'.cfg = job.cfg
          /\ job'.pc = (IF job.pc = "reload" THEN "restore" ELSE "record")
          /\ job'.backup = job.backup
      BY <2>1, <2>9, GotoLemma DEF ApplyReload, Restore, Pcs
    <3>2. PendingRows' = {}
      BY <2>2, <2>9, <3>1, SameRows DEF ApplyReload, Restore, PastGate
    <3>3. /\ bird'.running = bird.running /\ bird'.timer = bird.timer
          /\ bird'.previous = bird.previous
          /\ bird'.table = (IF job.pc = "reload" THEN bird.running ELSE bird.table)
      BY <2>1, <2>9 DEF ApplyReload, Restore, Reload, Bird
    <3>. QED
      BY <2>1, <2>9, <3>1, <3>2, <3>3
      DEF ApplyReload, Restore, RevertsMatch, NothingPending, JustArmed, Ours, ArmedPcs
  <2>10. CASE Record
    <3>1. PICK row : row = [cfg |-> job.cfg, backup |-> job.backup, status |-> "pending",
                            left |-> Timeout - job.elapsed]
      OBVIOUS
    <3>2. row \in Version /\ versions \in Seq(Version)
      BY <2>1, <2>10, <3>1, RecordRow DEF Record, TypeOK
    <3>3. /\ row.status = "pending" /\ row.left = Timeout
          /\ row.cfg = job.cfg /\ row.backup = job.backup
      BY <3>1, TimeoutIsPositive DEF Prompt
    <3>4. /\ PendingRows' = {Len(versions) + 1} /\ versions'[Len(versions) + 1] = row
          /\ job'.pc = "idle"
      BY <2>2, <2>10, <3>1, <3>2, <3>3, RecordLemma, DoneLemma DEF Record, PastGate
    <3>5. StillPending(row)'
      BY <2>1, <2>10, <3>3, <3>4
      DEF Record, RevertsMatch, JustArmed, StillPending, Follows, Ours, ArmedPcs, Resolving
    <3>. QED
      BY <3>4, <3>5 DEF RevertsMatch, NothingPending, JustArmed, ArmedPcs
  <2>. QED
    BY <2>1, <2>3, <2>4, <2>5, <2>6, <2>7, <2>8, <2>9, <2>10 DEF ApplyStep, WriteFail,
       RollbackFilesFail, ArmLost, RestoreFail, RecordFail
<1>. QED
  BY <1>1, <1>2

LEMMA RevertsConfirm ==
    ASSUME IInv, OwnFile, Prompt, TimersMatch, RevertsMatch, ConfirmStep
    PROVE  RevertsMatch'
<1>. USE DEF At
<1>1. CASE ~Undisturbed'
  BY <1>1 DEF RevertsMatch
<1>2. CASE Undisturbed'
  <2>1. /\ Undisturbed /\ TypeOK /\ bird \in Bird /\ ~Fault /\ versions \in Seq(Version)
        /\ PcFitsOp /\ ConfirmHoldsVersion
    BY <1>2, NoFaultYet DEF IInv, TypeOK, ConfirmStep, LoadPending, ConfirmOK, ConfirmLost,
       Stamp, StampFail, Undisturbed
  <2>2. CASE LoadPending
    <3>1. job \in Job
      BY <2>1, <2>2, BusyJob DEF LoadPending, Pcs
    <3>2. job'.pc \in {"idle", "write"}
      BY <2>2, <3>1, DoneLemma DEF LoadPending, Job
    <3>3. \A i \in PendingRows : bird.timer # Off
      BY <2>1, <2>2 DEF LoadPending, RevertsMatch, StillPending
    <3>. QED
      BY <2>1, <2>2, <3>2, <3>3, SameReverts DEF LoadPending, ArmedPcs, Resolving
  <2>3. CASE ConfirmOK
    <3>1. job'.pc = "stamp" /\ PendingRows' = PendingRows /\ job.id \in PendingRows
      BY <2>1, <2>3, GotoLemma, SameRows
      DEF ConfirmOK, Pcs, PcFitsOp, ConfirmHoldsVersion, Confirming
    <3>2. bird'.running = bird.running /\ bird'.table = bird.table
      BY <2>1, <2>3 DEF ConfirmOK, Bird
    <3>3. ASSUME NEW i \in PendingRows
          PROVE  StillPending(versions[i])'
      <4>1. Follows(versions[i])
        BY <2>1, <2>3 DEF ConfirmOK, RevertsMatch, StillPending, WentBack, Resolving
      <4>. QED
        BY <2>3, <3>1, <3>2, <4>1 DEF ConfirmOK, StillPending, Follows, Resolving
    <3>. QED
      BY <2>3, <3>1, <3>3 DEF ConfirmOK, RevertsMatch, NothingPending, JustArmed, ArmedPcs
  <2>4. CASE Stamp
    <3>1. job.id \in PendingRows /\ PendingRows = {job.id} /\ job'.pc = "idle"
      BY <2>1, <2>4, DoneLemma
      DEF Stamp, PcFitsOp, ConfirmHoldsVersion, Confirming, IInv, AtMostOnePending
    <3>2. PendingRows' = {}
      BY <2>1, <2>4, <3>1, ResolveLemma DEF Stamp
    <3>3. bird'.running = hash' /\ bird'.table = hash'
      BY <2>1, <2>4, <3>1 DEF Stamp, RevertsMatch, StillPending
    <3>. QED
      BY <3>1, <3>2, <3>3 DEF RevertsMatch, NothingPending, JustArmed, Ours, ArmedPcs
  <2>. QED
    BY <2>1, <2>2, <2>3, <2>4 DEF ConfirmStep, ConfirmLost, StampFail
<1>. QED
  BY <1>1, <1>2

LEMMA RevertsRollback ==
    ASSUME IInv, Prompt, RevertsMatch, RollbackStep
    PROVE  RevertsMatch'
<1>. USE DEF At
<1>1. CASE ~Undisturbed'
  BY <1>1 DEF RevertsMatch
<1>2. CASE Undisturbed'
  <2>1. /\ Undisturbed /\ TypeOK /\ bird \in Bird /\ ~Fault /\ versions \in Seq(Version)
        /\ UNCHANGED <<disk, hash>>
    BY <1>2, NoFaultYet DEF IInv, TypeOK, RollbackStep, Undo, UndoLost, UndoReload,
       ResolveRolledBack, ResolveFail, Reload, NoFault, Undisturbed
  <2>2. /\ job.pc = "undo" => PendingRows # {}
        /\ job.pc \in {"undoReload", "resolve"} => job.id \in PendingRows
    BY DEF IInv, RollbackHoldsVersion
  <2>3. CASE Undo
    <3>1. job \in Job
      BY <2>1, <2>3, BusyJob DEF Undo, Pcs
    <3>2. job'.pc = "undoReload" /\ PendingRows' = PendingRows
      BY <2>3, <3>1, SameRows DEF Undo, Job
    <3>3. ASSUME NEW i \in PendingRows
          PROVE  StillPending(versions[i])'
      <4>1. disk = versions[i].backup /\ (Follows(versions[i]) \/ WentBack(versions[i]))
        BY <2>1, <2>3 DEF Undo, RevertsMatch, StillPending, Resolving
      <4>2. versions[i].left \in 0..Timeout
        BY VersionsAreRows DEF IInv, TypeOK, PendingRows, Version
      <4>3. Ours(bird'.running)
        BY <4>1, <4>2, <2>3 DEF Undo, Undone, Follows, WentBack, Prompt, Ours, Off
      <4>. QED
        BY <2>1, <2>3, <3>2, <4>1, <4>3 DEF Undo, StillPending, Ours, Resolving
    <3>. QED
      BY <2>2, <2>3, <3>2, <3>3 DEF Undo, RevertsMatch, NothingPending, JustArmed, ArmedPcs
  <2>4. CASE UndoReload
    <3>1. job'.pc = "resolve" /\ PendingRows' = PendingRows
      BY <2>1, <2>4, GotoLemma, SameRows DEF UndoReload, Pcs
    <3>2. bird'.running = bird.running /\ bird'.table = bird.running
      BY <2>1, <2>4 DEF UndoReload, Reload, Bird
    <3>3. ASSUME NEW i \in PendingRows
          PROVE  StillPending(versions[i])'
      BY <2>1, <2>4, <3>1, <3>2 DEF UndoReload, RevertsMatch, StillPending, Ours, Resolving
    <3>. QED
      BY <2>2, <2>4, <3>1, <3>3
      DEF UndoReload, RevertsMatch, NothingPending, JustArmed, ArmedPcs
  <2>5. CASE ResolveRolledBack
    <3>1. job.id \in PendingRows /\ PendingRows = {job.id} /\ job'.pc = "idle"
      BY <2>2, <2>5, DoneLemma DEF ResolveRolledBack, IInv, AtMostOnePending
    <3>2. PendingRows' = {}
      BY <2>1, <2>5, <3>1, ResolveLemma DEF ResolveRolledBack
    <3>3. Ours(bird.running) /\ Ours(bird.table)
      BY <2>1, <2>5, <3>1 DEF ResolveRolledBack, RevertsMatch, StillPending
    <3>. QED
      BY <2>1, <2>5, <3>1, <3>2, <3>3
      DEF ResolveRolledBack, RevertsMatch, NothingPending, JustArmed, Ours, ArmedPcs
  <2>. QED
    BY <2>1, <2>3, <2>4, <2>5 DEF RollbackStep, UndoLost, ResolveFail
<1>. QED
  BY <1>1, <1>2

\* Adopting a file birdy knows records what was recorded already, or a text that is none of its
\* configurations.
LEMMA RevertsAdopt ==
    ASSUME IInv, OwnFile, RevertsMatch, AdoptStep
    PROVE  RevertsMatch'
<1>. USE DEF At
<1>1. CASE ~Undisturbed'
  BY <1>1 DEF RevertsMatch
<1>2. CASE Undisturbed'
  <2>1. Undisturbed /\ TypeOK
    BY <1>2 DEF IInv, AdoptStep, AdoptRead, AdoptOwn, Undisturbed
  <2>2. CASE AdoptRead
    <3>1. job \in Job
      BY <2>1, <2>2, BusyJob DEF AdoptRead, Pcs
    <3>2. job'.pc = "own"
      BY <2>2, <3>1 DEF AdoptRead, Job
    <3>. QED
      BY <2>1, <2>2, <3>2, SameReverts DEF AdoptRead, ArmedPcs, Resolving
  <2>3. CASE AdoptOwn
    <3>1. hash' = disk /\ Known(disk)
      BY <2>1, <2>3 DEF AdoptOwn, OwnFile, Replaced
    <3>2. ASSUME NEW t, Ours(t) PROVE Ours(t)'
      BY <3>1, <3>2 DEF Ours, Known
    <3>3. PendingRows' = PendingRows /\ job'.pc = "idle"
      BY <2>3, DoneLemma, SameRows DEF AdoptOwn
    <3>4. ASSUME NEW i \in PendingRows
          PROVE  StillPending(versions[i])'
      <4>1. StillPending(versions[i])
        BY <2>1 DEF RevertsMatch
      <4>2. Ours(bird.previous) => Ours(bird.previous)'
        BY <2>3, <3>2 DEF AdoptOwn
      <4>3. Ours(bird.running) => Ours(bird.running)'
        BY <2>3, <3>2 DEF AdoptOwn
      <4>. QED
        BY <2>3, <3>3, <4>1, <4>2, <4>3
        DEF AdoptOwn, StillPending, Follows, WentBack, Resolving
    <3>5. NothingPending'
      <4>1. PendingRows = {} => Ours(bird.running) /\ Ours(bird.table)
        BY <2>1, <2>3 DEF AdoptOwn, RevertsMatch, NothingPending, ArmedPcs
      <4>2. PendingRows = {} => Ours(bird.running)' /\ Ours(bird.table)'
        BY <2>3, <3>2, <4>1 DEF AdoptOwn
      <4>. QED
        BY <3>3, <4>2 DEF NothingPending
    <3>. QED
      BY <3>3, <3>4, <3>5 DEF RevertsMatch, JustArmed, ArmedPcs
  <2>. QED
    BY <2>2, <2>3 DEF AdoptStep
<1>. QED
  BY <1>1, <1>2

LEMMA RevertsOutside ==
    ASSUME ~SlowHandlers, IInv, Prompt, TimersMatch, RevertsMatch,
           (\E op \in Ops : Begin(op)) \/ Outside \/ Crash \/ UNCHANGED vars
    PROVE  RevertsMatch'
<1>1. CASE ~Undisturbed'
  BY <1>1 DEF RevertsMatch
<1>2. CASE Undisturbed'
  <2>1. ASSUME NEW op \in Ops, Begin(op) PROVE RevertsMatch'
    <3>1. job.pc = "idle" /\ job'.pc \in {"undo", "read", "reconcile"}
      BY <2>1, IdleFields DEF Begin, Idle, Entry
    <3>2. UNCHANGED <<disk, bird, hash, versions, faults, edits>>
      BY <2>1 DEF Begin
    <3>. QED
      BY <1>2, <3>1, <3>2, SameReverts DEF Undisturbed, ArmedPcs, Resolving
  <2>2. CASE Tick
    <3>1. /\ job.pc = "idle" /\ job' = job /\ Undisturbed /\ UNCHANGED <<disk, hash>>
          /\ PendingRows' = PendingRows
      BY <1>2, <2>2, IdleFields, TickLemma DEF Tick, SinceSnapshot, IInv, TypeOK, Undisturbed
    <3>2. /\ bird'.running = bird.running /\ bird'.previous = bird.previous
          /\ bird'.table = bird.table /\ (bird.timer = Off => bird'.timer = Off)
      BY <2>2 DEF Tick, IInv, TypeOK, Bird
    <3>3. ASSUME NEW i \in PendingRows
          PROVE  StillPending(versions[i])'
      <4>1. StillPending(versions[i]) /\ versions[i] \in Version
        BY <3>1, VersionsAreRows DEF RevertsMatch, IInv, TypeOK, PendingRows
      <4>2. versions'[i] = Aged(versions[i]) /\ i \in DOMAIN versions
        BY <2>2, TickLemma DEF IInv, TypeOK, PendingRows
      <4>3. /\ versions'[i].cfg = versions[i].cfg /\ versions'[i].backup = versions[i].backup
            /\ versions[i].left = 0 => versions'[i].left = 0
        BY <4>1, <4>2, AgedRow DEF Aged
      <4>4. Follows(versions[i]) => Follows(versions[i])'
        <5>1. Follows(versions[i]) => bird'.timer = versions'[i].left
          <6>. SUFFICES ASSUME Follows(versions[i]) PROVE bird'.timer = versions'[i].left
            OBVIOUS
          <6>1. bird.timer # Off
            BY <4>1 DEF Follows, Version, Off
          <6>. QED
            BY <2>2, <6>1, OneTick DEF Follows
        <5>. QED
          BY <3>1, <3>2, <4>3, <5>1 DEF Follows, Ours
      <4>5. WentBack(versions[i]) => WentBack(versions[i])'
        BY <3>1, <3>2, <4>3 DEF WentBack, Ours
      <4>. QED
        BY <3>1, <4>1, <4>3, <4>4, <4>5 DEF StillPending, Resolving
    <3>. QED
      BY <3>1, <3>2, <3>3 DEF RevertsMatch, NothingPending, JustArmed, Ours, ArmedPcs
  <2>3. CASE TimerFires
    <3>1. job.pc = "idle" /\ Undisturbed
      BY <1>2, <2>3, IdleFields DEF TimerFires, Undisturbed
    <3>2. PendingRows' = PendingRows /\ PendingRows # {}
      BY <2>3, <3>1, SameRows DEF TimerFires, TimersMatch, Undisturbed, ArmedPcs, Off
    <3>3. ASSUME NEW i \in PendingRows
          PROVE  StillPending(versions[i])'
      <4>1. StillPending(versions[i]) /\ Follows(versions[i])
        BY <2>3, <3>1 DEF RevertsMatch, TimerFires, StillPending, WentBack, Resolving, Off
      <4>. QED
        BY <2>3, <3>1, <4>1
        DEF TimerFires, StillPending, Follows, WentBack, Ours, Resolving
    <3>. QED
      BY <2>3, <3>1, <3>2, <3>3 DEF TimerFires, RevertsMatch, NothingPending, JustArmed, ArmedPcs
  <2>4. CASE BirdRestart \/ Crash
    BY <1>2, <2>4, NoFaultYet DEF BirdRestart, Crash, Undisturbed
  <2>5. CASE Edit \/ OperatorConfigure
    BY <1>2, <2>5, NoEditYet DEF Edit, OperatorConfigure, Undisturbed
  <2>6. CASE UNCHANGED vars
    BY <2>6, SameRows DEF vars, RevertsMatch, Undisturbed, NothingPending, JustArmed,
       StillPending, Follows, WentBack, Ours
  <2>. QED
    BY <2>1, <2>2, <2>3, <2>4, <2>5, <2>6 DEF Outside
<1>. QED
  BY <1>1, <1>2

LEMMA RevertsAreKept ==
    ASSUME ~SlowHandlers
    PROVE  Spec => []RevertsMatch
<1>1. Init => RevertsMatch
  BY IdleFields, ConfigsAssumption
  DEF Init, RevertsMatch, NothingPending, JustArmed, Ours, PendingRows, ArmedPcs
<1>2. IInv /\ OwnFile /\ Prompt /\ TimersMatch /\ RevertsMatch /\ [Next]_vars => RevertsMatch'
  BY RevertsReconcile, RevertsApply, RevertsConfirm, RevertsRollback, RevertsAdopt,
     RevertsOutside DEF Next, Work, HandlerStep
<1>3. Spec => []Prompt /\ []TimersMatch
  BY PromptIsKept, TimersAreKept, PTL
<1>. QED
  BY <1>1, <1>2, <1>3, Inductive, OwnFileIsKept, PTL DEF Spec

\* With prompt handlers, and nothing failed or edited: while a version is pending and BIRD's
\* timer runs, the file is the text BIRD would go back to, and BIRD would go back to what
\* birdy recorded as its own.
THEOREM DiskIsWhatBirdRevertsTo ==
    ASSUME ~SlowHandlers
    PROVE  Spec => []ArmedDiskIsRevert
<1>1. IInv /\ RevertsMatch => ArmedDiskIsRevert
  <2>. SUFFICES ASSUME IInv, RevertsMatch, Undisturbed, job = Idle, PendingRows # {},
                       bird.timer # Off
                PROVE  /\ disk = versions[PendingId].backup
                       /\ bird.running = versions[PendingId].cfg
                       /\ hash \in Configs => bird.previous = hash
    BY DEF ArmedDiskIsRevert, Undisturbed
  <2>1. PendingId \in PendingRows
    BY PendingIdIsPending DEF IInv, TypeOK
  <2>. QED
    BY <2>1, IdleFields DEF RevertsMatch, StillPending, Follows, WentBack, Ours, Resolving
<1>2. Spec => []RevertsMatch
  BY RevertsAreKept
<1>. QED
  BY <1>1, <1>2, Inductive, PTL

\* With prompt handlers, and nothing failed or edited: between handlers, with no version
\* pending, the file, what BIRD runs, the filters its table went through and the recorded hash
\* agree, and no timer is left running.
THEOREM SettledMeansAgreed ==
    ASSUME ~SlowHandlers
    PROVE  Spec => []SettledAgree
<1>1. OwnFile /\ TimersMatch /\ RevertsMatch => SettledAgree
  BY IdleFields, ConfigsAssumption
  DEF SettledAgree, OwnFile, Known, Replaced, TimersMatch, RevertsMatch, NothingPending, Ours,
      Undisturbed, ArmedPcs, ConfigsAssumption
<1>2. Spec => []TimersMatch /\ []RevertsMatch
  BY TimersAreKept, RevertsAreKept, PTL
<1>. QED
  BY <1>1, <1>2, OwnFileIsKept, PTL

=============================================================================
