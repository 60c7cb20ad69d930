------------------------------- MODULE Drift -------------------------------
(***************************************************************************)
(* The drift watcher beside the apply pipeline.  A ticker compares the     *)
(* configuration on disk with the hash birdy recorded and alerts once per  *)
(* distinct drift.  It takes applyMu, so it runs only between handlers,    *)
(* and it stands aside while a version is pending, when the disk holds the *)
(* previous configuration on purpose.                                      *)
(***************************************************************************)
EXTENDS Apply

CONSTANT Missing \* "<missing>": the alert key of a file that is gone

ASSUME MissingAssumption == Missing \notin Texts \cup {None}

VARIABLE lastAlerted \* the drift last alerted about; None when in sync

driftVars == <<disk, bird, hash, versions, job, hand, faults, edits, lastAlerted>>

OnDisk == IF disk = None THEN Missing ELSE disk

\* Mutant: the watcher does not take applyMu.
CheckDriftUnlocked ==
    /\ lastAlerted' = IF hash = None THEN None
                      ELSE IF PendingRows # {} THEN lastAlerted
                      ELSE IF OnDisk = hash THEN None
                      ELSE OnDisk
    /\ UNCHANGED vars

\* Mutant: a missing file counts as in sync.
CheckDriftIgnoresMissing ==
    /\ job = Idle
    /\ lastAlerted' = IF hash = None \/ disk = None THEN None
                      ELSE IF PendingRows # {} THEN lastAlerted
                      ELSE IF OnDisk = hash THEN None
                      ELSE OnDisk
    /\ UNCHANGED vars

\* checkDrift: re-arm when birdy owns nothing or the file is in sync, stand
\* aside during an armed apply, and otherwise alert about what is on disk.
CheckDrift ==
    /\ job = Idle
    /\ lastAlerted' = IF hash = None THEN None
                      ELSE IF PendingRows # {} THEN lastAlerted
                      ELSE IF OnDisk = hash THEN None
                      ELSE OnDisk
    /\ UNCHANGED vars

DriftInit == Init /\ lastAlerted = None

\* lastAlerted is a local of the watcher's goroutine: a restart forgets it.
DriftNext ==
    \/ Work /\ UNCHANGED lastAlerted
    \/ Crash /\ lastAlerted' = None
    \/ CheckDrift

DriftSpec == DriftInit /\ [][DriftNext]_driftVars

\* The watcher's ticker keeps ticking, and its turn for the mutex comes.
FairDriftSpec == DriftSpec /\ Fairness /\ SF_driftVars(CheckDrift)

\* Nothing birdy does, and nothing BIRD does on its timer, looks like drift:
\* without a fault or an edit the watcher never alerts, however slow the
\* handlers, because it waits for the mutex and sits out a pending version.
NoFalseAlarm == faults = 0 /\ edits = 0 => lastAlerted = None

Drifted == hash # None /\ OnDisk # hash

\* A drift that stays is reported, also one that began while a version was
\* pending and the watcher stood aside.
StandingDriftIsReported == <>[]Drifted => <>[](lastAlerted = OnDisk)
=============================================================================
