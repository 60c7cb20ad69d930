--------------------------- MODULE RestoreProofs ---------------------------
(***************************************************************************)
(* Theorems about the staged restore, for any contents and any number of   *)
(* faults and stops: types, what is kept, what is opened, and that a       *)
(* restore is atomic up to the interruptions it is meant to survive.       *)
(***************************************************************************)
EXTENDS Restore, TLAPS

Applying == {"backup", "write", "writing", "sidecars", "unmark"}

-----------------------------------------------------------------------------
(* Types.                                                                  *)

\* A running birdy opened a whole database, only a running one is staging, and a
\* start that goes on has read the staged file: otherwise a commit could extend
\* a torn file, or nothing be written over the database.
Types ==
    /\ TypeOK
    /\ pc = "running" => Current \in Contents
    /\ staging # None => pc = "running"
    /\ pc \in Applying => data # None

\* Opening a file with its log gives a content, or shows that they do not fit.
LEMMA CurrentIsContent ==
    ASSUME TypeOK
    PROVE  Current \in Contents \cup {Torn}
BY DEF TypeOK, Current, Log

\* A database that opens whole is a whole file.
LEMMA WholeFile ==
    ASSUME TypeOK, Current \in Contents
    PROVE  main \in Contents
BY ContentsAssumption DEF TypeOK, Current, Log

\* A fault of a known kind keeps the two counts of faults typed.
LEMMA FaultTypes ==
    ASSUME TypeOK, NEW kind \in Kinds, Fault(kind)
    PROVE  faults' \in 0..MaxFaults /\ hit' \subseteq Kinds
BY BoundsAssumption DEF TypeOK, Fault

LEMMA InitTypes == Init => Types
<1> SUFFICES ASSUME Init
             PROVE  Types
    OBVIOUS
<1>1. faults \in 0..MaxFaults /\ stops \in 0..MaxStops
    BY BoundsAssumption DEF Init
<1>2. replaced = {} /\ hit = {} /\ backups = {}
    BY DEF Init
<1> QED
    BY <1>1, <1>2 DEF Init, Types, TypeOK, Applying

\* Types survives every step.
LEMMA StepTypes == Types /\ [Next]_vars => Types'
<1> SUFFICES ASSUME Types, [Next]_vars
             PROVE  Types'
    OBVIOUS
<1> USE ContentsAssumption, BoundsAssumption
<1>0. Current \in Contents \cup {Torn}
    BY CurrentIsContent DEF Types
<1>1. CASE Commit
    <2>1. main \in Contents
        BY <1>1, WholeFile DEF Commit, Types
    <2>2. PICK c \in Contents : wal' = [base |-> main, content |-> c]
        BY <1>1 DEF Commit
    <2>3. wal' \in Log /\ Current' = c
        BY <1>1, <2>1, <2>2 DEF Commit, Log, Current
    <2> QED
        BY <1>1, <2>3 DEF Commit, Types, TypeOK, Applying
<1>2. CASE Checkpoint
    BY <1>0, <1>2 DEF Checkpoint, Types, TypeOK, Applying, Current
<1>3. CASE StageBegin
    BY <1>3 DEF StageBegin, Types, TypeOK, Applying, Current
<1>4. CASE StageEnd
    BY <1>4 DEF StageEnd, Types, TypeOK, Applying, Current
<1>5. CASE StageFail
    <2>1. faults' \in 0..MaxFaults /\ hit' \subseteq Kinds
        BY <1>5, FaultTypes DEF StageFail, Kinds, Types
    <2> QED
        BY <1>5, <2>1 DEF StageFail, Types, TypeOK, Applying, Current
<1>6. CASE Stop
    BY <1>0, <1>6 DEF Stop, Types, TypeOK, Applying, Current
<1>7. CASE Kill
    BY <1>7 DEF Kill, Fault, Kinds, Types, TypeOK, Applying, Current
<1>8. CASE Start
    BY <1>8 DEF Start, Types, TypeOK, Applying, Current
<1>9. CASE Backup
    BY <1>9 DEF Backup, Types, TypeOK, Applying, Current
<1>10. CASE BackupFail
    BY <1>10 DEF BackupFail, Fault, Kinds, Types, TypeOK, Applying, Current
<1>11. CASE WriteBegin
    BY <1>0, <1>11 DEF WriteBegin, Types, TypeOK, Applying, Current
<1>12. CASE WriteEnd
    BY <1>12 DEF WriteEnd, Types, TypeOK, Applying, Current
<1>13. CASE WriteFail
    BY <1>13 DEF WriteFail, Fault, Kinds, Types, TypeOK, Applying, Current
<1>14. CASE RemoveSidecars
    <2>1. faults' \in 0..MaxFaults /\ hit' \subseteq Kinds
        BY <1>14, FaultTypes DEF RemoveSidecars, NoFault, Kinds, Types, TypeOK
    <2> QED
        BY <1>14, <2>1 DEF RemoveSidecars, Types, TypeOK, Applying, Current
<1>15. CASE Unmark
    <2>1. faults' \in 0..MaxFaults /\ hit' \subseteq Kinds
        BY <1>15, FaultTypes DEF Unmark, NoFault, Kinds, Types, TypeOK
    <2> QED
        BY <1>15, <2>1 DEF Unmark, Types, TypeOK, Applying, Current
<1>16. CASE Crash
    BY <1>16 DEF Crash, Fault, Kinds, Types, TypeOK, Applying, Current
<1>17. CASE Open
    BY <1>17 DEF Open, Types, TypeOK, Applying, Current
<1>18. CASE UNCHANGED vars
    BY <1>18 DEF vars, Types, TypeOK, Applying, Current
<1> QED
    BY <1>1, <1>2, <1>3, <1>4, <1>5, <1>6, <1>7, <1>8, <1>9, <1>10, <1>11, <1>12,
       <1>13, <1>14, <1>15, <1>16, <1>17, <1>18 DEF Next, Running, Apply

LEMMA AlwaysTypes == Spec => []Types
<1>1. Init => Types
    BY InitTypes
<1>2. Types /\ [Next]_vars => Types'
    BY StepTypes
<1> QED
    BY <1>1, <1>2, PTL DEF Spec

\* The variables keep their types, for any contents and bounds.
THEOREM RestoreTypes == Spec => []TypeOK
<1>1. Types => TypeOK
    BY DEF Types
<1> QED
    BY <1>1, AlwaysTypes, PTL

-----------------------------------------------------------------------------
(* What is kept.                                                           *)

\* FileKept, and why: between the copy aside and the write over it nothing
\* touches the database file.
Kept == FileKept /\ (pc = "write" => main \in backups)

LEMMA StepKept == Kept /\ [Next]_vars => Kept'
<1> SUFFICES ASSUME Kept, [Next]_vars
             PROVE  Kept'
    OBVIOUS
<1>1. CASE WriteBegin
    BY <1>1 DEF WriteBegin, Kept, FileKept
<1>2. CASE Backup
    BY <1>2 DEF Backup, Kept, FileKept
<1>3. CASE BackupFail
    BY <1>3 DEF BackupFail, Fault, Kept, FileKept
<1>4. CASE Running
    BY <1>4 DEF Running, Commit, Checkpoint, StageBegin, StageEnd, StageFail, Stop,
                Kill, Kept, FileKept
<1>5. CASE Start \/ Crash \/ Open
    BY <1>5 DEF Start, Crash, Open, Kept, FileKept
<1>6. CASE WriteEnd \/ WriteFail \/ RemoveSidecars \/ Unmark
    BY <1>6 DEF WriteEnd, WriteFail, RemoveSidecars, Unmark, Kept, FileKept
<1>7. CASE UNCHANGED vars
    BY <1>7 DEF vars, Kept, FileKept
<1> QED
    BY <1>1, <1>2, <1>3, <1>4, <1>5, <1>6, <1>7 DEF Next, Apply

\* Every file a restore wrote over is in a copy, through any faults at all.
THEOREM ReplacedIsKept == Spec => []FileKept
<1>1. Init => Kept
    BY DEF Init, Kept, FileKept
<1>2. Kept => FileKept
    BY DEF Kept
<1> QED
    BY <1>1, <1>2, StepKept, PTL DEF Spec

-----------------------------------------------------------------------------
(* What is opened, and the refinement.                                     *)

\* Where an interrupted restore stands.  A marker cut short is one still being
\* staged; a restore that has begun still has its marker, and finishes from it;
\* what it has written and removed so far; and one that has not begun leaves
\* the database whole.
Stands ==
    /\ marker = Torn => staging # None
    /\ begun => marker \in Contents /\ pc \notin {"running", "open"}
    /\ pc \in Applying => data = marker /\ marker \in Contents
    /\ pc = "writing" => begun
    /\ pc \in {"sidecars", "unmark"} => begun /\ main = data
    /\ pc = "unmark" => wal = None
    /\ ~begun => Current \in Contents

Resumable == Sound => Stands

\* The kinds of fault that have happened are never forgotten.
LEMMA HitGrows == [Next]_vars => hit \subseteq hit'
BY DEF Next, Running, Apply, Commit, Checkpoint, StageBegin, StageEnd, StageFail, Stop,
       Kill, Start, Backup, BackupFail, WriteBegin, WriteEnd, WriteFail, RemoveSidecars,
       Unmark, Crash, Open, Fault, NoFault, vars

\* A promise that is void stays void.
LEMMA SoundBefore == [Next]_vars /\ Sound' => Sound
BY HitGrows DEF Sound, Interruptions

LEMMA InitResumable == Init => Resumable
BY ContentsAssumption DEF Init, Resumable, Stands, Applying, Current

LEMMA StepResumable == Types /\ Resumable /\ [Next]_vars => Resumable'
<1> SUFFICES ASSUME Types, Resumable, [Next]_vars, Sound'
             PROVE  Stands'
    BY DEF Resumable
<1> USE ContentsAssumption
<1>0. Stands
    BY SoundBefore DEF Resumable
<1>1. CASE Commit
    <2>1. PICK c \in Contents : wal' = [base |-> main, content |-> c]
        BY <1>1 DEF Commit
    <2>2. main \in Contents
        BY <1>0, <1>1, WholeFile DEF Commit, Stands, Types
    <2>3. Current' = c
        BY <1>1, <2>1, <2>2 DEF Commit, Current
    <2> QED
        BY <1>0, <1>1, <2>3 DEF Commit, Stands, Applying
<1>2. CASE Checkpoint
    BY <1>0, <1>2 DEF Checkpoint, Stands, Applying, Current
<1>3. CASE StageBegin
    BY <1>0, <1>3 DEF StageBegin, Stands, Applying, Current
<1>4. CASE StageEnd
    BY <1>0, <1>4 DEF StageEnd, Stands, Applying, Current, Types, TypeOK
<1>5. CASE StageFail
    BY <1>5 DEF StageFail, Fault, Sound, Interruptions
<1>6. CASE Stop
    BY <1>0, <1>6 DEF Stop, Stands, Applying, Current
<1>7. CASE Kill
    BY <1>0, <1>7 DEF Kill, Stands, Applying, Current
<1>8. CASE Start
    BY <1>0, <1>8 DEF Start, Stands, Applying, Current, Types, TypeOK
<1>9. CASE Backup \/ BackupFail
    BY <1>0, <1>9 DEF Backup, BackupFail, Stands, Applying, Current
<1>10. CASE WriteBegin
    BY <1>0, <1>10 DEF WriteBegin, Stands, Applying, Current
<1>11. CASE WriteEnd \/ WriteFail
    BY <1>0, <1>11 DEF WriteEnd, WriteFail, Stands, Applying, Current
<1>12. CASE RemoveSidecars
    BY <1>0, <1>12 DEF RemoveSidecars, Fault, Sound, Interruptions, Stands, Applying, Current
<1>13. CASE Unmark
    BY <1>0, <1>13 DEF Unmark, Fault, Sound, Interruptions, Stands, Applying, Current
<1>14. CASE Crash
    BY <1>0, <1>14 DEF Crash, Stands, Applying, Current
<1>15. CASE Open
    BY <1>0, <1>15 DEF Open, Stands, Applying, Current
<1>16. CASE UNCHANGED vars
    BY <1>0, <1>16 DEF vars, Stands, Applying, Current
<1> QED
    BY <1>1, <1>2, <1>3, <1>4, <1>5, <1>6, <1>7, <1>8, <1>9, <1>10, <1>11, <1>12,
       <1>13, <1>14, <1>15, <1>16 DEF Next, Running, Apply

LEMMA AlwaysResumable == Spec => []Resumable
<1>1. Init => Resumable
    BY InitResumable
<1>2. Types /\ Resumable /\ [Next]_vars => Resumable'
    BY StepResumable
<1> QED
    BY <1>1, <1>2, AlwaysTypes, PTL DEF Spec

\* birdy never opens half a database, wherever its restore was interrupted.
THEOREM NeverOpensHalf == Spec => []OpensWhole
<1>1. Resumable => OpensWhole
    BY DEF Resumable, Stands, OpensWhole
<1> QED
    BY <1>1, AlwaysResumable, PTL

LEMMA InitAtomic == Init => Store!Init
BY ContentsAssumption DEF Init, Store!Init, Sound, Current

\* The first byte written over the database is Swap; the steps that finish it,
\* or begin it again, change nothing anybody can see.
LEMMA StepAtomic ==
    Types /\ Resumable /\ Resumable' /\ [Next]_vars => [Store!Next]_(Store!vars)
<1> SUFFICES ASSUME Types, Resumable, Resumable', [Next]_vars, Sound'
             PROVE  [Store!Next]_(Store!vars)
    BY DEF Store!Next
<1> USE ContentsAssumption
<1> DEFINE db     == IF begun THEN marker ELSE Current
           staged == IF begun \/ marker = Torn THEN None ELSE marker
           up     == pc = "running"
<1>0. Sound /\ Stands /\ Stands'
    BY SoundBefore DEF Resumable
<1>a. ASSUME UNCHANGED <<db, staged, up>>
      PROVE  UNCHANGED Store!vars
    BY <1>a, <1>0 DEF Store!vars
<1>1. CASE Commit
    <2>1. PICK c \in Contents : wal' = [base |-> main, content |-> c]
        BY <1>1 DEF Commit
    <2>2. main \in Contents
        BY <1>0, <1>1, WholeFile DEF Commit, Stands, Types
    <2>3. db' = c /\ up
        BY <1>0, <1>1, <2>1, <2>2 DEF Commit, Stands, Current
    <2>4. UNCHANGED <<staged, up>>
        BY <1>1 DEF Commit
    <2> QED
        BY <1>0, <2>3, <2>4 DEF Store!Next, Store!Commit
<1>2. CASE Checkpoint
    <2>1. UNCHANGED <<db, staged, up>>
        BY <1>2 DEF Checkpoint, Current
    <2> QED
        BY <1>a, <2>1
<1>3. CASE StageBegin \/ StageEnd
    <2>1. up /\ UNCHANGED <<db, up>>
        BY <1>0, <1>3 DEF StageBegin, StageEnd, Stands, Types, Current
    <2>2. staged' \in Contents \cup {None}
        BY <1>0, <1>3 DEF StageBegin, StageEnd, Stands, Types, TypeOK
    <2> QED
        BY <1>0, <2>1, <2>2 DEF Store!Next, Store!Stage
<1>4. CASE StageFail
    BY <1>4 DEF StageFail, Fault, Sound, Interruptions
<1>5. CASE Stop \/ Kill \/ Open
    <2>1. UNCHANGED <<db, staged>>
        BY <1>0, <1>5 DEF Stop, Kill, Open, Stands, Current
    <2>2. up' = ~up
        BY <1>0, <1>5 DEF Stop, Kill, Open, Stands
    <2> QED
        BY <1>0, <2>1, <2>2 DEF Store!Next, Store!Switch
<1>6. CASE Start \/ Backup \/ BackupFail \/ WriteEnd \/ WriteFail \/ Crash
    <2>1. UNCHANGED <<db, staged, up>>
        BY <1>0, <1>6 DEF Start, Backup, BackupFail, WriteEnd, WriteFail, Crash, Stands,
                          Applying, Current
    <2> QED
        BY <1>a, <2>1
<1>7. CASE WriteBegin
    <2>1. db' = marker /\ staged' = None /\ ~up /\ UNCHANGED up
        BY <1>7 DEF WriteBegin
    <2>2. CASE begun
        BY <1>a, <2>1, <2>2
    <2>3. CASE ~begun
        <3>1. staged = marker /\ staged # None
            BY <1>0, <1>7, <2>3 DEF WriteBegin, Stands, Applying
        <3> QED
            BY <1>0, <2>1, <3>1 DEF Store!Next, Store!Swap
    <2> QED
        BY <2>2, <2>3
<1>8. CASE RemoveSidecars
    <2>1. UNCHANGED <<db, staged, up>>
        BY <1>0, <1>8 DEF RemoveSidecars, Stands
    <2> QED
        BY <1>a, <2>1
<1>9. CASE Unmark
    <2>1. marker' = None /\ begun' = FALSE
        BY <1>9 DEF Unmark, Fault, Sound, Interruptions
    <2>2. Current' = marker
        BY <1>0, <1>9 DEF Unmark, Stands, Applying, Current
    <2>3. UNCHANGED <<db, staged, up>>
        BY <1>0, <1>9, <2>1, <2>2 DEF Unmark, Stands
    <2> QED
        BY <1>a, <2>3
<1>10. CASE UNCHANGED vars
    <2>1. UNCHANGED <<db, staged, up>>
        BY <1>10 DEF vars, Current
    <2> QED
        BY <1>a, <2>1
<1> QED
    BY <1>1, <1>2, <1>3, <1>4, <1>5, <1>6, <1>7, <1>8, <1>9, <1>10 DEF Next, Running, Apply

\* A staged restore takes the database's place once and in a single step, for
\* any contents and any number of crashes, kills, failed writes and restarts.
THEOREM RestoreIsAtomic == Spec => ImplementsAtomicRestore
<1>1. Init => Store!Init
    BY InitAtomic
<1>2. Types /\ Types' /\ Resumable /\ Resumable' /\ [Next]_vars => [Store!Next]_(Store!vars)
    BY StepAtomic
<1> QED
    BY <1>1, <1>2, AlwaysTypes, AlwaysResumable, PTL DEF Spec, ImplementsAtomicRestore, Store!Spec
=============================================================================
