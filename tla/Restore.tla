------------------------------ MODULE Restore ------------------------------
(***************************************************************************)
(* Restoring birdy's database.  An upload is staged beside the database    *)
(* while birdy runs; the next start copies the database aside, writes the  *)
(* staged file over it, deletes the write-ahead log of the database that   *)
(* was, and removes the staged file, in that order and one file at a time. *)
(* birdy may be killed between any two of these steps and start again.     *)
(*                                                                         *)
(* A whole database is an element of Contents.  SQLite's write-ahead log   *)
(* holds commits not yet in the file: opening the two together gives the   *)
(* logged content, unless the file is not the one the log was written for. *)
(***************************************************************************)
EXTENDS Naturals

CONSTANTS
    Contents,   \* contents of a database, live or uploaded
    None,       \* no such file
    Torn,       \* a file cut short, or a file and a log that do not fit
    MaxFaults,  \* bound: faults
    MaxStops    \* bound: times the operator stops birdy

\* What can go wrong.
Kinds == {"crash",   \* killed while a restore is being applied
          "kill",    \* killed while running, its log not yet in the file
          "write",   \* the copy aside or the database's write fails half way
          "stage",   \* StageRestore fails or dies half way through its write
          "sidecar", \* the log cannot be removed: the error is ignored
          "unmark"}  \* the staged file cannot be removed: logged, ignored

\* What a restore is to survive.
Interruptions == {"crash", "kill", "write"}

ASSUME ContentsAssumption ==
    /\ None \notin Contents /\ Torn \notin Contents /\ None # Torn
    /\ None \notin [base : Contents, content : Contents]
ASSUME BoundsAssumption == MaxFaults \in Nat /\ MaxStops \in Nat

VARIABLES
    main,     \* the database file
    wal,      \* its log: None, or the file it extends and what replay gives
    marker,   \* the staged file, dbPath.pending-restore
    backups,  \* the contents of the dbPath.before-restore-* files
    pc,       \* where birdy is
    data,     \* ApplyPendingRestore's copy of the staged file
    staging,  \* the upload StageRestore is writing, or None
    begun,    \* history: the staged file has begun to replace the database
    replaced, \* history: files replaced, with what opening them would have given
    faults,   \* faults so far
    hit,      \* history: the kinds of fault that have happened
    stops     \* times stopped so far

vars == <<main, wal, marker, backups, pc, data, staging, begun, replaced, faults, hit, stops>>

Log == [base : Contents, content : Contents]

\* What opening the database gives.
Current == IF wal = None THEN main
           ELSE IF wal.base = main THEN wal.content
           ELSE Torn

Fault(kind) ==
    /\ faults < MaxFaults
    /\ faults' = faults + 1
    /\ hit' = hit \cup {kind}
NoFault == UNCHANGED <<faults, hit>>
Sound == hit \subseteq Interruptions

-----------------------------------------------------------------------------
(* birdy running.                                                          *)

\* A transaction commits to the log.
Commit ==
    /\ pc = "running"
    /\ \E c \in Contents \ {Current} : wal' = [base |-> main, content |-> c]
    /\ UNCHANGED <<main, marker, backups, pc, data, staging, begun, replaced, faults, hit, stops>>

Checkpoint ==
    /\ pc = "running" /\ wal # None
    /\ main' = Current
    /\ wal' = None
    /\ UNCHANGED <<marker, backups, pc, data, staging, begun, replaced, faults, hit, stops>>

\* StageRestore: the header is that of a database, so write it out; the file
\* is cut short until the write ends.
StageBegin ==
    /\ pc = "running" /\ staging = None
    /\ staging' \in Contents
    /\ marker' = Torn
    /\ UNCHANGED <<main, wal, backups, pc, data, begun, replaced, faults, hit, stops>>

\* Mutant: staging is reported done before its write is.
StageEndEarly ==
    /\ staging # None
    /\ staging' = None
    /\ UNCHANGED <<main, wal, marker, backups, pc, data, begun, replaced, faults, hit, stops>>

StageEnd ==
    /\ staging # None
    /\ marker' = staging
    /\ staging' = None
    /\ UNCHANGED <<main, wal, backups, pc, data, begun, replaced, faults, hit, stops>>

\* A full disk, or death: what was written stays.
StageFail ==
    /\ staging # None
    /\ Fault("stage")
    /\ staging' = None
    /\ pc' \in {"running", "down"}
    /\ UNCHANGED <<main, wal, marker, backups, data, begun, replaced, stops>>

\* A clean stop closes the database, which moves the log into the file.
Stop ==
    /\ pc = "running" /\ staging = None
    /\ stops < MaxStops
    /\ stops' = stops + 1
    /\ main' = Current
    /\ wal' = None
    /\ pc' = "down"
    /\ UNCHANGED <<marker, backups, data, staging, begun, replaced, faults, hit>>

Kill ==
    /\ pc = "running" /\ staging = None
    /\ Fault("kill")
    /\ pc' = "down"
    /\ UNCHANGED <<main, wal, marker, backups, data, staging, begun, replaced, stops>>

-----------------------------------------------------------------------------
(* birdy starting: ApplyPendingRestore, then store.Open.                   *)

\* Mutant: the staged file is not read.
StartUnread ==
    /\ pc = "down"
    /\ pc' = IF marker = None THEN "open" ELSE "backup"
    /\ UNCHANGED <<main, wal, marker, backups, data, staging, begun, replaced, faults, hit, stops>>

Start ==
    /\ pc = "down"
    /\ IF marker = None
       THEN pc' = "open" /\ UNCHANGED data
       ELSE pc' = "backup" /\ data' = marker
    /\ UNCHANGED <<main, wal, marker, backups, staging, begun, replaced, faults, hit, stops>>

\* Mutant: the database is not copied aside.
BackupNothing ==
    /\ pc = "backup"
    /\ pc' = "write"
    /\ UNCHANGED <<main, wal, marker, backups, data, staging, begun, replaced, faults, hit, stops>>

\* The database file is copied aside under a name of its own; its log is not.
Backup ==
    /\ pc = "backup"
    /\ backups' = backups \cup {main}
    /\ pc' = "write"
    /\ UNCHANGED <<main, wal, marker, data, staging, begun, replaced, faults, hit, stops>>

BackupFail ==
    /\ pc = "backup"
    /\ Fault("write")
    /\ backups' = backups \cup {Torn}
    /\ pc' = "down"
    /\ UNCHANGED <<main, wal, marker, data, staging, begun, replaced, stops>>

WriteBegin ==
    /\ pc = "write"
    /\ main' = Torn
    /\ pc' = "writing"
    /\ begun' = TRUE
    /\ replaced' = replaced \cup {[file |-> main, content |-> Current]}
    /\ UNCHANGED <<wal, marker, backups, data, staging, faults, hit, stops>>

WriteEnd ==
    /\ pc = "writing"
    /\ main' = data
    /\ pc' = "sidecars"
    /\ UNCHANGED <<wal, marker, backups, data, staging, begun, replaced, faults, hit, stops>>

\* The error goes back to main, which exits; the staged file is still there.
WriteFail ==
    /\ pc = "writing"
    /\ Fault("write")
    /\ pc' = "down"
    /\ UNCHANGED <<main, wal, marker, backups, data, staging, begun, replaced, stops>>

\* Mutant: the sidecars are left where they are.
KeepSidecars ==
    /\ pc = "sidecars"
    /\ pc' = "unmark"
    /\ UNCHANGED <<main, wal, marker, backups, data, staging, begun, replaced, faults, hit, stops>>

\* The log and the shared-memory file; an error is ignored.
RemoveSidecars ==
    /\ pc = "sidecars"
    /\ \/ wal' = None /\ NoFault
       \/ wal' = wal /\ Fault("sidecar")
    /\ pc' = "unmark"
    /\ UNCHANGED <<main, marker, backups, data, staging, begun, replaced, stops>>

\* Mutant: the staged file is never removed.
UnmarkNothing ==
    /\ pc = "unmark"
    /\ begun' = FALSE
    /\ pc' = "open"
    /\ UNCHANGED <<main, wal, marker, backups, data, staging, replaced, faults, hit, stops>>

Unmark ==
    /\ pc = "unmark"
    /\ \/ marker' = None /\ NoFault
       \/ marker' = marker /\ Fault("unmark")
    /\ begun' = FALSE
    /\ pc' = "open"
    /\ UNCHANGED <<main, wal, backups, data, staging, replaced, stops>>

Crash ==
    /\ pc \in {"backup", "write", "writing", "sidecars", "unmark"}
    /\ Fault("crash")
    /\ pc' = "down"
    /\ UNCHANGED <<main, wal, marker, backups, data, staging, begun, replaced, stops>>

\* store.Open: SQLite replays the log; what is not a database is refused.
Open ==
    /\ pc = "open"
    /\ pc' = IF Current \in Contents THEN "running" ELSE "down"
    /\ UNCHANGED <<main, wal, marker, backups, data, staging, begun, replaced, faults, hit, stops>>

-----------------------------------------------------------------------------
Init ==
    /\ main \in Contents
    /\ wal = None /\ marker = None /\ backups = {}
    /\ pc = "down" /\ data = None /\ staging = None
    /\ begun = FALSE /\ replaced = {}
    /\ faults = 0 /\ hit = {} /\ stops = 0

Running == Commit \/ Checkpoint \/ StageBegin \/ StageEnd \/ StageFail \/ Stop \/ Kill

Apply == \/ Backup \/ BackupFail \/ WriteBegin \/ WriteEnd \/ WriteFail
         \/ RemoveSidecars \/ Unmark

Next == Running \/ Start \/ Apply \/ Crash \/ Open

Spec == Init /\ [][Next]_vars

\* birdy is started again after every stop (systemd: Restart=on-failure, or the
\* operator's restart), and a start that is not killed runs to its end.
FairSpec == Spec /\ WF_vars(Start) /\ WF_vars(Apply) /\ WF_vars(Open)

-----------------------------------------------------------------------------
\* Types: a database file is a content or a torn one, and a start works on one of them.
TypeOK ==
    /\ main \in Contents \cup {Torn}
    /\ wal \in Log \cup {None}
    /\ marker \in Contents \cup {None, Torn}
    /\ backups \subseteq Contents \cup {Torn}
    /\ pc \in {"running", "down", "backup", "write", "writing", "sidecars", "unmark", "open"}
    /\ data \in Contents \cup {None, Torn}
    /\ staging \in Contents \cup {None}
    /\ begun \in BOOLEAN
    /\ replaced \subseteq [file : Contents \cup {Torn}, content : Contents \cup {Torn}]
    /\ faults \in 0..MaxFaults
    /\ hit \subseteq Kinds
    /\ stops \in 0..MaxStops

\* birdy never opens half a database: however a restore was interrupted, by the
\* time store.Open runs the file is whole and no log of another file is left.
OpensWhole == pc = "open" /\ Sound => Current \in Contents

\* Every database file a restore wrote over is in one of the copies, whatever
\* went wrong, interrupted and repeated restores included.
FileKept == \A r \in replaced : r.file \in backups

\* The staged file takes effect at one point, the first byte written over the
\* database: from there the restore is finished by whichever start survives.
Store == INSTANCE AtomicRestore WITH
             db     <- IF begun THEN marker ELSE Current,
             staged <- IF begun \/ marker = Torn THEN None ELSE marker,
             up     <- pc = "running",
             sound  <- Sound

ImplementsAtomicRestore == Store!Spec

\* Once birdy is down with a restore staged, some later start applies it and
\* runs; a file that cannot be removed is applied again by every start.
StagedIsApplied ==
    (pc = "down" /\ marker \in Contents) ~> ((pc = "running" /\ marker = None) \/ ~Sound)

-----------------------------------------------------------------------------
(* What the comments say and the code does not keep to.                    *)

\* StageRestore's comment: what it stages for the next start has been found to
\* be a database, so what a start opens is one, also after a staging failed.
AlwaysOpensWhole == pc = "open" => Current \in Contents

\* ApplyPendingRestore's comment: it backs up the current database.  What birdy
\* would have opened, commits still in the log included, is in a copy.
ContentKept == \A r \in replaced : r.content \in Contents => r.content \in backups
=============================================================================
