--------------------------- MODULE AtomicRestore ---------------------------
(***************************************************************************)
(* What staging a restore promises, with no files and no steps: while      *)
(* birdy is up its database moves by commits and an upload may be staged;  *)
(* while it is down a staged content takes the database's place, once, in  *)
(* a single step.  The promise ends with a fault nobody claims to survive. *)
(***************************************************************************)
CONSTANTS Contents, None

VARIABLES
    db,     \* the content birdy works on, or will when it next starts
    staged, \* the content waiting to be swapped in, or None
    up,     \* birdy is running
    sound   \* nothing has gone wrong that voids the promise

vars == <<db, staged, up, sound>>

Init == db \in Contents /\ staged = None /\ up = FALSE /\ sound = TRUE

Commit == up /\ db' \in Contents /\ UNCHANGED <<staged, up>>

\* A new upload replaces an earlier one, which is withdrawn first.
Stage == up /\ staged' \in Contents \cup {None} /\ UNCHANGED <<db, up>>

Swap == ~up /\ staged # None /\ db' = staged /\ staged' = None /\ UNCHANGED up

Switch == up' = ~up /\ UNCHANGED <<db, staged>>

Next == \/ sound /\ sound' /\ (Commit \/ Stage \/ Swap \/ Switch)
        \/ ~sound'

Spec == Init /\ [][Next]_vars
=============================================================================
