------------------------------- MODULE Fleet --------------------------------
(***************************************************************************)
(* The remote birdy instances this one watches: their rows, the health     *)
(* refreshes that ask each of them, and the alerts those raise.  A refresh *)
(* is run by the background loop and by any operator who presses the       *)
(* button, and instances come, go and change their names meanwhile.        *)
(***************************************************************************)
EXTENDS Naturals, Sequences, FiniteSets

CONSTANTS
    InstanceIds,    \* the ids the table may hand out: 1..n
    InstanceNames,
    Operators,      \* the requests that may ask for a refresh at the same time
    MaxPolls        \* maxConcurrentInstancePolls

Callers == Operators \cup {"loop"}
Nobody == "nobody"

ASSUME FleetAssumption ==
    /\ MaxPolls \in Nat \ {0} /\ InstanceIds \subseteq Nat \ {0} /\ InstanceNames # {}
    /\ Nobody \notin Callers

VARIABLES
    instances,      \* id -> its row, which is there, not yet, or no more
    refreshMu,      \* who holds it
    refresh,        \* caller -> [pc, copy, state, cancelled]
    told            \* id -> the alerts the operator was sent about it, the last two (history)

fleetVars == <<instances, refreshMu, refresh, told>>

Health == {"unknown", "offline", "degraded", "healthy"}

\* A row: [there, name, health, succeeded], the health columns kept as what healthStatus reads
\* from them, and whether a check ever succeeded.
LiveInstances == {i \in InstanceIds : instances[i].there = "yes"}
NewInstance(n) == [there |-> "yes", name |-> n, health |-> "unknown", succeeded |-> FALSE]
NoInstance(there) == [NewInstance(CHOOSE n \in InstanceNames : TRUE) EXCEPT !.there = there]

-----------------------------------------------------------------------------
(* store: one statement each.  A name is unique; an id is never given twice.*)

Fresh == {i \in InstanceIds :
            \A j \in 1..i : instances[j].there = "not yet" <=> j = i}
NameFree(n) == \A i \in LiveInstances : instances[i].name # n

CreateInstance(n) ==
    \E i \in Fresh :
        /\ NameFree(n)
        /\ instances' = [instances EXCEPT ![i] = NewInstance(n)]
RenameInstance(i, n) ==
    /\ instances[i].name = n \/ NameFree(n)
    /\ instances' = [instances EXCEPT ![i].name = n]
DeleteInstance(i) == instances' = [instances EXCEPT ![i] = NoInstance("no more")]

-----------------------------------------------------------------------------
(* A refresh.                                                               *)

Nothing == [i \in {} |-> "todo"]
Idle == [pc |-> "idle", copy |-> Nothing, state |-> Nothing, cancelled |-> FALSE]

\* What is used of a copy: the name in the alert is not followed here.
ListInstances ==
    [i \in LiveInstances |-> [health |-> instances[i].health, succeeded |-> instances[i].succeeded]]
Asking(c) == {i \in DOMAIN refresh[c].state : refresh[c].state[i] \notin {"todo", "done"}}
Step(c, i, to) == refresh' = [refresh EXCEPT ![c].state[i] = to]

\* StartBackground's ticker, and apiInstancesRefresh.
AskRefresh(c) ==
    /\ refresh[c].pc = "idle"
    /\ refresh' = [refresh EXCEPT ![c].pc = "locking"]
    /\ UNCHANGED <<instances, refreshMu, told>>

FreeAlways == TRUE      \* Mutant: refreshes overlap.
LockFree == refreshMu = Nobody

\* A list that cannot be read ends the refresh at once.
LockAndList(c) ==
    /\ refresh[c].pc = "locking" /\ LockFree
    /\ \/ /\ refreshMu' = c
          /\ refresh' = [refresh EXCEPT ![c].pc = "asking", ![c].copy = ListInstances,
                                        ![c].state = [i \in LiveInstances |-> "todo"]]
       \/ refresh' = [refresh EXCEPT ![c] = Idle] /\ UNCHANGED refreshMu
    /\ UNCHANGED <<instances, told>>

Ask(c, i) ==
    /\ refresh[c].pc = "asking" /\ Cardinality(Asking(c)) < MaxPolls
    /\ i \in DOMAIN refresh[c].state /\ refresh[c].state[i] = "todo"
    /\ Step(c, i, "asked")
    /\ UNCHANGED <<instances, refreshMu, told>>

\* The request ends, its 6 s pass, or birdy shuts down.
CancelBatch(c) ==
    /\ refresh[c].pc = "asking" /\ ~refresh[c].cancelled
    /\ refresh' = [refresh EXCEPT ![c].cancelled = TRUE]
    /\ UNCHANGED <<instances, refreshMu, told>>

\* Client.Check: slow or not, or an error after 4 s at most.  An error in a cancelled batch says
\* nothing of the instance.
Answer(c, i, got) ==
    /\ refresh[c].pc = "asking" /\ i \in DOMAIN refresh[c].state /\ refresh[c].state[i] = "asked"
    /\ IF got = "offline" /\ refresh[c].cancelled THEN Step(c, i, "done") ELSE Step(c, i, got)
    /\ UNCHANGED <<instances, refreshMu, told>>

\* UpdateInstanceHealth and the alert; a row that is gone, and a write that fails, are only logged.
Transition(old, new) ==
    CASE old # "unknown" /\ old # "offline" /\ new = "offline" -> <<"instance_down">>
      [] old = "offline" /\ new # "offline" -> <<"instance_up">>
      [] OTHER -> <<>>
LastTwo(s) == SubSeq(s, IF Len(s) > 2 THEN Len(s) - 1 ELSE 1, Len(s))

SaveHealth(c, i, saved) ==
    LET new == refresh[c].state[i]
        old == refresh[c].copy[i]
        alert == Transition(old.health, new)
    IN /\ new \in Health
       /\ instances' = IF saved /\ i \in LiveInstances
                       THEN [instances EXCEPT ![i].health = new,
                                              ![i].succeeded = old.succeeded \/ new # "offline"]
                       ELSE instances
       \* What was said of a state that is not on record is forgotten.
       /\ told' = [told EXCEPT ![i] =
                      IF (~saved /\ alert # <<>>) \/ i \notin LiveInstances THEN <<>>
                      ELSE LastTwo(@ \o alert)]
       /\ Step(c, i, "done")
       /\ UNCHANGED refreshMu

Persist(c, i, saved) ==
    /\ refresh[c].pc = "asking" /\ i \in DOMAIN refresh[c].state
    /\ SaveHealth(c, i, saved)

EndRefresh(c) ==
    /\ refresh[c].pc = "asking" /\ \A i \in DOMAIN refresh[c].state : refresh[c].state[i] = "done"
    /\ refreshMu' = Nobody
    /\ refresh' = [refresh EXCEPT ![c] = Idle]
    /\ UNCHANGED <<instances, told>>

-----------------------------------------------------------------------------
(* The pages.  A row that vanishes between a handler's look and its write   *)
(* makes the write fail.                                                    *)

handleInstanceAdd(n) == CreateInstance(n) /\ UNCHANGED <<refreshMu, refresh, told>>

handleInstanceRename(i, n) ==
    i \in LiveInstances /\ RenameInstance(i, n) /\ UNCHANGED <<refreshMu, refresh, told>>

handleInstanceDelete(i) ==
    /\ i \in LiveInstances /\ DeleteInstance(i)
    /\ told' = [told EXCEPT ![i] = <<>>]
    /\ UNCHANGED <<refreshMu, refresh>>

-----------------------------------------------------------------------------
FleetInit ==
    /\ instances = [i \in InstanceIds |-> NoInstance("not yet")]
    /\ refreshMu = Nobody
    /\ refresh = [c \in Callers |-> Idle]
    /\ told = [i \in InstanceIds |-> <<>>]

FleetNext ==
    \/ \E c \in Callers : AskRefresh(c) \/ LockAndList(c) \/ CancelBatch(c) \/ EndRefresh(c)
    \/ \E c \in Callers, i \in InstanceIds :
          \/ Ask(c, i)
          \/ \E got \in Health \ {"unknown"} : Answer(c, i, got)
          \/ \E saved \in BOOLEAN : Persist(c, i, saved)
    \/ \E n \in InstanceNames : handleInstanceAdd(n)
    \/ \E i \in InstanceIds, n \in InstanceNames : handleInstanceRename(i, n)
    \/ \E i \in InstanceIds : handleInstanceDelete(i)

FleetSpec == FleetInit /\ [][FleetNext]_fleetVars

-----------------------------------------------------------------------------
(* Properties.                                                              *)

\* What the operator was told of an instance and what is on record agree: two alerts in a row are
\* never the same, the last word is that it is down exactly while its row says offline, and an
\* instance never heard of has not been reported reachable (refreshInstanceHealth).
AlertsMatchHealth ==
    \A i \in LiveInstances :
        LET words == told[i]
        IN /\ Len(words) = 2 => words[1] # words[2]
           /\ words # <<>> =>
                 (words[Len(words)] = "instance_down" <=> instances[i].health = "offline")
           /\ instances[i].health \in {"healthy", "degraded"} => instances[i].succeeded

=============================================================================
