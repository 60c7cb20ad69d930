------------------------------- MODULE Poller -------------------------------
(***************************************************************************)
(* The poller: BIRD's BGP sessions, read every few seconds and turned into *)
(* events.  One poll is several reads at different times: the protocols,   *)
(* then the peers the model has switched off, then one session's detail at *)
(* a time.  Between them sessions fail and recover, the operator edits the *)
(* model and applies it, and BIRD may stop answering.  Events are edges,   *)
(* computed against the snapshot the poll before left.                     *)
(***************************************************************************)
EXTENDS Naturals, Sequences

CONSTANTS
    Peers,      \* BGP peers
    Bird,       \* BIRD itself, as the subject of an event
    None,       \* no count, no peer
    Counts,     \* numbers of routes a session may import
    Baseline,   \* dropBaseline
    Limit,      \* a session's import limit; 0 is none
    FlapWindow, \* flapWindow, in ticks
    MaxMoves,   \* bound: things the network and the operator do
    MaxFaults   \* bound: lost replies, failed reads and restarts of birdy

ASSUME PollerAssumption ==
    /\ Bird \notin Peers /\ None \notin Peers /\ None \notin Nat
    /\ Counts \subseteq Nat /\ Baseline \in Nat \ {0} /\ Limit \in Nat
    /\ FlapWindow \in Nat /\ MaxMoves \in Nat /\ MaxFaults \in Nat

VARIABLES
    model,   \* the peers table: what the operator has asked for
    running, \* what the configuration BIRD runs says
    session, \* the sessions established
    count,   \* routes each imports
    alive,   \* BIRD answers
    pc,      \* where the poll is
    protos,  \* its locals: the protocols listed, and which were established
    off,     \*   the peers switched off in the model
    todo,    \*   the protocols still to look at
    peer,    \*   the one whose detail is being fetched
    next,    \*   the snapshot being built
    states,  \* the snapshot published
    first,   \* no poll has completed yet
    reach,   \* BIRD's last-known reachability
    out,     \* the events emitted by this step
    said,    \* history: what the last event about a subject said of it
    muted,   \* history: a transition since then was kept quiet
    cause,   \* history: why a session is down
    parked,  \* history: listed down for no reason but the operator's
    fetched, \* history: the last count read of a session, while it stayed up
    moves, faults

bird == <<model, running, session, count, alive, cause>>
locals == <<pc, protos, off, todo, peer, next>>
known == <<states, first, reach>>
history == <<said, muted, parked, fetched>>
pollerVars == <<bird, locals, known, out, history, moves, faults>>

Subjects == Peers \cup {Bird}

\* What an event says of its subject; a limit or a drop says nothing of it.
Says(e) == CASE e.kind \in {"down", "unreachable"}       -> "down"
             [] e.kind \in {"up", "flap", "reachable"}   -> "up"
             [] OTHER                                    -> "nothing"

Move == moves < MaxMoves /\ moves' = moves + 1
Fault == faults < MaxFaults /\ faults' = faults + 1

\* emit: the timeline and the notifier hear of it in this order.
Emit(events) ==
    /\ out' = events
    /\ said' = [s \in Subjects |->
           IF \E i \in DOMAIN events : events[i].of = s /\ Says(events[i]) # "nothing"
           THEN Says(events[CHOOSE i \in DOMAIN events :
                                events[i].of = s /\ Says(events[i]) # "nothing"])
           ELSE said[s]]
Quiet == out' = <<>>

\* The poll returns: its locals are gone.
Return == pc' = "idle" /\ protos' = <<>> /\ off' = {} /\ todo' = {} /\ peer' = None /\ next' = <<>>

-----------------------------------------------------------------------------
(* The network, BIRD and the operator.                                     *)

Outside == Quiet /\ UNCHANGED <<locals, known, history>>

Establish(p) ==
    /\ Move /\ Outside
    /\ alive /\ running[p] = "enabled" /\ ~session[p]
    /\ session' = [session EXCEPT ![p] = TRUE]
    /\ count' \in {[count EXCEPT ![p] = n] : n \in Counts}
    /\ UNCHANGED <<model, running, alive, cause, faults>>

Fail(p) ==
    /\ Move /\ Outside
    /\ session[p]
    /\ session' = [session EXCEPT ![p] = FALSE]
    /\ count' = [count EXCEPT ![p] = 0]
    /\ cause' = [cause EXCEPT ![p] = "failed"]
    /\ UNCHANGED <<model, running, alive, faults>>

Learn(p) ==
    /\ Move /\ Outside
    /\ session[p]
    /\ count' \in {[count EXCEPT ![p] = n] : n \in Counts \ {count[p]}}
    /\ UNCHANGED <<model, running, session, alive, cause, faults>>

\* The operator adds, deletes, switches on or off a peer in the model.
EditPeer(p) ==
    /\ Move /\ Quiet
    /\ model' \in {[model EXCEPT ![p] = m] : m \in {"absent", "disabled", "enabled"} \ {model[p]}}
    /\ cause' = [cause EXCEPT ![p] = IF @ = "switched" THEN "reworked" ELSE @]
    /\ parked' = parked \ {p}
    /\ UNCHANGED <<running, session, count, alive, locals, known, said, muted, fetched, faults>>

\* The model is applied: BIRD takes down what is no longer enabled.
ApplyModel ==
    /\ Move /\ Outside
    /\ alive /\ running # model
    /\ running' = model
    /\ session' = [p \in Peers |-> session[p] /\ model[p] = "enabled"]
    /\ count' = [p \in Peers |-> IF session'[p] THEN count[p] ELSE 0]
    /\ cause' = [p \in Peers |->
           IF running[p] # model[p] /\ model[p] # "enabled" THEN "switched" ELSE cause[p]]
    /\ UNCHANGED <<model, alive, faults>>

BirdStops ==
    /\ Move /\ Outside
    /\ alive /\ alive' = FALSE
    /\ session' = [p \in Peers |-> FALSE] /\ count' = [p \in Peers |-> 0]
    /\ cause' = [p \in Peers |-> IF session[p] THEN "failed" ELSE cause[p]]
    /\ UNCHANGED <<model, running, faults>>

BirdStarts ==
    /\ Move /\ Outside
    /\ ~alive /\ alive' = TRUE
    /\ UNCHANGED <<model, running, session, count, cause, faults>>

\* One tick older; past the window it no longer matters how much.
Older(f) == [p \in DOMAIN f |-> [f[p] EXCEPT !.age = IF @ < FlapWindow THEN @ + 1 ELSE @]]

Tick ==
    /\ states' = Older(states)
    /\ next' = Older(next)
    /\ Quiet
    /\ UNCHANGED <<bird, pc, protos, off, todo, peer, first, reach, history, moves, faults>>

-----------------------------------------------------------------------------
(* poll.                                                                   *)

\* Mutant: a failed poll is only logged.
OutageLogged == <<>>

\* An outage is alerted once, and not when BIRD was never seen to answer.
Outage == IF reach = "up" THEN <<[kind |-> "unreachable", of |-> Bird]>> ELSE <<>>

\* Protocols fails: alert on the edge, keep the snapshot, wait for the next poll.
ListFail ==
    /\ pc = "idle"
    /\ (~alive /\ UNCHANGED faults) \/ Fault
    /\ Emit(Outage)
    /\ reach' = "down"
    /\ muted' = [muted EXCEPT ![Bird] = @ /\ out' = <<>>]
    /\ UNCHANGED <<bird, locals, states, first, parked, fetched, moves>>

List ==
    /\ pc = "idle" /\ alive
    /\ protos' = [p \in {q \in Peers : running[q] # "absent"} |-> session[p]]
    /\ Emit(IF reach = "down" THEN <<[kind |-> "reachable", of |-> Bird]>> ELSE <<>>)
    /\ reach' = "up"
    /\ parked' = {p \in DOMAIN protos' : cause[p] = "switched"}
    /\ pc' = "disabled"
    /\ muted' = [muted EXCEPT ![Bird] = @ /\ out' = <<>>]
    /\ UNCHANGED <<bird, off, todo, peer, next, states, first, fetched, moves, faults>>

\* Mutant: nobody asks the model.
NobodyOff == {}

\* DisabledPeerNames.
SwitchedOff == {p \in Peers : model[p] = "disabled"}

\* Read after the listing it explains; if it cannot be read, every peer is taken to
\* be enabled.
ReadDisabled ==
    /\ pc = "disabled"
    /\ \/ /\ off' = SwitchedOff
          /\ parked' = {p \in parked : cause[p] = "switched"}
          /\ UNCHANGED faults
       \/ off' = {} /\ parked' = {} /\ Fault
    /\ todo' = DOMAIN protos
    /\ next' = <<>>
    /\ pc' = "protocol"
    /\ Quiet
    /\ UNCHANGED <<bird, protos, peer, known, said, muted, fetched, moves>>

\* recordTransition: an up soon after a change is a flap.
Transition(p, seen, prior) ==
    [of |-> p, kind |-> IF ~protos[p] THEN "down"
                        ELSE IF seen /\ prior.age < FlapWindow THEN "flap"
                        ELSE "up"]

\* Mutant: what was not in the last snapshot has not changed.
MovedSeen(p) == ~first /\ p \in DOMAIN states /\ states[p].up # protos[p]

\* The listing differs from the snapshot; the first poll of a process compares with none.
Moved(p) == ~first /\ (p \in DOMAIN states => states[p].up # protos[p])

\* Mutant: a change soon after another is not reported.
ReportedDamped(p) == Moved(p) /\ p \notin off /\ (p \in DOMAIN states => states[p].age = FlapWindow)

\* A peer the model has switched off is meant to be down: its changes are kept quiet.
Reported(p) == Moved(p) /\ p \notin off

Add(p, entry) == [q \in DOMAIN next \cup {p} |-> IF q = p THEN entry ELSE next[q]]

\* One protocol of the listing against the snapshot.
Classify(p) ==
    /\ pc = "protocol" /\ p \in todo
    /\ LET seen == p \in DOMAIN states  prior == states[p] IN
       /\ next' = Add(p, [up |-> protos[p],
                          age |-> IF seen /\ ~Moved(p) THEN prior.age ELSE 0,
                          hit |-> seen /\ prior.hit, imported |-> 0])
       /\ Emit(IF Reported(p) THEN <<Transition(p, seen, prior)>> ELSE <<>>)
    /\ muted' = [muted EXCEPT ![p] = IF Moved(p) THEN p \in off ELSE @]
    /\ todo' = todo \ {p}
    /\ peer' = IF protos[p] THEN p ELSE None
    /\ pc' = IF protos[p] THEN "detail" ELSE "protocol"
    /\ fetched' = [fetched EXCEPT ![p] = IF protos[p] THEN @ ELSE None]
    /\ UNCHANGED <<bird, protos, off, known, parked, moves, faults>>

\* updateImportLimits and checkPrefixDrop.  A session that went down since the
\* listing has no counts any more.
Detail ==
    /\ pc = "detail" /\ alive
    /\ LET n     == count[peer]
           hit   == Limit > 0 /\ n >= Limit
           seen  == peer \in DOMAIN states
           prior == states[peer]
           drop  == /\ ~first /\ seen /\ prior.up /\ prior.imported >= Baseline
                    /\ 2 * n <= prior.imported
       IN /\ next' = [next EXCEPT ![peer].imported = n, ![peer].hit = hit]
          /\ Emit((IF hit /\ ~next[peer].hit THEN <<[kind |-> "limit", of |-> peer]>> ELSE <<>>)
                  \o (IF drop THEN <<[kind |-> "drop", of |-> peer]>> ELSE <<>>))
          /\ fetched' = [fetched EXCEPT ![peer] = n]
    /\ pc' = "protocol" /\ peer' = None
    /\ UNCHANGED <<bird, protos, off, todo, known, muted, parked, moves, faults>>

\* Mutant: the counts stay at zero.
Lost == next

\* The last known counts.
Carried ==
    IF peer \in DOMAIN states
    THEN [next EXCEPT ![peer].imported = states[peer].imported] ELSE next

\* The detail could not be fetched: the last known counts stand.
DetailFail ==
    /\ pc = "detail"
    /\ (~alive /\ UNCHANGED faults) \/ Fault
    /\ next' = Carried
    /\ pc' = "protocol" /\ peer' = None
    /\ Quiet
    /\ UNCHANGED <<bird, protos, off, todo, known, history, moves>>

Publish ==
    /\ pc = "protocol" /\ todo = {}
    /\ states' = next
    /\ first' = FALSE
    /\ Return
    /\ parked' = {}
    /\ fetched' = [p \in Peers |-> IF p \in DOMAIN next THEN fetched[p] ELSE None]
    /\ Quiet
    /\ UNCHANGED <<bird, reach, said, muted, moves, faults>>

\* birdy is killed and starts again with nothing but its database.
Restart ==
    /\ Fault
    /\ Return
    /\ states' = <<>> /\ first' = TRUE /\ reach' = "unknown"
    /\ parked' = {} /\ fetched' = [p \in Peers |-> None]
    /\ muted' = [s \in Subjects |-> TRUE]
    /\ Quiet
    /\ UNCHANGED <<bird, said, moves>>

-----------------------------------------------------------------------------
PollerInit ==
    /\ model \in [Peers -> {"absent", "enabled"}] /\ running = model
    /\ alive \in BOOLEAN
    /\ session \in {f \in [Peers -> BOOLEAN] :
                      \A p \in Peers : f[p] => alive /\ running[p] = "enabled"}
    /\ count \in {f \in [Peers -> Counts \cup {0}] : \A p \in Peers : f[p] = 0 <=> ~session[p]}
    /\ cause = [p \in Peers |-> "failed"]
    /\ pc = "idle" /\ protos = <<>> /\ off = {} /\ todo = {} /\ peer = None /\ next = <<>>
    /\ states = <<>> /\ first = TRUE /\ reach = "unknown"
    /\ out = <<>>
    /\ said = [s \in Subjects |-> "nothing"] /\ muted = [s \in Subjects |-> FALSE]
    /\ parked = {} /\ fetched = [p \in Peers |-> None]
    /\ moves = 0 /\ faults = 0

World ==
    \/ \E p \in Peers : Establish(p) \/ Fail(p) \/ Learn(p) \/ EditPeer(p)
    \/ ApplyModel \/ BirdStops \/ BirdStarts

Poll ==
    \/ ListFail \/ List \/ ReadDisabled
    \/ \E p \in Peers : Classify(p)
    \/ Detail \/ DetailFail \/ Publish

PollerNext == World \/ Poll \/ Tick \/ Restart
PollerSpec == PollerInit /\ [][PollerNext]_pollerVars

-----------------------------------------------------------------------------
\* A session-down is never raised for a session the operator took down and has not
\* touched since, if the model could be read: what is switched off is read after the
\* listing, so it explains what the listing shows.
NoAlarmForSwitchedOff ==
    [][\A p \in parked', i \in DOMAIN out' : out'[i] # [kind |-> "down", of |-> p]]_pollerVars

\* Between polls, the last event about a session or about BIRD says what the
\* snapshot says, unless a transition was kept quiet since: no edge is missed
\* over failed polls, nor for a peer that was deleted and came back.
TimelineIsTrue ==
    pc = "idle" =>
        /\ \A p \in DOMAIN states :
               (said[p] # "nothing" /\ ~muted[p]) => ((said[p] = "up") <=> states[p].up)
        /\ (said[Bird] # "nothing" /\ ~muted[Bird]) => said[Bird] = reach

\* A drop is raised exactly when two counts really read, with nothing but failed
\* reads between them while the session stayed up, are that far apart.
DropsAreReal ==
    [][pc = "detail" /\ pc' = "protocol" =>
          LET old == fetched[peer]  new == fetched'[peer]
          IN (\E i \in DOMAIN out' : out'[i] = [kind |-> "drop", of |-> peer])
             <=> old # None /\ old >= Baseline /\ 2 * new <= old]_pollerVars
=============================================================================
