------------------------------- MODULE Alerts -------------------------------
(***************************************************************************)
(* The notifier behind the poller.  Events go into a bounded queue; one    *)
(* worker takes them in order, drops the repeats of a session event within *)
(* a cooldown, and delivers the rest to each destination that wants their  *)
(* kind, without retrying.  Other parts of birdy put their events into the *)
(* same queue.                                                             *)
(***************************************************************************)
EXTENDS Poller

CONSTANTS
    Destinations,
    Wants,    \* the kinds each destination is to hear of
    QueueCap, \* the queue's capacity
    Cooldown  \* in ticks; 0 disables throttling

ASSUME AlertsAssumption == QueueCap \in Nat \ {0} /\ Cooldown \in Nat

VARIABLES
    queue,    \* events waiting
    last,     \* ticks since a kind and peer was last let through
    worker,   \* the event being delivered, and to whom it still has to go
    heard,    \* history: what each destination last heard of a subject
    lost      \* history: an event since then never reached it

notifierVars == <<queue, last, worker, heard, lost>>
alertVars == <<pollerVars, notifierVars>>

Config == [kind |-> "config", of |-> None]
Throttled == {"down", "up", "flap", "limit", "drop"}
Resting == [event |-> Config, left |-> {}]

Smaller(m, n) == IF m < n THEN m ELSE n

\* Some event says something of s.
Told(events, s) == \E i \in DOMAIN events : events[i].of = s /\ Says(events[i]) # "nothing"

\* What the queue has room for.
Kept(events) == SubSeq(events, 1, Smaller(Len(events), QueueCap - Len(queue)))

\* Mutant: the newest event goes to the front.
JoinedFirst(events) == events \o queue

Joined(events) == queue \o events

\* Notify: what does not fit is dropped, so that the poller never waits.
Offer(events) ==
    /\ queue' = Joined(Kept(events))
    /\ lost' = [d \in Destinations |-> [s \in Subjects |->
           IF Told(events, s) THEN ~Told(Kept(events), s) ELSE lost[d][s]]]

\* A poll, with its events offered to the queue as they are emitted.
PollAndNotify == Poll /\ Offer(out') /\ UNCHANGED <<last, worker, heard>>

\* A configuration event of a handler or of the drift watcher.
Other ==
    /\ Move
    /\ Offer(<<Config>>)
    /\ Quiet
    /\ UNCHANGED <<bird, locals, known, history, faults, last, worker, heard>>

\* What follows in the queue makes good for it.
Lose(dests, e, rest) ==
    lost' = [d \in Destinations |-> [s \in Subjects |->
                lost[d][s] \/ (d \in dests /\ Told(<<e>>, s) /\ ~Told(rest, s))]]

\* A recovery of BIRD follows the subscription to its outages.
Wanted(d, e) == (IF e.kind = "reachable" THEN "unreachable" ELSE e.kind) \in Wants[d]

Repeat(e) == e.kind \in Throttled /\ last[<<e.kind, e.of>>] < Cooldown

\* deliverAllSync, up to the first destination: the throttle records the event
\* before anybody has heard it, and the destinations may not be readable.
Take ==
    /\ worker = Resting /\ queue # <<>>
    /\ LET e == Head(queue) IN
       /\ ~Repeat(e)
       /\ last' = IF e.kind \in Throttled THEN [last EXCEPT ![<<e.kind, e.of>>] = 0] ELSE last
       /\ \/ /\ worker' = IF \E d \in Destinations : Wanted(d, e)
                          THEN [event |-> e, left |-> {d \in Destinations : Wanted(d, e)}]
                          ELSE Resting
             /\ UNCHANGED <<lost, faults>>
          \/ /\ Fault
             /\ Lose(Destinations, e, Tail(queue))
             /\ UNCHANGED worker
    /\ queue' = Tail(queue)
    /\ Quiet
    /\ UNCHANGED <<bird, locals, known, history, moves, heard>>

Suppress ==
    /\ worker = Resting /\ queue # <<>>
    /\ Repeat(Head(queue))
    /\ Lose(Destinations, Head(queue), Tail(queue))
    /\ queue' = Tail(queue)
    /\ Quiet
    /\ UNCHANGED <<bird, locals, known, history, moves, faults, last, worker, heard>>

Served(d) == IF worker.left = {d} THEN Resting ELSE [worker EXCEPT !.left = @ \ {d}]

Deliver(d) ==
    /\ d \in worker.left
    /\ heard' = [heard EXCEPT ![d] = [s \in Subjects |->
           IF Told(<<worker.event>>, s) THEN Says(worker.event) ELSE @[s]]]
    /\ worker' = Served(d)
    /\ Quiet
    /\ UNCHANGED <<bird, locals, known, history, moves, faults, queue, last, lost>>

\* A destination that cannot be reached is logged and not tried again.
DeliverFail(d) ==
    /\ d \in worker.left
    /\ Fault
    /\ Lose({d}, worker.event, queue)
    /\ worker' = Served(d)
    /\ Quiet
    /\ UNCHANGED <<bird, locals, known, history, moves, queue, last, heard>>

TickAll ==
    /\ Tick
    /\ last' = [k \in DOMAIN last |-> IF last[k] < Cooldown THEN last[k] + 1 ELSE last[k]]
    /\ UNCHANGED <<queue, worker, heard, lost>>

RestartAll ==
    /\ Restart
    /\ queue' = <<>> /\ worker' = Resting
    /\ last' = [k \in DOMAIN last |-> Cooldown]
    /\ lost' = [d \in Destinations |-> [s \in Subjects |->
           lost[d][s] \/ Told(<<worker.event>> \o queue, s)]]
    /\ UNCHANGED heard

AlertsInit ==
    /\ PollerInit
    /\ queue = <<>> /\ worker = Resting
    /\ last = [k \in Throttled \X Peers |-> Cooldown]
    /\ heard = [d \in Destinations |-> [s \in Subjects |-> "nothing"]]
    /\ lost = [d \in Destinations |-> [s \in Subjects |-> FALSE]]

Work == Take \/ Suppress \/ \E d \in Destinations : Deliver(d) \/ DeliverFail(d)

AlertsNext ==
    \/ World /\ UNCHANGED notifierVars
    \/ PollAndNotify \/ Other \/ Work \/ TickAll \/ RestartAll

AlertsSpec == AlertsInit /\ [][AlertsNext]_alertVars

\* The poller's ticker keeps ticking and its reads have deadlines; the worker is
\* a goroutine, and its deliveries have deadlines too.
FairAlertsSpec == AlertsSpec /\ WF_alertVars(PollAndNotify) /\ WF_alertVars(Work)

-----------------------------------------------------------------------------
Hears(d, s) == (IF s = Bird THEN {"unreachable"} ELSE {"down", "up", "flap"}) \subseteq Wants[d]

\* Once the queue has drained, the last thing a destination heard of a session or
\* of BIRD is the last thing the timeline says, unless an event since was
\* throttled, dropped or could not be delivered: an up never overtakes its down.
LastWordIsTheTimelines ==
    (queue = <<>> /\ worker = Resting) =>
        \A d \in Destinations, s \in Subjects :
            (Hears(d, s) /\ ~lost[d][s]) => heard[d][s] = said[s]

Down(p) == alive /\ running[p] = "enabled" /\ model[p] = "enabled" /\ ~session[p]

\* A session that was up, fails and stays down is heard of by every destination
\* that wants to, or its event is lost on the way in one of the known manners.
OutageIsHeard ==
    \A p \in Peers, d \in Destinations : Hears(d, p) =>
        (pc = "idle" /\ p \in DOMAIN states /\ states[p].up /\ Down(p))
            ~> (heard[d][p] = "down" \/ lost[d][p] \/ muted[p] \/ ~Down(p))

\* The same of BIRD, the outage no session event can show.
BirdOutageIsHeard ==
    \A d \in Destinations : Hears(d, Bird) =>
        (reach = "up" /\ ~alive)
            ~> (heard[d][Bird] = "down" \/ lost[d][Bird] \/ muted[Bird] \/ alive)
=============================================================================
