---------------------------- MODULE PollerProofs ----------------------------
(***************************************************************************)
(* Proofs about the poller and the notifier behind it, for any number of   *)
(* peers, destinations, moves and faults.                                  *)
(*                                                                         *)
(* The poller's three properties rest on what its locals mean while it     *)
(* walks (Places): the snapshot being built has exactly the protocols      *)
(* already looked at, each as the listing says.  On top of it, one         *)
(* invariant for each property:                                            *)
(*   SwitchedIsOff     what the operator took down is off in the model     *)
(*                     for as long as he leaves it alone, so that the poll *)
(*                     finds it there;                                     *)
(*   TimelineFollows   the last event follows the snapshot being built     *)
(*                     where there is an entry, else the published one;    *)
(*   CountsAreRead     and likewise the counts.                            *)
(* The notifier's rests on LastWords: the last event on its way to a       *)
(* destination, in the queue or with the worker, says what the timeline    *)
(* says, and with none on its way the destination has heard it.            *)
(***************************************************************************)
EXTENDS Alerts, SequenceTheorems, TLAPS

Word == {"nothing", "up", "down"}
Wishes == {"absent", "disabled", "enabled"}
Walking == {"protocol", "detail"}
Entry == [up : BOOLEAN, age : Nat, hit : BOOLEAN, imported : Nat]
Snapshot(f) == DOMAIN f \subseteq Peers /\ f \in [DOMAIN f -> Entry]

PollerTypeOK ==
    /\ model \in [Peers -> Wishes] /\ running \in [Peers -> Wishes]
    /\ session \in [Peers -> BOOLEAN] /\ count \in [Peers -> Nat]
    /\ cause \in [Peers -> {"failed", "switched", "reworked"}]
    /\ pc \in {"idle", "disabled"} \cup Walking /\ reach \in {"unknown", "up", "down"}
    /\ DOMAIN protos \subseteq Peers /\ protos \in [DOMAIN protos -> BOOLEAN]
    /\ Snapshot(next) /\ Snapshot(states) /\ parked \subseteq Peers
    /\ said \in [Subjects -> Word] /\ muted \in [Subjects -> BOOLEAN]
    /\ fetched \in [Peers -> {None} \cup Nat]

\* What the poll's locals mean.
Places ==
    /\ pc \in Walking => todo \subseteq DOMAIN protos /\ DOMAIN next = DOMAIN protos \ todo
    /\ pc \in Walking => \A p \in DOMAIN next : next[p].up = protos[p]
    /\ pc = "detail" => peer \in DOMAIN next /\ next[peer].up /\ next[peer].imported = 0
    /\ pc # "detail" => peer = None
    /\ pc \notin Walking => next = <<>>
    /\ first => states = <<>>

SwitchedIsOff ==
    /\ \A p \in Peers : cause[p] = "switched" => running[p] = model[p] /\ model[p] # "enabled"
    /\ pc = "disabled" => \A p \in parked : model[p] = "disabled"
    /\ pc \in Walking => parked \subseteq off

Agrees(p, snap) ==
    (said[p] # "nothing" /\ ~muted[p]) => ((said[p] = "up") <=> snap[p].up)

TimelineFollows ==
    /\ \A p \in DOMAIN next : Agrees(p, next)
    /\ \A p \in DOMAIN states \ DOMAIN next : Agrees(p, states)
    /\ first => \A p \in Peers : said[p] = "nothing" \/ muted[p]
    /\ (said[Bird] # "nothing" /\ ~muted[Bird]) => said[Bird] = reach
    /\ reach = "unknown" => said[Bird] = "nothing" \/ muted[Bird]

CountKnown(p, snap) ==
    IF fetched[p] = None THEN p \in DOMAIN snap => snap[p].imported = 0
    ELSE p \in DOMAIN snap /\ snap[p].up /\ snap[p].imported = fetched[p]

CountsAreRead ==
    /\ \A p \in DOMAIN next \ {peer} : CountKnown(p, next)
    /\ \A p \in Peers \ (DOMAIN next \ {peer}) : CountKnown(p, states)

-----------------------------------------------------------------------------
(* Snapshots and events.                                                   *)

LEMMA EmptySnapshot == Snapshot(<<>>) /\ DOMAIN <<>> = {}
BY DEF Snapshot

LEMMA AddTyped ==
    ASSUME NEW p \in Peers, Snapshot(next), NEW e \in Entry, p \notin DOMAIN next
    PROVE  /\ Snapshot(Add(p, e))
           /\ DOMAIN Add(p, e) = DOMAIN next \cup {p}
           /\ Add(p, e)[p] = e
           /\ \A q \in DOMAIN next : q # p /\ Add(p, e)[q] = next[q]
BY DEF Snapshot, Add

LEMMA OlderTyped ==
    ASSUME NEW f, Snapshot(f)
    PROVE  /\ Snapshot(Older(f))
           /\ DOMAIN Older(f) = DOMAIN f
           /\ \A p \in DOMAIN f : /\ Older(f)[p].up = f[p].up
                                  /\ Older(f)[p].imported = f[p].imported
BY PollerAssumption DEF Snapshot, Older, Entry

LEMMA OlderEmpty == Older(<<>>) = <<>>
BY DEF Older

LEMMA SaysWord == ASSUME NEW e PROVE Says(e) \in Word
BY DEF Says, Word

LEMMA SubjectsAre == Peers \subseteq Subjects /\ Bird \in Subjects /\ Bird \notin Peers
BY PollerAssumption DEF Subjects

LEMMA EmitTyped ==
    ASSUME NEW events, Emit(events), said \in [Subjects -> Word]
    PROVE  said' \in [Subjects -> Word]
BY SaysWord DEF Emit

LEMMA EmitNothing ==
    ASSUME said \in [Subjects -> Word], Emit(<<>>)
    PROVE  out' = <<>> /\ said' = said
BY DEF Emit

LEMMA EmitOne ==
    ASSUME NEW e, Emit(<<e>>), said \in [Subjects -> Word], Says(e) # "nothing"
    PROVE  /\ out' = <<e>>
           /\ said' = [s \in Subjects |-> IF s = e.of THEN Says(e) ELSE said[s]]
BY DEF Emit

LEMMA EmitSilent ==
    ASSUME NEW events, Emit(events), said \in [Subjects -> Word],
           \A i \in DOMAIN events : Says(events[i]) = "nothing"
    PROVE  said' = said
BY DEF Emit

LEMMA CarriedTyped ==
    ASSUME Snapshot(next), Snapshot(states), peer \in DOMAIN next
    PROVE  /\ Snapshot(Carried) /\ DOMAIN Carried = DOMAIN next
           /\ \A q \in DOMAIN next : Carried[q].up = next[q].up
           /\ \A q \in DOMAIN next \ {peer} : Carried[q] = next[q]
           /\ Carried[peer].imported = IF peer \in DOMAIN states THEN states[peer].imported
                                       ELSE next[peer].imported
BY DEF Snapshot, Carried, Entry

\* What Detail makes of the snapshot.
LEMMA DetailTyped ==
    ASSUME Snapshot(next), peer \in DOMAIN next, count[peer] \in Nat, Detail
    PROVE  /\ Snapshot(next') /\ DOMAIN next' = DOMAIN next
           /\ \A q \in DOMAIN next : next'[q].up = next[q].up
           /\ \A q \in DOMAIN next \ {peer} : next'[q] = next[q]
           /\ next'[peer].imported = count[peer]
<1>1. PICK n \in Nat, hit \in BOOLEAN :
        n = count[peer] /\ next' = [next EXCEPT ![peer].imported = n, ![peer].hit = hit]
  BY PollerAssumption DEF Detail
<1>. QED  BY <1>1 DEF Snapshot, Entry

\* What Classify adds to the snapshot.
LEMMA ClassifyTyped ==
    ASSUME PollerTypeOK, NEW p \in Peers, Classify(p),
           p \notin DOMAIN next, todo \subseteq DOMAIN protos
    PROVE  /\ Snapshot(next') /\ DOMAIN next' = DOMAIN next \cup {p}
           /\ next'[p].up = protos[p] /\ next'[p].imported = 0
           /\ \A q \in DOMAIN next : q # p /\ next'[q] = next[q]
<1>1. PICK e \in Entry : next' = Add(p, e) /\ e.up = protos[p] /\ e.imported = 0
  <2>. DEFINE seen == p \in DOMAIN states
              e == [up |-> protos[p], age |-> IF seen /\ ~Moved(p) THEN states[p].age ELSE 0,
                    hit |-> seen /\ states[p].hit, imported |-> 0]
  <2>1. p \in DOMAIN protos /\ protos[p] \in BOOLEAN
    BY DEF Classify, PollerTypeOK
  <2>2. seen => states[p] \in Entry
    BY DEF PollerTypeOK, Snapshot
  <2>3. e \in Entry
    BY <2>1, <2>2 DEF Entry
  <2>4. next' = Add(p, e)
    BY DEF Classify
  <2>. QED  BY <2>3, <2>4
<1>2. /\ Snapshot(Add(p, e)) /\ DOMAIN Add(p, e) = DOMAIN next \cup {p}
      /\ Add(p, e)[p] = e /\ \A q \in DOMAIN next : q # p /\ Add(p, e)[q] = next[q]
  BY AddTyped DEF PollerTypeOK
<1>. QED  BY <1>1, <1>2

\* What it emits: at most the transition.
LEMMA ClassifySays ==
    ASSUME PollerTypeOK, NEW p \in Peers, Classify(p)
    PROVE  /\ said' = IF Reported(p)
                      THEN [s \in Subjects |-> IF s # p THEN said[s]
                                               ELSE IF protos[p] THEN "up" ELSE "down"]
                      ELSE said
           /\ ~Reported(p) => out' = <<>>
<1>1. CASE ~Reported(p)
  BY <1>1, EmitNothing DEF Classify, PollerTypeOK
<1>2. CASE Reported(p)
  <2>. DEFINE e == Transition(p, p \in DOMAIN states, states[p])
  <2>1. /\ Emit(<<e>>) /\ e.of = p
        /\ Says(e) = IF protos[p] THEN "up" ELSE "down"
    <3>1. Emit(<<e>>)
      BY <1>2 DEF Classify
    <3>2. e.of = p /\ e.kind \in (IF protos[p] THEN {"flap", "up"} ELSE {"down"})
      BY DEF Transition
    <3>. QED  BY <3>1, <3>2 DEF Says
  <2>. HIDE DEF e
  <2>. QED  BY <1>2, <2>1, EmitOne DEF PollerTypeOK
<1>. QED  BY <1>1, <1>2

\* What a listing says: nothing, or what BIRD has become.
LEMMA ListSays ==
    ASSUME PollerTypeOK, ListFail \/ List
    PROVE  /\ \/ /\ out' = <<>> /\ said' = said /\ (muted'[Bird] <=> muted[Bird])
                 /\ reach' = reach \/ reach = "unknown"
              \/ /\ said' = [s \in Subjects |-> IF s = Bird THEN reach' ELSE said[s]]
                 /\ out' = <<[kind |-> IF reach' = "up" THEN "reachable" ELSE "unreachable",
                              of |-> Bird]>>
           /\ \A p \in Peers : muted'[p] = muted[p]
           /\ reach' \in {"up", "down"}
<1>1. \A p \in Peers : muted'[p] = muted[p]
  BY SubjectsAre DEF ListFail, List, PollerTypeOK
<1>2. reach' = (IF ListFail THEN "down" ELSE "up")
  BY DEF ListFail, List
<1>3. ASSUME Emit(<<>>) PROVE out' = <<>> /\ said' = said /\ (muted'[Bird] <=> muted[Bird])
  <2>1. out' = <<>> /\ said' = said
    BY <1>3, EmitNothing DEF PollerTypeOK
  <2>2. muted' = [muted EXCEPT ![Bird] = @ /\ out' = <<>>]
    BY DEF ListFail, List
  <2>. QED  BY <2>1, <2>2, SubjectsAre DEF PollerTypeOK
<1>4. CASE ListFail
  <2>1. CASE reach # "up"
    BY <1>1, <1>2, <1>3, <1>4, <2>1 DEF ListFail, Outage, PollerTypeOK
  <2>2. CASE reach = "up"
    <3>. DEFINE e == [kind |-> "unreachable", of |-> Bird]
    <3>1. Emit(<<e>>) /\ Says(e) = "down"
      BY <1>4, <2>2 DEF ListFail, Outage, Says
    <3>2. /\ out' = <<e>>
          /\ said' = [s \in Subjects |-> IF s = e.of THEN Says(e) ELSE said[s]]
      BY <3>1, EmitOne DEF PollerTypeOK
    <3>. QED  BY <1>1, <1>2, <1>4, <3>1, <3>2
  <2>. QED  BY <2>1, <2>2
<1>5. CASE List /\ ~ListFail
  <2>1. CASE reach # "down"
    BY <1>1, <1>2, <1>3, <1>5, <2>1 DEF List, PollerTypeOK
  <2>2. CASE reach = "down"
    <3>. DEFINE e == [kind |-> "reachable", of |-> Bird]
    <3>1. Emit(<<e>>) /\ Says(e) = "up"
      BY <1>5, <2>2 DEF List, Says
    <3>2. /\ out' = <<e>>
          /\ said' = [s \in Subjects |-> IF s = e.of THEN Says(e) ELSE said[s]]
      BY <3>1, EmitOne DEF PollerTypeOK
    <3>. QED  BY <1>1, <1>2, <1>5, <3>1, <3>2
  <2>. QED  BY <2>1, <2>2
<1>. QED  BY <1>4, <1>5

LEMMA PairConcat == ASSUME NEW a, NEW b PROVE <<a>> \o <<b>> = <<a, b>>
<1>. DEFINE u == <<a>> \o <<b>>
<1>1. /\ <<a>> \in Seq({a, b}) /\ Len(<<a>>) = 1 /\ <<b>> \in Seq({a, b}) /\ Len(<<b>>) = 1
      /\ <<a, b>> \in Seq({a, b}) /\ Len(<<a, b>>) = 2
  OBVIOUS
<1>2. u \in Seq({a, b}) /\ Len(u) = 2 /\ \A i \in 1..2 : u[i] = <<a, b>>[i]
  BY <1>1
<1>3. \A t \in Seq({a, b}) : Len(t) = 2 /\ (\A i \in 1..2 : u[i] = t[i]) => u = t
  BY ONLY <1>2, SeqEqual
<1>. QED  BY <1>1, <1>2, <1>3

LEMMA OptionalConcat ==
    ASSUME NEW a, NEW b, NEW s \in {<<>>, <<a>>}, NEW t \in {<<>>, <<b>>}
    PROVE  s \o t = IF s = <<>> THEN t ELSE IF t = <<>> THEN s ELSE <<a, b>>
<1>1. <<>> \o <<>> = <<>> /\ <<>> \o <<b>> = <<b>> /\ <<a>> \o <<>> = <<a>>
  OBVIOUS
<1>. QED  BY <1>1, PairConcat

Drop == /\ ~first /\ peer \in DOMAIN states /\ states[peer].up
        /\ states[peer].imported >= Baseline /\ 2 * count[peer] <= states[peer].imported

LEMMA DetailSays ==
    ASSUME PollerTypeOK, Detail
    PROVE  /\ said' = said
           /\ \A i \in DOMAIN out' : out'[i].kind \in {"limit", "drop"}
           /\ out' \in Seq([kind : {"limit", "drop"}, of : {peer}])
           /\ (\E i \in DOMAIN out' : out'[i] = [kind |-> "drop", of |-> peer]) <=> Drop
<1>. DEFINE limit == [kind |-> "limit", of |-> peer]
            drop  == [kind |-> "drop", of |-> peer]
            hit   == (Limit > 0 /\ count[peer] >= Limit) /\ ~next[peer].hit
            one == IF hit THEN <<limit>> ELSE <<>>
            two == IF Drop THEN <<drop>> ELSE <<>>
<1>1. Emit(one \o two)
  BY Zenon DEF Detail, Drop
<1>2. PICK events : /\ Emit(events)
                    /\ events = <<>> \/ events = <<limit>>
                       \/ events = <<drop>> \/ events = <<limit, drop>>
                    /\ (events = <<drop>> \/ events = <<limit, drop>>) <=> Drop
  <2>1. one \in {<<>>, <<limit>>} /\ two \in {<<>>, <<drop>>} /\ (two = <<drop>> <=> Drop)
    OBVIOUS
  <2>2. one \o two = IF one = <<>> THEN two ELSE IF two = <<>> THEN one ELSE <<limit, drop>>
    BY <2>1, OptionalConcat
  <2>3. limit # drop
    OBVIOUS
  <2>. HIDE DEF limit, drop, one, two
  <2>4. /\ <<limit>> # <<drop>> /\ <<limit, drop>> # <<limit>>
        /\ <<>> # <<limit>> /\ <<>> # <<drop>> /\ <<>> # <<limit, drop>>
    BY <2>3
  <2>5. CASE Drop
    BY <1>1, <2>1, <2>2, <2>4, <2>5
  <2>6. CASE ~Drop
    BY <1>1, <2>1, <2>2, <2>4, <2>6
  <2>. QED  BY <2>5, <2>6
<1>3. \A i \in DOMAIN events : events[i] \in {limit, drop}
  <2>. HIDE DEF limit, drop
  <2>. QED  BY <1>2
<1>4. said' = said
  <2>1. Says(limit) = "nothing" /\ Says(drop) = "nothing"
    BY DEF Says
  <2>. HIDE DEF limit, drop
  <2>. QED  BY <1>2, <1>3, <2>1, EmitSilent DEF PollerTypeOK
<1>5. out' = events
  BY <1>2 DEF Emit
<1>6. limit # drop
  OBVIOUS
<1>7. (\E i \in DOMAIN events : events[i] = drop) <=> Drop
  BY <1>2, <1>6
<1>8. events \in Seq([kind : {"limit", "drop"}, of : {peer}])
  <2>. DEFINE R == [kind : {"limit", "drop"}, of : {peer}]
  <2>1. limit \in R /\ drop \in R
    OBVIOUS
  <2>. HIDE DEF limit, drop, R
  <2>3. /\ <<>> \in Seq(R) /\ <<limit>> \in Seq(R)
        /\ <<drop>> \in Seq(R) /\ <<limit, drop>> \in Seq(R)
    BY <2>1
  <2>2. events \in Seq(R)
    BY <1>2, <2>3
  <2>. QED  BY <2>2 DEF R
<1>9. \A i \in DOMAIN events : events[i].kind \in {"limit", "drop"}
  BY <1>3
<1>10. (\E i \in DOMAIN out' : out'[i] = [kind |-> "drop", of |-> peer]) <=> Drop
  BY <1>5, <1>7
<1>11. out' \in Seq([kind : {"limit", "drop"}, of : {peer}])
  BY <1>5, <1>8
<1>12. \A i \in DOMAIN out' : out'[i].kind \in {"limit", "drop"}
  BY <1>5, <1>9
<1>. QED  BY <1>4, <1>10, <1>11, <1>12

-----------------------------------------------------------------------------
LEMMA TypeInit == PollerInit => PollerTypeOK
<1> SUFFICES ASSUME PollerInit PROVE PollerTypeOK
  OBVIOUS
<1>. USE DEF PollerInit
<1>1. session \in [Peers -> BOOLEAN] /\ count \in [Peers -> Nat]
  <2>1. session \in [Peers -> BOOLEAN] /\ count \in [Peers -> Counts \cup {0}]
    OBVIOUS
  <2>2. Counts \cup {0} \subseteq Nat
    BY PollerAssumption
  <2>. QED  BY <2>1, <2>2
<1>2. model \in [Peers -> Wishes] /\ running \in [Peers -> Wishes]
  BY DEF Wishes
<1>3. said \in [Subjects -> Word] /\ muted \in [Subjects -> BOOLEAN]
  BY DEF Word
<1>. QED  BY <1>1, <1>2, <1>3, EmptySnapshot DEF PollerTypeOK

LEMMA TypeStep ==
    PollerTypeOK /\ Places /\ [PollerNext]_pollerVars => PollerTypeOK'
<1> SUFFICES ASSUME PollerTypeOK, Places, [PollerNext]_pollerVars PROVE PollerTypeOK'
  OBVIOUS
<1>. USE DEF PollerTypeOK, Wishes, Walking, Word
<1>1. ASSUME NEW p \in Peers, Establish(p) \/ Fail(p) \/ Learn(p) PROVE PollerTypeOK'
  <2>1. PICK n \in Nat : count' = [count EXCEPT ![p] = n]
    BY <1>1, PollerAssumption DEF Establish, Fail, Learn
  <2>2. \/ session' = session
        \/ \E b \in BOOLEAN : session' = [session EXCEPT ![p] = b]
    BY <1>1 DEF Establish, Fail, Learn
  <2>3. cause' = cause \/ cause' = [cause EXCEPT ![p] = "failed"]
    BY <1>1 DEF Establish, Fail, Learn
  <2>. QED  BY <1>1, <2>1, <2>2, <2>3
            DEF Establish, Fail, Learn, Outside, locals, known, history, Snapshot
<1>2. ASSUME NEW p \in Peers, EditPeer(p) PROVE PollerTypeOK'
  BY <1>2 DEF EditPeer, Move, Quiet, locals, known, Snapshot
<1>3. ASSUME ApplyModel \/ BirdStops \/ BirdStarts PROVE PollerTypeOK'
  <2>1. session' \in [Peers -> BOOLEAN]
    <3>1. CASE ApplyModel
      <4>1. [p \in Peers |-> session[p] /\ model[p] = "enabled"] \in [Peers -> BOOLEAN]
        OBVIOUS
      <4>2. session' = [p \in Peers |-> session[p] /\ model[p] = "enabled"]
        BY <3>1 DEF ApplyModel
      <4>. QED  BY <4>1, <4>2
    <3>2. CASE BirdStops
      BY <3>2 DEF BirdStops
    <3>3. CASE BirdStarts
      BY <3>3 DEF BirdStarts
    <3>. QED  BY <1>3, <3>1, <3>2, <3>3
  <2>5. count' \in [Peers -> Nat]
    BY <1>3 DEF ApplyModel, BirdStops, BirdStarts
  <2>2. cause' \in [Peers -> {"failed", "switched", "reworked"}]
    BY <1>3 DEF ApplyModel, BirdStops, BirdStarts
  <2>3. model' = model /\ (running' = running \/ running' = model)
    BY <1>3 DEF ApplyModel, BirdStops, BirdStarts
  <2>4. Outside
    BY <1>3 DEF ApplyModel, BirdStops, BirdStarts
  <2>. QED  BY <2>1, <2>5, <2>2, <2>3, <2>4 DEF Outside, locals, known, history, Snapshot
<1>4. CASE ListFail
  BY <1>4, EmitTyped, SubjectsAre DEF ListFail, Fault, bird, locals, Snapshot
<1>5. CASE List
  BY <1>5, EmitTyped, SubjectsAre DEF List, bird, Snapshot
<1>6. CASE ReadDisabled
  BY <1>6, EmptySnapshot DEF ReadDisabled, Fault, Quiet, bird, known, Snapshot
<1>7. ASSUME NEW p \in Peers, Classify(p) PROVE PollerTypeOK'
  <2>1. p \notin DOMAIN next /\ todo \subseteq DOMAIN protos
    BY <1>7 DEF Classify, Places
  <2>2. said' \in [Subjects -> Word]
    BY <1>7, EmitTyped DEF Classify
  <2>3. Snapshot(next')
    BY <1>7, <2>1, ClassifyTyped
  <2>4. muted' \in [Subjects -> BOOLEAN]
    <3>1. CASE Moved(p)
      <4>1. muted' = [muted EXCEPT ![p] = (p \in off)] /\ (p \in off) \in BOOLEAN
        BY <1>7, <3>1 DEF Classify
      <4>. QED  BY <4>1
    <3>2. CASE ~Moved(p)
      BY <1>7, <3>2 DEF Classify
    <3>. QED  BY <3>1, <3>2
  <2>. QED  BY <1>7, <2>2, <2>3, <2>4, PollerAssumption DEF Classify, bird, known, Snapshot
<1>8. CASE Detail
  <2>1. peer \in DOMAIN next /\ peer \in Peers /\ count[peer] \in Nat
    BY <1>8 DEF Detail, Places, Snapshot
  <2>2. Snapshot(next')
    BY <1>8, <2>1, DetailTyped
  <2>3. said' \in [Subjects -> Word]
    BY <1>8, EmitTyped DEF Detail
  <2>. QED  BY <1>8, <2>1, <2>2, <2>3 DEF Detail, bird, known, Snapshot
<1>9. CASE DetailFail
  <2>1. Snapshot(Carried)
    BY <1>9, CarriedTyped DEF DetailFail, Places
  <2>. QED  BY <1>9, <2>1 DEF DetailFail, Fault, Quiet, bird, known, history, Snapshot
<1>10. CASE Publish
  BY <1>10, EmptySnapshot, PollerAssumption DEF Publish, Return, Quiet, bird, Snapshot
<1>11. CASE Tick
  BY <1>11, OlderTyped DEF Tick, Quiet, bird, history
<1>12. CASE Restart
  BY <1>12, EmptySnapshot DEF Restart, Fault, Return, Quiet, bird
<1>13. CASE UNCHANGED pollerVars
  BY <1>13 DEF pollerVars, bird, locals, known, history, Snapshot
<1>. QED
  BY <1>1, <1>2, <1>3, <1>4, <1>5, <1>6, <1>7, <1>8, <1>9, <1>10, <1>11, <1>12, <1>13
     DEF PollerNext, World, Poll

\* The world changes neither the poll's locals nor what it knows or has said.
LEMMA WorldLeaves == World => UNCHANGED <<locals, known, said, muted, fetched>>
BY DEF World, Establish, Fail, Learn, EditPeer, ApplyModel, BirdStops, BirdStarts, Outside, history

LEMMA PlacesInit == PollerInit => Places
BY EmptySnapshot DEF PollerInit, Places, Walking

LEMMA PlacesStep == PollerTypeOK /\ Places /\ [PollerNext]_pollerVars => Places'
<1> SUFFICES ASSUME PollerTypeOK, Places, [PollerNext]_pollerVars PROVE Places'
  OBVIOUS
<1>. USE DEF Places, Walking
<1>1. CASE World
  BY <1>1, WorldLeaves DEF locals, known
<1>2. CASE ListFail \/ List
  BY <1>2 DEF ListFail, List, locals
<1>3. CASE ReadDisabled
  BY <1>3, EmptySnapshot DEF ReadDisabled, known
<1>4. ASSUME NEW p \in Peers, Classify(p) PROVE Places'
  <2>1. p \notin DOMAIN next /\ todo \subseteq DOMAIN protos /\ p \in todo
    BY <1>4 DEF Classify
  <2>2. /\ DOMAIN next' = DOMAIN next \cup {p}
        /\ next'[p].up = protos[p] /\ next'[p].imported = 0
        /\ \A q \in DOMAIN next : q # p /\ next'[q] = next[q]
    BY <1>4, <2>1, ClassifyTyped
  <2>3. /\ protos' = protos /\ states' = states /\ first' = first
        /\ todo' = todo \ {p} /\ pc' \in Walking
        /\ pc' = "detail" => peer' = p /\ protos[p]
        /\ pc' # "detail" => peer' = None
    BY <1>4 DEF Classify, known
  <2>4. DOMAIN next' = DOMAIN protos' \ todo'
    BY <1>4, <2>1, <2>2, <2>3 DEF Classify
  <2>5. \A q \in DOMAIN next' : next'[q].up = protos'[q]
    BY <1>4, <2>1, <2>2, <2>3 DEF Classify
  <2>. QED  BY <2>1, <2>2, <2>3, <2>4, <2>5
<1>5. CASE Detail
  <2>1. peer \in DOMAIN next /\ peer \in Peers /\ count[peer] \in Nat
    BY <1>5 DEF Detail, PollerTypeOK, Snapshot
  <2>2. DOMAIN next' = DOMAIN next /\ \A q \in DOMAIN next : next'[q].up = next[q].up
    BY <1>5, <2>1, DetailTyped DEF PollerTypeOK
  <2>. QED  BY <1>5, <2>2 DEF Detail, known
<1>6. CASE DetailFail
  <2>1. DOMAIN next' = DOMAIN next /\ \A q \in DOMAIN next : next'[q].up = next[q].up
    BY <1>6, CarriedTyped DEF DetailFail, PollerTypeOK
  <2>. QED  BY <1>6, <2>1 DEF DetailFail, known
<1>7. CASE Publish \/ Restart
  BY <1>7 DEF Publish, Restart, Return
<1>8. CASE Tick
  <2>1. /\ DOMAIN next' = DOMAIN next
        /\ \A p \in DOMAIN next : next'[p].up = next[p].up /\ next'[p].imported = next[p].imported
    BY <1>8, OlderTyped DEF Tick, PollerTypeOK
  <2>. QED  BY <1>8, <2>1, OlderEmpty DEF Tick
<1>9. CASE UNCHANGED pollerVars
  BY <1>9 DEF pollerVars, locals, known
<1>. QED  BY <1>1, <1>2, <1>3, <1>4, <1>5, <1>6, <1>7, <1>8, <1>9 DEF PollerNext, Poll

-----------------------------------------------------------------------------
LEMMA SwitchedStep ==
    PollerTypeOK /\ Places /\ SwitchedIsOff /\ [PollerNext]_pollerVars => SwitchedIsOff'
<1> SUFFICES ASSUME PollerTypeOK, Places, SwitchedIsOff, [PollerNext]_pollerVars
             PROVE SwitchedIsOff'
  OBVIOUS
<1>. USE DEF SwitchedIsOff, Walking
<1>1. ASSUME NEW p \in Peers, Establish(p) \/ Fail(p) \/ Learn(p) PROVE SwitchedIsOff'
  BY <1>1 DEF Establish, Fail, Learn, Outside, locals, history, PollerTypeOK
<1>2. ASSUME NEW p \in Peers, EditPeer(p) PROVE SwitchedIsOff'
  <2>1. /\ cause' = [cause EXCEPT ![p] = IF @ = "switched" THEN "reworked" ELSE @]
        /\ parked' = parked \ {p} /\ running' = running /\ pc' = pc /\ off' = off
        /\ \E m : model' = [model EXCEPT ![p] = m]
    BY <1>2 DEF EditPeer, locals
  <2>2. \A q \in Peers \ {p} : cause'[q] = cause[q] /\ model'[q] = model[q]
    BY <2>1 DEF PollerTypeOK
  <2>3. cause'[p] # "switched"
    BY <2>1 DEF PollerTypeOK
  <2>. QED  BY <2>1, <2>2, <2>3 DEF PollerTypeOK
<1>3. CASE ApplyModel
  BY <1>3 DEF ApplyModel, Outside, locals, history, PollerTypeOK
<1>4. CASE BirdStops \/ BirdStarts
  BY <1>4 DEF BirdStops, BirdStarts, Outside, locals, history, PollerTypeOK
<1>5. CASE ListFail
  BY <1>5 DEF ListFail, bird, locals
<1>6. CASE List
  <2>1. \A p \in parked' : p \in Peers /\ running[p] # "absent" /\ cause[p] = "switched"
    BY <1>6 DEF List
  <2>. QED  BY <1>6, <2>1 DEF List, bird, PollerTypeOK, Wishes
<1>7. CASE ReadDisabled
  <2>1. parked' \subseteq off'
    BY <1>7 DEF ReadDisabled, SwitchedOff, PollerTypeOK
  <2>. QED  BY <1>7, <2>1 DEF ReadDisabled, bird
<1>8. ASSUME NEW p \in Peers, Classify(p) PROVE SwitchedIsOff'
  BY <1>8 DEF Classify, bird
<1>9. CASE Detail \/ DetailFail
  BY <1>9 DEF Detail, DetailFail, bird, history
<1>10. CASE Publish \/ Restart
  BY <1>10 DEF Publish, Restart, Return, bird
<1>11. CASE Tick \/ UNCHANGED pollerVars
  BY <1>11 DEF Tick, pollerVars, bird, locals, history
<1>. QED
  BY <1>1, <1>2, <1>3, <1>4, <1>5, <1>6, <1>7, <1>8, <1>9, <1>10, <1>11
     DEF PollerNext, World, Poll

-----------------------------------------------------------------------------
LEMMA TimelineStep ==
    PollerTypeOK /\ Places /\ TimelineFollows /\ [PollerNext]_pollerVars => TimelineFollows'
<1> SUFFICES ASSUME PollerTypeOK, Places, TimelineFollows, [PollerNext]_pollerVars
             PROVE TimelineFollows'
  OBVIOUS
<1>. USE DEF TimelineFollows, Agrees
<1>1. CASE World
  BY <1>1, WorldLeaves DEF locals, known
<1>2. CASE ListFail \/ List
  <2>1. next' = next /\ states' = states /\ first' = first
    BY <1>2 DEF ListFail, List, locals
  <2>2. \A p \in Peers : said'[p] = said[p] /\ muted'[p] = muted[p]
    BY <1>2, ListSays, SubjectsAre
  <2>3. said'[Bird] # "nothing" /\ ~muted'[Bird] => said'[Bird] = reach'
    BY <1>2, ListSays, SubjectsAre
  <2>4. reach' # "unknown"
    BY <1>2, ListSays
  <2>. QED  BY <2>1, <2>2, <2>3, <2>4 DEF PollerTypeOK, Snapshot
<1>4. CASE ReadDisabled
  BY <1>4, EmptySnapshot DEF ReadDisabled, known, Places, Walking
<1>5. ASSUME NEW p \in Peers, Classify(p) PROVE TimelineFollows'
  <2>1. p \notin DOMAIN next /\ todo \subseteq DOMAIN protos /\ p \in todo
    BY <1>5 DEF Classify, Places, Walking
  <2>2. /\ DOMAIN next' = DOMAIN next \cup {p} /\ next'[p].up = protos[p]
        /\ \A q \in DOMAIN next : q # p /\ next'[q] = next[q]
    BY <1>5, <2>1, ClassifyTyped
  <2>3. \A s \in Subjects \ {p} : said'[s] = said[s] /\ muted'[s] = muted[s]
    <3>1. \A s \in Subjects \ {p} : said'[s] = said[s]
      BY <1>5, ClassifySays
    <3>2. \A s \in Subjects \ {p} : muted'[s] = muted[s]
      BY <1>5 DEF Classify, PollerTypeOK
    <3>. QED  BY <3>1, <3>2
  <2>4. UNCHANGED known
    BY <1>5 DEF Classify
  <2>5. CASE ~Moved(p)
    <3>1. said' = said
      BY <1>5, <2>5, ClassifySays DEF Reported
    <3>2. muted'[p] = muted[p]
      BY <1>5, <2>5, SubjectsAre DEF Classify, PollerTypeOK
    <3>3. first \/ (p \in DOMAIN states /\ states[p].up = protos[p])
      BY <2>5 DEF Moved
    <3>4. Agrees(p, next)'
      BY <3>1, <3>2, <3>3, <2>1, <2>2
    <3>. QED  BY <2>2, <2>3, <2>4, <3>1, <3>2, <3>4, SubjectsAre DEF known, PollerTypeOK, Snapshot
  <2>6. CASE Moved(p)
    <3>1. muted'[p] = (p \in off) /\ ~first
      BY <1>5, <2>6, SubjectsAre DEF Classify, PollerTypeOK, Moved
    <3>2. p \notin off => (said'[p] = "up" <=> protos[p])
      BY <1>5, <2>6, ClassifySays, SubjectsAre DEF Reported
    <3>3. Agrees(p, next)'
      BY <2>2, <3>1, <3>2
    <3>. QED  BY <2>2, <2>3, <2>4, <3>1, <3>3, SubjectsAre DEF known, PollerTypeOK, Snapshot
  <2>. QED  BY <2>5, <2>6
<1>6. CASE Detail
  <2>1. peer \in DOMAIN next /\ peer \in Peers /\ count[peer] \in Nat
    BY <1>6 DEF Detail, PollerTypeOK, Snapshot, Places
  <2>2. DOMAIN next' = DOMAIN next /\ \A q \in DOMAIN next : next'[q].up = next[q].up
    BY <1>6, <2>1, DetailTyped DEF PollerTypeOK
  <2>3. said' = said
    BY <1>6, DetailSays
  <2>. QED  BY <1>6, <2>2, <2>3 DEF Detail, known
<1>7. CASE DetailFail
  <2>1. DOMAIN next' = DOMAIN next /\ \A q \in DOMAIN next : next'[q].up = next[q].up
    BY <1>7, CarriedTyped DEF DetailFail, PollerTypeOK, Places
  <2>. QED  BY <1>7, <2>1 DEF DetailFail, known, history
<1>8. CASE Publish
  BY <1>8, EmptySnapshot DEF Publish, Return
<1>9. CASE Restart
  BY <1>9, EmptySnapshot, SubjectsAre DEF Restart, Return
<1>10. CASE Tick
  BY <1>10, OlderTyped DEF Tick, history, PollerTypeOK
<1>11. CASE UNCHANGED pollerVars
  BY <1>11 DEF pollerVars, locals, known, history
<1>. QED  BY <1>1, <1>2, <1>4, <1>5, <1>6, <1>7, <1>8, <1>9, <1>10, <1>11
          DEF PollerNext, Poll

-----------------------------------------------------------------------------
LEMMA CountsStep ==
    PollerTypeOK /\ Places /\ CountsAreRead /\ [PollerNext]_pollerVars => CountsAreRead'
<1> SUFFICES ASSUME PollerTypeOK, Places, CountsAreRead, [PollerNext]_pollerVars
             PROVE CountsAreRead'
  OBVIOUS
<1>. USE DEF CountsAreRead, CountKnown
<1>1. CASE World
  BY <1>1, WorldLeaves DEF locals, known
<1>2. CASE ListFail \/ List
  BY <1>2 DEF ListFail, List, locals
<1>3. CASE ReadDisabled
  BY <1>3 DEF ReadDisabled, known, Places, Walking
<1>4. ASSUME NEW p \in Peers, Classify(p) PROVE CountsAreRead'
  <2>1. /\ p \notin DOMAIN next /\ todo \subseteq DOMAIN protos /\ p \in todo /\ peer = None
        /\ None \notin Peers
    BY <1>4, PollerAssumption DEF Classify, Places, Walking
  <2>2. /\ DOMAIN next' = DOMAIN next \cup {p} /\ next'[p].imported = 0
        /\ \A q \in DOMAIN next : q # p /\ next'[q] = next[q]
    BY <1>4, <2>1, ClassifyTyped
  <2>3. UNCHANGED known /\ peer' = IF protos[p] THEN p ELSE None
    BY <1>4 DEF Classify
  <2>4. /\ \A q \in Peers \ {p} : fetched'[q] = fetched[q]
        /\ fetched'[p] = IF protos[p] THEN fetched[p] ELSE None
    BY <1>4 DEF Classify, PollerTypeOK
  <2>. QED  BY <2>1, <2>2, <2>3, <2>4 DEF known, PollerTypeOK, Snapshot
<1>5. CASE Detail
  <2>1. peer \in DOMAIN next /\ peer \in Peers /\ count[peer] \in Nat /\ next[peer].up
    BY <1>5 DEF Detail, PollerTypeOK, Snapshot, Places
  <2>2. /\ DOMAIN next' = DOMAIN next /\ \A q \in DOMAIN next : next'[q].up = next[q].up
        /\ \A q \in DOMAIN next \ {peer} : next'[q] = next[q]
        /\ next'[peer].imported = count[peer]
    BY <1>5, <2>1, DetailTyped DEF PollerTypeOK
  <2>3. /\ \A q \in Peers \ {peer} : fetched'[q] = fetched[q]
        /\ fetched'[peer] = count[peer] /\ fetched'[peer] # None
    BY <1>5, <2>1, PollerAssumption DEF Detail, PollerTypeOK
  <2>4. peer' = None /\ None \notin Peers /\ UNCHANGED known
    BY <1>5, PollerAssumption DEF Detail
  <2>. QED  BY <2>1, <2>2, <2>3, <2>4 DEF known, PollerTypeOK, Snapshot
<1>6. CASE DetailFail
  <2>1. peer \in DOMAIN next /\ next[peer].up /\ next[peer].imported = 0
    BY <1>6 DEF DetailFail, Places
  <2>2. /\ DOMAIN next' = DOMAIN next /\ \A q \in DOMAIN next : next'[q].up = next[q].up
        /\ \A q \in DOMAIN next \ {peer} : next'[q] = next[q]
        /\ next'[peer].imported = IF peer \in DOMAIN states THEN states[peer].imported ELSE 0
    BY <1>6, <2>1, CarriedTyped DEF DetailFail, PollerTypeOK
  <2>3. peer' = None /\ None \notin Peers /\ UNCHANGED known /\ fetched' = fetched
    BY <1>6, PollerAssumption DEF DetailFail, history
  <2>. QED  BY <2>1, <2>2, <2>3 DEF known, PollerTypeOK, Snapshot
<1>7. CASE Publish
  <2>1. /\ peer = None /\ peer' = None /\ None \notin Peers /\ next' = <<>> /\ states' = next
        /\ \A p \in Peers : fetched'[p] = IF p \in DOMAIN next THEN fetched[p] ELSE None
    BY <1>7, PollerAssumption DEF Publish, Return, Places
  <2>. QED  BY <2>1, EmptySnapshot DEF PollerTypeOK, Snapshot
<1>8. CASE Restart
  BY <1>8, EmptySnapshot DEF Restart, Return
<1>9. CASE Tick
  <2>1. /\ DOMAIN next' = DOMAIN next /\ DOMAIN states' = DOMAIN states
        /\ \A p \in DOMAIN next : next'[p].up = next[p].up /\ next'[p].imported = next[p].imported
        /\ \A p \in DOMAIN states :
              states'[p].up = states[p].up /\ states'[p].imported = states[p].imported
    BY <1>9, OlderTyped DEF Tick, PollerTypeOK
  <2>. QED  BY <1>9, <2>1 DEF Tick, history
<1>10. CASE UNCHANGED pollerVars
  BY <1>10 DEF pollerVars, locals, known, history
<1>. QED  BY <1>1, <1>2, <1>3, <1>4, <1>5, <1>6, <1>7, <1>8, <1>9, <1>10 DEF PollerNext, Poll

-----------------------------------------------------------------------------
(* What one step may emit.                                                 *)

\* Only Classify says of a session that it is down, and of no peer that is off.
LEMMA NoAlarmStep ==
    ASSUME PollerTypeOK, SwitchedIsOff, PollerNext, NEW p \in parked', NEW i \in DOMAIN out'
    PROVE  out'[i] # [kind |-> "down", of |-> p]
<1>. DEFINE down == [kind |-> "down", of |-> p]
<1>1. CASE out' = <<>>
  BY <1>1, EmptySnapshot
<1>2. CASE ListFail \/ List
  <2>1. \A j \in DOMAIN out' : out'[j].kind # "down"
    BY <1>2, ListSays
  <2>. QED  BY <2>1
<1>3. CASE Detail
  <2>1. \A j \in DOMAIN out' : out'[j].kind # "down"
    BY <1>3, DetailSays
  <2>. QED  BY <2>1
<1>4. ASSUME NEW q \in Peers, Classify(q) PROVE out'[i] # down
  <2>1. p \in off
    BY <1>4 DEF Classify, SwitchedIsOff, Walking
  <2>2. CASE ~Reported(q)
    BY <1>1, <1>4, <2>2, ClassifySays
  <2>3. CASE Reported(q)
    <3>1. out' = <<Transition(q, q \in DOMAIN states, states[q])>>
      BY <1>4, <2>3 DEF Classify, Emit
    <3>2. out'[i].of = q /\ q # p
      BY <2>1, <2>3, <3>1 DEF Transition, Reported
    <3>. QED  BY <3>2
  <2>. QED  BY <2>2, <2>3
<1>5. CASE World \/ ReadDisabled \/ DetailFail \/ Publish \/ Tick \/ Restart
  BY <1>1, <1>5 DEF World, Establish, Fail, Learn, EditPeer, ApplyModel, BirdStops, BirdStarts,
     Outside, ReadDisabled, DetailFail, Publish, Tick, Restart, Quiet
<1>. QED  BY <1>2, <1>3, <1>4, <1>5 DEF PollerNext, Poll

LEMMA DropStep ==
    ASSUME PollerTypeOK, Places, CountsAreRead, PollerNext, pc = "detail", pc' = "protocol"
    PROVE  (\E i \in DOMAIN out' : out'[i] = [kind |-> "drop", of |-> peer])
              <=> fetched[peer] # None /\ fetched[peer] >= Baseline
                  /\ 2 * fetched'[peer] <= fetched[peer]
<1>1. /\ peer \in DOMAIN next /\ peer \in Peers
      /\ CountKnown(peer, states) /\ fetched[peer] \in {None} \cup Nat
  BY DEF Places, PollerTypeOK, Snapshot, CountsAreRead, CountKnown
<1>2. Baseline \in Nat \ {0} /\ count[peer] \in Nat /\ None \notin Nat
  BY <1>1, PollerAssumption DEF PollerTypeOK
<1>3. CASE Detail
  <2>1. fetched'[peer] = count[peer]
    BY <1>1, <1>3 DEF Detail, PollerTypeOK
  <2>2. Drop <=> /\ fetched[peer] # None /\ fetched[peer] >= Baseline
                 /\ 2 * fetched'[peer] <= fetched[peer]
    <3>1. first => peer \notin DOMAIN states
      BY EmptySnapshot DEF Places
    <3>2. CASE fetched[peer] = None
      BY <1>1, <1>2, <2>1, <3>1, <3>2 DEF Drop, CountKnown
    <3>3. CASE fetched[peer] # None
      BY <1>1, <1>2, <2>1, <3>1, <3>3 DEF Drop, CountKnown
    <3>. QED  BY <3>2, <3>3
  <2>. QED  BY <1>3, <2>2, DetailSays
<1>4. CASE DetailFail
  <2>1. out' = <<>> /\ fetched' = fetched
    BY <1>4 DEF DetailFail, Quiet, history
  <2>2. ~(/\ fetched[peer] # None /\ fetched[peer] >= Baseline
          /\ 2 * fetched'[peer] <= fetched[peer])
    BY <1>1, <1>2, <2>1
  <2>. QED  BY <2>1, <2>2, EmptySnapshot
<1>5. CASE World \/ Tick
  BY <1>5, WorldLeaves DEF locals, Tick
<1>6. CASE Restart
  BY <1>6 DEF Restart, Return
<1>7. CASE ListFail \/ List \/ ReadDisabled \/ Publish \/ \E p \in Peers : Classify(p)
  BY <1>7 DEF ListFail, List, ReadDisabled, Publish, Classify
<1>. QED  BY <1>3, <1>4, <1>5, <1>6, <1>7 DEF PollerNext, Poll

-----------------------------------------------------------------------------
PollerInv == PollerTypeOK /\ Places /\ SwitchedIsOff /\ TimelineFollows /\ CountsAreRead

LEMMA PollerInvInit == PollerInit => PollerInv
<1> SUFFICES ASSUME PollerInit PROVE PollerInv
  OBVIOUS
<1>1. PollerTypeOK /\ Places
  BY TypeInit, PlacesInit
<1>2. SwitchedIsOff
  BY DEF PollerInit, SwitchedIsOff, Walking
<1>3. TimelineFollows /\ CountsAreRead
  BY EmptySnapshot, SubjectsAre
     DEF PollerInit, TimelineFollows, Agrees, CountsAreRead, CountKnown
<1>. QED  BY <1>1, <1>2, <1>3 DEF PollerInv

LEMMA PollerInvStep == PollerInv /\ [PollerNext]_pollerVars => PollerInv'
BY TypeStep, PlacesStep, SwitchedStep, TimelineStep, CountsStep DEF PollerInv

LEMMA PollerInvariant == PollerSpec => []PollerInv
BY PollerInvInit, PollerInvStep, PTL DEF PollerSpec

\* Between polls, however many failed and whatever peers were deleted and came back,
\* the last event about a session or about BIRD says what the snapshot says, unless a
\* transition was kept quiet since: Poller.poll misses no edge.
THEOREM TimelineStaysTrue == PollerSpec => []TimelineIsTrue
<1>1. PollerInv => TimelineIsTrue
  BY EmptySnapshot DEF PollerInv, Places, Walking, TimelineFollows, Agrees, TimelineIsTrue
<1>. QED  BY <1>1, PollerInvariant, PTL

\* No session-down is raised for a session the operator took down, has not touched
\* since and the model shows as off: DisabledPeerNames is read after the listing.
THEOREM SwitchedOffIsNoAlarm == PollerSpec => NoAlarmForSwitchedOff
<1>1. PollerInv /\ [PollerNext]_pollerVars =>
        [\A p \in parked', i \in DOMAIN out' : out'[i] # [kind |-> "down", of |-> p]]_pollerVars
  BY NoAlarmStep DEF PollerInv
<1>. QED  BY <1>1, PollerInvariant, PTL DEF PollerSpec, NoAlarmForSwitchedOff

\* A drop is raised exactly when the last two counts really read of a session that stayed
\* up are that far apart: the reads that fail between them carry the first one over.
THEOREM DropsAreReadNotGuessed == PollerSpec => DropsAreReal
<1>. DEFINE Real == pc = "detail" /\ pc' = "protocol" =>
          LET old == fetched[peer]  new == fetched'[peer]
          IN (\E i \in DOMAIN out' : out'[i] = [kind |-> "drop", of |-> peer])
             <=> old # None /\ old >= Baseline /\ 2 * new <= old
<1>1. PollerInv /\ [PollerNext]_pollerVars => [Real]_pollerVars
  BY DropStep DEF PollerInv
<1>. QED  BY <1>1, PollerInvariant, PTL DEF PollerSpec, DropsAreReal

-----------------------------------------------------------------------------
(* The notifier.                                                           *)

Event == [kind : Throttled, of : Peers] \cup [kind : {"unreachable", "reachable"}, of : {Bird}]
         \cup {Config}

Tells(e, s) == e.of = s /\ Says(e) # "nothing"

NotifierTypeOK ==
    /\ queue \in Seq(Event) /\ Len(queue) <= QueueCap
    /\ worker \in [event : Event, left : SUBSET Destinations]
    /\ heard \in [Destinations -> [Subjects -> Word]]
    /\ lost \in [Destinations -> [Subjects -> BOOLEAN]]

\* The last event of q that tells anything of s says w.
LastSays(q, s, w) ==
    \A i \in DOMAIN q :
        Tells(q[i], s) /\ (\A j \in DOMAIN q : j > i => ~Tells(q[j], s)) => Says(q[i]) = w

\* The last word on s that is on its way to d, or that d has heard, is the timeline's.
LastWord(d, s) ==
    /\ LastSays(queue, s, said[s])
    /\ ~Told(queue, s) =>
          IF d \in worker.left /\ Tells(worker.event, s) THEN Says(worker.event) = said[s]
          ELSE heard[d][s] = said[s]

LastWords == \A d \in Destinations, s \in Subjects : Hears(d, s) /\ ~lost[d][s] => LastWord(d, s)

LEMMA ToldTells == ASSUME NEW q, NEW s PROVE Told(q, s) <=> \E i \in DOMAIN q : Tells(q[i], s)
BY DEF Told, Tells

LEMMA ToldOne == ASSUME NEW e, NEW s PROVE Told(<<e>>, s) <=> Tells(e, s)
BY DEF Told, Tells

LEMMA ToldNone == ASSUME NEW s PROVE ~Told(<<>>, s)
BY DEF Told

LEMMA AppendUntold ==
    ASSUME NEW q \in Seq(Event), NEW k \in Seq(Event), NEW s, NEW w, ~Told(k, s)
    PROVE  /\ Told(q \o k, s) <=> Told(q, s)
           /\ LastSays(q, s, w) => LastSays(q \o k, s, w)
<1>1. /\ Len(q \o k) = Len(q) + Len(k) /\ DOMAIN (q \o k) = 1..Len(q) + Len(k)
      /\ \A i \in DOMAIN q : (q \o k)[i] = q[i]
      /\ \A i \in DOMAIN (q \o k) \ DOMAIN q :
            i - Len(q) \in DOMAIN k /\ (q \o k)[i] = k[i - Len(q)]
      /\ DOMAIN q = 1..Len(q) /\ Len(q) \in Nat /\ Len(k) \in Nat
  <2>1. /\ q \o k \in Seq(Event) /\ Len(q \o k) = Len(q) + Len(k)
        /\ \A i \in 1..Len(q) + Len(k) :
              (q \o k)[i] = IF i <= Len(q) THEN q[i] ELSE k[i - Len(q)]
    BY ConcatProperties
  <2>2. /\ DOMAIN q = 1..Len(q) /\ Len(q) \in Nat
        /\ DOMAIN k = 1..Len(k) /\ Len(k) \in Nat
        /\ DOMAIN (q \o k) = 1..Len(q) + Len(k)
    BY <2>1, LenProperties
  <2>. QED  BY <2>1, <2>2
<1>2. \A i \in DOMAIN (q \o k) : Tells((q \o k)[i], s) => i \in DOMAIN q
  <2>1. \A i \in DOMAIN k : ~Tells(k[i], s)
    BY ToldTells
  <2>. QED  BY <1>1, <2>1
<1>3. Told(q \o k, s) <=> Told(q, s)
  <2>1. \A i \in DOMAIN q : i \in DOMAIN (q \o k)
    BY <1>1
  <2>2. (\E i \in DOMAIN (q \o k) : Tells((q \o k)[i], s)) <=> \E i \in DOMAIN q : Tells(q[i], s)
    BY <1>1, <1>2, <2>1
  <2>. QED  BY <2>2, ToldTells
<1>4. LastSays(q, s, w) => LastSays(q \o k, s, w)
  BY <1>1, <1>2 DEF LastSays
<1>. QED  BY <1>3, <1>4

LEMMA AppendTold ==
    ASSUME NEW q \in Seq(Event), NEW k \in Seq(Event), NEW s, NEW w, Told(k, s),
           \A i \in DOMAIN k : Tells(k[i], s) => Says(k[i]) = w
    PROVE  Told(q \o k, s) /\ LastSays(q \o k, s, w)
<1>1. /\ DOMAIN (q \o k) = 1..Len(q) + Len(k)
      /\ \A i \in 1..Len(k) : (q \o k)[i + Len(q)] = k[i]
      /\ \A i \in DOMAIN (q \o k) : i > Len(q) => (q \o k)[i] = k[i - Len(q)]
      /\ DOMAIN k = 1..Len(k) /\ Len(q) \in Nat /\ Len(k) \in Nat
  BY ConcatProperties, LenProperties
<1>2. PICK n \in 1..Len(k) : Tells(k[n], s)
  BY <1>1, ToldTells
<1>3. n + Len(q) \in DOMAIN (q \o k) /\ n + Len(q) > Len(q) /\ Tells((q \o k)[n + Len(q)], s)
  BY <1>1, <1>2
<1>4. Told(q \o k, s)
  BY <1>3, ToldTells
<1>5. ASSUME NEW i \in DOMAIN (q \o k), Tells((q \o k)[i], s),
             \A j \in DOMAIN (q \o k) : j > i => ~Tells((q \o k)[j], s)
      PROVE  Says((q \o k)[i]) = w
  <2>1. ~(n + Len(q) > i)
    BY <1>3, <1>5
  <2>2. i > Len(q) /\ i - Len(q) \in DOMAIN k
    BY <1>1, <1>2, <2>1
  <2>. QED  BY <1>1, <1>5, <2>2
<1>. QED  BY <1>4, <1>5 DEF LastSays

LEMMA TailSays ==
    ASSUME NEW q \in Seq(Event), q # <<>>, NEW s, NEW w
    PROVE  /\ Told(q, s) <=> Tells(Head(q), s) \/ Told(Tail(q), s)
           /\ LastSays(q, s, w) => LastSays(Tail(q), s, w)
           /\ LastSays(q, s, w) /\ Tells(Head(q), s) /\ ~Told(Tail(q), s) => Says(Head(q)) = w
<1>1. /\ DOMAIN q = 1..Len(q) /\ Len(q) \in Nat \ {0} /\ DOMAIN Tail(q) = 1..Len(q) - 1
      /\ Head(q) = q[1] /\ \A i \in 1..Len(q) - 1 : Tail(q)[i] = q[i + 1]
  <2>1. /\ Tail(q) \in Seq(Event) /\ Len(Tail(q)) = Len(q) - 1
        /\ \A i \in 1..Len(Tail(q)) : Tail(q)[i] = q[i + 1]
    BY HeadTailProperties
  <2>2. DOMAIN q = 1..Len(q) /\ Len(q) \in Nat \ {0}
    BY LenProperties, EmptySeq
  <2>3. DOMAIN Tail(q) = 1..Len(q) - 1
    BY <2>1, LenProperties
  <2>4. Head(q) = q[1]
    BY <2>2
  <2>. QED  BY <2>1, <2>2, <2>3, <2>4
<1>2. \A i \in DOMAIN q : i = 1 \/ (i - 1 \in DOMAIN Tail(q) /\ q[i] = Tail(q)[i - 1])
  BY <1>1
<1>3. \A i \in DOMAIN Tail(q) : i + 1 \in DOMAIN q /\ q[i + 1] = Tail(q)[i]
  BY <1>1
<1>4. Told(q, s) <=> Tells(Head(q), s) \/ Told(Tail(q), s)
  <2>1. (\E i \in DOMAIN q : Tells(q[i], s))
           <=> Tells(Head(q), s) \/ \E i \in DOMAIN Tail(q) : Tells(Tail(q)[i], s)
    <3>1. ASSUME NEW i \in DOMAIN q, Tells(q[i], s)
          PROVE  Tells(Head(q), s) \/ \E j \in DOMAIN Tail(q) : Tells(Tail(q)[j], s)
      BY <1>1, <1>2, <3>1
    <3>2. Tells(Head(q), s) => \E i \in DOMAIN q : Tells(q[i], s)
      BY <1>1
    <3>3. ASSUME NEW j \in DOMAIN Tail(q), Tells(Tail(q)[j], s)
          PROVE  \E i \in DOMAIN q : Tells(q[i], s)
      BY <1>3, <3>3
    <3>. QED  BY <3>1, <3>2, <3>3
  <2>. QED  BY <2>1, ToldTells
<1>5. ASSUME LastSays(q, s, w), NEW i \in DOMAIN Tail(q), Tells(Tail(q)[i], s),
             \A j \in DOMAIN Tail(q) : j > i => ~Tells(Tail(q)[j], s)
      PROVE  Says(Tail(q)[i]) = w
  <2>1. ASSUME NEW j \in DOMAIN q, j > i + 1 PROVE ~Tells(q[j], s)
    <3>1. j - 1 \in DOMAIN Tail(q) /\ q[j] = Tail(q)[j - 1] /\ j - 1 > i
      BY <1>1, <1>2, <2>1
    <3>. QED  BY <1>5, <3>1
  <2>. QED  BY <1>3, <1>5, <2>1 DEF LastSays
<1>6. ASSUME LastSays(q, s, w), Tells(Head(q), s), ~Told(Tail(q), s) PROVE Says(Head(q)) = w
  <2>1. \A j \in DOMAIN q : j > 1 => ~Tells(q[j], s)
    <3>1. \A j \in DOMAIN Tail(q) : ~Tells(Tail(q)[j], s)
      BY <1>6, ToldTells
    <3>2. ASSUME NEW j \in DOMAIN q, j > 1 PROVE ~Tells(q[j], s)
      <4>1. j # 1
        BY <1>1, <3>2
      <4>2. j - 1 \in DOMAIN Tail(q) /\ q[j] = Tail(q)[j - 1]
        BY <1>2, <4>1
      <4>. QED  BY <3>1, <4>2
    <3>. QED  BY <3>2
  <2>. QED  BY <1>1, <1>6, <2>1 DEF LastSays
<1>. QED  BY <1>4, <1>5, <1>6 DEF LastSays

LEMMA PrefixTold ==
    ASSUME NEW e \in Event, NEW q \in Seq(Event), NEW s, ~Told(<<e>> \o q, s)
    PROVE  ~Tells(e, s) /\ ~Told(q, s)
<1>1. /\ <<e>> \o q \in Seq(Event) /\ <<e>> \o q # <<>>
      /\ Head(<<e>> \o q) = e /\ Tail(<<e>> \o q) = q
  BY ConcatProperties
<1>. QED  BY <1>1, TailSays

\* What the queue has no room for is the end of it.
LEMMA KeptIsPrefix ==
    ASSUME NEW events \in Seq(Event), queue \in Seq(Event), Len(queue) <= QueueCap
    PROVE  /\ Kept(events) \in Seq(Event) /\ Len(Kept(events)) <= QueueCap - Len(queue)
           /\ \A i \in DOMAIN Kept(events) : i \in DOMAIN events /\ Kept(events)[i] = events[i]
<1>. DEFINE n == Smaller(Len(events), QueueCap - Len(queue))
<1>1. /\ Len(events) \in Nat /\ Len(queue) \in Nat /\ QueueCap \in Nat
      /\ DOMAIN events = 1..Len(events)
  BY AlertsAssumption, LenProperties
<1>2. n \in Nat /\ n <= Len(events) /\ n <= QueueCap - Len(queue)
  BY <1>1 DEF Smaller
<1>3. \A i \in 1..n : i \in DOMAIN events /\ events[i] \in Event
  BY <1>1, <1>2
<1>. HIDE DEF n
<1>4. /\ SubSeq(events, 1, n) \in Seq(Event)
      /\ Len(SubSeq(events, 1, n)) = n
      /\ \A i \in 1..n : SubSeq(events, 1, n)[i] = events[i]
  BY <1>2, <1>3, SubSeqProperties
<1>5. Kept(events) = SubSeq(events, 1, n)
  BY DEF Kept, n
<1>6. DOMAIN SubSeq(events, 1, n) = 1..n
  BY <1>4, LenProperties
<1>. QED  BY <1>2, <1>3, <1>4, <1>5, <1>6

\* A queue that is offered events whose word on s is the new one, or that say nothing of s.
LEMMA OfferKeepsLastWord ==
    ASSUME NotifierTypeOK, NEW events \in Seq(Event), Offer(events), UNCHANGED <<worker, heard>>,
           NEW d \in Destinations, NEW s \in Subjects, ~lost[d][s] => LastWord(d, s),
           \A i \in DOMAIN events : Tells(events[i], s) => Says(events[i]) = said'[s],
           ~Told(events, s) => said'[s] = said[s]
    PROVE  ~lost'[d][s] => LastWord(d, s)'
<1>. DEFINE k == Kept(events)
<1>1. /\ k \in Seq(Event)
      /\ \A i \in DOMAIN k : i \in DOMAIN events /\ k[i] = events[i]
  BY KeptIsPrefix DEF NotifierTypeOK
<1>2. /\ queue' = queue \o k /\ queue \in Seq(Event)
      /\ lost'[d][s] = IF Told(events, s) THEN ~Told(k, s) ELSE lost[d][s]
  BY DEF Offer, Joined, NotifierTypeOK
<1>. HIDE DEF k
<1>3. CASE Told(events, s)
  <2>1. ASSUME Told(k, s) PROVE LastWord(d, s)'
    <3>1. \A i \in DOMAIN k : Tells(k[i], s) => Says(k[i]) = said'[s]
      BY <1>1
    <3>2. Told(queue \o k, s) /\ LastSays(queue \o k, s, said'[s])
      BY <1>1, <1>2, <2>1, <3>1, AppendTold
    <3>. QED  BY <1>2, <3>2 DEF LastWord
  <2>. QED  BY <1>2, <1>3, <2>1
<1>4. CASE ~Told(events, s)
  <2>1. ~Told(k, s)
    BY <1>1, <1>4, ToldTells
  <2>2. /\ Told(queue \o k, s) <=> Told(queue, s)
        /\ LastSays(queue, s, said[s]) => LastSays(queue \o k, s, said[s])
    BY <1>1, <1>2, <2>1, AppendUntold
  <2>3. ~lost'[d][s] => LastWord(d, s)
    BY <1>2, <1>4
  <2>. QED  BY <1>2, <1>4, <2>2, <2>3 DEF LastWord
<1>. QED  BY <1>3, <1>4

\* A poll emits at most one event that says anything, and that is what is then said.
LEMMA PollEmits ==
    ASSUME PollerInv, Poll
    PROVE  /\ out' \in Seq(Event)
           /\ \A s \in Subjects :
                 /\ \A i \in DOMAIN out' : Tells(out'[i], s) => Says(out'[i]) = said'[s]
                 /\ ~Told(out', s) => said'[s] = said[s]
<1>. USE DEF PollerInv
<1>. DEFINE Faithful ==
              /\ out' \in Seq(Event)
              /\ \A s \in Subjects :
                    /\ \A i \in DOMAIN out' : Tells(out'[i], s) => Says(out'[i]) = said'[s]
                    /\ ~Told(out', s) => said'[s] = said[s]
<1>1. out' = <<>> /\ said' = said => Faithful
  OBVIOUS
<1>2. CASE ListFail \/ List
  <2>1. CASE out' = <<>> /\ said' = said
    BY <1>1, <2>1
  <2>2. CASE ~(out' = <<>> /\ said' = said)
    <3>1. PICK e : /\ e = [kind |-> IF reach' = "up" THEN "reachable" ELSE "unreachable",
                           of |-> Bird]
                   /\ out' = <<e>>
                   /\ said' = [s \in Subjects |-> IF s = Bird THEN reach' ELSE said[s]]
      BY <1>2, <2>2, ListSays
    <3>2. e \in Event /\ e.of = Bird
      BY <3>1 DEF Event
    <3>3. reach' \in {"up", "down"} /\ Says(e) = reach'
      BY <1>2, <3>1, ListSays DEF Says
    <3>4. \A s : Tells(e, s) <=> s = Bird
      BY <3>2, <3>3 DEF Tells
    <3>. QED  BY <3>1, <3>2, <3>3, <3>4, ToldOne, SubjectsAre
  <2>. QED  BY <2>1, <2>2
<1>3. CASE Detail
  <2>1. said' = said /\ \A i \in DOMAIN out' : Says(out'[i]) = "nothing"
    BY <1>3, DetailSays DEF Says
  <2>2. out' \in Seq(Event)
    <3>1. peer \in Peers
      BY <1>3 DEF Detail, Places, PollerTypeOK, Snapshot
    <3>2. [kind : {"limit", "drop"}, of : {peer}] \subseteq Event
      BY <3>1 DEF Event, Throttled
    <3>. QED  BY <1>3, <3>2, DetailSays, SeqMonotonic
  <2>. QED  BY <2>1, <2>2 DEF Tells
<1>4. ASSUME NEW p \in Peers, Classify(p), Reported(p) PROVE Faithful
  <2>1. PICK e : e = Transition(p, p \in DOMAIN states, states[p]) /\ Emit(<<e>>)
    BY <1>4 DEF Classify
  <2>2. e \in Event /\ e.of = p /\ Says(e) # "nothing"
    BY <2>1 DEF Transition, Event, Throttled, Says
  <2>3. out' = <<e>> /\ said' = [s \in Subjects |-> IF s = p THEN Says(e) ELSE said[s]]
    BY <2>1, <2>2, EmitOne DEF PollerTypeOK
  <2>4. \A s : Tells(e, s) <=> s = p
    BY <2>2 DEF Tells
  <2>. QED  BY <2>2, <2>3, <2>4, ToldOne, SubjectsAre
<1>5. ASSUME NEW p \in Peers, Classify(p), ~Reported(p) PROVE Faithful
  <2>1. out' = <<>> /\ said' = said
    BY <1>5, ClassifySays
  <2>. QED  BY <1>1, <2>1
<1>6. CASE ReadDisabled \/ DetailFail \/ Publish
  <2>1. out' = <<>> /\ said' = said
    BY <1>6 DEF ReadDisabled, DetailFail, Publish, Quiet, history
  <2>. QED  BY <1>1, <2>1
<1>7. Faithful
  BY <1>2, <1>3, <1>4, <1>5, <1>6 DEF Poll
<1>. QED  BY <1>7

\* The notifier takes nothing from the poller but its events.
LEMMA AlertsStepsPoller ==
    [AlertsNext]_alertVars =>
        [PollerNext]_pollerVars \/ UNCHANGED <<bird, locals, known, history>>
<1>. USE DEF AlertsNext, PollerNext, alertVars
<1>1. Work => UNCHANGED <<bird, locals, known, history>>
  BY DEF Work, Take, Suppress, Deliver, DeliverFail
<1>2. Other => UNCHANGED <<bird, locals, known, history>>
  BY DEF Other
<1>. QED  BY <1>1, <1>2 DEF PollAndNotify, TickAll, RestartAll

LEMMA UnchangedInv == PollerInv /\ UNCHANGED <<bird, locals, known, history>> => PollerInv'
BY DEF PollerInv, PollerTypeOK, Snapshot, Places, SwitchedIsOff, TimelineFollows, Agrees,
       CountsAreRead, CountKnown, bird, locals, known, history

LEMMA AlertsPollerInv == AlertsSpec => []PollerInv
<1>1. AlertsInit => PollerInv
  BY PollerInvInit DEF AlertsInit
<1>2. PollerInv /\ [AlertsNext]_alertVars => PollerInv'
  BY AlertsStepsPoller, UnchangedInv, PollerInvStep
<1>. QED  BY <1>1, <1>2, PTL DEF AlertsSpec

LEMMA OfferTyped ==
    ASSUME NotifierTypeOK, NEW events \in Seq(Event), Offer(events), UNCHANGED <<worker, heard>>
    PROVE  NotifierTypeOK'
<1>1. Kept(events) \in Seq(Event) /\ Len(Kept(events)) <= QueueCap - Len(queue)
  BY KeptIsPrefix DEF NotifierTypeOK
<1>2. queue' = queue \o Kept(events)
  BY DEF Offer, Joined
<1>3. queue' \in Seq(Event) /\ Len(queue') = Len(queue) + Len(Kept(events))
  BY <1>1, <1>2, ConcatProperties DEF NotifierTypeOK
<1>4. Len(queue') <= QueueCap
  BY <1>1, <1>3, LenProperties, AlertsAssumption DEF NotifierTypeOK
<1>5. lost' \in [Destinations -> [Subjects -> BOOLEAN]]
  BY DEF Offer, NotifierTypeOK, Told
<1>. QED  BY <1>3, <1>4, <1>5 DEF NotifierTypeOK

\* Whoever hears of s wants the events that tell of it.
LEMMA HearsWants ==
    ASSUME NEW d \in Destinations, NEW s \in Subjects, NEW e \in Event, Hears(d, s), Tells(e, s)
    PROVE  Wanted(d, e)
<1>1. e # Config
  BY DEF Tells, Says, Config
<1>2. CASE s = Bird
  <2>1. e.kind \in {"unreachable", "reachable"}
    BY <1>1, <1>2, SubjectsAre DEF Tells, Event
  <2>. QED  BY <1>2, <2>1 DEF Hears, Wanted
<1>3. CASE s \in Peers
  <2>1. e.kind \in Throttled
    BY <1>1, <1>3, SubjectsAre DEF Tells, Event
  <2>2. e.kind \in {"down", "up", "flap"}
    BY <2>1 DEF Tells, Says, Throttled
  <2>. QED  BY <1>3, <2>2, SubjectsAre DEF Hears, Wanted
<1>. QED  BY <1>2, <1>3 DEF Subjects

LEMMA ConfigTells == ASSUME NEW s PROVE ~Tells(Config, s)
BY DEF Config, Tells, Says

LEMMA NotifierTypeInit == AlertsInit => NotifierTypeOK
BY AlertsAssumption, EmptySeq DEF AlertsInit, NotifierTypeOK, Resting, Event, Word

LEMMA LoseTyped ==
    ASSUME NotifierTypeOK, NEW dests, NEW e, NEW rest, Lose(dests, e, rest)
    PROVE  /\ lost' \in [Destinations -> [Subjects -> BOOLEAN]]
           /\ \A d \in Destinations, s \in Subjects :
                 ~lost'[d][s] => ~lost[d][s] /\ (d \in dests /\ Tells(e, s) => Told(rest, s))
<1>1. lost' \in [Destinations -> [Subjects -> BOOLEAN]]
  BY DEF Lose, NotifierTypeOK, Told
<1>. QED  BY <1>1, ToldOne DEF Lose, NotifierTypeOK

LEMMA NotifierTypeStep ==
    PollerInv /\ NotifierTypeOK /\ [AlertsNext]_alertVars => NotifierTypeOK'
<1> SUFFICES ASSUME PollerInv, NotifierTypeOK, [AlertsNext]_alertVars PROVE NotifierTypeOK'
  OBVIOUS
<1>1. CASE UNCHANGED notifierVars
  BY <1>1 DEF notifierVars, NotifierTypeOK
<1>2. CASE PollAndNotify
  BY <1>2, PollEmits, OfferTyped DEF PollAndNotify
<1>3. CASE Other
  <2>1. <<Config>> \in Seq(Event)
    BY DEF Event
  <2>. QED  BY <1>3, <2>1, OfferTyped DEF Other
<1>4. CASE Take \/ Suppress
  <2>1. queue # <<>> /\ queue' = Tail(queue) /\ heard' = heard
    BY <1>4 DEF Take, Suppress
  <2>2. queue' \in Seq(Event) /\ Len(queue') <= QueueCap /\ Head(queue) \in Event
    BY <2>1, HeadTailProperties, LenProperties, AlertsAssumption DEF NotifierTypeOK
  <2>3. lost' \in [Destinations -> [Subjects -> BOOLEAN]]
    BY <1>4, LoseTyped DEF Take, Suppress, NotifierTypeOK
  <2>4. worker' \in [event : Event, left : SUBSET Destinations]
    BY <1>4, <2>2 DEF Take, Suppress, Resting, NotifierTypeOK, Event
  <2>. QED  BY <2>1, <2>2, <2>3, <2>4 DEF NotifierTypeOK
<1>5. ASSUME NEW d \in Destinations, Deliver(d) \/ DeliverFail(d) PROVE NotifierTypeOK'
  <2>1. worker' \in [event : Event, left : SUBSET Destinations]
    BY <1>5 DEF Deliver, DeliverFail, Served, Resting, NotifierTypeOK, Event
  <2>2. lost' \in [Destinations -> [Subjects -> BOOLEAN]]
    BY <1>5, LoseTyped DEF Deliver, DeliverFail, NotifierTypeOK
  <2>3. heard' \in [Destinations -> [Subjects -> Word]]
    <3>1. CASE heard' = heard
      BY <3>1 DEF NotifierTypeOK
    <3>2. CASE Deliver(d)
      <4>. DEFINE f == [s \in Subjects |-> IF Told(<<worker.event>>, s) THEN Says(worker.event)
                                           ELSE heard[d][s]]
      <4>1. f \in [Subjects -> Word]
        BY SaysWord DEF NotifierTypeOK
      <4>2. heard' = [heard EXCEPT ![d] = f]
        BY <3>2 DEF Deliver
      <4>. HIDE DEF f
      <4>. QED  BY <4>1, <4>2 DEF NotifierTypeOK
    <3>. QED  BY <1>5, <3>1, <3>2 DEF DeliverFail
  <2>. QED  BY <1>5, <2>1, <2>2, <2>3 DEF Deliver, DeliverFail, NotifierTypeOK
<1>6. CASE TickAll
  BY <1>6 DEF TickAll, NotifierTypeOK
<1>7. CASE RestartAll
  <2>1. lost' \in [Destinations -> [Subjects -> BOOLEAN]]
    BY <1>7 DEF RestartAll, NotifierTypeOK, Told
  <2>. QED  BY <1>7, <2>1, EmptySeq, AlertsAssumption DEF RestartAll, NotifierTypeOK, Resting, Event
<1>. QED  BY <1>1, <1>2, <1>3, <1>4, <1>5, <1>6, <1>7 DEF AlertsNext, Work, alertVars, notifierVars

LEMMA LastWordsStep ==
    PollerInv /\ NotifierTypeOK /\ LastWords /\ [AlertsNext]_alertVars => LastWords'
<1> SUFFICES ASSUME PollerInv, NotifierTypeOK, LastWords, [AlertsNext]_alertVars,
                    NEW d \in Destinations, NEW s \in Subjects, Hears(d, s)
             PROVE  ~lost'[d][s] => LastWord(d, s)'
  BY DEF LastWords, Hears
<1>. USE DEF NotifierTypeOK
<1>1. ~lost[d][s] => LastWord(d, s)
  BY DEF LastWords
<1>2. CASE UNCHANGED <<notifierVars, said>>
  BY <1>1, <1>2 DEF notifierVars, LastWord
<1>3. CASE World /\ UNCHANGED notifierVars
  BY <1>2, <1>3, WorldLeaves
<1>4. CASE PollAndNotify
  <2>1. /\ out' \in Seq(Event)
        /\ \A i \in DOMAIN out' : Tells(out'[i], s) => Says(out'[i]) = said'[s]
        /\ ~Told(out', s) => said'[s] = said[s]
    BY <1>4, PollEmits DEF PollAndNotify
  <2>. QED  BY <1>1, <1>4, <2>1, OfferKeepsLastWord DEF PollAndNotify
<1>5. CASE Other
  <2>1. <<Config>> \in Seq(Event) /\ \A i \in DOMAIN <<Config>> : ~Tells(<<Config>>[i], s)
    BY ConfigTells DEF Event
  <2>2. said' = said
    BY <1>5 DEF Other, history
  <2>. QED  BY <1>1, <1>5, <2>1, <2>2, OfferKeepsLastWord DEF Other
<1>6. CASE Take \/ Suppress
  <2>1. /\ queue # <<>> /\ queue' = Tail(queue) /\ heard' = heard /\ said' = said
        /\ worker = Resting
        /\ ~lost'[d][s] => ~lost[d][s]
    BY <1>6, LoseTyped DEF Take, Suppress, history
  <2>2. Head(queue) \in Event
    BY <2>1, HeadTailProperties
  <2>3. /\ Told(queue, s) <=> Tells(Head(queue), s) \/ Told(Tail(queue), s)
        /\ LastSays(queue, s, said[s]) => LastSays(Tail(queue), s, said[s])
        /\ LastSays(queue, s, said[s]) /\ Tells(Head(queue), s) /\ ~Told(Tail(queue), s)
              => Says(Head(queue)) = said[s]
    BY <2>1, TailSays
  <2>4. ASSUME ~lost'[d][s], Tells(Head(queue), s), ~Told(Tail(queue), s)
        PROVE  d \in worker'.left /\ worker'.event = Head(queue)
    <3>1. ~Lose(Destinations, Head(queue), Tail(queue))
      BY <2>4, LoseTyped
    <3>2. Wanted(d, Head(queue))
      BY <2>2, <2>4, HearsWants
    <3>. QED  BY <1>6, <3>1, <3>2 DEF Take, Suppress
  <2>5. ASSUME d \in worker'.left PROVE worker'.event = Head(queue)
    BY <1>6, <2>1, <2>5 DEF Take, Suppress, Resting
  <2>6. ~lost[d][s] /\ ~Told(queue, s) => heard[d][s] = said[s]
    <3>1. worker.left = {}
      BY <2>1 DEF Resting
    <3>. QED  BY <1>1, <3>1 DEF LastWord
  <2>7. ASSUME ~lost'[d][s] PROVE LastSays(Tail(queue), s, said[s])
    BY <1>1, <2>1, <2>3, <2>7 DEF LastWord
  <2>8. ASSUME ~lost'[d][s], ~Told(Tail(queue), s)
        PROVE  IF d \in worker'.left /\ Tells(worker'.event, s) THEN Says(worker'.event) = said[s]
               ELSE heard[d][s] = said[s]
    <3>1. CASE Tells(Head(queue), s)
      <4>1. Says(Head(queue)) = said[s]
        BY <1>1, <2>1, <2>3, <2>8, <3>1 DEF LastWord
      <4>. QED  BY <2>4, <2>8, <3>1, <4>1
    <3>2. CASE ~Tells(Head(queue), s)
      <4>1. heard[d][s] = said[s] /\ ~(d \in worker'.left /\ Tells(worker'.event, s))
        BY <2>1, <2>3, <2>5, <2>6, <2>8, <3>2
      <4>. QED  BY <4>1
    <3>. QED  BY <3>1, <3>2
  <2>. QED  BY <2>1, <2>7, <2>8 DEF LastWord
<1>7. ASSUME NEW c \in Destinations, Deliver(c) PROVE ~lost'[d][s] => LastWord(d, s)'
  <2>1. /\ queue' = queue /\ lost' = lost /\ said' = said /\ c \in worker.left
        /\ worker' = Served(c)
    BY <1>7 DEF Deliver, history
  <2>2. /\ d # c => (d \in worker'.left <=> d \in worker.left)
        /\ d \in worker'.left => worker'.event = worker.event
        /\ c \notin worker'.left
    BY <2>1 DEF Served, Resting
  <2>3. heard'[d][s] = IF d = c /\ Tells(worker.event, s) THEN Says(worker.event) ELSE heard[d][s]
    BY <1>7, ToldOne DEF Deliver
  <2>. QED  BY <1>1, <2>1, <2>2, <2>3 DEF LastWord
<1>8. ASSUME NEW c \in Destinations, DeliverFail(c) PROVE ~lost'[d][s] => LastWord(d, s)'
  <2>1. /\ queue' = queue /\ heard' = heard /\ said' = said /\ c \in worker.left
        /\ worker' = Served(c) /\ Lose({c}, worker.event, queue)
    BY <1>8 DEF DeliverFail, history
  <2>2. /\ d # c => (d \in worker'.left <=> d \in worker.left)
        /\ d \in worker'.left => worker'.event = worker.event
    BY <2>1 DEF Served, Resting
  <2>3. ~lost'[d][s] => ~lost[d][s] /\ (d = c /\ Tells(worker.event, s) => Told(queue, s))
    BY <2>1, LoseTyped
  <2>. QED  BY <1>1, <2>1, <2>2, <2>3 DEF LastWord
<1>9. CASE TickAll
  BY <1>1, <1>9 DEF TickAll, Tick, history, LastWord
<1>10. CASE RestartAll
  <2>1. /\ queue' = <<>> /\ worker' = Resting /\ heard' = heard /\ said' = said
        /\ lost'[d][s] = (lost[d][s] \/ Told(<<worker.event>> \o queue, s))
    BY <1>10 DEF RestartAll, Restart
  <2>2. ~Told(<<worker.event>> \o queue, s) => ~Tells(worker.event, s) /\ ~Told(queue, s)
    BY PrefixTold
  <2>3. ASSUME ~lost'[d][s] PROVE heard[d][s] = said[s]
    BY <1>1, <2>1, <2>2, <2>3 DEF LastWord
  <2>4. LastSays(<<>>, s, said[s])
    BY EmptySnapshot DEF LastSays
  <2>5. worker'.left = {}
    BY <2>1 DEF Resting
  <2>. QED  BY <2>1, <2>3, <2>4, <2>5 DEF LastWord
<1>. QED  BY <1>2, <1>3, <1>4, <1>5, <1>6, <1>7, <1>8, <1>9, <1>10
          DEF AlertsNext, Work, alertVars, pollerVars, history

LEMMA NotifierInvariant == AlertsSpec => [](NotifierTypeOK /\ LastWords)
<1>1. AlertsInit => NotifierTypeOK /\ LastWords
  <2> SUFFICES ASSUME AlertsInit PROVE LastWords
    BY NotifierTypeInit
  <2>1. \A s \in Subjects : said[s] = "nothing"
    BY DEF AlertsInit, PollerInit
  <2>. QED  BY <2>1, EmptySnapshot DEF AlertsInit, LastWords, LastWord, LastSays, Resting
<1>2. PollerInv /\ NotifierTypeOK /\ LastWords /\ [AlertsNext]_alertVars
        => NotifierTypeOK' /\ LastWords'
  BY NotifierTypeStep, LastWordsStep
<1>. QED  BY <1>1, <1>2, AlertsPollerInv, PTL DEF AlertsSpec

\* Once the queue has drained, the last thing a destination heard of a session or of
\* BIRD is the last thing the timeline says, unless an event since was throttled,
\* dropped, undeliverable or lost with the process: one queue, one worker and no retry
\* mean that an up never overtakes its down.
THEOREM LastWordStaysTheTimelines == AlertsSpec => []LastWordIsTheTimelines
<1>1. LastWords => LastWordIsTheTimelines
  BY ToldNone DEF LastWords, LastWord, LastWordIsTheTimelines, Resting
<1>. QED  BY <1>1, NotifierInvariant, PTL
=============================================================================
