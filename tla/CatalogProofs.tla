---------------------------- MODULE CatalogProofs ----------------------------
(***************************************************************************)
(* What the catalog keeps whatever is saved at the same time.  A request   *)
(* reads, checks and writes in three steps, and nothing locks the tables   *)
(* in between; what holds all the same is what the transactions and the    *)
(* foreign keys see to themselves.                                         *)
(*                                                                         *)
(* The argument goes in seven parts.  What validation leaves of a shape    *)
(* and of a peer.  What a statement on one row does to the tables, table   *)
(* by table (Sound).  That every transaction of the store commits sound    *)
(* tables, or rolls back (Kept).  What a request holds of what it has      *)
(* read (SafeInv), so that each of its steps only ever hands the store     *)
(* rows the form could have saved.  What holds besides as long as no write *)
(* has gone by a stale read (Quiet): a request that was not outrun still   *)
(* sees in the tables what it has checked (Sees), and so does the IRR loop *)
(* (QuietInv).  What a save of a template leaves alone (Spares).  And that *)
(* sound tables are tables a file can be rendered of (ConfigProofs).       *)
(*                                                                         *)
(* The fifth part has a hypothesis, NoneIsNothing: `Writes` takes None for *)
(* a transaction that was rolled back and `req` for a request that is not  *)
(* there, and an untyped logic has to be told that it is neither tables    *)
(* nor a request nor the loop's state.                                     *)
(***************************************************************************)
EXTENDS Catalog, ConfigProofs

-----------------------------------------------------------------------------
(* Validation.                                                              *)

IsFun(f) == f = [k \in DOMAIN f |-> f[k]]

LEMMA SameAgain ==
    ASSUME NEW f, IsFun(f), NEW k, NEW v, k \in DOMAIN f => f[k] = v
    PROVE  [f EXCEPT ![k] = v] = f
  BY DEF IsFun

Fields == {"role", "firstAS", "originOnly", "prepend", "nextHopSelf", "rrClient", "carry", "bfd",
           "limit", "importComms", "exportComms"}

LEMMA ShapeIs ==
    ASSUME NEW s
    PROVE  s \in Shape <=>
              /\ IsFun(s) /\ DOMAIN s = Fields
              /\ s.role \in Roles /\ s.firstAS \in BOOLEAN /\ s.originOnly \in BOOLEAN
              /\ s.prepend \in 0..10 /\ s.nextHopSelf \in BOOLEAN /\ s.rrClient \in BOOLEAN
              /\ s.carry \in {"all", "none"} /\ s.bfd \in BOOLEAN /\ s.limit \in Limits
              /\ s.importComms \in SUBSET Names /\ s.exportComms \in SUBSET Names
  BY DEF Shape, IsFun, Fields

\* What a shape that was validated looks like.
Neat(s) ==
    IF s.role = "ibgp"
    THEN /\ s.firstAS = FALSE /\ s.originOnly = FALSE /\ s.prepend = 0
         /\ s.importComms = {} /\ s.exportComms = {}
    ELSE s.nextHopSelf = FALSE /\ s.rrClient = FALSE

LEMMA NeatStays ==
    ASSUME NEW s \in Shape, Neat(s)
    PROVE  validateShape(s) = s
<1>1. IsFun(s) /\ DOMAIN s = Fields
  BY ShapeIs
<1>2. CASE IsIBGP(s)
  <2> DEFINE a == [s EXCEPT !.firstAS = FALSE]
             b == [a EXCEPT !.originOnly = FALSE]
             c == [b EXCEPT !.prepend = 0]
             d == [c EXCEPT !.importComms = {}]
             e == [d EXCEPT !.exportComms = {}]
  <2>1. a = s  BY <1>1, <1>2, SameAgain DEF Neat, IsIBGP
  <2>2. b = s  BY <2>1, <1>1, <1>2, SameAgain DEF Neat, IsIBGP
  <2>3. c = s  BY <2>2, <1>1, <1>2, SameAgain DEF Neat, IsIBGP
  <2>4. d = s  BY <2>3, <1>1, <1>2, SameAgain DEF Neat, IsIBGP
  <2>5. e = s  BY <2>4, <1>1, <1>2, SameAgain DEF Neat, IsIBGP
  <2>6. validateShape(s) = e
    BY <1>2, Zenon DEF validateShape
  <2>. QED BY <2>5, <2>6
<1>3. CASE ~IsIBGP(s)
  <2> DEFINE a == [s EXCEPT !.nextHopSelf = FALSE]
             b == [a EXCEPT !.rrClient = FALSE]
  <2>1. a = s  BY <1>1, <1>3, SameAgain DEF Neat, IsIBGP
  <2>2. b = s  BY <2>1, <1>1, <1>3, SameAgain DEF Neat, IsIBGP
  <2>6. validateShape(s) = b
    BY <1>3, Zenon DEF validateShape
  <2>. QED BY <2>2, <2>6
<1>. QED
  BY <1>2, <1>3

LEMMA ValidShape ==
    ASSUME NEW s \in Shape
    PROVE  /\ validateShape(s) \in Shape
           /\ Neat(validateShape(s))
           /\ validateShape(s).role = s.role
           /\ validateShape(s).limit = s.limit
<1>1. CASE IsIBGP(s)
  <2> DEFINE a == [s EXCEPT !.firstAS = FALSE]
             b == [a EXCEPT !.originOnly = FALSE]
             c == [b EXCEPT !.prepend = 0]
             d == [c EXCEPT !.importComms = {}]
             e == [d EXCEPT !.exportComms = {}]
  <2>1. a \in Shape /\ a.role = s.role /\ a.limit = s.limit /\ a.firstAS = FALSE
    BY DEF Shape
  <2>2. /\ b \in Shape /\ b.role = s.role /\ b.limit = s.limit
          /\ b.firstAS = FALSE /\ b.originOnly = FALSE
    <3> HIDE DEF a
    <3> QED BY <2>1 DEF Shape
  <2>3. /\ c \in Shape /\ c.role = s.role /\ c.limit = s.limit
          /\ c.firstAS = FALSE /\ c.originOnly = FALSE
          /\ c.prepend = 0
    <3> HIDE DEF b
    <3> QED BY <2>2 DEF Shape
  <2>4. /\ d \in Shape /\ d.role = s.role /\ d.limit = s.limit
          /\ d.firstAS = FALSE /\ d.originOnly = FALSE
          /\ d.prepend = 0 /\ d.importComms = {}
    <3> HIDE DEF c
    <3> QED BY <2>3 DEF Shape
  <2>5. /\ e \in Shape /\ e.role = s.role /\ e.limit = s.limit
          /\ e.firstAS = FALSE /\ e.originOnly = FALSE
          /\ e.prepend = 0 /\ e.importComms = {} /\ e.exportComms = {}
    <3> HIDE DEF d
    <3> QED BY <2>4 DEF Shape
  <2>6. validateShape(s) = e
    BY <1>1, Zenon DEF validateShape
  <2>. HIDE DEF e
  <2>. QED BY <2>5, <2>6, <1>1 DEF Neat, IsIBGP
<1>2. CASE ~IsIBGP(s)
  <2> DEFINE a == [s EXCEPT !.nextHopSelf = FALSE]
             b == [a EXCEPT !.rrClient = FALSE]
  <2>1. a \in Shape /\ a.role = s.role /\ a.limit = s.limit /\ a.nextHopSelf = FALSE
    BY DEF Shape
  <2>2. b \in Shape /\ b.role = s.role /\ b.limit = s.limit /\ b.nextHopSelf = FALSE
          /\ b.rrClient = FALSE
    <3> HIDE DEF a
    <3> QED BY <2>1 DEF Shape
  <2>3. validateShape(s) = b
    BY <1>2, Zenon DEF validateShape
  <2>. HIDE DEF b
  <2>. QED BY <2>2, <2>3, <1>2 DEF Neat, IsIBGP
<1>. QED
  BY <1>1, <1>2

LEMMA ValidShapeTwice ==
    ASSUME NEW s \in Shape
    PROVE  validateShape(validateShape(s)) = validateShape(s)
  BY ValidShape, NeatStays

\* A template's shape with the peer's own limit.
LEMMA OverridingShape ==
    ASSUME NEW p \in Peer, NEW s \in Shape
    PROVE  /\ Overriding(p, s) \in Shape
           /\ Overriding(p, s).role = s.role
           /\ Neat(s) => Neat(Overriding(p, s))
           /\ [Overriding(p, s) EXCEPT !.limit = s.limit] = s
           /\ ~p.override => Overriding(p, s) = s
           /\ p.override => Overriding(p, s).limit = p.shape.limit
<1>1. p.shape \in Shape /\ p.override \in BOOLEAN
  BY DEF Peer
<1>2. p.shape.limit \in Limits
  BY <1>1 DEF Shape
<1> DEFINE o == [s EXCEPT !.limit = p.shape.limit]
<1>3. o \in Shape /\ o.role = s.role /\ (Neat(s) => Neat(o)) /\ o.limit = p.shape.limit
  BY <1>2 DEF Shape, Neat
<1>4. IsFun(s) /\ DOMAIN s = Fields
  BY ShapeIs
<1>5. [o EXCEPT !.limit = s.limit] = s
  BY <1>4 DEF IsFun
<1>6. [s EXCEPT !.limit = s.limit] = s
  BY <1>4, SameAgain
<1>. QED
  BY <1>3, <1>5, <1>6 DEF Overriding

Tidy(p) ==
    /\ p.shape = validateShape(p.shape)
    /\ p.drained => ~IsIBGP(p.shape)
    /\ p.override => p.tmpl # None
OneWay(p) ==
    IF p.dir = "import" THEN p.announce = {} /\ p.sources = {}
    ELSE p.allow = None /\ p.origin = None /\ p.rov = "off" /\ p.rules = ZeroRules

LEMMA ValidIsNeat ==
    ASSUME NEW s \in Shape
    PROVE  s = validateShape(s) <=> Neat(s)
  BY ValidShape, NeatStays

LEMMA ValidPeerIs ==
    ASSUME NEW p \in Peer
    PROVE  LET v == ValidPeer(p)
           IN /\ v \in Peer /\ Tidy(v)
              /\ v.shape = validateShape(p.shape) /\ v.chain = p.chain /\ v.tmpl = p.tmpl
              /\ v.name = p.name /\ (v.override <=> p.override /\ p.tmpl # None)
<1> DEFINE a == [p EXCEPT !.shape = validateShape(p.shape)]
           b == [a EXCEPT !.drained = DrainAllowed(p.shape, a.drained)]
           v == [b EXCEPT !.override = b.override /\ p.tmpl # None]
<1>1. p.shape \in Shape /\ p.drained \in BOOLEAN /\ p.override \in BOOLEAN
  BY DEF Peer
<1>2. /\ a \in Peer /\ a.shape = validateShape(p.shape)
      /\ a.chain = p.chain /\ a.tmpl = p.tmpl /\ a.name = p.name /\ (a.override <=> p.override)
      /\ (a.drained <=> p.drained)
  BY <1>1, ValidShape DEF Peer
<1>3. DrainAllowed(p.shape, a.drained) \in BOOLEAN
  BY DEF DrainAllowed
<1>4. /\ b \in Peer /\ b.shape = validateShape(p.shape)
      /\ b.chain = p.chain /\ b.tmpl = p.tmpl /\ b.name = p.name /\ (b.override <=> p.override)
      /\ b.drained = DrainAllowed(p.shape, a.drained)
  <2> HIDE DEF a
  <2>. QED BY <1>2, <1>3 DEF Peer
<1>5. /\ v \in Peer /\ v.shape = validateShape(p.shape)
      /\ v.chain = p.chain /\ v.tmpl = p.tmpl /\ v.name = p.name
      /\ (v.override <=> p.override /\ p.tmpl # None)
      /\ v.drained = DrainAllowed(p.shape, a.drained)
  <2> HIDE DEF b
  <2>. QED BY <1>4 DEF Peer
<1>6. v = ValidPeer(p)
  BY Zenon DEF ValidPeer
<1> HIDE DEF v, a
<1>7. Tidy(v)
  BY <1>1, <1>5, ValidShape, ValidShapeTwice DEF Tidy, DrainAllowed, IsIBGP
<1>. QED
  BY <1>5, <1>6, <1>7

LEMMA ApplyToIs ==
    ASSUME NEW p \in Peer, NEW t \in PeerTemplate, NEW id \in TemplateIds
    PROVE  LET a == ApplyTo(t, id, p)
           IN /\ a \in Peer
              /\ a.shape = Overriding(p, t.shape) /\ a.chain = t.chain /\ a.tmpl = id
              /\ a.override = p.override /\ a.drained = p.drained /\ a.name = p.name
<1>1. Overriding(p, t.shape) \in Shape /\ t.chain \in Chain
  BY OverridingShape DEF PeerTemplate
<1> DEFINE s == [p EXCEPT !.shape = Overriding(p, t.shape)]
           c == [s EXCEPT !.chain = t.chain]
           a == [c EXCEPT !.tmpl = id]
<1>2. s \in Peer /\ s.shape = Overriding(p, t.shape) /\ s.override = p.override
      /\ s.drained = p.drained /\ s.name = p.name
  BY <1>1 DEF Peer
<1>3. c \in Peer /\ c.shape = Overriding(p, t.shape) /\ c.override = p.override
      /\ c.drained = p.drained /\ c.chain = t.chain /\ c.name = p.name
  <2> HIDE DEF s
  <2>. QED BY <1>1, <1>2 DEF Peer
<1>4. a \in Peer /\ a.shape = Overriding(p, t.shape) /\ a.override = p.override
      /\ a.drained = p.drained /\ a.chain = t.chain /\ a.tmpl = id /\ a.name = p.name
  <2> HIDE DEF c
  <2>. QED BY <1>3 DEF Peer
<1>5. a = ApplyTo(t, id, p)
  BY Zenon DEF ApplyTo
<1> HIDE DEF a
<1>. QED
  BY <1>4, <1>5

LEMMA updatePeerShapeIs ==
    ASSUME NEW p \in Peer
    PROVE  LET u == updatePeerShape(p)
           IN /\ u \in Peer
              /\ u.shape = p.shape /\ u.chain = p.chain /\ u.tmpl = p.tmpl
              /\ u.override = p.override /\ u.name = p.name
              /\ u.drained = DrainAllowed(p.shape, p.drained)
  BY DEF updatePeerShape, DrainAllowed, Peer

\* A template's columns in a peer: what a save of the template and an attach write.
LEMMA Rewritten ==
    ASSUME NEW p \in Peer, NEW t \in PeerTemplate, NEW id \in TemplateIds, id # None,
           ValidTemplate(t) = t
    PROVE  LET u == updatePeerShape(ApplyTo(t, id, p))
           IN /\ u \in Peer /\ Tidy(u) /\ u.tmpl = id /\ u.chain = t.chain
              /\ u.override = p.override /\ u.shape = Overriding(p, t.shape)
              /\ (u.drained => p.drained) /\ u.name = p.name
<1> DEFINE a == ApplyTo(t, id, p)
           u == updatePeerShape(a)
<1>1. /\ a \in Peer
      /\ a.shape = Overriding(p, t.shape) /\ a.chain = t.chain /\ a.tmpl = id
      /\ a.override = p.override /\ a.drained = p.drained /\ a.name = p.name
  BY ApplyToIs
<1>2. /\ u \in Peer
      /\ u.shape = a.shape /\ u.chain = a.chain /\ u.tmpl = a.tmpl
      /\ u.override = a.override /\ u.name = a.name
      /\ u.drained = DrainAllowed(a.shape, a.drained)
  BY <1>1, updatePeerShapeIs
<1>3. t.shape \in Shape /\ validateShape(t.shape) = t.shape
  <2>1. t.shape \in Shape /\ "shape" \in DOMAIN t
    BY DEF PeerTemplate
  <2>2. ValidTemplate(t).shape = validateShape(t.shape)
    BY <2>1 DEF ValidTemplate
  <2>. QED BY <2>1, <2>2
<1>4. Overriding(p, t.shape) \in Shape /\ Neat(Overriding(p, t.shape))
  BY <1>3, OverridingShape, ValidIsNeat
<1>5. validateShape(u.shape) = u.shape
  BY <1>1, <1>2, <1>4, NeatStays
<1>6. Tidy(u)
  BY <1>1, <1>2, <1>5 DEF Tidy, DrainAllowed
<1>. QED
  BY <1>1, <1>2, <1>6 DEF DrainAllowed

-----------------------------------------------------------------------------
(* Rows.                                                                    *)

LEMMA LeastIsThere ==
    ASSUME NEW S \in SUBSET Nat, S # {}
    PROVE  \E i \in S : \A j \in S : i <= j
<1>1. PICK x \in S : \A y \in S : ~(<<y, x>> \in OpToRel(<, Nat))
  BY WFMin, NatLessThanWellFounded, Zenon
<1>2. \A y \in S : ~(y < x)
  BY <1>1 DEF OpToRel
<1>. QED
  BY <1>2

LEMMA NextIdIs ==
    ASSUME NEW t, DOMAIN t \subseteq Nat, Unused(t) # {}
    PROVE  NextId(t) \in Unused(t)
  BY LeastIsThere DEF NextId, Unused

\* The tables `e` are `d` with this row in place of another.
Puts(d, e, tb, i, row) ==
    /\ DOMAIN e = DOMAIN d /\ DOMAIN e[tb] = DOMAIN d[tb]
    /\ \A x \in DOMAIN d \ {tb} : e[x] = d[x]
    /\ \A j \in DOMAIN d[tb] \ {i} : e[tb][j] = d[tb][j]
    /\ i \in DOMAIN d[tb] /\ e[tb][i] = row

LEMMA PutRow ==
    ASSUME NEW d, NEW tb \in DOMAIN d, NEW i \in DOMAIN d[tb], NEW row
    PROVE  Puts(d, [d EXCEPT ![tb][i] = row], tb, i, row)
  BY DEF Puts

LEMMA InsertPuts ==
    ASSUME NEW d, NEW tb \in DOMAIN d, NEW row, DOMAIN d[tb] \subseteq Nat,
           Insert(d, tb, row) # None
    PROVE  /\ Puts(d, Insert(d, tb, row), tb, NextId(d[tb]), row)
           /\ d[tb][NextId(d[tb])] = None
           /\ Named(d[tb], row.name) = {}
<1>1. Unused(d[tb]) # {} /\ Named(d[tb], row.name) = {}
  BY DEF Insert
<1>2. NextId(d[tb]) \in DOMAIN d[tb] /\ d[tb][NextId(d[tb])] = None
  BY <1>1, NextIdIs DEF Unused
<1>3. Insert(d, tb, row) = [d EXCEPT ![tb][NextId(d[tb])] = row]
  BY <1>1 DEF Insert
<1>4. Puts(d, [d EXCEPT ![tb][NextId(d[tb])] = row], tb, NextId(d[tb]), row)
  BY <1>2, PutRow
<1>. QED
  BY <1>1, <1>2, <1>3, <1>4

LEMMA UpdatePuts ==
    ASSUME NEW d, NEW tb \in DOMAIN d, NEW i, NEW row, Update(d, tb, i, row) # None
    PROVE  /\ Puts(d, Update(d, tb, i, row), tb, i, row)
           /\ i \in Live(d[tb])
           /\ Named(d[tb], row.name) \subseteq {i}
<1>1. i \in Live(d[tb]) /\ Named(d[tb], row.name) \subseteq {i}
  BY DEF Update, affectedOne
<1>2. i \in DOMAIN d[tb]
  BY <1>1 DEF Live
<1>3. Update(d, tb, i, row) = [d EXCEPT ![tb][i] = row]
  BY <1>1 DEF Update, affectedOne
<1>4. Puts(d, [d EXCEPT ![tb][i] = row], tb, i, row)
  BY <1>2, PutRow
<1>. QED
  BY <1>1, <1>3, <1>4

LEMMA DeletePuts ==
    ASSUME NEW d, NEW tb \in DOMAIN d, NEW i, Delete(d, tb, i) # None
    PROVE  Puts(d, Delete(d, tb, i), tb, i, Gone) /\ i \in Live(d[tb])
<1>1. i \in Live(d[tb]) /\ i \in DOMAIN d[tb]
  BY DEF Delete, affectedOne, Live
<1>3. Delete(d, tb, i) = [d EXCEPT ![tb][i] = Gone]
  BY <1>1 DEF Delete, affectedOne
<1>4. Puts(d, [d EXCEPT ![tb][i] = Gone], tb, i, Gone)
  BY <1>1, PutRow
<1>. QED
  BY <1>1, <1>3, <1>4

LEMMA LivePut ==
    ASSUME NEW d, NEW e, NEW tb, NEW i, NEW row, Puts(d, e, tb, i, row)
    PROVE  /\ row \notin {None, Gone} => Live(e[tb]) = Live(d[tb]) \cup {i}
           /\ row \in {None, Gone} => Live(e[tb]) = Live(d[tb]) \ {i}
  BY DEF Puts, Live

-----------------------------------------------------------------------------
(* What holds of the tables whatever runs at the same time, table by table. *)

Sound(d) == Stored(d) /\ RowsFit(d) /\ RefsResolve(d) /\ SessionsClean(d) /\ SetsFilled(d)

PeerRow(d, p) == p \in Peer /\ Tidy(p) /\ LinkHolds(d, p) /\ PoliciesExist(d, p.chain)
TemplateRow(d, t) == t \in PeerTemplate /\ ValidTemplate(t) = t /\ PoliciesExist(d, t.chain)
PolicyRow(d, p) == p \in Policy /\ OneWay(p) /\ SetsExist(d, p)
SetRow(s) == s \in PrefixSet /\ s.entries # {}
ASSetRow(s) == s \in ASSet /\ s.members # {}

PeersSound(d) == \A i \in Live(d.peers) : PeerRow(d, d.peers[i])
TemplatesSound(d) == \A i \in Live(d.templates) : TemplateRow(d, d.templates[i])
PoliciesSound(d) == \A i \in Live(d.policies) : PolicyRow(d, d.policies[i])
SetsSound(d) == \A i \in Live(d.sets) : SetRow(d.sets[i])
ASSetsSound(d) == \A i \in Live(d.asSets) : ASSetRow(d.asSets[i])

LEMMA SoundIs ==
    ASSUME NEW d
    PROVE  Sound(d) <=> /\ Stored(d) /\ PeersSound(d) /\ TemplatesSound(d) /\ PoliciesSound(d)
                        /\ SetsSound(d) /\ ASSetsSound(d)
  BY DEF Sound, RowsFit, RefsResolve, SessionsClean, SetsFilled, PeersSound, TemplatesSound,
         PoliciesSound, SetsSound, ASSetsSound, PeerRow, TemplateRow, PolicyRow, SetRow, ASSetRow,
         LiveRows, Tidy, OneWay

LEMMA TablesAre == 
    ASSUME NEW d, Stored(d)
    PROVE /\ "peers" \in DOMAIN d /\ "templates" \in DOMAIN d /\ "policies" \in DOMAIN d
          /\ "sets" \in DOMAIN d /\ "asSets" \in DOMAIN d /\ "communities" \in DOMAIN d
          /\ "servers" \in DOMAIN d /\ "stations" \in DOMAIN d /\ "routes" \in DOMAIN d
          /\ \A tb \in Tables : /\ tb \in DOMAIN d /\ DOMAIN d[tb] \subseteq Nat
                               /\ IsFiniteSet(DOMAIN d[tb])
  BY DEF Stored, Tables, SymbolTables

\* A row that is written is a row.
LEMMA RowIsThere ==
    ASSUME NEW row, row \in Peer \/ row \in PeerTemplate \/ row \in Policy \/ row \in PrefixSet
                      \/ row \in ASSet
    PROVE  row \notin {None, Gone}
  BY CatalogAssumption

LEMMA StoredPut ==
    ASSUME NEW d, NEW e, NEW tb, NEW i, NEW row, Puts(d, e, tb, i, row), Stored(d), tb # "sets"
    PROVE  Stored(e)
<1>1. e.sets = d.sets /\ DOMAIN e = DOMAIN d /\ \A x \in DOMAIN d : DOMAIN e[x] = DOMAIN d[x]
  BY TablesAre DEF Puts
<1>. QED
  BY <1>1, TablesAre DEF Stored

\* Peers that are all right, over tables that are.
LEMMA PeersBecome ==
    ASSUME NEW d, NEW e, Sound(d), DOMAIN e = DOMAIN d, DOMAIN e.peers = DOMAIN d.peers,
           \A x \in DOMAIN d \ {"peers"} : e[x] = d[x],
           \A j \in Live(e.peers) : PeerRow(d, e.peers[j])
    PROVE  Sound(e)
<1>1. Stored(d)
  BY SoundIs
<1>2. /\ e.templates = d.templates /\ e.policies = d.policies /\ e.sets = d.sets
      /\ e.asSets = d.asSets
  BY <1>1, TablesAre
<1>3. Stored(e)
  <2>1. \A x \in DOMAIN d : DOMAIN e[x] = DOMAIN d[x]
    OBVIOUS
  <2>. QED BY <1>1, <1>2, <2>1, TablesAre DEF Stored
<1>4. PeersSound(e)
  BY <1>2 DEF PeersSound, PeerRow, LinkHolds, PoliciesExist
<1>5. TemplatesSound(e) /\ PoliciesSound(e) /\ SetsSound(e) /\ ASSetsSound(e)
  BY <1>2, SoundIs DEF TemplatesSound, PoliciesSound, SetsSound, ASSetsSound, TemplateRow,
     PolicyRow, PoliciesExist, SetsExist
<1>. QED
  BY <1>3, <1>4, <1>5, SoundIs

LEMMA PutPeer ==
    ASSUME NEW d, NEW e, NEW i, NEW row, Puts(d, e, "peers", i, row), Sound(d),
           row = Gone \/ PeerRow(d, row)
    PROVE  Sound(e)
<1>1. ASSUME NEW j \in Live(e.peers) PROVE PeerRow(d, e.peers[j])
  <2>1. CASE j = i
    BY <2>1, <1>1 DEF Puts, Live
  <2>2. CASE j # i
    BY <2>2, <1>1, SoundIs DEF Puts, Live, PeersSound
  <2>. QED BY <2>1, <2>2
<1>. QED
  BY <1>1, PeersBecome DEF Puts

\* A template that is saved, or deleted with no peer linked to it.
LEMMA PutTemplate ==
    ASSUME NEW d, NEW e, NEW i, NEW row, Puts(d, e, "templates", i, row), Sound(d),
           TemplateRow(d, row) \/ (row = Gone /\ ~TemplateHeld(d, i))
    PROVE  Sound(e)
<1>1. Stored(e) /\ Stored(d)
  BY StoredPut, SoundIs
<1>2. e.peers = d.peers /\ e.policies = d.policies /\ e.sets = d.sets /\ e.asSets = d.asSets
  BY <1>1, TablesAre DEF Puts
<1>3. TemplatesSound(e)
  <2>. SUFFICES ASSUME NEW j \in Live(e.templates) PROVE TemplateRow(e, e.templates[j])
    BY DEF TemplatesSound
  <2>1. TemplateRow(d, e.templates[j])
    <3>1. CASE j = i
      BY <3>1 DEF Puts, Live
    <3>2. CASE j # i
      BY <3>2, SoundIs DEF Puts, Live, TemplatesSound
    <3>. QED BY <3>1, <3>2
  <2>. QED BY <2>1, <1>2 DEF TemplateRow, PoliciesExist
<1>4. PeersSound(e)
  <2>. SUFFICES ASSUME NEW j \in Live(e.peers) PROVE PeerRow(e, e.peers[j])
    BY DEF PeersSound
  <2>1. PeerRow(d, d.peers[j]) /\ j \in Live(d.peers)
    BY <1>2, SoundIs DEF PeersSound
  <2>2. LinkHolds(e, d.peers[j])
    <3>1. CASE TemplateRow(d, row)
      <4>1. Live(e.templates) = Live(d.templates) \cup {i}
        BY <3>1, LivePut, RowIsThere DEF TemplateRow
      <4>. QED BY <4>1, <2>1 DEF PeerRow, LinkHolds
    <3>2. CASE row = Gone /\ ~TemplateHeld(d, i)
      <4>1. Live(e.templates) = Live(d.templates) \ {i}
        BY <3>2, LivePut
      <4>. QED BY <4>1, <2>1, <3>2 DEF PeerRow, LinkHolds, TemplateHeld
    <3>. QED BY <3>1, <3>2
  <2>. QED BY <2>1, <2>2, <1>2 DEF PeerRow, PoliciesExist
<1>5. PoliciesSound(e) /\ SetsSound(e) /\ ASSetsSound(e)
  BY <1>2, SoundIs DEF PoliciesSound, SetsSound, ASSetsSound, PolicyRow, SetsExist
<1>. QED
  BY <1>1, <1>3, <1>4, <1>5, SoundIs

\* A policy that is saved, or deleted with no chain naming it.
LEMMA PutPolicy ==
    ASSUME NEW d, NEW e, NEW i, NEW row, Puts(d, e, "policies", i, row), Sound(d),
           PolicyRow(d, row) \/ (row = Gone /\ ~PolicyHeld(d, i))
    PROVE  Sound(e)
<1>1. Stored(e) /\ Stored(d)
  BY StoredPut, SoundIs
<1>2. e.peers = d.peers /\ e.templates = d.templates /\ e.sets = d.sets /\ e.asSets = d.asSets
  BY <1>1, TablesAre DEF Puts
<1>3. PoliciesSound(e)
  <2>. SUFFICES ASSUME NEW j \in Live(e.policies) PROVE PolicyRow(e, e.policies[j])
    BY DEF PoliciesSound
  <2>1. PolicyRow(d, e.policies[j])
    <3>1. CASE j = i
      BY <3>1 DEF Puts, Live
    <3>2. CASE j # i
      BY <3>2, SoundIs DEF Puts, Live, PoliciesSound
    <3>. QED BY <3>1, <3>2
  <2>. QED BY <2>1, <1>2 DEF PolicyRow, SetsExist
<1>4. PeersSound(e) /\ TemplatesSound(e)
  <2>1. CASE PolicyRow(d, row)
    <3>1. Live(e.policies) = Live(d.policies) \cup {i}
      BY <2>1, LivePut, RowIsThere DEF PolicyRow
    <3>. QED
      BY <3>1, <1>2, SoundIs
      DEF PeersSound, TemplatesSound, PeerRow, TemplateRow, LinkHolds, PoliciesExist
  <2>2. CASE row = Gone /\ ~PolicyHeld(d, i)
    <3>1. Live(e.policies) = Live(d.policies) \ {i}
      BY <2>2, LivePut
    <3>2. /\ \A j \in Live(d.peers) :
                i \notin Elements(d.peers[j].chain.imports) \cup Elements(d.peers[j].chain.exports)
          /\ \A j \in Live(d.templates) :
                i \notin Elements(d.templates[j].chain.imports)
                           \cup Elements(d.templates[j].chain.exports)
      BY <2>2 DEF PolicyHeld, PeerPoliciesHold, TemplatePoliciesHold, InChain
    <3>. QED
      BY <3>1, <3>2, <1>2, SoundIs
      DEF PeersSound, TemplatesSound, PeerRow, TemplateRow, LinkHolds, PoliciesExist
  <2>. QED BY <2>1, <2>2
<1>5. SetsSound(e) /\ ASSetsSound(e)
  BY <1>2, SoundIs DEF SetsSound, ASSetsSound
<1>. QED
  BY <1>1, <1>3, <1>4, <1>5, SoundIs

\* A prefix set that is saved under a name of its own, a system set under the one it has, or
\* one deleted that is no system set and that no policy names.
LEMMA PutSet ==
    ASSUME NEW d, NEW e, NEW i, NEW row, Puts(d, e, "sets", i, row), Sound(d),
           \/ /\ SetRow(row) /\ Named(d.sets, row.name) \subseteq {i}
              /\ i \in Live(d.sets) /\ d.sets[i].system =>
                    row.system /\ row.name = d.sets[i].name /\ row.family = d.sets[i].family
              /\ row.system => ~row.disabled
           \/ row = Gone /\ ~SetHeld(d, i) /\ ~(i \in Live(d.sets) /\ d.sets[i].system)
    PROVE  Sound(e)
<1>1. Stored(d)
  BY SoundIs
<1>2. e.peers = d.peers /\ e.templates = d.templates /\ e.policies = d.policies
        /\ e.asSets = d.asSets
  BY <1>1, TablesAre DEF Puts
<1>3. \/ row \notin {None, Gone} /\ Live(e.sets) = Live(d.sets) \cup {i}
      \/ row = Gone /\ Live(e.sets) = Live(d.sets) \ {i}
  BY LivePut, RowIsThere DEF SetRow
<1>4. Stored(e)
  <2>1. /\ DOMAIN e = DOMAIN d /\ \A x \in DOMAIN d : DOMAIN e[x] = DOMAIN d[x]
        /\ \A j \in Live(e.sets) \ {i} : j \in Live(d.sets) /\ e.sets[j] = d.sets[j]
        /\ row # Gone => e.sets[i] = row
    BY <1>3 DEF Puts, Live
  <2>2. ASSUME NEW j \in Live(e.sets), NEW k \in Live(e.sets), e.sets[j].name = e.sets[k].name
        PROVE  j = k
    <3>1. CASE j # i /\ k # i
      BY <3>1, <2>1, <2>2, <1>1 DEF Stored
    <3>2. CASE j = i \/ k = i
      BY <3>2, <2>1, <2>2, <1>3 DEF Named
    <3>. QED BY <3>1, <3>2
  <2>3. ASSUME NEW f \in Families
        PROVE  \E j \in Named(e.sets, BogonSet(f)) : e.sets[j].system /\ e.sets[j].family = f
    <3>1. PICK j \in Named(d.sets, BogonSet(f)) : d.sets[j].system /\ d.sets[j].family = f
      BY <1>1 DEF Stored
    <3>2. j \in Live(d.sets) /\ d.sets[j].name = BogonSet(f)
      BY <3>1 DEF Named
    <3>3. CASE j = i
      <4>1. row # Gone /\ row.system /\ row.name = BogonSet(f) /\ row.family = f
        BY <3>1, <3>2, <3>3, RowIsThere DEF SetRow
      <4>. QED BY <4>1, <3>3, <1>3, <2>1 DEF Named
    <3>4. CASE j # i
      <4>1. j \in Live(e.sets) /\ e.sets[j] = d.sets[j]
        BY <3>2, <3>4, <1>3, <2>1
      <4>. QED BY <4>1, <3>1, <3>2 DEF Named
    <3>. QED BY <3>3, <3>4
  <2>4. ASSUME NEW j \in Live(e.sets), e.sets[j].system PROVE ~e.sets[j].disabled
    <3>1. CASE j = i
      BY <3>1, <2>1, <2>4, <1>3
    <3>2. CASE j # i
      BY <3>2, <2>1, <2>4, <1>1 DEF Stored
    <3>. QED BY <3>1, <3>2
  <2>. QED BY <1>1, <1>2, <2>1, <2>2, <2>3, <2>4, TablesAre DEF Stored
<1>5. SetsSound(e)
  BY <1>3, SoundIs DEF SetsSound, Puts, Live
<1>6. PoliciesSound(e)
  <2>. SUFFICES ASSUME NEW j \in Live(e.policies) PROVE PolicyRow(e, e.policies[j])
    BY DEF PoliciesSound
  <2>1. PolicyRow(d, d.policies[j]) /\ j \in Live(d.policies)
    BY <1>2, SoundIs DEF PoliciesSound
  <2>2. CASE Live(e.sets) = Live(d.sets) \cup {i}
    BY <2>1, <2>2, <1>2 DEF PolicyRow, SetsExist
  <2>3. CASE row = Gone /\ Live(e.sets) = Live(d.sets) \ {i}
    <3>1. ~SetHeld(d, i)
      BY <2>3, RowIsThere DEF SetRow
    <3>2. d.policies[j].allow # i /\ i \notin d.policies[j].announce
      BY <3>1, <2>1 DEF SetHeld, AcceptOnlyHolds, AnnounceHolds
    <3>. QED BY <2>1, <2>3, <3>2, <1>2 DEF PolicyRow, SetsExist
  <2>. QED BY <1>3, <2>2, <2>3
<1>7. PeersSound(e) /\ TemplatesSound(e) /\ ASSetsSound(e)
  BY <1>2, SoundIs DEF PeersSound, TemplatesSound, ASSetsSound, PeerRow, TemplateRow,
     LinkHolds, PoliciesExist
<1>. QED
  BY <1>4, <1>5, <1>6, <1>7, SoundIs

LEMMA PutASSet ==
    ASSUME NEW d, NEW e, NEW i, NEW row, Puts(d, e, "asSets", i, row), Sound(d),
           ASSetRow(row) \/ (row = Gone /\ ~OriginHolds(d, i))
    PROVE  Sound(e)
<1>1. Stored(e) /\ Stored(d)
  BY StoredPut, SoundIs
<1>2. e.peers = d.peers /\ e.templates = d.templates /\ e.policies = d.policies /\ e.sets = d.sets
  BY <1>1, TablesAre DEF Puts
<1>3. \/ row \notin {None, Gone} /\ Live(e.asSets) = Live(d.asSets) \cup {i}
      \/ row = Gone /\ Live(e.asSets) = Live(d.asSets) \ {i}
  BY LivePut, RowIsThere DEF ASSetRow
<1>4. ASSetsSound(e)
  BY <1>3, SoundIs DEF ASSetsSound, Puts, Live
<1>5. PoliciesSound(e)
  <2>. SUFFICES ASSUME NEW j \in Live(e.policies) PROVE PolicyRow(e, e.policies[j])
    BY DEF PoliciesSound
  <2>1. PolicyRow(d, d.policies[j]) /\ j \in Live(d.policies)
    BY <1>2, SoundIs DEF PoliciesSound
  <2>2. CASE Live(e.asSets) = Live(d.asSets) \cup {i}
    BY <2>1, <2>2, <1>2 DEF PolicyRow, SetsExist
  <2>3. CASE row = Gone /\ Live(e.asSets) = Live(d.asSets) \ {i}
    <3>1. ~OriginHolds(d, i)
      BY <2>3, RowIsThere DEF ASSetRow
    <3>2. d.policies[j].origin # i
      BY <3>1, <2>1 DEF OriginHolds
    <3>. QED BY <2>1, <2>3, <3>2, <1>2 DEF PolicyRow, SetsExist
  <2>. QED BY <1>3, <2>2, <2>3
<1>6. PeersSound(e) /\ TemplatesSound(e) /\ SetsSound(e)
  BY <1>2, SoundIs DEF PeersSound, TemplatesSound, SetsSound, PeerRow, TemplateRow,
     LinkHolds, PoliciesExist
<1>. QED
  BY <1>1, <1>4, <1>5, <1>6, SoundIs

\* The tables no other row names by its id.
LEMMA ElsewhereSound ==
    ASSUME NEW d, NEW e, Sound(d), Stored(e), e.peers = d.peers, e.templates = d.templates,
           e.policies = d.policies, e.sets = d.sets, e.asSets = d.asSets
    PROVE  Sound(e)
  BY SoundIs DEF PeersSound, TemplatesSound, PoliciesSound, SetsSound, ASSetsSound, PeerRow,
     TemplateRow, PolicyRow, LinkHolds, PoliciesExist, SetsExist

LEMMA PutElsewhere ==
    ASSUME NEW d, NEW e, NEW tb \in {"communities", "servers", "stations", "routes"},
           NEW i, NEW row, Puts(d, e, tb, i, row), Sound(d)
    PROVE  Sound(e)
<1>1. Stored(e) /\ Stored(d)
  BY StoredPut, SoundIs
<1>2. /\ e.peers = d.peers /\ e.templates = d.templates /\ e.policies = d.policies
      /\ e.sets = d.sets /\ e.asSets = d.asSets
  BY <1>1, TablesAre DEF Puts
<1>. QED
  BY <1>1, <1>2, ElsewhereSound

\* What a transaction on the router's one row, or on the bogon ASNs, changes.
LEMMA NoTable ==
    ASSUME NEW d, NEW tb \in {"router", "bogons"}, NEW x, Stored(d)
    PROVE  LET e == [d EXCEPT ![tb] = x]
           IN Stored(e) /\ \A y \in Tables : e[y] = d[y]
<1> DEFINE e == [d EXCEPT ![tb] = x]
<1>1. tb \notin Tables
  BY DEF Tables, SymbolTables
<1>2. \A y \in Tables : e[y] = d[y]
  BY <1>1, TablesAre
<1>3. e.sets = d.sets /\ e.templates = d.templates
  BY <1>2 DEF Tables, SymbolTables
<1>4. DOMAIN e = DOMAIN d
  OBVIOUS
<1> HIDE DEF e
<1>5. Stored(e)
  BY <1>2, <1>3, <1>4 DEF Stored
<1>. QED
  BY <1>2, <1>5 DEF e

-----------------------------------------------------------------------------
(* The transactions.                                                        *)

\* No set becomes a system set, and a system set keeps its name and its family.
SystemSame(d, e) ==
    \A i \in Live(e.sets) : e.sets[i].system =>
        /\ i \in Live(d.sets) /\ d.sets[i].system
        /\ e.sets[i].name = d.sets[i].name /\ e.sets[i].family = d.sets[i].family

Kept(d, e) == e # None => Sound(e) /\ SystemSame(d, e)

LEMMA SameSets ==
    ASSUME NEW d, NEW e, e.sets = d.sets
    PROVE  SystemSame(d, e)
  BY DEF SystemSame

LEMMA NoChainIsChain == NoChain \in Chain
<1>1. 0 \in 0..Cardinality(PolicyIds)
  BY CatalogAssumption, FS_CardinalityType
<1>2. <<>> \in [1..0 -> PolicyIds]
  OBVIOUS
<1>3. <<>> \in ChainIds
  BY <1>1, <1>2 DEF ChainIds
<1>. QED
  BY <1>3 DEF NoChain, Chain

LEMMA NoChainNames == ASSUME NEW d PROVE PoliciesExist(d, NoChain)
  BY DEF PoliciesExist, NoChain, Elements

\* A peer with another chain, and nothing else.
LEMMA Chained ==
    ASSUME NEW p \in Peer, NEW c \in Chain
    PROVE  LET q == [p EXCEPT !.chain = c]
           IN /\ q \in Peer /\ q.chain = c /\ q.name = p.name /\ q.tmpl = p.tmpl
              /\ q.shape = p.shape /\ q.override = p.override
              /\ Tidy(p) => Tidy(q)
              /\ \A d : LinkHolds(d, p) => LinkHolds(d, q)
<1> DEFINE q == [p EXCEPT !.chain = c]
<1>1. /\ q \in Peer /\ q.chain = c /\ q.name = p.name /\ q.tmpl = p.tmpl
      /\ q.shape = p.shape /\ q.override = p.override /\ q.drained = p.drained
  BY DEF Peer
<1> HIDE DEF q
<1>2. (Tidy(p) => Tidy(q)) /\ \A d : LinkHolds(d, p) => LinkHolds(d, q)
  BY <1>1 DEF Tidy, LinkHolds
<1>. QED
  BY <1>1, <1>2 DEF q

LEMMA PutPeerKeeps ==
    ASSUME NEW d, NEW e, NEW i, NEW row, Puts(d, e, "peers", i, row), Sound(d),
           row = Gone \/ PeerRow(d, row)
    PROVE  Sound(e) /\ SystemSame(d, e)
<1>1. "sets" \in DOMAIN d
  BY TablesAre, SoundIs
<1>2. e.sets = d.sets
  BY <1>1 DEF Puts
<1>. QED
  BY <1>2, PutPeer, SameSets

LEMMA CreatePeerKeeps ==
    ASSUME NEW d, Sound(d), NEW p \in Peer, Tidy(p)
    PROVE  Kept(d, CreatePeer(d, p))
<1> SUFFICES ASSUME CreatePeer(d, p) # None
             PROVE  Sound(CreatePeer(d, p)) /\ SystemSame(d, CreatePeer(d, p))
  BY DEF Kept
<1> DEFINE q == [p EXCEPT !.chain = NoChain]
<1>1. LinkHolds(d, p) /\ CreatePeer(d, p) = Insert(d, "peers", q)
  BY DEF CreatePeer
<1>2. "peers" \in DOMAIN d /\ DOMAIN d["peers"] \subseteq Nat
  BY SoundIs, TablesAre DEF Tables, SymbolTables
<1>3. PeerRow(d, q)
  BY <1>1, Chained, NoChainIsChain, NoChainNames DEF PeerRow
<1> HIDE DEF q
<1>4. Puts(d, Insert(d, "peers", q), "peers", NextId(d["peers"]), q)
  BY <1>1, <1>2, InsertPuts
<1>. QED
  BY <1>1, <1>3, <1>4, PutPeerKeeps

LEMMA UpdatePeerKeeps ==
    ASSUME NEW d, Sound(d), NEW p \in Peer, Tidy(p), NEW id
    PROVE  Kept(d, UpdatePeer(d, id, p))
<1> SUFFICES ASSUME UpdatePeer(d, id, p) # None
             PROVE  Sound(UpdatePeer(d, id, p)) /\ SystemSame(d, UpdatePeer(d, id, p))
  BY DEF Kept
<1> DEFINE q == [p EXCEPT !.chain = d.peers[id].chain]
<1>1. /\ LinkHolds(d, p) /\ id \in Live(d.peers)
      /\ UpdatePeer(d, id, p) = Update(d, "peers", id, q)
  BY DEF UpdatePeer, affectedOne
<1>2. "peers" \in DOMAIN d
  BY SoundIs, TablesAre
<1>3. PeerRow(d, q)
  <2>1. PeerRow(d, d.peers[id])
    BY <1>1, SoundIs DEF PeersSound
  <2>2. d.peers[id].chain \in Chain /\ PoliciesExist(d, d.peers[id].chain)
    BY <2>1 DEF PeerRow, Peer
  <2>. QED BY <2>2, <1>1, Chained DEF PeerRow
<1> HIDE DEF q
<1>4. Puts(d, Update(d, "peers", id, q), "peers", id, q)
  BY <1>1, <1>2, UpdatePuts
<1>. QED
  BY <1>1, <1>3, <1>4, PutPeerKeeps

LEMMA SetPeerPoliciesKeeps ==
    ASSUME NEW d, Sound(d), NEW id, NEW c \in Chain
    PROVE  Kept(d, SetPeerPolicies(d, id, c))
<1> SUFFICES ASSUME SetPeerPolicies(d, id, c) # None, SetPeerPolicies(d, id, c) # d
             PROVE  Sound(SetPeerPolicies(d, id, c)) /\ SystemSame(d, SetPeerPolicies(d, id, c))
  BY DEF Kept, SystemSame
<1> DEFINE q == [d.peers[id] EXCEPT !.chain = c]
<1>1. /\ id \in Live(d.peers) /\ PoliciesExist(d, c)
      /\ SetPeerPolicies(d, id, c) = [d EXCEPT !.peers[id].chain = c]
  BY DEF SetPeerPolicies, affectedOne
<1>2. "peers" \in DOMAIN d /\ id \in DOMAIN d["peers"]
  BY <1>1, SoundIs, TablesAre DEF Live
<1>3. PeerRow(d, d.peers[id])
  BY <1>1, SoundIs DEF PeersSound
<1>4. PeerRow(d, q)
  BY <1>1, <1>3, Chained DEF PeerRow
<1>5. [d EXCEPT !.peers[id].chain = c] = [d EXCEPT !["peers"][id] = q]
  BY <1>2
<1> HIDE DEF q
<1>6. Puts(d, [d EXCEPT !["peers"][id] = q], "peers", id, q)
  BY <1>2, PutRow
<1>. QED
  BY <1>1, <1>4, <1>5, <1>6, PutPeerKeeps

LEMMA SetPeerEnabledKeeps ==
    ASSUME NEW d, Sound(d), NEW id, NEW on \in BOOLEAN
    PROVE  Kept(d, SetPeerEnabled(d, id, on))
<1> SUFFICES ASSUME SetPeerEnabled(d, id, on) # None
             PROVE  Sound(SetPeerEnabled(d, id, on)) /\ SystemSame(d, SetPeerEnabled(d, id, on))
  BY DEF Kept
<1> DEFINE p == d.peers[id]
           q == [p EXCEPT !.enabled = on]
<1>1. id \in Live(d.peers) /\ SetPeerEnabled(d, id, on) = [d EXCEPT !.peers[id].enabled = on]
  BY DEF SetPeerEnabled, affectedOne
<1>2. "peers" \in DOMAIN d /\ id \in DOMAIN d["peers"]
  BY <1>1, SoundIs, TablesAre DEF Live
<1>3. PeerRow(d, p)
  BY <1>1, SoundIs DEF PeersSound
<1>4. PeerRow(d, q)
  <2> HIDE DEF p
  <2>1. q \in Peer /\ q.tmpl = p.tmpl /\ q.chain = p.chain /\ q.shape = p.shape
          /\ q.override = p.override /\ q.drained = p.drained
    BY <1>3 DEF Peer, PeerRow
  <2> HIDE DEF q
  <2>. QED BY <2>1, <1>3 DEF PeerRow, Tidy, LinkHolds
<1>5. [d EXCEPT !.peers[id].enabled = on] = [d EXCEPT !["peers"][id] = q]
  BY <1>2
<1> HIDE DEF q
<1>6. Puts(d, [d EXCEPT !["peers"][id] = q], "peers", id, q)
  BY <1>2, PutRow
<1>. QED
  BY <1>1, <1>4, <1>5, <1>6, PutPeerKeeps

LEMMA DeletePeerKeeps ==
    ASSUME NEW d, Sound(d), NEW id
    PROVE  Kept(d, DeletePeer(d, id))
<1>1. "peers" \in DOMAIN d
  BY SoundIs, TablesAre
<1>. QED
  BY <1>1, DeletePuts, PutPeerKeeps DEF Kept, DeletePeer

LEMMA TemplateId ==
    ASSUME NEW d, Sound(d), NEW id \in DOMAIN d.templates
    PROVE  id \in TemplateIds /\ id # None
<1>1. Stored(d)
  BY SoundIs
<1>2. DOMAIN d["templates"] \subseteq Nat /\ DOMAIN d.templates \subseteq TemplateIds
  BY <1>1 DEF Stored, Tables, SymbolTables
<1>. QED
  BY <1>2, CatalogAssumption

LEMMA PutTemplateKeeps ==
    ASSUME NEW d, NEW e, NEW i, NEW row, Puts(d, e, "templates", i, row), Sound(d),
           TemplateRow(d, row) \/ (row = Gone /\ ~TemplateHeld(d, i))
    PROVE  Sound(e) /\ SystemSame(d, e)
<1>1. "sets" \in DOMAIN d
  BY TablesAre, SoundIs
<1>2. e.sets = d.sets
  BY <1>1 DEF Puts
<1>. QED
  BY <1>2, PutTemplate, SameSets

LEMMA CreatePeerTemplateKeeps ==
    ASSUME NEW d, Sound(d), NEW t \in PeerTemplate, ValidTemplate(t) = t
    PROVE  Kept(d, CreatePeerTemplate(d, t))
<1>1. "templates" \in DOMAIN d /\ DOMAIN d["templates"] \subseteq Nat
  BY SoundIs, TablesAre DEF Tables, SymbolTables
<1> SUFFICES ASSUME CreatePeerTemplate(d, t) # None
             PROVE  Sound(CreatePeerTemplate(d, t)) /\ SystemSame(d, CreatePeerTemplate(d, t))
  BY DEF Kept
<1>2. PoliciesExist(d, t.chain) /\ CreatePeerTemplate(d, t) = Insert(d, "templates", t)
  BY DEF CreatePeerTemplate
<1>3. TemplateRow(d, t)
  BY <1>2 DEF TemplateRow
<1>4. Puts(d, Insert(d, "templates", t), "templates", NextId(d["templates"]), t)
  BY <1>1, <1>2, InsertPuts
<1>. QED
  BY <1>2, <1>3, <1>4, PutTemplateKeeps

\* A peer after an attach, or after a save of its template.
LEMMA RewrittenRow ==
    ASSUME NEW d, Sound(d), NEW p \in Peer, NEW t, TemplateRow(d, t), NEW id \in Live(d.templates)
    PROVE  PeerRow(d, updatePeerShape(ApplyTo(t, id, p)))
<1>1. id \in TemplateIds /\ id # None
  BY TemplateId DEF Live
<1> DEFINE u == updatePeerShape(ApplyTo(t, id, p))
<1>2. u \in Peer /\ Tidy(u) /\ u.tmpl = id /\ u.chain = t.chain
  BY <1>1, Rewritten DEF TemplateRow
<1> HIDE DEF u
<1>3. PeerRow(d, u)
  BY <1>2 DEF PeerRow, TemplateRow, LinkHolds
<1>. QED
  BY <1>3 DEF u

LEMMA RewriteLinkedKeeps ==
    ASSUME NEW d, Sound(d), NEW id \in Live(d.templates)
    PROVE  LET e == RewriteLinked(d, id, d.templates[id])
           IN Sound(e) /\ SystemSame(d, e)
<1> DEFINE t == d.templates[id]
           e == RewriteLinked(d, id, t)
<1>1. TemplateRow(d, t)
  BY SoundIs DEF TemplatesSound
<1>2. "peers" \in DOMAIN d /\ "sets" \in DOMAIN d
  BY SoundIs, TablesAre
<1>3. /\ DOMAIN e = DOMAIN d /\ DOMAIN e.peers = DOMAIN d.peers
      /\ \A x \in DOMAIN d \ {"peers"} : e[x] = d[x]
      /\ \A j \in DOMAIN d.peers :
            e.peers[j] = IF j \in Linked(d, id) THEN updatePeerShape(ApplyTo(t, id, d.peers[j]))
                         ELSE d.peers[j]
  BY <1>2 DEF RewriteLinked
<1> HIDE DEF e, t
<1>4. ASSUME NEW j \in Live(e.peers) PROVE PeerRow(d, e.peers[j])
  <2>1. CASE j \in Linked(d, id)
    <3>1. d.peers[j] \in Peer /\ j \in DOMAIN d.peers
      BY <2>1, SoundIs DEF Linked, PeersSound, PeerRow, Live
    <3>. QED BY <3>1, <2>1, <1>1, <1>3, RewrittenRow
  <2>2. CASE j \notin Linked(d, id)
    <3>1. j \in Live(d.peers) /\ e.peers[j] = d.peers[j]
      BY <2>2, <1>3, <1>4 DEF Live
    <3>. QED BY <3>1, SoundIs DEF PeersSound
  <2>. QED BY <2>1, <2>2
<1>5. Sound(e)
  BY <1>3, <1>4, PeersBecome
<1>6. SystemSame(d, e)
  BY <1>2, <1>3, SameSets
<1>. QED
  BY <1>5, <1>6 DEF e, t

LEMMA SystemSameTwice ==
    ASSUME NEW a, NEW b, NEW c, SystemSame(a, b), SystemSame(b, c)
    PROVE  SystemSame(a, c)
  BY DEF SystemSame

LEMMA UpdatePeerTemplateKeeps ==
    ASSUME NEW d, Sound(d), NEW t \in PeerTemplate, ValidTemplate(t) = t, NEW id
    PROVE  Kept(d, UpdatePeerTemplate(d, id, t))
<1> DEFINE saved == Update(d, "templates", id, t)
<1>1. "templates" \in DOMAIN d
  BY SoundIs, TablesAre
<1> SUFFICES ASSUME UpdatePeerTemplate(d, id, t) # None
             PROVE  /\ Sound(UpdatePeerTemplate(d, id, t))
                    /\ SystemSame(d, UpdatePeerTemplate(d, id, t))
  BY DEF Kept
<1>2. /\ saved # None /\ PoliciesExist(d, t.chain)
      /\ UpdatePeerTemplate(d, id, t) = RewriteLinked(saved, id, t)
  BY DEF UpdatePeerTemplate
<1>3. Puts(d, saved, "templates", id, t)
  BY <1>1, <1>2, UpdatePuts
<1> HIDE DEF saved
<1>0. TemplateRow(d, t)
  BY <1>2 DEF TemplateRow
<1>4. Sound(saved) /\ SystemSame(d, saved)
  BY <1>0, <1>3, PutTemplateKeeps
<1>5. id \in Live(saved.templates) /\ saved.templates[id] = t
  BY <1>3, RowIsThere DEF Puts, Live
<1>6. Sound(RewriteLinked(saved, id, t)) /\ SystemSame(saved, RewriteLinked(saved, id, t))
  BY <1>4, <1>5, RewriteLinkedKeeps
<1>. QED
  BY <1>2, <1>4, <1>6, SystemSameTwice

\* A peer that is attached to a template, or to none.
LEMMA AttachedRow ==
    ASSUME NEW d, Sound(d), NEW p, PeerRow(d, p), NEW id, id = None \/ id \in Live(d.templates)
    PROVE  PeerRow(d, AttachOne(d, id, p))
<1>1. CASE id = None
  <2> DEFINE a == [p EXCEPT !.tmpl = None]
             b == [a EXCEPT !.override = FALSE]
  <2>0. p \in Peer
    BY DEF PeerRow
  <2>1. a \in Peer /\ a.tmpl = None /\ a.shape = p.shape /\ a.chain = p.chain
          /\ a.drained = p.drained
    BY <2>0 DEF Peer
  <2> HIDE DEF a
  <2>2. b \in Peer /\ b.tmpl = None /\ b.shape = p.shape /\ b.chain = p.chain
          /\ b.drained = p.drained /\ b.override = FALSE
    BY <2>1 DEF Peer
  <2> HIDE DEF b
  <2>3. PeerRow(d, b)
    BY <2>2 DEF PeerRow, Tidy, LinkHolds
  <2>. QED BY <1>1, <2>3 DEF AttachOne, a, b
<1>2. CASE id # None
  <2>1. TemplateRow(d, d.templates[id]) /\ id \in Live(d.templates)
    BY <1>2, SoundIs DEF TemplatesSound
  <2>2. [p EXCEPT !.override = FALSE] \in Peer
    BY DEF PeerRow, Peer
  <2>. QED BY <1>2, <2>1, <2>2, RewrittenRow DEF AttachOne
<1>. QED
  BY <1>1, <1>2

LEMMA AttachPeersKeeps ==
    ASSUME NEW d, Sound(d), NEW ids, NEW id
    PROVE  Kept(d, AttachPeers(d, ids, id))
<1> DEFINE e == AttachPeers(d, ids, id)
<1>1. "peers" \in DOMAIN d /\ "sets" \in DOMAIN d
  BY SoundIs, TablesAre
<1> SUFFICES ASSUME e # None PROVE Sound(e) /\ SystemSame(d, e)
  BY DEF Kept
<1>2. ids \subseteq Live(d.peers) /\ (id = None \/ id \in Live(d.templates))
  BY DEF AttachPeers
<1>3. /\ DOMAIN e = DOMAIN d /\ DOMAIN e.peers = DOMAIN d.peers
      /\ \A x \in DOMAIN d \ {"peers"} : e[x] = d[x]
      /\ \A j \in DOMAIN d.peers :
            e.peers[j] = IF j \in ids THEN AttachOne(d, id, d.peers[j]) ELSE d.peers[j]
  BY <1>1, <1>2 DEF AttachPeers
<1> HIDE DEF e
<1>4. ASSUME NEW j \in Live(e.peers) PROVE PeerRow(d, e.peers[j])
  <2>1. CASE j \in ids
    <3>1. PeerRow(d, d.peers[j]) /\ j \in DOMAIN d.peers
      BY <2>1, <1>2, SoundIs DEF PeersSound, Live
    <3>2. e.peers[j] = AttachOne(d, id, d.peers[j])
      BY <2>1, <3>1, <1>3
    <3>. QED BY <3>1, <3>2, <1>2, AttachedRow
  <2>2. CASE j \notin ids
    <3>1. j \in Live(d.peers) /\ e.peers[j] = d.peers[j]
      BY <2>2, <1>3, <1>4 DEF Live
    <3>. QED BY <3>1, SoundIs DEF PeersSound
  <2>. QED BY <2>1, <2>2
<1>5. Sound(e)
  BY <1>3, <1>4, PeersBecome
<1>. QED
  BY <1>1, <1>3, <1>5, SameSets

LEMMA DeletePeerTemplateKeeps ==
    ASSUME NEW d, Sound(d), NEW id
    PROVE  Kept(d, DeletePeerTemplate(d, id))
<1>1. "templates" \in DOMAIN d
  BY SoundIs, TablesAre
<1>2. DeletePeerTemplate(d, id) # None
      => ~TemplateHeld(d, id) /\ DeletePeerTemplate(d, id) = Delete(d, "templates", id)
  BY DEF DeletePeerTemplate, Restricted
<1>. QED
  BY <1>1, <1>2, DeletePuts, PutTemplateKeeps DEF Kept

LEMMA PutPolicyKeeps ==
    ASSUME NEW d, NEW e, NEW i, NEW row, Puts(d, e, "policies", i, row), Sound(d),
           PolicyRow(d, row) \/ (row = Gone /\ ~PolicyHeld(d, i))
    PROVE  Sound(e) /\ SystemSame(d, e)
<1>1. "sets" \in DOMAIN d
  BY TablesAre, SoundIs
<1>2. e.sets = d.sets
  BY <1>1 DEF Puts
<1>. QED
  BY <1>2, PutPolicy, SameSets

LEMMA SavePolicyKeeps ==
    ASSUME NEW d, Sound(d), NEW p \in Policy, OneWay(p), NEW id
    PROVE  Kept(d, CreatePolicy(d, p)) /\ Kept(d, UpdatePolicy(d, id, p))
<1>1. "policies" \in DOMAIN d /\ DOMAIN d["policies"] \subseteq Nat
  BY SoundIs, TablesAre DEF Tables, SymbolTables
<1>2. ASSUME CreatePolicy(d, p) # None
      PROVE  Sound(CreatePolicy(d, p)) /\ SystemSame(d, CreatePolicy(d, p))
  <2>1. PolicyRow(d, p) /\ CreatePolicy(d, p) = Insert(d, "policies", p)
    BY <1>2 DEF CreatePolicy, PolicyRow
  <2>2. Puts(d, Insert(d, "policies", p), "policies", NextId(d["policies"]), p)
    BY <1>1, <1>2, <2>1, InsertPuts
  <2>. QED BY <2>1, <2>2, PutPolicyKeeps
<1>3. ASSUME UpdatePolicy(d, id, p) # None
      PROVE  Sound(UpdatePolicy(d, id, p)) /\ SystemSame(d, UpdatePolicy(d, id, p))
  <2>1. PolicyRow(d, p) /\ UpdatePolicy(d, id, p) = Update(d, "policies", id, p)
    BY <1>3 DEF UpdatePolicy, PolicyRow
  <2>2. Puts(d, Update(d, "policies", id, p), "policies", id, p)
    BY <1>1, <1>3, <2>1, UpdatePuts
  <2>. QED BY <2>1, <2>2, PutPolicyKeeps
<1>. QED
  BY <1>2, <1>3 DEF Kept

LEMMA DeletePolicyKeeps ==
    ASSUME NEW d, Sound(d), NEW id
    PROVE  Kept(d, DeletePolicy(d, id))
<1>1. "policies" \in DOMAIN d
  BY SoundIs, TablesAre
<1>2. DeletePolicy(d, id) # None
      => ~PolicyHeld(d, id) /\ DeletePolicy(d, id) = Delete(d, "policies", id)
  BY DEF DeletePolicy, Restricted
<1>. QED
  BY <1>1, <1>2, DeletePuts, PutPolicyKeeps DEF Kept

LEMMA SetsAreRows ==
    ASSUME NEW d, Sound(d), NEW id \in Live(d.sets)
    PROVE  SetRow(d.sets[id]) /\ "sets" \in DOMAIN d /\ id \in DOMAIN d.sets
  BY SoundIs, TablesAre DEF SetsSound, Live

LEMMA CreatePrefixSetKeeps ==
    ASSUME NEW d, Sound(d), NEW s, SetRow(s), ~s.system
    PROVE  Kept(d, CreatePrefixSet(d, s))
<1> DEFINE i == NextId(d["sets"])
           e == Insert(d, "sets", s)
<1> SUFFICES ASSUME e # None PROVE Sound(e) /\ SystemSame(d, e)
  BY DEF Kept, CreatePrefixSet
<1>1. "sets" \in DOMAIN d /\ DOMAIN d["sets"] \subseteq Nat
  BY SoundIs, TablesAre DEF Tables, SymbolTables
<1>2. Puts(d, e, "sets", i, s) /\ d["sets"][i] = None /\ Named(d["sets"], s.name) = {}
  BY <1>1, InsertPuts
<1> HIDE DEF e, i
<1>3. i \notin Live(d.sets)
  BY <1>2 DEF Live
<1>4. Sound(e)
  BY <1>2, <1>3, PutSet
<1>5. SystemSame(d, e)
  BY <1>2, <1>3 DEF SystemSame, Puts, Live
<1>. QED
  BY <1>4, <1>5

LEMMA UpdatePrefixSetKeeps ==
    ASSUME NEW d, Sound(d), NEW s, SetRow(s), NEW id,
           id \in Live(d.sets) /\ d.sets[id].system =>
               s.name = d.sets[id].name /\ s.family = d.sets[id].family
    PROVE  Kept(d, UpdatePrefixSet(d, id, s))
<1> DEFINE row == [s EXCEPT !.disabled = d.sets[id].disabled, !.system = d.sets[id].system,
                            !.failed = d.sets[id].failed]
           e == Update(d, "sets", id, row)
<1> SUFFICES ASSUME UpdatePrefixSet(d, id, s) # None
             PROVE  Sound(UpdatePrefixSet(d, id, s)) /\ SystemSame(d, UpdatePrefixSet(d, id, s))
  BY DEF Kept
<1>1. id \in Live(d.sets) /\ UpdatePrefixSet(d, id, s) = e
  BY DEF UpdatePrefixSet, affectedOne
<1>2. SetRow(d.sets[id]) /\ "sets" \in DOMAIN d
  BY <1>1, SetsAreRows
<1>3. /\ SetRow(row) /\ row.name = s.name /\ row.family = s.family
      /\ row.system = d.sets[id].system /\ row.disabled = d.sets[id].disabled
  BY <1>2 DEF SetRow, PrefixSet
<1>a. row.system => ~row.disabled
  BY <1>1, <1>3, SoundIs DEF Stored
<1> HIDE DEF row
<1>4. Puts(d, e, "sets", id, row) /\ Named(d["sets"], row.name) \subseteq {id}
  BY <1>1, <1>2, UpdatePuts
<1> HIDE DEF e
<1>5. Sound(e)
  BY <1>1, <1>3, <1>4, <1>a, PutSet
<1>6. SystemSame(d, e)
  BY <1>1, <1>3, <1>4 DEF SystemSame, Puts, Live
<1>. QED
  BY <1>1, <1>5, <1>6

LEMMA DeletePrefixSetKeeps ==
    ASSUME NEW d, Sound(d), NEW id
    PROVE  Kept(d, DeletePrefixSet(d, id))
<1> DEFINE e == DeletePrefixSet(d, id)
<1> SUFFICES ASSUME e # None PROVE Sound(e) /\ SystemSame(d, e)
  BY DEF Kept
<1>1. ~d.sets[id].system /\ ~SetHeld(d, id) /\ e = Delete(d, "sets", id)
  BY DEF DeletePrefixSet, Restricted
<1>2. "sets" \in DOMAIN d
  BY SoundIs, TablesAre
<1>3. Puts(d, e, "sets", id, Gone)
  BY <1>1, <1>2, DeletePuts
<1> HIDE DEF e
<1>4. Sound(e)
  BY <1>1, <1>3, PutSet
<1>5. SystemSame(d, e)
  BY <1>3 DEF SystemSame, Puts, Live
<1>. QED
  BY <1>4, <1>5

\* A set whose name, family and kind stay; what it holds may be replaced.
SetTouched(d, e, id, entries) ==
    \E row : /\ id \in Live(d.sets) /\ Puts(d, e, "sets", id, row) /\ SetRow(row)
             /\ row.name = d.sets[id].name /\ row.family = d.sets[id].family
             /\ row.system = d.sets[id].system /\ (row.system => ~row.disabled)
             /\ row.entries \in {d.sets[id].entries, entries}

LEMMA SetTouchedKeeps ==
    ASSUME NEW d, Sound(d), NEW e, NEW id, NEW entries, SetTouched(d, e, id, entries)
    PROVE  Sound(e) /\ SystemSame(d, e)
<1>1. PICK row : /\ id \in Live(d.sets) /\ Puts(d, e, "sets", id, row) /\ SetRow(row)
                 /\ row.name = d.sets[id].name /\ row.family = d.sets[id].family
                 /\ row.system = d.sets[id].system /\ (row.system => ~row.disabled)
  BY DEF SetTouched
<1>2. Named(d.sets, row.name) \subseteq {id}
  BY <1>1, SoundIs DEF Named, Stored
<1>3. Sound(e)
  BY <1>1, <1>2, PutSet
<1>4. SystemSame(d, e)
  BY <1>1 DEF SystemSame, Puts, Live
<1>. QED
  BY <1>3, <1>4

LEMMA SetPrefixSetDisabledPuts ==
    ASSUME NEW d, Sound(d), NEW id, NEW off \in BOOLEAN, SetPrefixSetDisabled(d, id, off) # None
    PROVE  SetTouched(d, SetPrefixSetDisabled(d, id, off), id, {})
<1> DEFINE s == d.sets[id]
           row == [s EXCEPT !.disabled = off]
           e == SetPrefixSetDisabled(d, id, off)
<1>1. id \in Live(d.sets) /\ ~s.system /\ e = [d EXCEPT !.sets[id].disabled = off]
  BY DEF SetPrefixSetDisabled, affectedOne
<1>2. SetRow(s) /\ "sets" \in DOMAIN d /\ id \in DOMAIN d["sets"]
  BY <1>1, SetsAreRows
<1>3. /\ SetRow(row) /\ row.name = s.name /\ row.family = s.family /\ row.system = s.system
      /\ row.entries = s.entries
  <2> HIDE DEF s
  <2>. QED BY <1>2 DEF SetRow, PrefixSet
<1>4. e = [d EXCEPT !["sets"][id] = row]
  BY <1>1, <1>2
<1> HIDE DEF e, row
<1>5. Puts(d, e, "sets", id, row)
  BY <1>2, <1>4, PutRow
<1>6. SetTouched(d, e, id, {})
  BY <1>1, <1>3, <1>5 DEF SetTouched
<1>. QED
  BY <1>6 DEF e

LEMMA SetPrefixSetDisabledKeeps ==
    ASSUME NEW d, Sound(d), NEW id, NEW off \in BOOLEAN
    PROVE  Kept(d, SetPrefixSetDisabled(d, id, off))
  BY SetPrefixSetDisabledPuts, SetTouchedKeeps DEF Kept

\* What bgpq4 answers changes what a set holds, or only what is noted of the refresh.
LEMMA refreshOneSetPuts ==
    ASSUME NEW d, Sound(d), NEW id, NEW copy, NEW got, copy.entries # {},
           got = None \/ got \subseteq V4 \cup V6
    PROVE  LET e == refreshOneSet(d, id, copy, got)
           IN e = d \/ SetTouched(d, e, id, got)
<1> DEFINE e == refreshOneSet(d, id, copy, got)
           s == d.sets[id]
<1>0. CASE id \notin Live(d.sets)
  BY <1>0 DEF refreshOneSet, MarkPrefixSetRefreshError, MarkPrefixSetRefreshed,
             RefreshPrefixSetEntries, affectedOne
<1>a. CASE id \in Live(d.sets)
  <2>1. SetRow(s) /\ "sets" \in DOMAIN d /\ id \in DOMAIN d["sets"] /\ (s.system => ~s.disabled)
    BY <1>a, SetsAreRows, SoundIs DEF Stored
  <2>2. ASSUME NEW flag \in BOOLEAN, e = [d EXCEPT !.sets[id].failed = flag]
        PROVE  SetTouched(d, e, id, got)
    <3> DEFINE row == [s EXCEPT !.failed = flag]
    <3>1. /\ SetRow(row) /\ row.name = s.name /\ row.family = s.family /\ row.system = s.system
          /\ row.entries = s.entries /\ row.disabled = s.disabled
      <4> HIDE DEF s
      <4>. QED BY <2>1 DEF SetRow, PrefixSet
    <3>2. e = [d EXCEPT !["sets"][id] = row]
      BY <2>1, <2>2
    <3> HIDE DEF e, row
    <3>3. Puts(d, e, "sets", id, row)
      BY <2>1, <3>2, PutRow
    <3>. QED BY <1>a, <2>1, <3>1, <3>3 DEF SetTouched
  <2>3. ASSUME got # None, got # {}, e = RefreshPrefixSetEntries(d, id, got)
        PROVE  SetTouched(d, e, id, got)
    <3> DEFINE part == [s EXCEPT !.entries = got]
               row == [part EXCEPT !.failed = FALSE]
    <3>1. /\ SetRow(row) /\ row.name = s.name /\ row.family = s.family /\ row.system = s.system
          /\ row.entries = got /\ row.disabled = s.disabled
      <4> HIDE DEF s
      <4>1. /\ SetRow(part) /\ part.name = s.name /\ part.family = s.family
            /\ part.system = s.system /\ part.entries = got /\ part.disabled = s.disabled
        BY <2>1, <2>3 DEF SetRow, PrefixSet
      <4> HIDE DEF part
      <4>. QED BY <4>1 DEF SetRow, PrefixSet
    <3>2. e = [d EXCEPT !["sets"][id] = row]
      BY <1>a, <2>1, <2>3 DEF RefreshPrefixSetEntries, affectedOne
    <3> HIDE DEF e, row
    <3>3. Puts(d, e, "sets", id, row)
      BY <2>1, <3>2, PutRow
    <3>. QED BY <1>a, <2>1, <3>1, <3>3 DEF SetTouched
  <2>. QED
    BY <1>a, <2>2, <2>3 DEF refreshOneSet, RefusesEmpty, MarkPrefixSetRefreshError,
                            MarkPrefixSetRefreshed, affectedOne
<1>. QED
  BY <1>0, <1>a

LEMMA refreshOneSetKeeps ==
    ASSUME NEW d, Sound(d), NEW id, NEW copy, NEW got, copy.entries # {},
           got = None \/ got \subseteq V4 \cup V6
    PROVE  LET e == refreshOneSet(d, id, copy, got)
           IN Sound(e) /\ SystemSame(d, e)
  BY refreshOneSetPuts, SetTouchedKeeps, SameSets

\* A row in a table that is not the prefix sets' leaves those alone.
LEMMA PutBesideSets ==
    ASSUME NEW d, NEW e, NEW tb, NEW i, NEW row, Puts(d, e, tb, i, row), Sound(d), tb # "sets"
    PROVE  SystemSame(d, e)
<1>1. e.sets = d.sets
  BY TablesAre, SoundIs DEF Puts
<1>. QED
  BY <1>1, SameSets

LEMMA SaveASSetKeeps ==
    ASSUME NEW d, Sound(d), NEW s, ASSetRow(s), NEW id
    PROVE  Kept(d, CreateASSet(d, s)) /\ Kept(d, UpdateASSet(d, id, s))
<1>1. "asSets" \in DOMAIN d /\ DOMAIN d["asSets"] \subseteq Nat
  BY SoundIs, TablesAre DEF Tables, SymbolTables
<1>2. ASSUME CreateASSet(d, s) # None
      PROVE  Sound(CreateASSet(d, s)) /\ SystemSame(d, CreateASSet(d, s))
  <2>1. Puts(d, Insert(d, "asSets", s), "asSets", NextId(d["asSets"]), s)
    BY <1>1, <1>2, InsertPuts DEF CreateASSet
  <2>. QED BY <2>1, PutASSet, PutBesideSets DEF CreateASSet
<1>3. ASSUME UpdateASSet(d, id, s) # None
      PROVE  Sound(UpdateASSet(d, id, s)) /\ SystemSame(d, UpdateASSet(d, id, s))
  <2> DEFINE row == [s EXCEPT !.failed = d.asSets[id].failed]
  <2>1. id \in Live(d.asSets) /\ UpdateASSet(d, id, s) = Update(d, "asSets", id, row)
    BY <1>3 DEF UpdateASSet, affectedOne
  <2>2. ASSetRow(d.asSets[id])
    BY <2>1, SoundIs DEF ASSetsSound
  <2>3. ASSetRow(row)
    BY <2>2 DEF ASSetRow, ASSet
  <2> HIDE DEF row
  <2>4. Puts(d, Update(d, "asSets", id, row), "asSets", id, row)
    BY <1>1, <1>3, <2>1, UpdatePuts
  <2>. QED BY <2>1, <2>3, <2>4, PutASSet, PutBesideSets
<1>. QED
  BY <1>2, <1>3 DEF Kept

LEMMA DeleteASSetKeeps ==
    ASSUME NEW d, Sound(d), NEW id
    PROVE  Kept(d, DeleteASSet(d, id))
<1>1. "asSets" \in DOMAIN d
  BY SoundIs, TablesAre
<1>2. DeleteASSet(d, id) # None
      => ~OriginHolds(d, id) /\ DeleteASSet(d, id) = Delete(d, "asSets", id)
  BY DEF DeleteASSet, Restricted
<1>. QED
  BY <1>1, <1>2, DeletePuts, PutASSet, PutBesideSets DEF Kept

\* An AS set whose name stays.
ASSetTouched(d, e, id) ==
    \E row : /\ id \in Live(d.asSets) /\ Puts(d, e, "asSets", id, row) /\ ASSetRow(row)
             /\ row.name = d.asSets[id].name

LEMMA refreshOneASSetPuts ==
    ASSUME NEW d, Sound(d), NEW id, NEW copy \in ASSet, NEW got \in ExpandedASNs
    PROVE  LET e == refreshOneASSet(d, id, copy, got)
           IN e = d \/ ASSetTouched(d, e, id)
<1> DEFINE e == refreshOneASSet(d, id, copy, got)
           s == d.asSets[id]
<1>0. CASE id \notin Live(d.asSets)
  BY <1>0 DEF refreshOneASSet, MarkASSetRefreshError, MarkASSetRefreshed,
             RefreshASSetEntries, affectedOne
<1>a. CASE id \in Live(d.asSets)
  <2>1. ASSetRow(s) /\ "asSets" \in DOMAIN d /\ id \in DOMAIN d["asSets"] /\ id \in DOMAIN d.asSets
    BY <1>a, SoundIs, TablesAre DEF ASSetsSound, Live
  <2>2. ASSUME NEW row, ASSetRow(row), row.name = s.name, e = [d EXCEPT !["asSets"][id] = row]
        PROVE  ASSetTouched(d, e, id)
    <3>1. Puts(d, [d EXCEPT !["asSets"][id] = row], "asSets", id, row)
      BY <2>1, PutRow
    <3> HIDE DEF e
    <3>. QED BY <1>a, <2>2, <3>1 DEF ASSetTouched
  <2>3. ASSUME NEW flag \in BOOLEAN, e = [d EXCEPT !.asSets[id].failed = flag]
        PROVE  ASSetTouched(d, e, id)
    <3> DEFINE row == [s EXCEPT !.failed = flag]
    <3>1. ASSetRow(row) /\ row.name = s.name
      <4> HIDE DEF s
      <4>. QED BY <2>1 DEF ASSetRow, ASSet
    <3>2. e = [d EXCEPT !["asSets"][id] = row]
      BY <2>1, <2>3
    <3> HIDE DEF row, e
    <3>. QED BY <3>1, <3>2, <2>2
  <2>4. ASSUME got \notin {None, {}}, e = RefreshASSetEntries(d, id, got, CarriedNotes(copy, got))
        PROVE  ASSetTouched(d, e, id)
    <3> DEFINE a == [s EXCEPT !.members = got]
               b == [a EXCEPT !.notes = CarriedNotes(copy, got)]
               row == [b EXCEPT !.failed = FALSE]
    <3>1. ASSetRow(a) /\ a.name = s.name
      <4> HIDE DEF s
      <4>. QED BY <2>1, <2>4 DEF ASSetRow, ASSet, ExpandedASNs
    <3>2. ASSetRow(b) /\ b.name = s.name
      <4> HIDE DEF a
      <4>. QED BY <3>1 DEF ASSetRow, ASSet, CarriedNotes
    <3>3. ASSetRow(row) /\ row.name = s.name
      <4> HIDE DEF b
      <4>. QED BY <3>2 DEF ASSetRow, ASSet
    <3>4. e = [d EXCEPT !["asSets"][id] = row]
      <4> DEFINE notes == CarriedNotes(copy, got)
                 d1 == [d EXCEPT !.asSets[id].members = got]
                 d2 == [d1 EXCEPT !.asSets[id].notes = notes]
                 d3 == [d2 EXCEPT !.asSets[id].failed = FALSE]
      <4>1. e = d3
        BY <1>a, <2>4, Zenon DEF RefreshASSetEntries, affectedOne
      <4>2. d1 = [d EXCEPT !["asSets"][id] = a]
        BY <2>1
      <4> HIDE DEF a, b, e
      <4>3. d2 = [d EXCEPT !["asSets"][id] = b]
        BY <2>1, <4>2 DEF b
      <4> HIDE DEF d1, d2
      <4>4. d3 = [d EXCEPT !["asSets"][id] = row]
        BY <2>1, <4>3
      <4>. QED BY <4>1, <4>4
    <3> HIDE DEF row, e
    <3>. QED BY <3>3, <3>4, <2>2
  <2>. QED
    BY <1>a, <2>3, <2>4 DEF refreshOneASSet, MarkASSetRefreshError, MarkASSetRefreshed,
                            affectedOne
<1>. QED
  BY <1>0, <1>a

LEMMA refreshOneASSetKeeps ==
    ASSUME NEW d, Sound(d), NEW id, NEW copy \in ASSet, NEW got \in ExpandedASNs
    PROVE  LET e == refreshOneASSet(d, id, copy, got)
           IN Sound(e) /\ SystemSame(d, e)
<1> DEFINE e == refreshOneASSet(d, id, copy, got)
<1>1. e = d \/ ASSetTouched(d, e, id)
  BY refreshOneASSetPuts
<1> HIDE DEF e
<1>2. ASSUME ASSetTouched(d, e, id) PROVE Sound(e) /\ SystemSame(d, e)
  BY <1>2, PutASSet, PutBesideSets DEF ASSetTouched
<1>3. Sound(e) /\ SystemSame(d, e)
  BY <1>1, <1>2, SameSets
<1>. QED
  BY <1>3 DEF e

LEMMA ElsewhereKeeps ==
    ASSUME NEW d, Sound(d), NEW tb \in {"communities", "servers", "stations", "routes"},
           NEW id, NEW row
    PROVE  /\ Kept(d, Insert(d, tb, row))
           /\ Kept(d, Update(d, tb, id, row))
           /\ Kept(d, Delete(d, tb, id))
<1>1. tb \in DOMAIN d /\ DOMAIN d[tb] \subseteq Nat
  BY SoundIs, TablesAre DEF Tables, SymbolTables
<1>2. ASSUME NEW e, NEW i, NEW x, Puts(d, e, tb, i, x)
      PROVE  Sound(e) /\ SystemSame(d, e)
  BY <1>2, PutElsewhere, PutBesideSets
<1>3. Insert(d, tb, row) # None => Puts(d, Insert(d, tb, row), tb, NextId(d[tb]), row)
  BY <1>1, InsertPuts
<1>4. Update(d, tb, id, row) # None => Puts(d, Update(d, tb, id, row), tb, id, row)
  BY <1>1, UpdatePuts
<1>5. Delete(d, tb, id) # None => Puts(d, Delete(d, tb, id), tb, id, Gone)
  BY <1>1, DeletePuts
<1>. QED
  BY <1>2, <1>3, <1>4, <1>5 DEF Kept

LEMMA SettingsKeep ==
    ASSUME NEW d, Sound(d), NEW tb \in {"router", "bogons"}, NEW x
    PROVE  Kept(d, [d EXCEPT ![tb] = x])
<1> DEFINE e == [d EXCEPT ![tb] = x]
<1>1. Stored(e) /\ \A y \in Tables : e[y] = d[y]
  BY SoundIs, NoTable
<1> HIDE DEF e
<1>2. /\ e.peers = d.peers /\ e.templates = d.templates /\ e.policies = d.policies
      /\ e.sets = d.sets /\ e.asSets = d.asSets
  BY <1>1 DEF Tables, SymbolTables
<1>3. Sound(e) /\ SystemSame(d, e)
  BY <1>1, <1>2, ElsewhereSound, SameSets
<1>. QED
  BY <1>3 DEF Kept, e

LEMMA LinkSourceKeeps ==
    ASSUME NEW d, Sound(d), NEW from, NEW id
    PROVE  Kept(d, LinkSource(d, from, id))
<1>1. Kept(d, d)
  BY DEF Kept, SystemSame
<1>. QED
  BY <1>1, AttachPeersKeeps DEF LinkSource, LinkPeerToTemplate

\* The bogon set of a family is the one set of that name.
LEMMA BogonSetIs ==
    ASSUME NEW d, Sound(d), NEW f \in Families
    PROVE  LET i == CHOOSE s \in Named(d.sets, BogonSet(f)) : TRUE
           IN /\ i \in Live(d.sets) /\ SetRow(d.sets[i])
              /\ d.sets[i].name = BogonSet(f) /\ d.sets[i].family = f
<1>1. PICK k \in Named(d.sets, BogonSet(f)) : d.sets[k].system /\ d.sets[k].family = f
  BY SoundIs DEF Stored
<1> DEFINE i == CHOOSE s \in Named(d.sets, BogonSet(f)) : TRUE
<1>2. i \in Named(d.sets, BogonSet(f))
  BY <1>1
<1> HIDE DEF i
<1>3. i = k
  BY <1>1, <1>2, SoundIs DEF Named, Stored
<1>4. i \in Live(d.sets) /\ d.sets[i].name = BogonSet(f) /\ d.sets[i].family = f
  BY <1>1, <1>2, <1>3 DEF Named
<1>5. SetRow(d.sets[i])
  BY <1>4, SetsAreRows
<1>. QED
  BY <1>4, <1>5 DEF i

LEMMA SaveBogonSetKeeps ==
    ASSUME NEW d, Sound(d), NEW f \in Families, NEW s, SetRow(s), s.name = BogonSet(f),
           s.family = f
    PROVE  Kept(d, UpdatePrefixSet(d, CHOOSE i \in Named(d.sets, BogonSet(f)) : TRUE, s))
<1> DEFINE id == CHOOSE i \in Named(d.sets, BogonSet(f)) : TRUE
<1>1. d.sets[id].name = BogonSet(f) /\ d.sets[id].family = f
  BY BogonSetIs
<1> HIDE DEF id
<1>2. Kept(d, UpdatePrefixSet(d, id, s))
  BY <1>1, UpdatePrefixSetKeeps
<1>. QED
  BY <1>2 DEF id

-----------------------------------------------------------------------------
(* What a request holds.                                                    *)

Is(x, op, tb) == x.call.op = op /\ x.call.tb = tb

IsRequest(x) ==
    /\ DOMAIN x = {"call", "at", "id", "row", "fresh"}
    /\ x.fresh \in BOOLEAN
    /\ WellFormed(x.call)

BogonsIn(row) ==
    \A f \in Families : /\ SetRow(row.sets[f])
                        /\ row.sets[f].name = BogonSet(f) /\ row.sets[f].family = f
                        /\ row.sets[f].entries \subseteq Prefixes(f)

\* A row that was read, or came with the form, is of its kind; one that was checked is also
\* such as the check lets through.
HoldsRow(x) ==
    /\ Is(x, "save", "peers") => x.row \in Peer /\ (x.at = "check" \/ Tidy(x.row))
    /\ Is(x, "toggle", "peers") => x.row \in Peer
    /\ Is(x, "save", "templates") =>
          x.row \in PeerTemplate /\ (x.at = "check" \/ ValidTemplate(x.row) = x.row)
    /\ Is(x, "save", "policies") => x.row \in Policy /\ (x.at = "check" \/ OneWay(x.row))
    /\ Is(x, "save", "sets") =>
          /\ x.row \in PrefixSet /\ (x.at = "check" \/ ValidPrefixSet(x.row))
          /\ x.id = None => ~x.row.system
    /\ Is(x, "toggle", "sets") => x.row \in PrefixSet
    /\ Is(x, "save", "asSets") => x.row \in ASSet /\ (x.at = "check" \/ ValidASSet(x.row))
    /\ Is(x, "refresh", "asSets") => x.row \in ASSet
    /\ Is(x, "bogons", "bogons") => BogonsIn(x.row)

\* The form of a system set has its name and its family.
KeepsItsName(d, x) ==
    Is(x, "save", "sets") /\ x.id # None /\ x.id \in Live(d.sets) /\ d.sets[x.id].system =>
        x.row.name = d.sets[x.id].name /\ x.row.family = d.sets[x.id].family

Held(d, x) == IsRequest(x) /\ HoldsRow(x) /\ KeepsItsName(d, x)

\* What the IRR loop has read.
IsLoop(l) ==
    /\ DOMAIN l = {"at", "todo", "fresh"}
    /\ l.fresh \in BOOLEAN
    /\ \A s \in l.todo :
          /\ s = [id |-> s.id, row |-> s.row]
          /\ l.at = "sets" => SetRow(s.row)
          /\ l.at = "asSets" => s.row \in ASSet

\* What holds whatever runs at the same time.
SafeInv ==
    /\ Sound(db) /\ \A c \in calls : WellFormed(c)
    /\ DOMAIN req = Requests
    /\ \A q \in Requests : req[q] # None => Held(db, req[q])
    /\ IsLoop(irr)

\* The same request at another place, with another id and row.
Moves(x, y, at, id, row) ==
    /\ IsRequest(y) /\ y.call = x.call /\ y.fresh = x.fresh
    /\ y.at = at /\ y.id = id /\ y.row = row

LEMMA Moved ==
    ASSUME NEW x, IsRequest(x), NEW at, NEW v
    PROVE  /\ Moves(x, [x EXCEPT !.at = at, !.row = v], at, x.id, v)
           /\ Moves(x, [x EXCEPT !.at = at, !.id = v], at, v, x.row)
  BY DEF IsRequest, Moves

LEMMA OutrunRequest ==
    ASSUME NEW x, IsRequest(x), NEW changed \in BOOLEAN
    PROVE  LET y == Outrun(x, changed)
           IN /\ IsRequest(y) /\ y.call = x.call /\ y.id = x.id /\ y.at = x.at /\ y.row = x.row
              /\ y.fresh => x.fresh /\ (x # None => ~changed)
<1>1. CASE Outrun(x, changed) = x /\ (x # None => ~changed)
  BY <1>1
<1>2. CASE Outrun(x, changed) = [x EXCEPT !.fresh = FALSE]
  BY <1>2 DEF IsRequest
<1>. QED
  BY <1>1, <1>2 DEF Outrun

LEMMA OutrunHeld ==
    ASSUME NEW d, NEW e, SystemSame(d, e), NEW x, Held(d, x), NEW changed \in BOOLEAN
    PROVE  Held(e, Outrun(x, changed))
<1> DEFINE y == Outrun(x, changed)
<1>1. IsRequest(y) /\ y.call = x.call /\ y.id = x.id /\ y.at = x.at /\ y.row = x.row
  BY OutrunRequest DEF Held
<1> HIDE DEF y
<1>2. HoldsRow(y) /\ KeepsItsName(e, y)
  BY <1>1 DEF Held, HoldsRow, Is, KeepsItsName, SystemSame
<1>. QED
  BY <1>1, <1>2 DEF Held, y

LEMMA OutrunLoop ==
    ASSUME NEW l, IsLoop(l), NEW changed \in BOOLEAN
    PROVE  IsLoop(Outrun(l, changed))
<1>1. IsLoop([l EXCEPT !.fresh = FALSE])
  BY DEF IsLoop
<1>. QED
  BY <1>1 DEF Outrun

-----------------------------------------------------------------------------
(* The three steps of a request.                                            *)

LEMMA LooksSafe ==
    ASSUME SafeInv, NEW r \in Requests, NEW c \in calls, NEW id, NEW row, NEW next,
           Looks(r, c, id, row, next),
           HoldsRow([call |-> c, at |-> next, id |-> id, row |-> row, fresh |-> TRUE]),
           KeepsItsName(db, [call |-> c, at |-> next, id |-> id, row |-> row, fresh |-> TRUE])
    PROVE  SafeInv'
<1> DEFINE x == [call |-> c, at |-> next, id |-> id, row |-> row, fresh |-> TRUE]
<1>1. /\ req' = [req EXCEPT ![r] = x]
      /\ db' = db /\ calls' = calls /\ irr' = irr
  BY DEF Looks
<1>2. IsRequest(x)
  BY DEF IsRequest, SafeInv
<1> HIDE DEF x
<1>3. Held(db, x)
  BY <1>2 DEF Held, x
<1>4. ASSUME NEW q \in Requests, req'[q] # None PROVE Held(db, req'[q])
  BY <1>1, <1>3, <1>4 DEF SafeInv
<1>. QED
  BY <1>1, <1>4 DEF SafeInv

LEMMA DecidesSafe ==
    ASSUME SafeInv, NEW r \in Requests, req[r] # None, NEW ok, NEW row,
           Decides(r, ok, row),
           \A y : y.call = req[r].call /\ y.id = req[r].id /\ y.at = "write" /\ y.row = row /\ ok
                     => HoldsRow(y) /\ KeepsItsName(db, y)
    PROVE  SafeInv'
<1> DEFINE y == [req[r] EXCEPT !.at = "write", !.row = row]
<1>1. /\ req' = [req EXCEPT ![r] = IF ok THEN y ELSE None]
      /\ db' = db /\ calls' = calls /\ irr' = irr
  BY DEF Decides
<1>2. Moves(req[r], y, "write", req[r].id, row)
  <2>1. IsRequest(req[r])
    BY DEF SafeInv, Held
  <2>. QED BY <2>1, Moved
<1> HIDE DEF y
<1>3. ok => Held(db, y)
  BY <1>2 DEF Held, Moves
<1>4. ASSUME NEW q \in Requests, req'[q] # None PROVE Held(db, req'[q])
  BY <1>1, <1>3, <1>4 DEF SafeInv
<1>. QED
  BY <1>1, <1>4 DEF SafeInv

LEMMA ChecksSafe ==
    ASSUME SafeInv, NEW r \in Requests, req[r] # None, NEW ok, NEW row,
           Checks(r, ok, row),
           \A y : y.call = req[r].call /\ y.id = req[r].id /\ y.at = "write" /\ y.row = row /\ ok
                     => HoldsRow(y) /\ KeepsItsName(db, y)
    PROVE  SafeInv'
  BY DecidesSafe DEF Checks

\* A form that names communities is taken or not; what it names is there or is remembered.
LEMMA NamesDecided ==
    ASSUME NEW r, NEW ok, NEW fields, NEW row, ChecksNames(r, ok, fields, row)
    PROVE  \E given \in BOOLEAN :
              /\ Decides(r, given, row) /\ (given => ok)
              /\ loose \subseteq loose'
              /\ given => UNION fields \subseteq CommunityNames(db) \cup loose'
<1>1. PICK read \in SUBSET fields :
          LET given == ok /\ \A names \in read : checkCommunityRefs(db, names)
          IN /\ Decides(r, given, row)
             /\ loose' = IF given THEN loose \cup ((UNION fields) \ CommunityNames(db)) ELSE loose
  BY DEF ChecksNames
<1> DEFINE given == ok /\ \A names \in read : checkCommunityRefs(db, names)
<1>2. given \in BOOLEAN /\ (given => ok)
  OBVIOUS
<1>3. /\ Decides(r, given, row)
      /\ loose' = IF given THEN loose \cup ((UNION fields) \ CommunityNames(db)) ELSE loose
  BY <1>1
<1> HIDE DEF given
<1>4. /\ loose \subseteq loose'
      /\ given => UNION fields \subseteq CommunityNames(db) \cup loose'
  <2> DEFINE named == UNION fields
  <2>1. loose' = IF given THEN loose \cup (named \ CommunityNames(db)) ELSE loose
    BY <1>3
  <2> HIDE DEF named
  <2>2. loose \subseteq loose' /\ (given => named \subseteq CommunityNames(db) \cup loose')
    BY <2>1, Zenon
  <2>. QED BY <2>2 DEF named
<1>. QED
  BY <1>2, <1>3, <1>4

LEMMA WritesSafe ==
    ASSUME SafeInv, NEW r \in Requests, req[r] # None, NEW d, NEW next,
           Writes(r, d, next), Kept(db, d),
           \A y : y.call = req[r].call /\ y.at = next /\ y.row = req[r].row
                     /\ y.id = IdSaved(req[r]) /\ d # None /\ next # "done"
                        => HoldsRow(y) /\ KeepsItsName(d, y)
    PROVE  SafeInv'
<1> DEFINE y == Saved(r, d, next)
           changed == d \notin {None, db}
<1>1. /\ db' = IF d = None THEN db ELSE d
      /\ req' = [q \in Requests |-> IF q = r THEN y ELSE Outrun(req[q], changed)]
      /\ irr' = Outrun(irr, changed) /\ calls' = calls
  BY DEF Writes
<1>2. y # None => Held(d, y) /\ d # None
  <2> SUFFICES ASSUME d # None, next # "done" PROVE Held(d, y)
    BY DEF Saved
  <2>1. y = [req[r] EXCEPT !.at = next, !.id = IdSaved(req[r])]
    BY DEF Saved
  <2>2. Moves(req[r], y, next, IdSaved(req[r]), req[r].row)
    <3>1. IsRequest(req[r])
      BY DEF SafeInv, Held
    <3>2. Moves(req[r], [req[r] EXCEPT !.at = next, !.id = IdSaved(req[r])],
                next, IdSaved(req[r]), req[r].row)
      BY <3>1, Moved
    <3>. QED BY <2>1, <3>2
  <2> HIDE DEF y
  <2>. QED BY <2>2 DEF Held, Moves
<1>3. Sound(db') /\ SystemSame(db, db')
  BY <1>1 DEF Kept, SafeInv, SystemSame
<1> HIDE DEF y, changed
<1>4. changed \in BOOLEAN
  BY DEF changed
<1>5. ASSUME NEW q \in Requests, req'[q] # None PROVE Held(db', req'[q])
  <2>1. CASE q = r
    BY <2>1, <1>1, <1>2, <1>5
  <2>2. CASE q # r /\ req[q] # None
    BY <2>2, <1>1, <1>3, <1>4, OutrunHeld DEF SafeInv
  <2>3. CASE q # r /\ req[q] = None
    BY <2>3, <1>1, <1>5 DEF Outrun
  <2>. QED BY <2>1, <2>2, <2>3
<1>6. IsLoop(irr')
  BY <1>1, <1>4, OutrunLoop DEF SafeInv
<1>. QED
  BY <1>1, <1>3, <1>5, <1>6 DEF SafeInv

LEMMA ExpandsSafe ==
    ASSUME SafeInv, NEW next, NEW d, Expands(next, d), Sound(d), SystemSame(db, d),
           \A f \in BOOLEAN : IsLoop([next EXCEPT !.fresh = f])
    PROVE  SafeInv'
<1> DEFINE changed == d # db
<1>1. /\ db' = d /\ irr' = [next EXCEPT !.fresh = irr.fresh]
      /\ req' = [q \in Requests |-> Outrun(req[q], changed)] /\ calls' = calls
  BY DEF Expands
<1> HIDE DEF changed
<1>2. changed \in BOOLEAN
  BY DEF changed
<1>3. ASSUME NEW q \in Requests, req'[q] # None PROVE Held(db', req'[q])
  <2>1. CASE req[q] # None
    BY <2>1, <1>1, <1>2, OutrunHeld DEF SafeInv
  <2>2. CASE req[q] = None
    BY <2>2, <1>1, <1>3 DEF Outrun
  <2>. QED BY <2>1, <2>2
<1>. QED
  BY <1>1, <1>3 DEF SafeInv, IsLoop

\* What a request holds is asked of it only by some calls.
Plain(c) ==
    \/ c.op \in {"delete", "attach", "identity", "raw"}
    \/ c.tb \in {"communities", "servers", "stations", "routes"}

LEMMA PlainHolds ==
    ASSUME NEW x, Plain(x.call), NEW d
    PROVE  HoldsRow(x) /\ KeepsItsName(d, x)
  BY DEF Plain, HoldsRow, KeepsItsName, Is

LEMMA PlainLooks ==
    ASSUME SafeInv, NEW r \in Requests, NEW c \in calls, NEW id, NEW row, NEW next,
           Looks(r, c, id, row, next), Plain(c)
    PROVE  SafeInv'
  BY PlainHolds, LooksSafe

LEMMA PlainChecks ==
    ASSUME SafeInv, NEW r \in Requests, req[r] # None, NEW ok, NEW row,
           Checks(r, ok, row), Plain(req[r].call)
    PROVE  SafeInv'
<1>1. \A y : y.call = req[r].call => HoldsRow(y) /\ KeepsItsName(db, y)
  BY PlainHolds
<1>. QED
  BY <1>1, ChecksSafe

LEMMA LastWrites ==
    ASSUME SafeInv, NEW r \in Requests, req[r] # None, NEW d,
           Writes(r, d, "done"), Kept(db, d)
    PROVE  SafeInv'
  BY WritesSafe

LEMMA SafeRows ==
    ASSUME SafeInv
    PROVE  /\ Sound(db) /\ Stored(db) /\ PeersSound(db) /\ TemplatesSound(db)
           /\ PoliciesSound(db) /\ SetsSound(db) /\ ASSetsSound(db)
  BY SoundIs DEF SafeInv

LEMMA TargetIs ==
    ASSUME SafeInv, NEW c, c.tb \in Tables, NEW id \in Target(c)
    PROVE  \/ id = None /\ c.name = None
           \/ id # None /\ id \in Live(db[c.tb])
<1>1. DOMAIN db[c.tb] \subseteq Nat
  BY SafeRows DEF Stored
<1>. QED
  BY <1>1, CatalogAssumption DEF Target, namedEntity, Named, Live

LEMMA AtHolds ==
    ASSUME SafeInv, NEW r \in Requests, NEW at, NEW op, NEW tb, At(r, at, op, tb)
    PROVE  /\ req[r] # None /\ Is(req[r], op, tb) /\ req[r].at = at
           /\ HoldsRow(req[r]) /\ KeepsItsName(db, req[r])
  BY DEF SafeInv, Held, At, Is

-----------------------------------------------------------------------------
(* Peers.                                                                   *)

LEMMA HoldsPeer ==
    ASSUME NEW x, Is(x, "save", "peers"), x.row \in Peer, x.at = "check" \/ Tidy(x.row), NEW d
    PROVE  HoldsRow(x) /\ KeepsItsName(d, x)
  BY DEF HoldsRow, KeepsItsName, Is

LEMMA EffectivePeerIs ==
    ASSUME NEW d, Sound(d), NEW p \in Peer, LinkHolds(d, p)
    PROVE  EffectivePeer(d, p) \in Peer /\ Tidy(EffectivePeer(d, p))
<1>1. applyTemplate(d, p) \in Peer
  <2>1. CASE p.tmpl = None
    BY <2>1 DEF applyTemplate
  <2>2. CASE p.tmpl # None
    <3>1. p.tmpl \in Live(d.templates) /\ p.tmpl \in TemplateIds
      BY <2>2, TemplateId DEF LinkHolds, Live
    <3>2. d.templates[p.tmpl] \in PeerTemplate
      BY <3>1, SoundIs DEF TemplatesSound, TemplateRow
    <3>. QED BY <2>2, <3>1, <3>2, ApplyToIs DEF applyTemplate
  <2>. QED BY <2>1, <2>2
<1>. QED
  BY <1>1, ValidPeerIs DEF EffectivePeer

LEMMA PeerSaveSafe ==
    ASSUME SafeInv, NEW r \in Requests, handlePeerSave(r)
    PROVE  SafeInv'
<1>1. CASE \E c \in Asked("save", "peers") : \E id \in Target(c) :
               Looks(r, c, id, KeepSecret(id, c.form), "check")
  <2>0. PICK c \in Asked("save", "peers") : \E id \in Target(c) :
            Looks(r, c, id, KeepSecret(id, c.form), "check")
    BY <1>1
  <2>1. PICK id \in Target(c) : Looks(r, c, id, KeepSecret(id, c.form), "check")
    BY <2>0
  <2>2. c \in calls /\ c.op = "save" /\ c.tb = "peers"
    BY DEF Asked
  <2>3. c.form \in Peer
    BY <2>2 DEF SafeInv, WellFormed
  <2>4. KeepSecret(id, c.form) \in Peer
    <3>1. CASE id = None
      BY <2>3, <3>1 DEF KeepSecret
    <3>2. CASE id # None
      <4>1. id \in Live(db.peers)
        BY <3>2, <2>2, TargetIs DEF Tables, SymbolTables
      <4>2. db.peers[id].secret \in BOOLEAN
        BY <4>1, SafeRows DEF PeersSound, PeerRow, Peer
      <4>. QED BY <2>3, <3>2, <4>2 DEF KeepSecret, Peer
    <3>. QED BY <3>1, <3>2
  <2> DEFINE x == [call |-> c, at |-> "check", id |-> id, row |-> KeepSecret(id, c.form),
                   fresh |-> TRUE]
  <2>5. HoldsRow(x) /\ KeepsItsName(db, x)
    <3>1. x.call = c /\ x.at = "check" /\ x.row = KeepSecret(id, c.form)
      OBVIOUS
    <3> HIDE DEF x
    <3>. QED BY <2>2, <2>4, <3>1, HoldsPeer DEF Is
  <2>. QED BY <2>1, <2>2, <2>5, LooksSafe
<1>2. CASE /\ At(r, "check", "save", "peers")
           /\ LET p == EffectivePeer(db, req[r].row)
              IN ChecksNames(r, PeerAccepted(db, p), CommunityFields(p.shape), p)
  <2> DEFINE p == EffectivePeer(db, req[r].row)
  <2>1. req[r] # None /\ Is(req[r], "save", "peers") /\ req[r].row \in Peer
    BY <1>2, AtHolds DEF HoldsRow
  <2>2. PeerAccepted(db, p) => p \in Peer /\ Tidy(p)
    <3>1. ASSUME PeerAccepted(db, p) PROVE LinkHolds(db, req[r].row)
      BY <3>1 DEF PeerAccepted, EffectivePeer
    <3>. QED BY <2>1, <3>1, SafeRows, EffectivePeerIs
  <2>3. ChecksNames(r, PeerAccepted(db, p), CommunityFields(p.shape), p)
    BY <1>2
  <2> HIDE DEF p
  <2>4. PICK given \in BOOLEAN : Decides(r, given, p) /\ (given => PeerAccepted(db, p))
    BY <2>3, NamesDecided
  <2>5. \A y : y.call = req[r].call /\ y.row = p /\ given
                 => HoldsRow(y) /\ KeepsItsName(db, y)
    BY <2>1, <2>2, <2>4, HoldsPeer DEF Is
  <2>. QED BY <2>1, <2>4, <2>5, DecidesSafe
<1>3. CASE /\ At(r, "write", "save", "peers")
           /\ Writes(r, IF IsNew(r) THEN CreatePeer(db, req[r].row)
                                    ELSE UpdatePeer(db, req[r].id, req[r].row), "second")
           /\ UNCHANGED loose
  <2> DEFINE d == IF IsNew(r) THEN CreatePeer(db, req[r].row)
                              ELSE UpdatePeer(db, req[r].id, req[r].row)
  <2>1. /\ req[r] # None /\ Is(req[r], "save", "peers")
        /\ req[r].row \in Peer /\ Tidy(req[r].row)
    BY <1>3, AtHolds DEF HoldsRow
  <2>2. Kept(db, d)
    BY <2>1, SafeRows, CreatePeerKeeps, UpdatePeerKeeps
  <2>3. Writes(r, d, "second")
    BY <1>3
  <2> HIDE DEF d
  <2>4. \A y : y.call = req[r].call /\ y.row = req[r].row => HoldsRow(y) /\ KeepsItsName(d, y)
    BY <2>1, HoldsPeer DEF Is
  <2>. QED BY <2>1, <2>2, <2>3, <2>4, WritesSafe
<1>4. CASE /\ At(r, "second", "save", "peers")
           /\ Writes(r, SetPeerPolicies(db, req[r].id, req[r].row.chain), "done")
           /\ UNCHANGED loose
  <2>1. req[r] # None /\ req[r].row.chain \in Chain
    BY <1>4, AtHolds DEF HoldsRow, Peer
  <2>. QED BY <1>4, <2>1, SafeRows, SetPeerPoliciesKeeps, LastWrites
<1>. QED
  BY <1>1, <1>2, <1>3, <1>4 DEF handlePeerSave

LEMMA PeerDeleteSafe ==
    ASSUME SafeInv, NEW r \in Requests, handlePeerDelete(r)
    PROVE  SafeInv'
<1>1. ASSUME NEW c \in Asked("delete", "peers"), NEW id, Looks(r, c, id, None, "write")
      PROVE  SafeInv'
  BY <1>1, PlainLooks DEF Asked, Plain
<1>2. CASE At(r, "write", "delete", "peers") /\ Writes(r, DeletePeer(db, req[r].id), "done")
  BY <1>2, AtHolds, SafeRows, DeletePeerKeeps, LastWrites
<1>. QED
  BY <1>1, <1>2 DEF handlePeerDelete

LEMMA PeerToggleSafe ==
    ASSUME SafeInv, NEW r \in Requests, handlePeerToggle(r)
    PROVE  SafeInv'
<1>1. ASSUME NEW c \in Asked("toggle", "peers"), NEW id \in Target(c),
             Looks(r, c, id, db.peers[id], "write")
      PROVE  SafeInv'
  <2> DEFINE x == [call |-> c, at |-> "write", id |-> id, row |-> db.peers[id], fresh |-> TRUE]
  <2>1. c \in calls /\ c.op = "toggle" /\ c.tb = "peers"
    BY DEF Asked
  <2>2. db.peers[id] \in Peer
    <3>1. c.name # None
      BY <2>1 DEF SafeInv, WellFormed
    <3>2. id \in Live(db.peers)
      BY <2>1, <3>1, TargetIs DEF Tables, SymbolTables
    <3>. QED BY <3>2, SafeRows DEF PeersSound, PeerRow
  <2>3. HoldsRow(x) /\ KeepsItsName(db, x)
    BY <2>1, <2>2 DEF HoldsRow, KeepsItsName, Is
  <2>. QED BY <1>1, <2>1, <2>3, LooksSafe
<1>2. CASE /\ At(r, "write", "toggle", "peers")
           /\ Writes(r, SetPeerEnabled(db, req[r].id, ~req[r].row.enabled), "done")
  <2>1. req[r] # None /\ (~req[r].row.enabled) \in BOOLEAN
    BY <1>2, AtHolds DEF HoldsRow, Peer
  <2>. QED BY <1>2, <2>1, SafeRows, SetPeerEnabledKeeps, LastWrites
<1>. QED
  BY <1>1, <1>2 DEF handlePeerToggle

LEMMA PeersAttachSafe ==
    ASSUME SafeInv, NEW r \in Requests, handlePeersAttach(r)
    PROVE  SafeInv'
<1>1. ASSUME NEW c \in Asked("attach", "peers"), NEW id, NEW ids, Looks(r, c, id, ids, "write")
      PROVE  SafeInv'
  BY <1>1, PlainLooks DEF Asked, Plain
<1>2. CASE /\ At(r, "write", "attach", "peers")
           /\ Writes(r, AttachPeers(db, req[r].row, req[r].id), "done")
  BY <1>2, AtHolds, SafeRows, AttachPeersKeeps, LastWrites
<1>. QED
  BY <1>1, <1>2 DEF handlePeersAttach

-----------------------------------------------------------------------------
(* Templates and policies.                                                  *)

LEMMA HoldsTemplate ==
    ASSUME NEW x, Is(x, "save", "templates"), x.row \in PeerTemplate,
           x.at = "check" \/ ValidTemplate(x.row) = x.row, NEW d
    PROVE  HoldsRow(x) /\ KeepsItsName(d, x)
  BY DEF HoldsRow, KeepsItsName, Is

LEMMA ValidTemplateIs ==
    ASSUME NEW t \in PeerTemplate
    PROVE  ValidTemplate(t) \in PeerTemplate /\ ValidTemplate(ValidTemplate(t)) = ValidTemplate(t)
<1> DEFINE v == [t EXCEPT !.shape = validateShape(t.shape)]
<1>1. v = ValidTemplate(t)
  BY Zenon DEF ValidTemplate
<1>2. t.shape \in Shape
  BY DEF PeerTemplate
<1>3. v \in PeerTemplate /\ v.shape = validateShape(t.shape)
  BY <1>2, ValidShape DEF PeerTemplate
<1> HIDE DEF v
<1>4. IsFun(v)
  BY <1>3 DEF IsFun, PeerTemplate
<1>5. [v EXCEPT !.shape = validateShape(v.shape)] = v
  BY <1>2, <1>3, <1>4, ValidShapeTwice, SameAgain
<1>6. ValidTemplate(v) = [v EXCEPT !.shape = validateShape(v.shape)]
  BY Zenon DEF ValidTemplate
<1>. QED
  BY <1>1, <1>3, <1>5, <1>6

LEMMA TemplateSaveSafe ==
    ASSUME SafeInv, NEW r \in Requests, handlePeerTemplateSave(r)
    PROVE  SafeInv'
<1>1. ASSUME NEW c \in Asked("save", "templates"), NEW id, Looks(r, c, id, c.form, "check")
      PROVE  SafeInv'
  <2> DEFINE x == [call |-> c, at |-> "check", id |-> id, row |-> c.form, fresh |-> TRUE]
  <2>1. c \in calls /\ c.op = "save" /\ c.tb = "templates"
    BY DEF Asked
  <2>2. c.form \in PeerTemplate
    BY <2>1 DEF SafeInv, WellFormed
  <2>3. HoldsRow(x) /\ KeepsItsName(db, x)
    <3>1. x.call = c /\ x.at = "check" /\ x.row = c.form
      OBVIOUS
    <3> HIDE DEF x
    <3>. QED BY <2>1, <2>2, <3>1, HoldsTemplate DEF Is
  <2>. QED BY <1>1, <2>1, <2>3, LooksSafe
<1>2. CASE /\ At(r, "check", "save", "templates")
           /\ LET t == ValidTemplate(req[r].row)
              IN ChecksNames(r, TemplateAccepted(db, t), CommunityFields(t.shape), t)
  <2> DEFINE t == ValidTemplate(req[r].row)
  <2>1. req[r] # None /\ Is(req[r], "save", "templates") /\ req[r].row \in PeerTemplate
    BY <1>2, AtHolds DEF HoldsRow
  <2>2. t \in PeerTemplate /\ ValidTemplate(t) = t
    BY <2>1, ValidTemplateIs
  <2>3. ChecksNames(r, TemplateAccepted(db, t), CommunityFields(t.shape), t)
    BY <1>2
  <2> HIDE DEF t
  <2>4. PICK given \in BOOLEAN : Decides(r, given, t)
    BY <2>3, NamesDecided
  <2>5. \A y : y.call = req[r].call /\ y.row = t => HoldsRow(y) /\ KeepsItsName(db, y)
    BY <2>1, <2>2, HoldsTemplate DEF Is
  <2>. QED BY <2>1, <2>4, <2>5, DecidesSafe
<1>3. CASE /\ At(r, "write", "save", "templates")
           /\ IF IsNew(r)
              THEN Writes(r, CreatePeerTemplate(db, req[r].row),
                          IF req[r].call.link = None THEN "done" ELSE "second")
              ELSE Writes(r, UpdatePeerTemplate(db, req[r].id, req[r].row), "done")
  <2>1. /\ req[r] # None /\ Is(req[r], "save", "templates")
        /\ req[r].row \in PeerTemplate /\ ValidTemplate(req[r].row) = req[r].row
    BY <1>3, AtHolds DEF HoldsRow
  <2>2. \A d, y : y.call = req[r].call /\ y.row = req[r].row => HoldsRow(y) /\ KeepsItsName(d, y)
    BY <2>1, HoldsTemplate DEF Is
  <2>3. CASE IsNew(r)
    <3>1. PICK next : Writes(r, CreatePeerTemplate(db, req[r].row), next)
      BY <1>3, <2>3
    <3>2. Kept(db, CreatePeerTemplate(db, req[r].row))
      BY <2>1, SafeRows, CreatePeerTemplateKeeps
    <3>. QED BY <2>1, <2>2, <3>1, <3>2, WritesSafe
  <2>4. CASE ~IsNew(r)
    <3>1. Writes(r, UpdatePeerTemplate(db, req[r].id, req[r].row), "done")
      BY <1>3, <2>4
    <3>. QED BY <2>1, <3>1, SafeRows, UpdatePeerTemplateKeeps, LastWrites
  <2>. QED BY <2>3, <2>4
<1>4. CASE /\ At(r, "second", "save", "templates")
           /\ Writes(r, LinkSource(db, req[r].call.link, req[r].id), "done")
  BY <1>4, AtHolds, SafeRows, LinkSourceKeeps, LastWrites
<1>. QED
  BY <1>1, <1>2, <1>3, <1>4 DEF handlePeerTemplateSave

LEMMA TemplateDeleteSafe ==
    ASSUME SafeInv, NEW r \in Requests, handlePeerTemplateDelete(r)
    PROVE  SafeInv'
<1>1. ASSUME NEW c \in Asked("delete", "templates"), NEW id, Looks(r, c, id, None, "write")
      PROVE  SafeInv'
  BY <1>1, PlainLooks DEF Asked, Plain
<1>2. CASE /\ At(r, "write", "delete", "templates")
           /\ Writes(r, DeletePeerTemplate(db, req[r].id), "done")
  BY <1>2, AtHolds, SafeRows, DeletePeerTemplateKeeps, LastWrites
<1>. QED
  BY <1>1, <1>2 DEF handlePeerTemplateDelete

LEMMA HoldsPolicy ==
    ASSUME NEW x, Is(x, "save", "policies"), x.row \in Policy,
           x.at = "check" \/ OneWay(x.row), NEW d
    PROVE  HoldsRow(x) /\ KeepsItsName(d, x)
  BY DEF HoldsRow, KeepsItsName, Is

LEMMA ZeroRulesAre == ZeroRules \in Rules
  BY DEF ZeroRules, Rules, Lengths

LEMMA ValidPolicyIs ==
    ASSUME NEW p \in Policy
    PROVE  ValidPolicy(p) \in Policy /\ OneWay(ValidPolicy(p))
<1>1. CASE p.dir = "import"
  <2> DEFINE a == [p EXCEPT !.announce = {}]
             b == [a EXCEPT !.sources = {}]
  <2>1. a \in Policy /\ a.announce = {} /\ a.dir = "import"
    BY <1>1 DEF Policy
  <2> HIDE DEF a
  <2>2. b \in Policy /\ b.announce = {} /\ b.sources = {} /\ b.dir = "import"
    BY <2>1 DEF Policy
  <2>3. ValidPolicy(p) = b
    BY <1>1, Zenon DEF ValidPolicy, zeroExportFields, a
  <2> HIDE DEF b
  <2>. QED BY <2>2, <2>3 DEF OneWay
<1>2. CASE p.dir # "import"
  <2> DEFINE a == [p EXCEPT !.allow = None]
             b == [a EXCEPT !.origin = None]
             c == [b EXCEPT !.rov = "off"]
             e == [c EXCEPT !.rules = ZeroRules]
  <2>1. a \in Policy /\ a.allow = None /\ a.dir # "import"
    BY <1>2 DEF Policy
  <2> HIDE DEF a
  <2>2. b \in Policy /\ b.allow = None /\ b.origin = None /\ b.dir # "import"
    BY <2>1 DEF Policy
  <2> HIDE DEF b
  <2>3. c \in Policy /\ c.allow = None /\ c.origin = None /\ c.rov = "off" /\ c.dir # "import"
    BY <2>2 DEF Policy
  <2> HIDE DEF c
  <2>4. e \in Policy /\ e.allow = None /\ e.origin = None /\ e.rov = "off"
          /\ e.rules = ZeroRules /\ e.dir # "import"
    BY <2>3, ZeroRulesAre DEF Policy
  <2>5. ValidPolicy(p) = e
    BY <1>2, Zenon DEF ValidPolicy, zeroImportFields, a, b, c
  <2> HIDE DEF e
  <2>. QED BY <2>4, <2>5 DEF OneWay
<1>. QED
  BY <1>1, <1>2

LEMMA PolicySaveSafe ==
    ASSUME SafeInv, NEW r \in Requests, handlePolicySave(r)
    PROVE  SafeInv'
<1>1. ASSUME NEW c \in Asked("save", "policies"), NEW id \in Target(c),
             Looks(r, c, id, KeepDirection(id, c.form), "check")
      PROVE  SafeInv'
  <2> DEFINE row == KeepDirection(id, c.form)
             x == [call |-> c, at |-> "check", id |-> id, row |-> row, fresh |-> TRUE]
  <2>1. c \in calls /\ c.op = "save" /\ c.tb = "policies"
    BY DEF Asked
  <2>2. c.form \in Policy
    BY <2>1 DEF SafeInv, WellFormed
  <2>3. row \in Policy
    <3>1. CASE id = None
      BY <2>2, <3>1 DEF KeepDirection
    <3>2. CASE id # None
      <4>1. id \in Live(db.policies)
        BY <3>2, <2>1, TargetIs DEF Tables, SymbolTables
      <4>2. db.policies[id].dir \in {"import", "export"}
        BY <4>1, SafeRows DEF PoliciesSound, PolicyRow, Policy
      <4>. QED BY <2>2, <3>2, <4>2 DEF KeepDirection, Policy
    <3>. QED BY <3>1, <3>2
  <2> HIDE DEF row
  <2>4. HoldsRow(x) /\ KeepsItsName(db, x)
    <3>1. x.call = c /\ x.at = "check" /\ x.row = row
      OBVIOUS
    <3> HIDE DEF x
    <3>. QED BY <2>1, <2>3, <3>1, HoldsPolicy DEF Is
  <2>. QED BY <1>1, <2>1, <2>4, LooksSafe DEF row
<1>2. CASE /\ At(r, "check", "save", "policies")
           /\ LET p == ValidPolicy(req[r].row)
              IN ChecksNames(r, PolicyAccepted(p), {{p.comm} \ {None}}, p)
  <2> DEFINE p == ValidPolicy(req[r].row)
  <2>1. req[r] # None /\ Is(req[r], "save", "policies") /\ req[r].row \in Policy
    BY <1>2, AtHolds DEF HoldsRow
  <2>2. p \in Policy /\ OneWay(p)
    BY <2>1, ValidPolicyIs
  <2>3. ChecksNames(r, PolicyAccepted(p), {{p.comm} \ {None}}, p)
    BY <1>2
  <2> HIDE DEF p
  <2>4. PICK given \in BOOLEAN : Decides(r, given, p)
    BY <2>3, NamesDecided
  <2>5. \A y : y.call = req[r].call /\ y.row = p => HoldsRow(y) /\ KeepsItsName(db, y)
    BY <2>1, <2>2, HoldsPolicy DEF Is
  <2>. QED BY <2>1, <2>4, <2>5, DecidesSafe
<1>3. CASE /\ At(r, "write", "save", "policies")
           /\ Writes(r, IF IsNew(r) THEN CreatePolicy(db, req[r].row)
                                    ELSE UpdatePolicy(db, req[r].id, req[r].row), "done")
  <2>1. req[r] # None /\ req[r].row \in Policy /\ OneWay(req[r].row)
    BY <1>3, AtHolds DEF HoldsRow
  <2>. QED BY <1>3, <2>1, SafeRows, SavePolicyKeeps, LastWrites
<1>. QED
  BY <1>1, <1>2, <1>3 DEF handlePolicySave

LEMMA PolicyDeleteSafe ==
    ASSUME SafeInv, NEW r \in Requests, handlePolicyDelete(r)
    PROVE  SafeInv'
<1>1. ASSUME NEW c \in Asked("delete", "policies"), NEW id, Looks(r, c, id, None, "write")
      PROVE  SafeInv'
  BY <1>1, PlainLooks DEF Asked, Plain
<1>2. CASE /\ At(r, "write", "delete", "policies")
           /\ Writes(r, DeletePolicy(db, req[r].id), "done")
  BY <1>2, AtHolds, SafeRows, DeletePolicyKeeps, LastWrites
<1>. QED
  BY <1>1, <1>2 DEF handlePolicyDelete

-----------------------------------------------------------------------------
(* Prefix sets and AS sets.                                                 *)

LEMMA KeepSystemIs ==
    ASSUME SafeInv, NEW c, c.tb = "sets", NEW id \in Target(c), c.form \in PrefixSet,
           c.name = None => ~c.form.system
    PROVE  LET s == KeepSystem(id, c.form)
           IN /\ s \in PrefixSet
              /\ id = None => ~s.system
              /\ id \in Live(db.sets) /\ db.sets[id].system =>
                    s.name = db.sets[id].name /\ s.family = db.sets[id].family
<1>1. \/ id = None /\ c.name = None /\ id \notin Live(db.sets)
      \/ id # None /\ id \in Live(db.sets)
  <2>1. id = None => id \notin Live(db.sets)
    BY SafeRows, TablesAre, CatalogAssumption DEF Live, Tables, SymbolTables, Stored
  <2>. QED BY <2>1, TargetIs DEF Tables, SymbolTables
<1>2. CASE id = None
  BY <1>1, <1>2 DEF KeepSystem
<1>3. CASE id # None /\ ~db.sets[id].system
  BY <1>3 DEF KeepSystem
<1>4. CASE id # None /\ db.sets[id].system
  <2> DEFINE old == db.sets[id]
             a == [c.form EXCEPT !.name = old.name]
             b == [a EXCEPT !.family = old.family]
             s == [b EXCEPT !.originate = FALSE]
  <2>1. old.name \in Names /\ old.family \in Families
    BY <1>1, <1>4, SafeRows DEF SetsSound, SetRow, PrefixSet
  <2>2. s = KeepSystem(id, c.form)
    BY <1>4, Zenon DEF KeepSystem
  <2> HIDE DEF old
  <2>3. a \in PrefixSet /\ a.name = old.name
    BY <2>1 DEF PrefixSet
  <2> HIDE DEF a
  <2>4. b \in PrefixSet /\ b.name = old.name /\ b.family = old.family
    BY <2>1, <2>3 DEF PrefixSet
  <2> HIDE DEF b
  <2>5. s \in PrefixSet /\ s.name = old.name /\ s.family = old.family
    BY <2>4 DEF PrefixSet
  <2> HIDE DEF s
  <2>. QED BY <1>4, <2>2, <2>5 DEF old
<1>. QED
  BY <1>2, <1>3, <1>4

LEMMA PrefixSetSaveSafe ==
    ASSUME SafeInv, NEW r \in Requests, handlePrefixSetSave(r)
    PROVE  SafeInv'
<1>1. ASSUME NEW c \in Asked("save", "sets"), NEW id \in Target(c),
             Looks(r, c, id, KeepSystem(id, c.form), "check")
      PROVE  SafeInv'
  <2> DEFINE row == KeepSystem(id, c.form)
             x == [call |-> c, at |-> "check", id |-> id, row |-> row, fresh |-> TRUE]
  <2>1. c \in calls /\ c.op = "save" /\ c.tb = "sets"
    BY DEF Asked
  <2>2. c.form \in PrefixSet /\ (c.name = None => ~c.form.system)
    BY <2>1 DEF SafeInv, WellFormed
  <2>3. /\ row \in PrefixSet /\ (id = None => ~row.system)
        /\ id \in Live(db.sets) /\ db.sets[id].system =>
              row.name = db.sets[id].name /\ row.family = db.sets[id].family
    BY <2>1, <2>2, KeepSystemIs
  <2> HIDE DEF row
  <2>4. HoldsRow(x) /\ KeepsItsName(db, x)
    <3>1. x.call = c /\ x.at = "check" /\ x.row = row /\ x.id = id
      OBVIOUS
    <3> HIDE DEF x
    <3>. QED BY <2>1, <2>3, <3>1 DEF HoldsRow, KeepsItsName, Is
  <2>. QED BY <1>1, <2>1, <2>4, LooksSafe DEF row
<1>2. CASE /\ At(r, "check", "save", "sets")
           /\ LET s == req[r].row
              IN Checks(r, ValidPrefixSet(s) /\ ~refuseTemplateName(db, s.name), s)
  <2> DEFINE s == req[r].row
             ok == ValidPrefixSet(s) /\ ~refuseTemplateName(db, s.name)
  <2>1. /\ req[r] # None /\ Is(req[r], "save", "sets") /\ s \in PrefixSet
        /\ req[r].id = None => ~s.system
        /\ KeepsItsName(db, req[r])
    BY <1>2, AtHolds DEF HoldsRow
  <2>2. Checks(r, ok, s) /\ (ok => ValidPrefixSet(s))
    BY <1>2
  <2> HIDE DEF ok
  <2>3. \A y : y.call = req[r].call /\ y.id = req[r].id /\ y.row = s /\ ok
                 => HoldsRow(y) /\ KeepsItsName(db, y)
    BY <2>1, <2>2 DEF HoldsRow, KeepsItsName, Is
  <2>. QED BY <2>1, <2>2, <2>3, ChecksSafe
<1>3. CASE /\ At(r, "write", "save", "sets")
           /\ Writes(r, IF IsNew(r) THEN CreatePrefixSet(db, req[r].row)
                                    ELSE UpdatePrefixSet(db, req[r].id, req[r].row), "done")
  <2>1. /\ req[r] # None /\ Is(req[r], "save", "sets") /\ SetRow(req[r].row)
        /\ req[r].id = None => ~req[r].row.system
        /\ KeepsItsName(db, req[r])
    BY <1>3, AtHolds DEF HoldsRow, SetRow, ValidPrefixSet
  <2>2. CASE IsNew(r)
    BY <1>3, <2>1, <2>2, SafeRows, CreatePrefixSetKeeps, LastWrites DEF IsNew
  <2>3. CASE ~IsNew(r)
    <3>1. Kept(db, UpdatePrefixSet(db, req[r].id, req[r].row))
      BY <2>1, <2>3, SafeRows, UpdatePrefixSetKeeps DEF IsNew, KeepsItsName
    <3>. QED BY <1>3, <2>1, <2>3, <3>1, LastWrites
  <2>. QED BY <2>2, <2>3
<1>. QED
  BY <1>1, <1>2, <1>3 DEF handlePrefixSetSave

LEMMA PrefixSetToggleSafe ==
    ASSUME SafeInv, NEW r \in Requests, handlePrefixSetToggle(r)
    PROVE  SafeInv'
<1>1. ASSUME NEW c \in Asked("toggle", "sets"), NEW id \in Target(c),
             Looks(r, c, id, db.sets[id], "write")
      PROVE  SafeInv'
  <2> DEFINE x == [call |-> c, at |-> "write", id |-> id, row |-> db.sets[id], fresh |-> TRUE]
  <2>1. c \in calls /\ c.op = "toggle" /\ c.tb = "sets"
    BY DEF Asked
  <2>2. db.sets[id] \in PrefixSet
    <3>1. c.name # None
      BY <2>1 DEF SafeInv, WellFormed
    <3>2. id \in Live(db.sets)
      BY <2>1, <3>1, TargetIs DEF Tables, SymbolTables
    <3>. QED BY <3>2, SafeRows DEF SetsSound, SetRow
  <2>3. HoldsRow(x) /\ KeepsItsName(db, x)
    BY <2>1, <2>2 DEF HoldsRow, KeepsItsName, Is
  <2>. QED BY <1>1, <2>1, <2>3, LooksSafe
<1>2. CASE /\ At(r, "write", "toggle", "sets")
           /\ Writes(r, SetPrefixSetDisabled(db, req[r].id, ~req[r].row.disabled), "done")
  <2>1. req[r] # None /\ (~req[r].row.disabled) \in BOOLEAN
    BY <1>2, AtHolds DEF HoldsRow, PrefixSet
  <2>. QED BY <1>2, <2>1, SafeRows, SetPrefixSetDisabledKeeps, LastWrites
<1>. QED
  BY <1>1, <1>2 DEF handlePrefixSetToggle

LEMMA PrefixSetDeleteSafe ==
    ASSUME SafeInv, NEW r \in Requests, handlePrefixSetDelete(r)
    PROVE  SafeInv'
<1>1. ASSUME NEW c \in Asked("delete", "sets"), NEW id, Looks(r, c, id, None, "write")
      PROVE  SafeInv'
  BY <1>1, PlainLooks DEF Asked, Plain
<1>2. CASE /\ At(r, "write", "delete", "sets")
           /\ Writes(r, DeletePrefixSet(db, req[r].id), "done")
  BY <1>2, AtHolds, SafeRows, DeletePrefixSetKeeps, LastWrites
<1>. QED
  BY <1>1, <1>2 DEF handlePrefixSetDelete

LEMMA ASSetSaveSafe ==
    ASSUME SafeInv, NEW r \in Requests, handleASSetSave(r)
    PROVE  SafeInv'
<1>1. ASSUME NEW c \in Asked("save", "asSets"), NEW id, Looks(r, c, id, c.form, "check")
      PROVE  SafeInv'
  <2> DEFINE x == [call |-> c, at |-> "check", id |-> id, row |-> c.form, fresh |-> TRUE]
  <2>1. c \in calls /\ c.op = "save" /\ c.tb = "asSets"
    BY DEF Asked
  <2>2. c.form \in ASSet
    BY <2>1 DEF SafeInv, WellFormed
  <2>3. HoldsRow(x) /\ KeepsItsName(db, x)
    BY <2>1, <2>2 DEF HoldsRow, KeepsItsName, Is
  <2>. QED BY <1>1, <2>1, <2>3, LooksSafe
<1>2. CASE /\ At(r, "check", "save", "asSets")
           /\ LET s == req[r].row
              IN Checks(r, ValidASSet(s) /\ ~refuseTemplateName(db, s.name), s)
  <2> DEFINE s == req[r].row
             ok == ValidASSet(s) /\ ~refuseTemplateName(db, s.name)
  <2>1. req[r] # None /\ Is(req[r], "save", "asSets") /\ s \in ASSet
    BY <1>2, AtHolds DEF HoldsRow
  <2>2. Checks(r, ok, s) /\ (ok => ValidASSet(s))
    BY <1>2
  <2> HIDE DEF ok
  <2>3. \A y : y.call = req[r].call /\ y.row = s /\ ok => HoldsRow(y) /\ KeepsItsName(db, y)
    BY <2>1, <2>2 DEF HoldsRow, KeepsItsName, Is
  <2>. QED BY <2>1, <2>2, <2>3, ChecksSafe
<1>3. CASE /\ At(r, "write", "save", "asSets")
           /\ Writes(r, IF IsNew(r) THEN CreateASSet(db, req[r].row)
                                    ELSE UpdateASSet(db, req[r].id, req[r].row), "done")
  <2>1. req[r] # None /\ ASSetRow(req[r].row)
    BY <1>3, AtHolds DEF HoldsRow, ASSetRow, ValidASSet
  <2>. QED BY <1>3, <2>1, SafeRows, SaveASSetKeeps, LastWrites
<1>. QED
  BY <1>1, <1>2, <1>3 DEF handleASSetSave

LEMMA ASSetDeleteSafe ==
    ASSUME SafeInv, NEW r \in Requests, handleASSetDelete(r)
    PROVE  SafeInv'
<1>1. ASSUME NEW c \in Asked("delete", "asSets"), NEW id, Looks(r, c, id, None, "write")
      PROVE  SafeInv'
  BY <1>1, PlainLooks DEF Asked, Plain
<1>2. CASE /\ At(r, "write", "delete", "asSets")
           /\ Writes(r, DeleteASSet(db, req[r].id), "done")
  BY <1>2, AtHolds, SafeRows, DeleteASSetKeeps, LastWrites
<1>. QED
  BY <1>1, <1>2 DEF handleASSetDelete

LEMMA ASSetRefreshSafe ==
    ASSUME SafeInv, NEW r \in Requests, handleASSetRefresh(r)
    PROVE  SafeInv'
<1>1. ASSUME NEW c \in Asked("refresh", "asSets"), NEW id \in Target(c),
             Looks(r, c, id, db.asSets[id], "write")
      PROVE  SafeInv'
  <2> DEFINE x == [call |-> c, at |-> "write", id |-> id, row |-> db.asSets[id], fresh |-> TRUE]
  <2>1. c \in calls /\ c.op = "refresh" /\ c.tb = "asSets"
    BY DEF Asked
  <2>2. db.asSets[id] \in ASSet
    <3>1. c.name # None
      BY <2>1 DEF SafeInv, WellFormed
    <3>2. id \in Live(db.asSets)
      BY <2>1, <3>1, TargetIs DEF Tables, SymbolTables
    <3>. QED BY <3>2, SafeRows DEF ASSetsSound, ASSetRow
  <2>3. HoldsRow(x) /\ KeepsItsName(db, x)
    BY <2>1, <2>2 DEF HoldsRow, KeepsItsName, Is
  <2>. QED BY <1>1, <2>1, <2>3, LooksSafe
<1>2. ASSUME At(r, "write", "refresh", "asSets"), NEW got \in ExpandedASNs,
             Writes(r, refreshOneASSet(db, req[r].id, req[r].row, got), "done")
      PROVE  SafeInv'
  <2>1. req[r] # None /\ req[r].row \in ASSet
    BY <1>2, AtHolds DEF HoldsRow
  <2>2. Kept(db, refreshOneASSet(db, req[r].id, req[r].row, got))
    BY <2>1, SafeRows, refreshOneASSetKeeps DEF Kept
  <2>. QED BY <1>2, <2>1, <2>2, LastWrites
<1>. QED
  BY <1>1, <1>2 DEF handleASSetRefresh

-----------------------------------------------------------------------------
(* Rows no other names by its id, and settings.                             *)

LEMMA CommunitySafe ==
    ASSUME SafeInv, NEW r \in Requests, handleCommunitySave(r) \/ handleCommunityDelete(r)
    PROVE  SafeInv'
<1>1. ASSUME NEW c \in calls, c.tb = "communities", NEW id, NEW row, NEW next,
             Looks(r, c, id, row, next)
      PROVE  SafeInv'
  BY <1>1, PlainLooks DEF Plain
<1>2. ASSUME NEW op, At(r, "check", op, "communities"), NEW ok, NEW row, Checks(r, ok, row)
      PROVE  SafeInv'
  BY <1>2, PlainChecks DEF Plain, At
<1>3. ASSUME NEW op, At(r, "write", op, "communities"), NEW d, Kept(db, d), Writes(r, d, "done")
      PROVE  SafeInv'
  BY <1>3, LastWrites DEF At
<1>4. \A id, row : /\ Kept(db, CreateCommunityDef(db, row))
                   /\ Kept(db, UpdateCommunityDef(db, id, row))
                   /\ Kept(db, DeleteCommunityDef(db, id))
  BY SafeRows, ElsewhereKeeps DEF CreateCommunityDef, UpdateCommunityDef, DeleteCommunityDef
<1>. QED
  BY <1>1, <1>2, <1>3, <1>4 DEF handleCommunitySave, handleCommunityDelete, Asked

LEMMA RPKISafe ==
    ASSUME SafeInv, NEW r \in Requests, handleRPKISave(r) \/ handleRPKIDelete(r)
    PROVE  SafeInv'
<1>1. ASSUME NEW c \in calls, c.tb = "servers", NEW id, NEW row, NEW next,
             Looks(r, c, id, row, next)
      PROVE  SafeInv'
  BY <1>1, PlainLooks DEF Plain
<1>2. ASSUME NEW op, At(r, "check", op, "servers"), NEW ok, NEW row, Checks(r, ok, row)
      PROVE  SafeInv'
  BY <1>2, PlainChecks DEF Plain, At
<1>3. ASSUME NEW op, At(r, "write", op, "servers"), NEW d, Kept(db, d), Writes(r, d, "done")
      PROVE  SafeInv'
  BY <1>3, LastWrites DEF At
<1>4. \A id, row : /\ Kept(db, CreateRPKIServer(db, row))
                   /\ Kept(db, UpdateRPKIServer(db, id, row))
                   /\ Kept(db, DeleteRPKIServer(db, id))
  BY SafeRows, ElsewhereKeeps DEF CreateRPKIServer, UpdateRPKIServer, DeleteRPKIServer
<1>. QED
  BY <1>1, <1>2, <1>3, <1>4 DEF handleRPKISave, handleRPKIDelete, Asked

LEMMA BMPSafe ==
    ASSUME SafeInv, NEW r \in Requests, handleBMPSave(r) \/ handleBMPDelete(r)
    PROVE  SafeInv'
<1>1. ASSUME NEW c \in calls, c.tb = "stations", NEW id, NEW row, NEW next,
             Looks(r, c, id, row, next)
      PROVE  SafeInv'
  BY <1>1, PlainLooks DEF Plain
<1>2. ASSUME NEW op, At(r, "check", op, "stations"), NEW ok, NEW row, Checks(r, ok, row)
      PROVE  SafeInv'
  BY <1>2, PlainChecks DEF Plain, At
<1>3. ASSUME NEW op, At(r, "write", op, "stations"), NEW d, Kept(db, d), Writes(r, d, "done")
      PROVE  SafeInv'
  BY <1>3, LastWrites DEF At
<1>4. \A id, row : /\ Kept(db, CreateBMPStation(db, row))
                   /\ Kept(db, UpdateBMPStation(db, id, row))
                   /\ Kept(db, DeleteBMPStation(db, id))
  BY SafeRows, ElsewhereKeeps DEF CreateBMPStation, UpdateBMPStation, DeleteBMPStation
<1>. QED
  BY <1>1, <1>2, <1>3, <1>4 DEF handleBMPSave, handleBMPDelete, Asked

LEMMA StaticRouteSafe ==
    ASSUME SafeInv, NEW r \in Requests, handleStaticRouteSave(r) \/ handleStaticRouteDelete(r)
    PROVE  SafeInv'
<1>1. ASSUME NEW c \in calls, c.tb = "routes", NEW id, NEW row, NEW next,
             Looks(r, c, id, row, next)
      PROVE  SafeInv'
  BY <1>1, PlainLooks DEF Plain
<1>2. ASSUME NEW op, At(r, "write", op, "routes"), NEW d, Kept(db, d), Writes(r, d, "done")
      PROVE  SafeInv'
  BY <1>2, LastWrites DEF At
<1>3. \A id, row : /\ Kept(db, CreateStaticRoute(db, row))
                   /\ Kept(db, UpdateStaticRoute(db, id, row))
                   /\ Kept(db, DeleteStaticRoute(db, id))
  BY SafeRows, ElsewhereKeeps DEF CreateStaticRoute, UpdateStaticRoute, DeleteStaticRoute
<1>. QED
  BY <1>1, <1>2, <1>3 DEF handleStaticRouteSave, handleStaticRouteDelete, Asked

LEMMA RouterSafe ==
    ASSUME SafeInv, NEW r \in Requests, handleSettingsIdentity(r) \/ handleSettingsRaw(r)
    PROVE  SafeInv'
<1>1. ASSUME NEW c \in calls, c.op \in {"identity", "raw"}, NEW id, NEW row, NEW next,
             Looks(r, c, id, row, next)
      PROVE  SafeInv'
  BY <1>1, PlainLooks DEF Plain
<1>2. ASSUME At(r, "check", "raw", "router"), NEW ok, NEW row, Checks(r, ok, row)
      PROVE  SafeInv'
  BY <1>2, PlainChecks DEF Plain, At
<1>3. ASSUME NEW op, At(r, "write", op, "router"), NEW d, Kept(db, d), Writes(r, d, "done")
      PROVE  SafeInv'
  BY <1>3, LastWrites DEF At
<1>4. \A row : /\ Kept(db, [db EXCEPT !.router = row])
               /\ Kept(db, [db EXCEPT !.router.raw = row])
  <2>1. \A x : Kept(db, [db EXCEPT !["router"] = x])
    BY SafeRows, SettingsKeep
  <2>2. ASSUME NEW row
        PROVE  [db EXCEPT !.router.raw = row]
                 = [db EXCEPT !["router"] = [db.router EXCEPT !.raw = row]]
    OBVIOUS
  <2>. QED BY <2>1, <2>2
<1>. QED
  BY <1>1, <1>2, <1>3, <1>4 DEF handleSettingsIdentity, handleSettingsRaw, Asked

LEMMA BogonsRead ==
    ASSUME SafeInv, NEW c \in calls, c.op = "bogons", BogonsAccepted(c.form)
    PROVE  BogonsIn([sets |-> [f \in Families |-> BogonRow(c, f)], asns |-> c.form.asns])
<1> SUFFICES ASSUME NEW f \in Families
             PROVE  LET s == BogonRow(c, f)
                    IN /\ SetRow(s) /\ s.name = BogonSet(f) /\ s.family = f
                       /\ s.entries \subseteq Prefixes(f)
  BY DEF BogonsIn
<1> DEFINE old == db.sets[CHOOSE s \in Named(db.sets, BogonSet(f)) : TRUE]
<1>1. SetRow(old) /\ old.name = BogonSet(f) /\ old.family = f
  BY SafeRows, BogonSetIs
<1>2. c.form.sets[f] \in SUBSET (V4 \cup V6) /\ c.form.sets[f] # {}
        /\ c.form.sets[f] \subseteq Prefixes(f)
  BY DEF SafeInv, WellFormed, BogonsAccepted
<1>3. BogonRow(c, f) = [old EXCEPT !.entries = c.form.sets[f]]
  BY DEF BogonRow
<1> HIDE DEF old
<1>. QED
  BY <1>1, <1>2, <1>3 DEF SetRow, PrefixSet

LEMMA BogonsSafe ==
    ASSUME SafeInv, NEW r \in Requests, handleSettingsBogons(r)
    PROVE  SafeInv'
<1>1. ASSUME NEW c \in Asked("bogons", "bogons"), BogonsAccepted(c.form),
             Looks(r, c, None, [sets |-> [f \in Families |-> BogonRow(c, f)],
                                asns |-> c.form.asns], "write")
      PROVE  SafeInv'
  <2> DEFINE row == [sets |-> [f \in Families |-> BogonRow(c, f)], asns |-> c.form.asns]
             x == [call |-> c, at |-> "write", id |-> None, row |-> row, fresh |-> TRUE]
  <2>1. c \in calls /\ c.op = "bogons" /\ c.tb = "bogons"
    BY DEF Asked
  <2>2. BogonsIn(row)
    BY <1>1, <2>1, BogonsRead
  <2> HIDE DEF row
  <2>3. HoldsRow(x) /\ KeepsItsName(db, x)
    BY <2>1, <2>2 DEF HoldsRow, KeepsItsName, Is
  <2>. QED BY <1>1, <2>1, <2>3, LooksSafe DEF row
<1>2. ASSUME NEW at, At(r, at, "bogons", "bogons"), NEW f \in Families, NEW next,
             Writes(r, SaveBogonSet(r, f), next)
      PROVE  SafeInv'
  <2>1. req[r] # None /\ Is(req[r], "bogons", "bogons") /\ BogonsIn(req[r].row)
    BY <1>2, AtHolds DEF HoldsRow
  <2>2. Kept(db, SaveBogonSet(r, f))
    BY <2>1, SafeRows, SaveBogonSetKeeps DEF SaveBogonSet, BogonsIn
  <2>3. \A d, y : y.call = req[r].call /\ y.row = req[r].row => HoldsRow(y) /\ KeepsItsName(d, y)
    BY <2>1 DEF HoldsRow, KeepsItsName, Is
  <2>. QED BY <1>2, <2>1, <2>2, <2>3, WritesSafe
<1>3. CASE /\ At(r, "third", "bogons", "bogons")
           /\ Writes(r, [db EXCEPT !.bogons = req[r].row.asns], "done")
  <2>1. \A x : Kept(db, [db EXCEPT !["bogons"] = x])
    BY SafeRows, SettingsKeep
  <2>. QED BY <1>3, <2>1, LastWrites DEF At
<1>4. "ipv4" \in Families /\ "ipv6" \in Families
  BY DEF Families
<1>. QED
  BY <1>1, <1>2, <1>3, <1>4 DEF handleSettingsBogons

LEMMA TornSafe ==
    ASSUME SafeInv, NEW r \in Requests, Torn(r)
    PROVE  SafeInv'
  BY DEF SafeInv, Torn

-----------------------------------------------------------------------------
(* The IRR loop.                                                            *)

LEMMA RunIRRRefreshSafe ==
    ASSUME SafeInv, RunIRRRefresh
    PROVE  SafeInv'
<1> DEFINE todo == Copies("sets", ListAutoRefreshPrefixSets(db))
<1>1. irr' = [at |-> "sets", todo |-> todo, fresh |-> TRUE]
  BY DEF RunIRRRefresh, Waiting
<1>2. \A s \in todo : s = [id |-> s.id, row |-> s.row] /\ SetRow(s.row)
  BY SafeRows DEF Copies, ListAutoRefreshPrefixSets, SetsSound
<1> HIDE DEF todo
<1>3. IsLoop(irr')
  BY <1>1, <1>2 DEF IsLoop
<1>. QED
  BY <1>3 DEF SafeInv, RunIRRRefresh

LEMMA LoopGoesOn ==
    ASSUME IsLoop(irr), NEW s
    PROVE  \A f \in BOOLEAN : IsLoop([[irr EXCEPT !.todo = @ \ {s}] EXCEPT !.fresh = f])
  BY DEF IsLoop

LEMMA refreshIRRSetsSafe ==
    ASSUME SafeInv, refreshIRRSets
    PROVE  SafeInv'
<1>0. IsLoop(irr)
  BY DEF SafeInv
<1>1. ASSUME irr.at = "sets", NEW s \in irr.todo, NEW got \in ExpandedPrefixes(s.row),
             Expands([irr EXCEPT !.todo = @ \ {s}], refreshOneSet(db, s.id, s.row, got))
      PROVE  SafeInv'
  <2>1. SetRow(s.row)
    BY <1>0, <1>1 DEF IsLoop
  <2>2. s.row.entries # {} /\ (got = None \/ got \subseteq V4 \cup V6)
    BY <2>1 DEF SetRow, ExpandedPrefixes, Prefixes
  <2> DEFINE e == refreshOneSet(db, s.id, s.row, got)
  <2>3. Sound(e) /\ SystemSame(db, e)
    BY <2>2, SafeRows, refreshOneSetKeeps
  <2> HIDE DEF e
  <2>. QED BY <1>0, <1>1, <2>3, LoopGoesOn, ExpandsSafe DEF e
<1>2. CASE /\ irr.at = "sets" /\ irr.todo = {}
           /\ irr' = [Waiting EXCEPT !.at = "asSets",
                                     !.todo = Copies("asSets", ListAutoRefreshASSets(db))]
           /\ UNCHANGED <<db, calls, requests, req, ticks, disturbed, loose>>
  <2> DEFINE todo == Copies("asSets", ListAutoRefreshASSets(db))
  <2>1. irr' = [at |-> "asSets", todo |-> todo, fresh |-> TRUE]
    BY <1>2 DEF Waiting
  <2>2. \A s \in todo : s = [id |-> s.id, row |-> s.row] /\ s.row \in ASSet
    BY SafeRows DEF Copies, ListAutoRefreshASSets, ASSetsSound, ASSetRow
  <2> HIDE DEF todo
  <2>3. IsLoop(irr')
    BY <2>1, <2>2 DEF IsLoop
  <2>. QED BY <1>2, <2>3 DEF SafeInv
<1>3. ASSUME irr.at = "asSets", NEW s \in irr.todo, NEW got \in ExpandedASNs,
             Expands([irr EXCEPT !.todo = @ \ {s}], refreshOneASSet(db, s.id, s.row, got))
      PROVE  SafeInv'
  <2>1. s.row \in ASSet
    BY <1>0, <1>3 DEF IsLoop
  <2> DEFINE e == refreshOneASSet(db, s.id, s.row, got)
  <2>2. Sound(e) /\ SystemSame(db, e)
    BY <2>1, SafeRows, refreshOneASSetKeeps
  <2> HIDE DEF e
  <2>. QED BY <1>0, <1>3, <2>2, LoopGoesOn, ExpandsSafe DEF e
<1>4. CASE /\ irr.at = "asSets" /\ irr.todo = {}
           /\ irr' = Waiting
           /\ UNCHANGED <<db, calls, requests, req, ticks, disturbed, loose>>
  <2>1. IsLoop(Waiting)
    BY DEF IsLoop, Waiting
  <2>. QED BY <1>4, <2>1 DEF SafeInv
<1>. QED
  BY <1>1, <1>2, <1>3, <1>4 DEF refreshIRRSets

-----------------------------------------------------------------------------
(* The whole.                                                               *)

LEMMA HandleSafe ==
    ASSUME SafeInv, NEW r \in Requests, Handle(r)
    PROVE  SafeInv'
<1>1. CASE handlePeerSave(r) \/ handlePeerDelete(r) \/ handlePeerToggle(r) \/ handlePeersAttach(r)
  BY <1>1, PeerSaveSafe, PeerDeleteSafe, PeerToggleSafe, PeersAttachSafe
<1>2. CASE \/ handlePeerTemplateSave(r) \/ handlePeerTemplateDelete(r)
           \/ handlePolicySave(r) \/ handlePolicyDelete(r)
  BY <1>2, TemplateSaveSafe, TemplateDeleteSafe, PolicySaveSafe, PolicyDeleteSafe
<1>3. CASE \/ handlePrefixSetSave(r) \/ handlePrefixSetToggle(r) \/ handlePrefixSetDelete(r)
           \/ handleASSetSave(r) \/ handleASSetDelete(r) \/ handleASSetRefresh(r)
  BY <1>3, PrefixSetSaveSafe, PrefixSetToggleSafe, PrefixSetDeleteSafe, ASSetSaveSafe,
     ASSetDeleteSafe, ASSetRefreshSafe
<1>4. CASE \/ handleCommunitySave(r) \/ handleCommunityDelete(r)
           \/ handleRPKISave(r) \/ handleRPKIDelete(r)
           \/ handleBMPSave(r) \/ handleBMPDelete(r)
           \/ handleStaticRouteSave(r) \/ handleStaticRouteDelete(r)
  BY <1>4, CommunitySafe, RPKISafe, BMPSafe, StaticRouteSafe
<1>5. CASE handleSettingsIdentity(r) \/ handleSettingsRaw(r) \/ handleSettingsBogons(r) \/ Torn(r)
  BY <1>5, RouterSafe, BogonsSafe, TornSafe
<1>. QED
  BY <1>1, <1>2, <1>3, <1>4, <1>5 DEF Handle

LEMMA SafeInit == Init => SafeInv
<1> SUFFICES ASSUME Init PROVE SafeInv
  OBVIOUS
<1>1. PICK s \in Scenarios : db = s.db /\ calls = s.calls
  BY DEF Init
<1>2. Sound(db) /\ \A c \in calls : WellFormed(c)
  BY <1>1, CatalogAssumption DEF Sound
<1>3. DOMAIN req = Requests /\ \A q \in Requests : req[q] = None
  BY DEF Init
<1>4. IsLoop(irr)
  BY DEF Init, IsLoop, Waiting
<1>. QED
  BY <1>2, <1>3, <1>4 DEF SafeInv

LEMMA SafeStep == SafeInv /\ [Next]_vars => SafeInv'
<1> SUFFICES ASSUME SafeInv, [Next]_vars PROVE SafeInv'
  OBVIOUS
<1>1. ASSUME NEW r \in Requests, Handle(r) PROVE SafeInv'
  BY <1>1, HandleSafe
<1>2. CASE RunIRRRefresh \/ refreshIRRSets
  BY <1>2, RunIRRRefreshSafe, refreshIRRSetsSafe
<1>3. CASE UNCHANGED vars
  BY <1>3 DEF SafeInv, vars
<1>. QED
  BY <1>1, <1>2, <1>3 DEF Next

\* Whatever is saved, in whatever order and over however many requests: the tables are sound,
\* and what a request or the IRR loop carries from one of its steps to the next is of its kind.
THEOREM AlwaysSafe == Spec => []SafeInv
  BY SafeInit, SafeStep, PTL DEF Spec

\* Every row is one its form could have saved, with the columns of another kind cleared:
\* what the handlers of two requests write over one another never mixes the two.
THEOREM RowsAlwaysFit == Spec => []CatalogTypeOK
<1>1. SafeInv => CatalogTypeOK
  BY DEF SafeInv, Sound, CatalogTypeOK
<1>. QED
  BY <1>1, AlwaysSafe, PTL

\* No row names a row that is gone, though every check a handler makes may be outrun before
\* it writes: the foreign keys and the transactions see to it.
THEOREM NothingDangles == Spec => []ReferencesResolve
<1>1. SafeInv => ReferencesResolve
  BY DEF SafeInv, Sound, ReferencesResolve
<1>. QED
  BY <1>1, AlwaysSafe, PTL

\* An internal session is never drained and carries nothing an external one does, and the
\* other way round; also when the template it was linked to has changed sides since.
THEOREM SessionsStayClean == Spec => []InternalSessionsStayClean
<1>1. SafeInv => InternalSessionsStayClean
  BY DEF SafeInv, Sound, InternalSessionsStayClean
<1>. QED
  BY <1>1, AlwaysSafe, PTL

-----------------------------------------------------------------------------
(* What holds as long as no write has gone by a stale read.                 *)

Followed(d, saving) == \A i \in Live(d.peers) : Follows(d, d.peers[i], i \in saving)

Quiet(d, saving, gone) ==
    /\ OneFamily(d) /\ OwnTemplateNames(d) /\ Followed(d, saving)
    /\ NamedCommunities(d) \subseteq CommunityNames(d) \cup gone

\* What a request has read of tables `d` that nobody has written since, but for the names that
\* are `gone`.
Sees(d, gone, x) ==
    /\ Is(x, "save", "peers") /\ x.at = "write" =>
          /\ Follows(d, x.row, FALSE) /\ PoliciesExist(d, x.row.chain)
          /\ CommunityRefs(x.row.shape) \subseteq CommunityNames(d) \cup gone
          /\ Named(d.templates, x.row.name) = {}
    /\ Is(x, "save", "peers") /\ x.at = "second" =>
          /\ x.id \in Live(d.peers) /\ d.peers[x.id].tmpl = x.row.tmpl
          /\ PoliciesExist(d, x.row.chain)
          /\ x.row.tmpl # None => x.row.chain = d.templates[x.row.tmpl].chain
    /\ Is(x, "save", "templates") /\ x.at = "write" =>
          /\ CommunityRefs(x.row.shape) \subseteq CommunityNames(d) \cup gone
          /\ ~symbolClash(d, x.row.name)
    /\ Is(x, "save", "policies") /\ x.at = "write" =>
          {x.row.comm} \ {None} \subseteq CommunityNames(d) \cup gone
    /\ x.call.op = "save" /\ x.call.tb \in {"sets", "asSets", "communities", "servers", "stations"}
          /\ x.at = "write" => Named(d.templates, x.row.name) = {}
    /\ Is(x, "delete", "communities") =>
          /\ x.row = d.communities[x.id]
          /\ x.at = "write" => ~communityInUse(d, x.row.name)

LEMMA SeesGrows ==
    ASSUME NEW d, NEW g, NEW g2, g \subseteq g2, NEW x, Sees(d, g, x)
    PROVE  Sees(d, g2, x)
  BY DEF Sees

SeesSets(d, l) ==
    l.at = "sets" => \A s \in l.todo : s.id \in Live(d.sets) /\ d.sets[s.id] = s.row

QuietInv ==
    /\ \A q \in Requests : req[q] # None /\ req[q].fresh => Sees(db, loose, req[q])
    /\ irr.fresh => SeesSets(db, irr)
    /\ disturbed \in BOOLEAN
    /\ ~disturbed => Quiet(db, BeingSaved, loose)

-----------------------------------------------------------------------------
(* The same, row by row.                                                    *)

Others == {"sets", "asSets", "communities", "servers", "stations"}

QuietPeer(d, p, saving, names) ==
    /\ Named(d.templates, p.name) = {}
    /\ Follows(d, p, saving)
    /\ CommunityRefs(p.shape) \subseteq names
QuietTemplate(d, t, names) ==
    /\ t.name \notin builtinSymbols
    /\ \A tb \in Others : Named(d[tb], t.name) = {}
    /\ CommunityRefs(t.shape) \subseteq names

PeersQuiet(d, saving, names) ==
    \A i \in Live(d.peers) : QuietPeer(d, d.peers[i], i \in saving, names)
TemplatesQuiet(d, names) == \A i \in Live(d.templates) : QuietTemplate(d, d.templates[i], names)
PoliciesQuiet(d, names) == \A i \in Live(d.policies) : {d.policies[i].comm} \ {None} \subseteq names

LEMMA CommunitiesAre ==
    ASSUME NEW d, NEW names
    PROVE  NamedCommunities(d) \subseteq names <=>
              /\ \A i \in Live(d.peers) : CommunityRefs(d.peers[i].shape) \subseteq names
              /\ \A i \in Live(d.templates) : CommunityRefs(d.templates[i].shape) \subseteq names
              /\ PoliciesQuiet(d, names)
<1>1. PeerRefs(d) \subseteq names
         <=> \A i \in Live(d.peers) : CommunityRefs(d.peers[i].shape) \subseteq names
  BY DEF PeerRefs
<1>2. TemplateRefs(d) \subseteq names
         <=> \A i \in Live(d.templates) : CommunityRefs(d.templates[i].shape) \subseteq names
  BY DEF TemplateRefs
<1>3. PolicyRefs(d) \subseteq names <=> PoliciesQuiet(d, names)
  BY DEF PolicyRefs, PoliciesQuiet
<1>4. NamedCommunities(d) \subseteq names
        <=> PeerRefs(d) \subseteq names /\ TemplateRefs(d) \subseteq names
                /\ PolicyRefs(d) \subseteq names
  BY DEF NamedCommunities
<1>. QED
  BY <1>1, <1>2, <1>3, <1>4

LEMMA NamesAre ==
    ASSUME NEW d
    PROVE  OwnTemplateNames(d) <=>
              /\ \A i \in Live(d.peers) : Named(d.templates, d.peers[i].name) = {}
              /\ \A i \in Live(d.templates) :
                    /\ d.templates[i].name \notin builtinSymbols
                    /\ \A tb \in Others : Named(d[tb], d.templates[i].name) = {}
<1>1. SymbolTables \ {"templates"} = Others \cup {"peers"}
  BY DEF SymbolTables, Others
<1>2. (\A i \in Live(d.peers) : Named(d.templates, d.peers[i].name) = {})
        <=> \A i \in Live(d.templates) : Named(d["peers"], d.templates[i].name) = {}
  BY DEF Named
<1>. QED
  BY <1>1, <1>2 DEF OwnTemplateNames, LiveRows

LEMMA QuietIs ==
    ASSUME NEW d, NEW saving, NEW gone
    PROVE  LET names == CommunityNames(d) \cup gone
           IN Quiet(d, saving, gone) <=>
                 /\ OneFamily(d) /\ PeersQuiet(d, saving, names)
                 /\ TemplatesQuiet(d, names) /\ PoliciesQuiet(d, names)
<1> DEFINE names == CommunityNames(d) \cup gone
<1>1. PeersQuiet(d, saving, names) <=>
         /\ \A i \in Live(d.peers) : CommunityRefs(d.peers[i].shape) \subseteq names
         /\ \A i \in Live(d.peers) : Named(d.templates, d.peers[i].name) = {}
         /\ Followed(d, saving)
  BY DEF PeersQuiet, QuietPeer, Followed
<1>2. TemplatesQuiet(d, names) <=>
         /\ \A i \in Live(d.templates) : CommunityRefs(d.templates[i].shape) \subseteq names
         /\ \A i \in Live(d.templates) :
               /\ d.templates[i].name \notin builtinSymbols
               /\ \A tb \in Others : Named(d[tb], d.templates[i].name) = {}
  BY DEF TemplatesQuiet, QuietTemplate
<1> HIDE DEF names
<1>3. Quiet(d, saving, gone) <=>
         /\ OneFamily(d) /\ OwnTemplateNames(d) /\ Followed(d, saving)
         /\ NamedCommunities(d) \subseteq names
  BY DEF Quiet, names
<1>4. Quiet(d, saving, gone) <=>
                 /\ OneFamily(d) /\ PeersQuiet(d, saving, names)
                 /\ TemplatesQuiet(d, names) /\ PoliciesQuiet(d, names)
  BY <1>1, <1>2, <1>3, CommunitiesAre, NamesAre
<1>. QED
  BY <1>4 DEF names

LEMMA QuietGrows ==
    ASSUME NEW d, NEW S, NEW S2, NEW g, NEW g2, Quiet(d, S, g), S \subseteq S2, g \subseteq g2
    PROVE  Quiet(d, S2, g2)
<1>1. Followed(d, S2)
  BY DEF Quiet, Followed, Follows
<1>. QED
  BY <1>1 DEF Quiet

-----------------------------------------------------------------------------
(* The transactions.                                                        *)

KeptFor(d, g, e) == e # None => \A S : Quiet(d, S, g) => Quiet(e, S, g)
QuietKept(d, e) == e # None => \A S, g : Quiet(d, S, g) => Quiet(e, S, g)

LEMMA KeptForAll ==
    ASSUME NEW d, NEW e
    PROVE  QuietKept(d, e) <=> \A g : KeptFor(d, g, e)
  BY DEF QuietKept, KeptFor

\* Peers that are written, over tables that stay.
LEMMA PeersQuietly ==
    ASSUME NEW d, NEW e, Stored(d), DOMAIN e = DOMAIN d,
           \A x \in DOMAIN d \ {"peers"} : e[x] = d[x],
           NEW S, NEW S2, NEW g, Quiet(d, S, g),
           \A j \in Live(e.peers) :
               QuietPeer(d, e.peers[j], j \in S2, CommunityNames(d) \cup g)
    PROVE  Quiet(e, S2, g)
<1>1. /\ e.templates = d.templates /\ e.policies = d.policies /\ e.sets = d.sets
      /\ e.communities = d.communities /\ \A tb \in Others : e[tb] = d[tb]
  BY TablesAre DEF Others, Tables, SymbolTables
<1> DEFINE names == CommunityNames(d) \cup g
<1>2. CommunityNames(e) \cup g = names
  BY <1>1 DEF CommunityNames
<1>3. OneFamily(e) /\ TemplatesQuiet(e, names) /\ PoliciesQuiet(e, names)
  BY <1>1, QuietIs DEF OneFamily, LiveRows, TemplatesQuiet, QuietTemplate, PoliciesQuiet
<1>4. PeersQuiet(e, S2, names)
  BY <1>1 DEF PeersQuiet, QuietPeer, Follows
<1> HIDE DEF names
<1>. QED
  BY <1>2, <1>3, <1>4, QuietIs

LEMMA PutPeerQuietly ==
    ASSUME NEW d, NEW e, NEW i, NEW row, Puts(d, e, "peers", i, row), Stored(d),
           NEW S, NEW S2, NEW g, Quiet(d, S, g), S \subseteq S2 \cup {i},
           row = Gone \/ QuietPeer(d, row, i \in S2, CommunityNames(d) \cup g)
    PROVE  Quiet(e, S2, g)
<1> DEFINE names == CommunityNames(d) \cup g
<1>1. ASSUME NEW j \in Live(e.peers) PROVE QuietPeer(d, e.peers[j], j \in S2, names)
  <2>1. CASE j = i
    BY <2>1, <1>1 DEF Puts, Live
  <2>2. CASE j # i
    <3>1. j \in Live(d.peers) /\ e.peers[j] = d.peers[j]
      BY <2>2, <1>1 DEF Puts, Live
    <3>2. QuietPeer(d, d.peers[j], j \in S, names)
      BY <3>1, QuietIs DEF PeersQuiet
    <3>. QED BY <2>2, <3>1, <3>2 DEF QuietPeer, Follows
  <2>. QED BY <2>1, <2>2
<1> HIDE DEF names
<1>. QED
  BY <1>1, PeersQuietly DEF Puts, names

\* A peer that was saved, with its chain still to be written.
PeerSaved(d, e, id, p) ==
    /\ id \in Live(e.peers) /\ e.peers[id].tmpl = p.tmpl
    /\ e.templates = d.templates /\ e.policies = d.policies

LEMMA PutsPeer ==
    ASSUME NEW d, Stored(d), NEW e, NEW i, NEW row, Puts(d, e, "peers", i, row),
           row \notin {None, Gone}
    PROVE  PeerSaved(d, e, i, row)
<1>1. "templates" \in DOMAIN d \ {"peers"} /\ "policies" \in DOMAIN d \ {"peers"}
  BY TablesAre
<1>2. e.templates = d.templates /\ e.policies = d.policies
  BY <1>1 DEF Puts
<1>3. i \in Live(e.peers) /\ e.peers[i] = row
  BY DEF Puts, Live
<1>. QED
  BY <1>2, <1>3 DEF PeerSaved

LEMMA CreatePeerQuietly ==
    ASSUME NEW d, Sound(d), NEW p \in Peer, NEW S, NEW S2, NEW g,
           CreatePeer(d, p) # None,
           QuietPeer(d, p, FALSE, CommunityNames(d) \cup g),
           S \cup {NextId(d["peers"])} \subseteq S2
    PROVE  /\ Quiet(d, S, g) => Quiet(CreatePeer(d, p), S2, g)
           /\ PeerSaved(d, CreatePeer(d, p), NextId(d["peers"]), p)
<1> DEFINE q == [p EXCEPT !.chain = NoChain]
           i == NextId(d["peers"])
           e == Insert(d, "peers", q)
<1>1. CreatePeer(d, p) = e
  BY DEF CreatePeer
<1>2. "peers" \in DOMAIN d /\ DOMAIN d["peers"] \subseteq Nat /\ Stored(d)
  BY SoundIs, TablesAre DEF Tables, SymbolTables
<1>3. /\ q \in Peer /\ q.name = p.name /\ q.tmpl = p.tmpl /\ q.shape = p.shape
      /\ q.override = p.override
  BY Chained, NoChainIsChain
<1> HIDE DEF q
<1>4. QuietPeer(d, q, TRUE, CommunityNames(d) \cup g)
  BY <1>3 DEF QuietPeer, Follows
<1>5. Puts(d, e, "peers", i, q)
  BY <1>1, <1>2, InsertPuts
<1> HIDE DEF e, i
<1>6. i \in S2 /\ S \subseteq S2 \cup {i}
  BY DEF i
<1>7. Quiet(d, S, g) => Quiet(e, S2, g)
  BY <1>2, <1>4, <1>5, <1>6, PutPeerQuietly
<1>8. PeerSaved(d, e, i, q)
  BY <1>2, <1>3, <1>5, PutsPeer, RowIsThere
<1>. QED
  BY <1>1, <1>3, <1>7, <1>8 DEF PeerSaved, i

LEMMA UpdatePeerQuietly ==
    ASSUME NEW d, Sound(d), NEW p \in Peer, NEW id, NEW S, NEW S2, NEW g,
           UpdatePeer(d, id, p) # None,
           QuietPeer(d, p, FALSE, CommunityNames(d) \cup g), S \cup {id} \subseteq S2
    PROVE  /\ Quiet(d, S, g) => Quiet(UpdatePeer(d, id, p), S2, g)
           /\ PeerSaved(d, UpdatePeer(d, id, p), id, p)
<1> DEFINE q == [p EXCEPT !.chain = d.peers[id].chain]
           e == Update(d, "peers", id, q)
<1>1. id \in Live(d.peers) /\ UpdatePeer(d, id, p) = e
  BY DEF UpdatePeer, affectedOne
<1>2. "peers" \in DOMAIN d /\ Stored(d)
  BY SoundIs, TablesAre
<1>3. /\ q \in Peer /\ q.name = p.name /\ q.tmpl = p.tmpl /\ q.shape = p.shape
      /\ q.override = p.override
  <2>1. d.peers[id].chain \in Chain
    BY <1>1, SoundIs DEF PeersSound, PeerRow, Peer
  <2>. QED BY <2>1, Chained
<1> HIDE DEF q
<1>4. QuietPeer(d, q, TRUE, CommunityNames(d) \cup g)
  BY <1>3 DEF QuietPeer, Follows
<1>5. Puts(d, e, "peers", id, q)
  BY <1>1, <1>2, UpdatePuts
<1> HIDE DEF e
<1>6. id \in S2 /\ S \subseteq S2 \cup {id}
  OBVIOUS
<1>7. Quiet(d, S, g) => Quiet(e, S2, g)
  BY <1>2, <1>4, <1>5, <1>6, PutPeerQuietly
<1>8. PeerSaved(d, e, id, q)
  BY <1>2, <1>3, <1>5, PutsPeer, RowIsThere
<1>. QED
  BY <1>1, <1>3, <1>7, <1>8 DEF PeerSaved

LEMMA SetPeerPoliciesQuietly ==
    ASSUME NEW d, Sound(d), NEW id \in Live(d.peers), NEW c \in Chain, PoliciesExist(d, c),
           d.peers[id].tmpl # None => c = d.templates[d.peers[id].tmpl].chain,
           NEW S, NEW S2, NEW g, Quiet(d, S, g), S \subseteq S2 \cup {id}
    PROVE  Quiet(SetPeerPolicies(d, id, c), S2, g)
<1> DEFINE p == d.peers[id]
           q == [p EXCEPT !.chain = c]
           e == [d EXCEPT !["peers"][id] = q]
<1>1. "peers" \in DOMAIN d /\ id \in DOMAIN d["peers"] /\ Stored(d)
  BY SoundIs, TablesAre DEF Live
<1>2. SetPeerPolicies(d, id, c) = e
  BY <1>1 DEF SetPeerPolicies, affectedOne
<1>3. p \in Peer /\ QuietPeer(d, p, id \in S, CommunityNames(d) \cup g)
  BY SoundIs, QuietIs DEF PeersSound, PeerRow, PeersQuiet
<1>4. /\ q.chain = c /\ q.name = p.name /\ q.tmpl = p.tmpl /\ q.shape = p.shape
      /\ q.override = p.override
  BY <1>3, Chained
<1>5. QuietPeer(d, q, id \in S2, CommunityNames(d) \cup g)
  <2> HIDE DEF q, p
  <2>1. p.tmpl # None => c = d.templates[p.tmpl].chain
    BY DEF p
  <2>. QED BY <1>3, <1>4, <2>1 DEF QuietPeer, Follows
<1> HIDE DEF q
<1>6. Puts(d, e, "peers", id, q)
  BY <1>1, PutRow
<1> HIDE DEF e
<1>8. Quiet(e, S2, g)
  BY <1>1, <1>5, <1>6, PutPeerQuietly
<1>. QED
  BY <1>2, <1>8

LEMMA SetPeerEnabledQuietly ==
    ASSUME NEW d, Sound(d), NEW id, NEW on \in BOOLEAN
    PROVE  QuietKept(d, SetPeerEnabled(d, id, on))
<1> DEFINE p == d.peers[id]
           q == [p EXCEPT !.enabled = on]
           e == [d EXCEPT !["peers"][id] = q]
<1> SUFFICES ASSUME SetPeerEnabled(d, id, on) # None, NEW S, NEW g, Quiet(d, S, g)
             PROVE  Quiet(SetPeerEnabled(d, id, on), S, g)
  BY DEF QuietKept
<1>1. /\ id \in Live(d.peers) /\ Stored(d) /\ "peers" \in DOMAIN d /\ id \in DOMAIN d["peers"]
  BY SoundIs, TablesAre DEF SetPeerEnabled, affectedOne, Live
<1>2. SetPeerEnabled(d, id, on) = e
  BY <1>1 DEF SetPeerEnabled, affectedOne
<1>3. p \in Peer /\ QuietPeer(d, p, id \in S, CommunityNames(d) \cup g)
  BY <1>1, SoundIs, QuietIs DEF PeersSound, PeerRow, PeersQuiet
<1>4. /\ q.chain = p.chain /\ q.name = p.name /\ q.tmpl = p.tmpl /\ q.shape = p.shape
      /\ q.override = p.override
  <2> HIDE DEF p
  <2>. QED BY <1>3 DEF Peer
<1> HIDE DEF q, p
<1>5. QuietPeer(d, q, id \in S, CommunityNames(d) \cup g)
  BY <1>3, <1>4 DEF QuietPeer, Follows
<1>6. Puts(d, e, "peers", id, q)
  BY <1>1, PutRow
<1> HIDE DEF e
<1>7. Quiet(e, S, g)
  BY <1>1, <1>5, <1>6, PutPeerQuietly
<1>. QED
  BY <1>2, <1>7

LEMMA DeletePeerQuietly ==
    ASSUME NEW d, Sound(d), NEW id
    PROVE  QuietKept(d, DeletePeer(d, id))
<1>1. "peers" \in DOMAIN d /\ Stored(d)
  BY SoundIs, TablesAre
<1>2. ASSUME DeletePeer(d, id) # None, NEW S, NEW g, Quiet(d, S, g)
      PROVE  Quiet(DeletePeer(d, id), S, g)
  <2>1. Puts(d, DeletePeer(d, id), "peers", id, Gone)
    BY <1>1, <1>2, DeletePuts DEF DeletePeer
  <2>. QED BY <1>1, <1>2, <2>1, PutPeerQuietly
<1>. QED
  BY <1>2 DEF QuietKept

\* A peer that has just been given a template's columns follows it.
LEMMA RewrittenFollows ==
    ASSUME NEW d, Sound(d), NEW p \in Peer, NEW id \in Live(d.templates), NEW names,
           QuietTemplate(d, d.templates[id], names), Named(d.templates, p.name) = {}
    PROVE  QuietPeer(d, updatePeerShape(ApplyTo(d.templates[id], id, p)), FALSE, names)
<1> DEFINE t == d.templates[id]
           u == updatePeerShape(ApplyTo(t, id, p))
<1>1. TemplateRow(d, t) /\ id \in TemplateIds /\ id # None
  BY SoundIs, TemplateId DEF TemplatesSound, Live
<1>2. /\ u \in Peer /\ u.tmpl = id /\ u.chain = t.chain /\ u.name = p.name
      /\ u.override = p.override /\ u.shape = Overriding(p, t.shape)
  BY <1>1, Rewritten DEF TemplateRow
<1>3. t.shape \in Shape
  BY <1>1 DEF TemplateRow, PeerTemplate
<1>4. /\ [u.shape EXCEPT !.limit = t.shape.limit] = t.shape
      /\ u.override \/ u.shape.limit = t.shape.limit
  BY <1>2, <1>3, OverridingShape DEF Peer
<1>5. CommunityRefs(u.shape) = CommunityRefs(t.shape)
  <2> DEFINE s == t.shape
  <2>1. u.shape = s \/ u.shape = [s EXCEPT !.limit = p.shape.limit]
    BY <1>2 DEF Overriding
  <2> HIDE DEF s
  <2>. QED BY <2>1, <1>3 DEF CommunityRefs, CommunityFields, Shape, s
<1> HIDE DEF u
<1>6. QuietPeer(d, u, FALSE, names)
  BY <1>2, <1>4, <1>5 DEF QuietPeer, QuietTemplate, Follows
<1>. QED
  BY <1>6 DEF u

LEMMA AttachPeersQuietly ==
    ASSUME NEW d, Sound(d), NEW ids, NEW id
    PROVE  QuietKept(d, AttachPeers(d, ids, id))
<1> DEFINE e == AttachPeers(d, ids, id)
<1> SUFFICES ASSUME e # None, NEW S, NEW g, Quiet(d, S, g) PROVE Quiet(e, S, g)
  BY DEF QuietKept
<1>1. "peers" \in DOMAIN d /\ Stored(d)
  BY SoundIs, TablesAre
<1>2. ids \subseteq Live(d.peers) /\ (id = None \/ id \in Live(d.templates))
  BY DEF AttachPeers
<1>3. /\ DOMAIN e = DOMAIN d /\ DOMAIN e.peers = DOMAIN d.peers
      /\ \A x \in DOMAIN d \ {"peers"} : e[x] = d[x]
      /\ \A j \in DOMAIN d.peers :
            e.peers[j] = IF j \in ids THEN AttachOne(d, id, d.peers[j]) ELSE d.peers[j]
  BY <1>1, <1>2 DEF AttachPeers
<1> DEFINE names == CommunityNames(d) \cup g
<1>4. PeersQuiet(d, S, names) /\ TemplatesQuiet(d, names)
  BY QuietIs
<1> HIDE DEF e, names
<1>5. ASSUME NEW j \in Live(e.peers) PROVE QuietPeer(d, e.peers[j], j \in S, names)
  <2>1. CASE j \in ids
    <3> DEFINE p == d.peers[j]
    <3>1. p \in Peer /\ j \in DOMAIN d.peers /\ QuietPeer(d, p, j \in S, names)
      BY <2>1, <1>2, <1>4, SoundIs DEF PeersSound, PeerRow, PeersQuiet, Live
    <3>2. e.peers[j] = AttachOne(d, id, p)
      BY <2>1, <3>1, <1>3
    <3> HIDE DEF p
    <3>3. CASE id = None
      <4> DEFINE a == [p EXCEPT !.tmpl = None]
                 b == [a EXCEPT !.override = FALSE]
      <4>1. a.tmpl = None /\ a.shape = p.shape /\ a.name = p.name /\ DOMAIN a = DOMAIN p
        BY <3>1 DEF Peer
      <4> HIDE DEF a
      <4>2. b.tmpl = None /\ b.shape = p.shape /\ b.name = p.name
        BY <3>1, <4>1 DEF Peer
      <4> HIDE DEF b
      <4>3. QuietPeer(d, b, j \in S, names)
        BY <3>1, <4>2 DEF QuietPeer, Follows
      <4>. QED BY <3>2, <3>3, <4>3, Zenon DEF AttachOne, a, b
    <3>4. CASE id # None
      <4> DEFINE a == [p EXCEPT !.override = FALSE]
                 u == updatePeerShape(ApplyTo(d.templates[id], id, a))
      <4>1. a \in Peer /\ a.name = p.name
        BY <3>1 DEF Peer
      <4> HIDE DEF a
      <4>2. id \in Live(d.templates) /\ QuietTemplate(d, d.templates[id], names)
        BY <3>4, <1>2, <1>4 DEF TemplatesQuiet
      <4>3. Named(d.templates, a.name) = {}
        BY <3>1, <4>1 DEF QuietPeer
      <4>4. QuietPeer(d, u, FALSE, names)
        BY <4>1, <4>2, <4>3, RewrittenFollows
      <4>5. e.peers[j] = u
        BY <3>2, <3>4 DEF AttachOne, a
      <4> HIDE DEF u
      <4>. QED BY <4>4, <4>5 DEF QuietPeer, Follows
    <3>. QED BY <3>3, <3>4
  <2>2. CASE j \notin ids
    <3>1. j \in Live(d.peers) /\ e.peers[j] = d.peers[j]
      BY <2>2, <1>3, <1>5 DEF Live
    <3>. QED BY <3>1, <1>4 DEF PeersQuiet
  <2>. QED BY <2>1, <2>2
<1>. QED
  BY <1>1, <1>3, <1>5, PeersQuietly DEF names

LEMMA LinkSourceQuietly ==
    ASSUME NEW d, Sound(d), NEW from, NEW id
    PROVE  QuietKept(d, LinkSource(d, from, id))
<1>1. QuietKept(d, d)
  BY DEF QuietKept
<1>. QED
  BY <1>1, AttachPeersQuietly DEF LinkSource, LinkPeerToTemplate

\* Peers and templates that are written, over tables that stay.
LEMMA PairQuietly ==
    ASSUME NEW d, NEW e, Stored(d),
           \A x \in DOMAIN d \ {"peers", "templates"} : e[x] = d[x],
           NEW S, NEW g, Quiet(d, S, g),
           PeersQuiet(e, S, CommunityNames(d) \cup g),
           TemplatesQuiet(e, CommunityNames(d) \cup g)
    PROVE  Quiet(e, S, g)
<1>1. e.policies = d.policies /\ e.sets = d.sets /\ e.communities = d.communities
  BY TablesAre
<1> DEFINE names == CommunityNames(d) \cup g
<1>2. CommunityNames(e) \cup g = names
  BY <1>1 DEF CommunityNames
<1>3. OneFamily(e) /\ PoliciesQuiet(e, names)
  BY <1>1, QuietIs DEF OneFamily, LiveRows, PoliciesQuiet
<1> HIDE DEF names
<1>. QED
  BY <1>2, <1>3, QuietIs DEF names

LEMMA NoClash ==
    ASSUME NEW d, NEW n, ~symbolClash(d, n)
    PROVE  /\ n \notin builtinSymbols /\ Named(d.peers, n) = {}
           /\ \A tb \in Others : Named(d[tb], n) = {}
<1>1. /\ "built-in" \notin SymbolUses(d, n)
      /\ \A tb \in SymbolTables \ {"templates"} : tb \notin SymbolUses(d, n)
  BY DEF symbolClash, SymbolTables
<1>2. n \notin builtinSymbols
  BY <1>1 DEF SymbolUses
<1>3. \A tb \in SymbolTables \ {"templates"} : Named(d[tb], n) = {}
  BY <1>1 DEF SymbolUses
<1>4. "peers" \in SymbolTables \ {"templates"} /\ Others \subseteq SymbolTables \ {"templates"}
  BY DEF SymbolTables, Others
<1>. QED
  BY <1>2, <1>3, <1>4

LEMMA FreeOfTemplates ==
    ASSUME NEW d, NEW n, ~refuseTemplateName(d, n)
    PROVE  Named(d.templates, n) = {}
<1>1. "templates" \in SymbolTables /\ "templates" \notin SymbolUses(d, n)
  BY DEF refuseTemplateName, SymbolTables
<1>2. Named(d["templates"], n) = {}
  BY <1>1 DEF SymbolUses
<1>. QED
  BY <1>2

\* A template with a name of its own; peers linked to another are left alone.
LEMMA PutTemplateQuietly ==
    ASSUME NEW d, Sound(d), NEW e, NEW i, NEW t, Puts(d, e, "templates", i, t),
           NEW S, NEW g, Quiet(d, S, g),
           \/ /\ t \in PeerTemplate /\ ~symbolClash(d, t.name)
              /\ CommunityRefs(t.shape) \subseteq CommunityNames(d) \cup g
           \/ t = Gone,
           NEW names, names = CommunityNames(d) \cup g
    PROVE  /\ TemplatesQuiet(e, names)
           /\ \A j \in Live(d.peers) :
                 /\ Named(e.templates, d.peers[j].name) = {}
                 /\ d.peers[j].tmpl # i => QuietPeer(e, d.peers[j], j \in S, names)
<1>1. Stored(d) /\ PeersQuiet(d, S, names) /\ TemplatesQuiet(d, names)
  BY SoundIs, QuietIs
<1>2. \A tb \in Others : e[tb] = d[tb]
  BY <1>1, TablesAre DEF Others, Tables, SymbolTables, Puts
<1>3. ASSUME NEW j \in Live(e.templates) PROVE QuietTemplate(e, e.templates[j], names)
  <2>1. CASE j = i
    <3>1. e.templates[j] = t /\ t # Gone
      BY <2>1, <1>3 DEF Puts, Live
    <3>. QED BY <3>1, <1>2, NoClash DEF QuietTemplate
  <2>2. CASE j # i
    <3>1. j \in Live(d.templates) /\ e.templates[j] = d.templates[j]
      BY <2>2, <1>3 DEF Puts, Live
    <3>. QED BY <3>1, <1>1, <1>2 DEF QuietTemplate, TemplatesQuiet
  <2>. QED BY <2>1, <2>2
<1>4. ASSUME NEW j \in Live(d.peers)
      PROVE  /\ Named(e.templates, d.peers[j].name) = {}
             /\ d.peers[j].tmpl # i => QuietPeer(e, d.peers[j], j \in S, names)
  <2> DEFINE p == d.peers[j]
  <2>1. QuietPeer(d, p, j \in S, names) /\ LinkHolds(d, p)
    BY <1>1, SoundIs DEF PeersQuiet, PeersSound, PeerRow
  <2>2. Named(e.templates, p.name) = {}
    <3> SUFFICES ASSUME NEW k \in Live(e.templates), e.templates[k].name = p.name PROVE FALSE
      BY DEF Named
    <3>1. CASE k = i
      <4>1. e.templates[k] = t /\ t # Gone
        BY <3>1 DEF Puts, Live
      <4>2. Named(d.peers, t.name) = {}
        BY <4>1, NoClash
      <4>. QED BY <4>1, <4>2 DEF Named
    <3>2. CASE k # i
      <4>1. k \in Live(d.templates) /\ e.templates[k] = d.templates[k]
        BY <3>2 DEF Puts, Live
      <4>. QED BY <4>1, <2>1 DEF QuietPeer, Named
    <3>. QED BY <3>1, <3>2
  <2> HIDE DEF p
  <2>3. ASSUME p.tmpl # i, p.tmpl # None PROVE e.templates[p.tmpl] = d.templates[p.tmpl]
    BY <2>1, <2>3 DEF LinkHolds, Puts, Live
  <2>. QED BY <2>1, <2>2, <2>3 DEF QuietPeer, Follows, p
<1>. QED
  BY <1>3, <1>4 DEF TemplatesQuiet

LEMMA PutLooseTemplateQuietly ==
    ASSUME NEW d, Sound(d), NEW e, NEW i, NEW t, Puts(d, e, "templates", i, t),
           NEW S, NEW g, Quiet(d, S, g),
           \/ /\ t \in PeerTemplate /\ ~symbolClash(d, t.name)
              /\ CommunityRefs(t.shape) \subseteq CommunityNames(d) \cup g
           \/ t = Gone,
           ~TemplateHeld(d, i)
    PROVE  Quiet(e, S, g)
<1> DEFINE names == CommunityNames(d) \cup g
<1>1. Stored(d) /\ e.peers = d.peers
  BY SoundIs, TablesAre DEF Puts
<1>0. names = CommunityNames(d) \cup g
  OBVIOUS
<1> HIDE DEF names
<1>2. /\ TemplatesQuiet(e, names)
      /\ \A j \in Live(d.peers) :
            d.peers[j].tmpl # i => QuietPeer(e, d.peers[j], j \in S, names)
  <2>1. CASE t = Gone
    BY <2>1, <1>0, PutTemplateQuietly
  <2>2. CASE /\ t \in PeerTemplate /\ ~symbolClash(d, t.name)
             /\ CommunityRefs(t.shape) \subseteq CommunityNames(d) \cup g
    BY <2>2, <1>0, PutTemplateQuietly
  <2>. QED BY <2>1, <2>2
<1>3. PeersQuiet(e, S, names)
  BY <1>1, <1>2 DEF PeersQuiet, TemplateHeld
<1>. QED
  BY <1>0, <1>1, <1>2, <1>3, PairQuietly DEF Puts

LEMMA CreatePeerTemplateQuietly ==
    ASSUME NEW d, Sound(d), NEW t \in PeerTemplate, ~symbolClash(d, t.name),
           NEW g, CommunityRefs(t.shape) \subseteq CommunityNames(d) \cup g
    PROVE  KeptFor(d, g, CreatePeerTemplate(d, t))
<1> DEFINE i == NextId(d["templates"])
           e == Insert(d, "templates", t)
<1> SUFFICES ASSUME CreatePeerTemplate(d, t) # None, NEW S, Quiet(d, S, g)
             PROVE  Quiet(e, S, g) /\ CreatePeerTemplate(d, t) = e
  BY DEF KeptFor
<1>1. "templates" \in DOMAIN d /\ DOMAIN d["templates"] \subseteq Nat /\ Stored(d)
  BY SoundIs, TablesAre DEF Tables, SymbolTables
<1>2. CreatePeerTemplate(d, t) = e
  BY DEF CreatePeerTemplate
<1>3. Puts(d, e, "templates", i, t) /\ d["templates"][i] = None
  BY <1>1, <1>2, InsertPuts
<1> HIDE DEF e, i
<1>4. ~TemplateHeld(d, i)
  <2> SUFFICES ASSUME NEW p \in Live(d.peers), d.peers[p].tmpl = i PROVE FALSE
    BY DEF TemplateHeld
  <2>1. LinkHolds(d, d.peers[p])
    BY SoundIs DEF PeersSound, PeerRow
  <2>2. i \in DOMAIN d["templates"]
    BY <1>3 DEF Puts
  <2>3. i # None
    BY <1>1, <2>2, CatalogAssumption
  <2>. QED BY <2>1, <2>3, <1>3 DEF LinkHolds, Live
<1>. QED
  BY <1>2, <1>3, <1>4, PutLooseTemplateQuietly

LEMMA DeletePeerTemplateQuietly ==
    ASSUME NEW d, Sound(d), NEW id
    PROVE  QuietKept(d, DeletePeerTemplate(d, id))
<1> DEFINE e == Delete(d, "templates", id)
<1> SUFFICES ASSUME DeletePeerTemplate(d, id) # None, NEW S, NEW g, Quiet(d, S, g)
             PROVE  Quiet(e, S, g) /\ DeletePeerTemplate(d, id) = e
  BY DEF QuietKept
<1>1. "templates" \in DOMAIN d
  BY SoundIs, TablesAre
<1>2. DeletePeerTemplate(d, id) = e /\ ~TemplateHeld(d, id)
  BY DEF DeletePeerTemplate, Restricted
<1>3. Puts(d, e, "templates", id, Gone)
  BY <1>1, <1>2, DeletePuts
<1> HIDE DEF e
<1>. QED
  BY <1>2, <1>3, PutLooseTemplateQuietly

LEMMA UpdatePeerTemplateQuietly ==
    ASSUME NEW d, Sound(d), NEW t \in PeerTemplate, ValidTemplate(t) = t, NEW id,
           ~symbolClash(d, t.name),
           NEW g, CommunityRefs(t.shape) \subseteq CommunityNames(d) \cup g
    PROVE  KeptFor(d, g, UpdatePeerTemplate(d, id, t))
<1> DEFINE saved == Update(d, "templates", id, t)
           e == RewriteLinked(saved, id, t)
<1> SUFFICES ASSUME UpdatePeerTemplate(d, id, t) # None, NEW S, Quiet(d, S, g)
             PROVE  Quiet(e, S, g) /\ UpdatePeerTemplate(d, id, t) = e
  BY DEF KeptFor
<1>1. "templates" \in DOMAIN d /\ "peers" \in DOMAIN d /\ Stored(d)
  BY SoundIs, TablesAre
<1>2. saved # None /\ PoliciesExist(d, t.chain) /\ UpdatePeerTemplate(d, id, t) = e
  BY DEF UpdatePeerTemplate
<1>3. Puts(d, saved, "templates", id, t)
  BY <1>1, <1>2, UpdatePuts
<1> HIDE DEF saved
<1>0. TemplateRow(d, t)
  BY <1>2 DEF TemplateRow
<1>4. Sound(saved)
  BY <1>0, <1>3, PutTemplateKeeps
<1>5. id \in Live(saved.templates) /\ saved.templates[id] = t
  BY <1>3, RowIsThere DEF Puts, Live
<1>6. saved.peers = d.peers /\ DOMAIN saved = DOMAIN d /\ "peers" \in DOMAIN saved
  BY <1>1, <1>3 DEF Puts
<1>7. /\ DOMAIN e.peers = DOMAIN d.peers
      /\ \A x \in DOMAIN d \ {"peers"} : e[x] = saved[x]
      /\ \A j \in DOMAIN d.peers :
            e.peers[j] = IF j \in Linked(saved, id)
                         THEN updatePeerShape(ApplyTo(t, id, d.peers[j])) ELSE d.peers[j]
  <2>1. /\ DOMAIN e.peers = DOMAIN saved.peers
        /\ \A x \in DOMAIN saved \ {"peers"} : e[x] = saved[x]
        /\ \A j \in DOMAIN saved.peers :
              e.peers[j] = IF j \in Linked(saved, id)
                           THEN updatePeerShape(ApplyTo(t, id, saved.peers[j])) ELSE saved.peers[j]
    BY <1>6 DEF RewriteLinked
  <2>. QED BY <2>1, <1>6
<1> HIDE DEF e
<1>8. e.templates = saved.templates /\ \A tb \in Others : e[tb] = saved[tb]
  BY <1>1, <1>7, TablesAre DEF Others, Tables, SymbolTables
<1> DEFINE names == CommunityNames(d) \cup g
<1>9. /\ TemplatesQuiet(saved, names)
      /\ \A j \in Live(d.peers) :
            /\ Named(saved.templates, d.peers[j].name) = {}
            /\ d.peers[j].tmpl # id => QuietPeer(saved, d.peers[j], j \in S, names)
  <2>. HIDE DEF names
  <2>1. names = CommunityNames(d) \cup g
    BY DEF names
  <2>2. /\ t \in PeerTemplate /\ ~symbolClash(d, t.name)
        /\ CommunityRefs(t.shape) \subseteq CommunityNames(d) \cup g
    OBVIOUS
  <2>. QED BY <1>3, <2>1, <2>2, PutTemplateQuietly
<1> HIDE DEF names
<1>10. ASSUME NEW j \in Live(e.peers) PROVE QuietPeer(saved, e.peers[j], j \in S, names)
  <2>1. CASE j \in Linked(saved, id)
    <3>1. j \in Live(d.peers) /\ j \in DOMAIN d.peers
      BY <2>1, <1>6 DEF Linked, Live
    <3>2. d.peers[j] \in Peer
      BY <3>1, SoundIs DEF PeersSound, PeerRow
    <3>3. QuietTemplate(saved, t, names)
      BY <1>5, <1>9 DEF TemplatesQuiet
    <3>4. QuietPeer(saved, updatePeerShape(ApplyTo(t, id, d.peers[j])), FALSE, names)
      BY <3>1, <3>2, <3>3, <1>4, <1>5, <1>9, RewrittenFollows
    <3>5. e.peers[j] = updatePeerShape(ApplyTo(t, id, d.peers[j]))
      BY <2>1, <3>1, <1>7
    <3>. QED BY <3>4, <3>5 DEF QuietPeer, Follows
  <2>2. CASE j \notin Linked(saved, id)
    <3>1. j \in Live(d.peers) /\ e.peers[j] = d.peers[j]
      BY <2>2, <1>7, <1>10 DEF Live
    <3>2. d.peers[j].tmpl # id
      BY <3>1, <2>2, <1>6 DEF Linked
    <3>. QED BY <3>1, <3>2, <1>9
  <2>. QED BY <2>1, <2>2
<1>11. PeersQuiet(e, S, names)
  BY <1>8, <1>10 DEF PeersQuiet, QuietPeer, Follows
<1>12. TemplatesQuiet(e, names)
  BY <1>8, <1>9 DEF TemplatesQuiet, QuietTemplate
<1>13. \A x \in DOMAIN d \ {"peers", "templates"} : e[x] = d[x]
  BY <1>3, <1>7 DEF Puts
<1>. QED
  BY <1>1, <1>2, <1>11, <1>12, <1>13, PairQuietly DEF names

LEMMA TableNames ==
    ASSUME NEW d, Stored(d), NEW tb \in Others
    PROVE  /\ tb \in DOMAIN d /\ DOMAIN d[tb] \subseteq Nat
           /\ tb \notin {"peers", "templates", "policies"}
  BY TablesAre DEF Others, Tables, SymbolTables

\* What lies beside the tables the properties look at.
LEMMA BesideQuietly ==
    ASSUME NEW d, NEW e, e.peers = d.peers, e.templates = d.templates, e.policies = d.policies,
           \A tb \in Others : e[tb] = d[tb]
    PROVE  QuietKept(d, e)
<1>1. e.sets = d.sets /\ e.communities = d.communities
  BY DEF Others
<1>2. CommunityNames(e) = CommunityNames(d) /\ OneFamily(e) <=> OneFamily(d)
  BY <1>1 DEF CommunityNames, OneFamily, LiveRows
<1>3. CommunityNames(e) = CommunityNames(d)
  BY <1>1 DEF CommunityNames
<1> SUFFICES ASSUME NEW S, NEW g, Quiet(d, S, g) PROVE Quiet(e, S, g)
  BY DEF QuietKept
<1> DEFINE names == CommunityNames(d) \cup g
<1>4. OneFamily(e)
  BY <1>1 DEF Quiet, OneFamily, LiveRows
<1>5. PeersQuiet(d, S, names) /\ TemplatesQuiet(d, names) /\ PoliciesQuiet(d, names)
  BY QuietIs
<1>6. PeersQuiet(e, S, names) /\ TemplatesQuiet(e, names) /\ PoliciesQuiet(e, names)
  BY <1>5 DEF PeersQuiet, TemplatesQuiet, PoliciesQuiet, QuietPeer, QuietTemplate, Follows
<1> HIDE DEF names
<1>. QED
  BY <1>3, <1>4, <1>6, QuietIs DEF names

LEMMA PutRouteQuietly ==
    ASSUME NEW d, Stored(d), NEW e, NEW i, NEW row, Puts(d, e, "routes", i, row)
    PROVE  QuietKept(d, e)
<1>1. \A tb \in Others : e[tb] = d[tb]
  BY TableNames DEF Puts, Others
<1>2. e.peers = d.peers /\ e.templates = d.templates /\ e.policies = d.policies
  BY TablesAre DEF Puts
<1>. QED
  BY <1>1, <1>2, BesideQuietly

LEMMA SettingsQuietly ==
    ASSUME NEW d, Sound(d), NEW tb \in {"router", "bogons"}, NEW x
    PROVE  QuietKept(d, [d EXCEPT ![tb] = x])
<1> DEFINE e == [d EXCEPT ![tb] = x]
<1>1. \A y \in Tables : e[y] = d[y]
  BY SoundIs, NoTable
<1> HIDE DEF e
<1>2. e.peers = d.peers /\ e.templates = d.templates /\ e.policies = d.policies
  BY <1>1 DEF Tables, SymbolTables
<1>3. \A y \in Others : e[y] = d[y]
  BY <1>1 DEF Tables, SymbolTables, Others
<1>4. QuietKept(d, e)
  BY <1>2, <1>3, BesideQuietly
<1>. QED
  BY <1>4 DEF e

LEMMA PutPolicyQuietly ==
    ASSUME NEW d, Stored(d), NEW e, NEW i, NEW row, Puts(d, e, "policies", i, row),
           NEW g, row = Gone \/ {row.comm} \ {None} \subseteq CommunityNames(d) \cup g
    PROVE  KeptFor(d, g, e)
<1> SUFFICES ASSUME NEW S, Quiet(d, S, g) PROVE Quiet(e, S, g)
  BY DEF KeptFor
<1> DEFINE names == CommunityNames(d) \cup g
<1>1. \A tb \in Others : e[tb] = d[tb]
  BY TableNames DEF Puts
<1>2. e.peers = d.peers /\ e.templates = d.templates /\ e.sets = d.sets
      /\ e.communities = d.communities
  BY TablesAre DEF Puts
<1>3. CommunityNames(e) = CommunityNames(d)
  BY <1>2 DEF CommunityNames
<1>4. OneFamily(e)
  BY <1>2 DEF Quiet, OneFamily, LiveRows
<1>5. PeersQuiet(d, S, names) /\ TemplatesQuiet(d, names) /\ PoliciesQuiet(d, names)
  BY QuietIs
<1>6. PeersQuiet(e, S, names) /\ TemplatesQuiet(e, names)
  BY <1>1, <1>2, <1>5 DEF PeersQuiet, TemplatesQuiet, QuietPeer, QuietTemplate, Follows
<1>7. ASSUME NEW j \in Live(e.policies) PROVE {e.policies[j].comm} \ {None} \subseteq names
  <2>1. CASE j = i
    BY <2>1, <1>7 DEF Puts, Live
  <2>2. CASE j # i
    BY <2>2, <1>5, <1>7 DEF Puts, Live, PoliciesQuiet
  <2>. QED BY <2>1, <2>2
<1> HIDE DEF names
<1>. QED
  BY <1>3, <1>4, <1>6, <1>7, QuietIs DEF names, PoliciesQuiet

\* A row in one of the other tables that render a symbol.
LEMMA PutOtherQuietly ==
    ASSUME NEW d, Stored(d), NEW e, NEW tb \in Others, NEW i, NEW row, Puts(d, e, tb, i, row),
           row = Gone \/ Named(d.templates, row.name) = {},
           tb = "sets" => row = Gone \/ row.entries \subseteq Prefixes(row.family),
           NEW S, NEW g, Quiet(d, S, g),
           NEW g2, NamedCommunities(d) \subseteq CommunityNames(e) \cup g2
    PROVE  Quiet(e, S, g2)
<1>1. e.peers = d.peers /\ e.templates = d.templates /\ e.policies = d.policies
  BY TablesAre DEF Puts, Others
<1>2. NamedCommunities(e) \subseteq CommunityNames(e) \cup g2
  BY <1>1 DEF NamedCommunities, PeerRefs, TemplateRefs, PolicyRefs
<1>3. Followed(e, S)
  BY <1>1 DEF Quiet, Followed, Follows
<1>4. OneFamily(e)
  <2>0. "sets" \in DOMAIN d
    BY TablesAre
  <2>1. CASE tb = "sets"
    <3>. SUFFICES ASSUME NEW j \in Live(e.sets)
                  PROVE  e.sets[j].entries \subseteq Prefixes(e.sets[j].family)
      BY DEF OneFamily, LiveRows
    <3>1. CASE j = i
      BY <2>1, <3>1 DEF Puts, Live
    <3>2. CASE j # i
      <4>1. j \in Live(d.sets) /\ e.sets[j] = d.sets[j]
        BY <2>1, <3>2 DEF Puts, Live
      <4>. QED BY <4>1 DEF Quiet, OneFamily, LiveRows
    <3>. QED BY <3>1, <3>2
  <2>2. CASE tb # "sets"
    <3>1. e.sets = d.sets
      BY <2>0, <2>2 DEF Puts
    <3>. QED BY <3>1 DEF Quiet, OneFamily, LiveRows
  <2>. QED BY <2>1, <2>2
<1>5. OwnTemplateNames(e)
  <2>1. \A j \in Live(d.peers) : Named(e.templates, e.peers[j].name) = {}
    BY <1>1, NamesAre DEF Quiet
  <2>2. ASSUME NEW t \in Live(d.templates), NEW x \in Others
        PROVE  Named(e[x], d.templates[t].name) = {}
    <3>1. Named(d[x], d.templates[t].name) = {}
      BY NamesAre DEF Quiet
    <3>2. CASE x = tb
      <4> SUFFICES ASSUME NEW j \in Live(e[tb]), e[tb][j].name = d.templates[t].name PROVE FALSE
        BY <3>2 DEF Named
      <4>1. CASE j = i
        <5>1. row = e[tb][j] /\ row # Gone
          BY <4>1 DEF Puts, Live
        <5>. QED BY <5>1 DEF Named
      <4>2. CASE j # i
        <5>1. j \in Live(d[tb]) /\ e[tb][j] = d[tb][j]
          BY <4>2 DEF Puts, Live
        <5>. QED BY <5>1, <3>1, <3>2 DEF Named
      <4>. QED BY <4>1, <4>2
    <3>3. CASE x # tb
      BY <3>1, <3>3, TableNames DEF Puts
    <3>. QED BY <3>2, <3>3
  <2>3. \A t \in Live(d.templates) : d.templates[t].name \notin builtinSymbols
    BY NamesAre DEF Quiet
  <2>. QED BY <1>1, <2>1, <2>2, <2>3, NamesAre
<1>. QED
  BY <1>2, <1>3, <1>4, <1>5 DEF Quiet

\* The communities are another matter than the other four.
LEMMA PutQuietly ==
    ASSUME NEW d, Stored(d), NEW e, NEW tb \in Others \ {"communities"}, NEW i, NEW row,
           Puts(d, e, tb, i, row),
           row = Gone \/ Named(d.templates, row.name) = {},
           tb = "sets" => row = Gone \/ row.entries \subseteq Prefixes(row.family)
    PROVE  QuietKept(d, e)
<1> SUFFICES ASSUME NEW S, NEW g, Quiet(d, S, g) PROVE Quiet(e, S, g)
  BY DEF QuietKept
<1>1. e.communities = d.communities
  BY TablesAre DEF Puts, Others
<1>2. NamedCommunities(d) \subseteq CommunityNames(e) \cup g
  BY <1>1 DEF Quiet, CommunityNames
<1>3. tb \in Others
  OBVIOUS
<1>. QED
  BY <1>2, <1>3, PutOtherQuietly

\* A row keeps a name no template has.
LEMMA TakenName ==
    ASSUME NEW d, NEW S, NEW g, Quiet(d, S, g), NEW tb \in Others, NEW i \in Live(d[tb])
    PROVE  Named(d.templates, d[tb][i].name) = {}
<1> SUFFICES ASSUME NEW t \in Live(d.templates), d.templates[t].name = d[tb][i].name PROVE FALSE
  BY DEF Named
<1>1. Named(d[tb], d.templates[t].name) = {}
  BY NamesAre DEF Quiet
<1>. QED
  BY <1>1 DEF Named

LEMMA SavePolicyQuietly ==
    ASSUME NEW d, Sound(d), NEW p, NEW id,
           NEW g, {p.comm} \ {None} \subseteq CommunityNames(d) \cup g
    PROVE  KeptFor(d, g, CreatePolicy(d, p)) /\ KeptFor(d, g, UpdatePolicy(d, id, p))
<1>1. "policies" \in DOMAIN d /\ DOMAIN d["policies"] \subseteq Nat /\ Stored(d)
  BY SoundIs, TablesAre DEF Tables, SymbolTables
<1>2. ASSUME NEW e, NEW i, Puts(d, e, "policies", i, p) PROVE KeptFor(d, g, e)
  BY <1>1, <1>2, PutPolicyQuietly
<1>3. CreatePolicy(d, p) # None => Puts(d, CreatePolicy(d, p), "policies", NextId(d["policies"]), p)
  BY <1>1, InsertPuts DEF CreatePolicy
<1>4. UpdatePolicy(d, id, p) # None => Puts(d, UpdatePolicy(d, id, p), "policies", id, p)
  BY <1>1, UpdatePuts DEF UpdatePolicy
<1>. QED
  BY <1>2, <1>3, <1>4 DEF KeptFor

LEMMA DeletePolicyQuietly ==
    ASSUME NEW d, Sound(d), NEW id
    PROVE  QuietKept(d, DeletePolicy(d, id))
<1>1. "policies" \in DOMAIN d /\ Stored(d)
  BY SoundIs, TablesAre
<1>2. DeletePolicy(d, id) # None => Puts(d, DeletePolicy(d, id), "policies", id, Gone)
  BY <1>1, DeletePuts DEF DeletePolicy
<1>. QED
  BY <1>1, <1>2, PutPolicyQuietly DEF QuietKept, KeptFor

\* RPKI servers and BMP stations; the AS sets are deleted like them.
LEMMA RowsQuietly ==
    ASSUME NEW d, Sound(d), NEW tb \in {"asSets", "servers", "stations"}, NEW id, NEW row,
           Named(d.templates, row.name) = {}
    PROVE  /\ QuietKept(d, Insert(d, tb, row))
           /\ QuietKept(d, Update(d, tb, id, row))
<1>1. tb \in Others \ {"communities"} /\ tb # "sets" /\ Stored(d)
  BY SoundIs DEF Others
<1>2. tb \in DOMAIN d /\ DOMAIN d[tb] \subseteq Nat
  BY <1>1, TableNames
<1>3. ASSUME NEW e, NEW i, Puts(d, e, tb, i, row) PROVE QuietKept(d, e)
  BY <1>1, <1>3, PutQuietly
<1>4. Insert(d, tb, row) # None => Puts(d, Insert(d, tb, row), tb, NextId(d[tb]), row)
  BY <1>2, InsertPuts
<1>5. Update(d, tb, id, row) # None => Puts(d, Update(d, tb, id, row), tb, id, row)
  BY <1>2, UpdatePuts
<1>. QED
  BY <1>3, <1>4, <1>5 DEF QuietKept

LEMMA DeleteQuietly ==
    ASSUME NEW d, Sound(d), NEW tb \in {"sets", "asSets", "servers", "stations"}, NEW id
    PROVE  QuietKept(d, Delete(d, tb, id))
<1>1. tb \in Others \ {"communities"} /\ Stored(d)
  BY SoundIs DEF Others
<1>2. tb \in DOMAIN d
  BY <1>1, TableNames
<1>3. Delete(d, tb, id) # None => Puts(d, Delete(d, tb, id), tb, id, Gone)
  BY <1>2, DeletePuts
<1>4. ASSUME NEW e, NEW i, Puts(d, e, tb, i, Gone) PROVE QuietKept(d, e)
  BY <1>1, <1>4, PutQuietly
<1>. QED
  BY <1>3, <1>4 DEF QuietKept

LEMMA RoutesQuietly ==
    ASSUME NEW d, Sound(d), NEW id, NEW row
    PROVE  /\ QuietKept(d, Insert(d, "routes", row))
           /\ QuietKept(d, Update(d, "routes", id, row))
           /\ QuietKept(d, Delete(d, "routes", id))
<1>1. "routes" \in DOMAIN d /\ DOMAIN d["routes"] \subseteq Nat /\ Stored(d)
  BY SoundIs, TablesAre DEF Tables, SymbolTables
<1>2. ASSUME NEW e, NEW i, NEW x, Puts(d, e, "routes", i, x) PROVE QuietKept(d, e)
  BY <1>1, <1>2, PutRouteQuietly
<1>3. Insert(d, "routes", row) # None
      => Puts(d, Insert(d, "routes", row), "routes", NextId(d["routes"]), row)
  BY <1>1, InsertPuts
<1>4. Update(d, "routes", id, row) # None
      => Puts(d, Update(d, "routes", id, row), "routes", id, row)
  BY <1>1, UpdatePuts
<1>5. Delete(d, "routes", id) # None => Puts(d, Delete(d, "routes", id), "routes", id, Gone)
  BY <1>1, DeletePuts
<1>. QED
  BY <1>2, <1>3, <1>4, <1>5 DEF QuietKept

LEMMA SaveASSetQuietly ==
    ASSUME NEW d, Sound(d), NEW s \in ASSet, Named(d.templates, s.name) = {}, NEW id
    PROVE  QuietKept(d, CreateASSet(d, s)) /\ QuietKept(d, UpdateASSet(d, id, s))
<1>1. QuietKept(d, CreateASSet(d, s))
  BY RowsQuietly DEF CreateASSet
<1>2. QuietKept(d, UpdateASSet(d, id, s))
  <2> DEFINE row == [s EXCEPT !.failed = d.asSets[id].failed]
  <2>1. row.name = s.name
    BY DEF ASSet
  <2> HIDE DEF row
  <2>2. QuietKept(d, Update(d, "asSets", id, row))
    BY <2>1, RowsQuietly
  <2>3. UpdateASSet(d, id, s) = None \/ UpdateASSet(d, id, s) = Update(d, "asSets", id, row)
    BY DEF UpdateASSet, row
  <2>. QED BY <2>2, <2>3 DEF QuietKept
<1>. QED
  BY <1>1, <1>2

LEMMA refreshOneASSetQuietly ==
    ASSUME NEW d, Sound(d), NEW id, NEW copy \in ASSet, NEW got \in ExpandedASNs
    PROVE  QuietKept(d, refreshOneASSet(d, id, copy, got))
<1> DEFINE e == refreshOneASSet(d, id, copy, got)
<1>1. e = d \/ ASSetTouched(d, e, id)
  BY refreshOneASSetPuts
<1> HIDE DEF e
<1>2. ASSUME e # None, ASSetTouched(d, e, id), NEW S, NEW g, Quiet(d, S, g) PROVE Quiet(e, S, g)
  <2>1. PICK row : /\ id \in Live(d.asSets) /\ Puts(d, e, "asSets", id, row)
                   /\ row.name = d.asSets[id].name
    BY <1>2 DEF ASSetTouched
  <2>2. "asSets" \in Others \ {"communities"} /\ Stored(d)
    BY SoundIs DEF Others
  <2>3. Named(d.templates, d["asSets"][id].name) = {}
    BY <1>2, <2>1, <2>2, TakenName
  <2>4. QuietKept(d, e)
    BY <2>1, <2>2, <2>3, PutQuietly
  <2>. QED BY <1>2, <2>4 DEF QuietKept
<1>. QED
  BY <1>1, <1>2 DEF QuietKept, e

LEMMA PutSetQuietly ==
    ASSUME NEW d, Sound(d), NEW e, NEW i, NEW row, Puts(d, e, "sets", i, row),
           Named(d.templates, row.name) = {}, row.entries \subseteq Prefixes(row.family)
    PROVE  QuietKept(d, e)
<1>1. "sets" \in Others \ {"communities"} /\ Stored(d)
  BY SoundIs DEF Others
<1>. QED
  BY <1>1, PutQuietly

LEMMA SavePrefixSetQuietly ==
    ASSUME NEW d, Sound(d), NEW s \in PrefixSet, ValidPrefixSet(s), NEW id,
           Named(d.templates, s.name) = {}
    PROVE  QuietKept(d, CreatePrefixSet(d, s)) /\ QuietKept(d, UpdatePrefixSet(d, id, s))
<1>0. s.entries \subseteq Prefixes(s.family)
  BY DEF ValidPrefixSet
<1>1. "sets" \in DOMAIN d /\ DOMAIN d["sets"] \subseteq Nat
  BY SoundIs, TablesAre DEF Tables, SymbolTables
<1>2. QuietKept(d, CreatePrefixSet(d, s))
  <2>1. CreatePrefixSet(d, s) # None
        => Puts(d, CreatePrefixSet(d, s), "sets", NextId(d["sets"]), s)
    BY <1>1, InsertPuts DEF CreatePrefixSet
  <2>. QED BY <1>0, <2>1, PutSetQuietly DEF QuietKept
<1>3. QuietKept(d, UpdatePrefixSet(d, id, s))
  <2> DEFINE row == [s EXCEPT !.disabled = d.sets[id].disabled, !.system = d.sets[id].system,
                              !.failed = d.sets[id].failed]
             e == Update(d, "sets", id, row)
  <2>1. row.name = s.name /\ row.entries = s.entries /\ row.family = s.family
    BY DEF PrefixSet
  <2>2. UpdatePrefixSet(d, id, s) \in {e, None}
    BY DEF UpdatePrefixSet
  <2> HIDE DEF row
  <2>3. e # None => Puts(d, e, "sets", id, row)
    BY <1>1, UpdatePuts
  <2> HIDE DEF e
  <2>. QED BY <1>0, <2>1, <2>2, <2>3, PutSetQuietly DEF QuietKept
<1>. QED
  BY <1>2, <1>3

\* A set whose name stays, and that holds what it held or prefixes of its own family.
LEMMA SetTouchedQuietly ==
    ASSUME NEW d, Sound(d), NEW e, NEW id, NEW entries, SetTouched(d, e, id, entries),
           entries \subseteq Prefixes(d.sets[id].family)
    PROVE  QuietKept(d, e)
<1> SUFFICES ASSUME e # None, NEW S, NEW g, Quiet(d, S, g) PROVE Quiet(e, S, g)
  BY DEF QuietKept
<1>1. PICK row : /\ id \in Live(d.sets) /\ Puts(d, e, "sets", id, row)
                 /\ row.name = d.sets[id].name /\ row.family = d.sets[id].family
                 /\ row.entries \in {d.sets[id].entries, entries}
  BY DEF SetTouched
<1>2. "sets" \in Others
  BY DEF Others
<1>3. Named(d.templates, d["sets"][id].name) = {}
  BY <1>1, <1>2, TakenName
<1>4. d.sets[id].entries \subseteq Prefixes(d.sets[id].family)
  BY <1>1 DEF Quiet, OneFamily, LiveRows
<1>5. QuietKept(d, e)
  BY <1>1, <1>3, <1>4, PutSetQuietly
<1>. QED
  BY <1>5 DEF QuietKept

LEMMA SetPrefixSetDisabledQuietly ==
    ASSUME NEW d, Sound(d), NEW id, NEW off \in BOOLEAN
    PROVE  QuietKept(d, SetPrefixSetDisabled(d, id, off))
  BY SetPrefixSetDisabledPuts, SetTouchedQuietly DEF QuietKept

\* What bgpq4 answered is of the family it was asked for, the one the copy has.
LEMMA refreshOneSetQuietly ==
    ASSUME NEW d, Sound(d), NEW id, NEW copy, copy.entries # {}, copy = d.sets[id],
           NEW got, got = None \/ got \subseteq Prefixes(copy.family)
    PROVE  QuietKept(d, refreshOneSet(d, id, copy, got))
<1> DEFINE e == refreshOneSet(d, id, copy, got)
<1>1. CASE id \notin Live(d.sets)
  <2>1. e = d
    BY <1>1 DEF refreshOneSet, MarkPrefixSetRefreshError, MarkPrefixSetRefreshed,
                RefreshPrefixSetEntries, affectedOne
  <2>. QED BY <2>1 DEF QuietKept
<1>2. CASE id \in Live(d.sets) /\ got # None
  <2>1. got \subseteq V4 \cup V6
    BY <1>2 DEF Prefixes
  <2>2. e = d \/ SetTouched(d, e, id, got)
    BY <2>1, refreshOneSetPuts
  <2> HIDE DEF e
  <2>3. QuietKept(d, d)
    BY DEF QuietKept
  <2>4. QuietKept(d, e)
    BY <1>2, <2>2, <2>3, SetTouchedQuietly
  <2>. QED BY <2>4 DEF e
<1>3. CASE id \in Live(d.sets) /\ got = None
  <2>1. e = d \/ SetTouched(d, e, id, got)
    BY <1>3, refreshOneSetPuts
  <2>2. e = MarkPrefixSetRefreshError(d, id)
    BY <1>3 DEF refreshOneSet
  <2>3. e = [d EXCEPT !.sets[id].failed = TRUE]
    BY <1>3, <2>2 DEF MarkPrefixSetRefreshError, affectedOne
  <2>5. e.sets[id].entries = d.sets[id].entries
    <3>1. d.sets[id] \in PrefixSet /\ "sets" \in DOMAIN d /\ id \in DOMAIN d.sets
      BY <1>3, SetsAreRows DEF SetRow
    <3> DEFINE row == [d.sets[id] EXCEPT !.failed = TRUE]
    <3>2. row.entries = d.sets[id].entries
      BY <3>1 DEF PrefixSet
    <3>3. e.sets[id] = row
      BY <2>3, <3>1
    <3>. QED BY <3>2, <3>3
  <2> HIDE DEF e
  <2>6. e = d \/ SetTouched(d, e, id, {})
    BY <2>1, <2>5 DEF SetTouched, Puts
  <2>7. QuietKept(d, d)
    BY DEF QuietKept
  <2>8. QuietKept(d, e)
    BY <1>3, <2>6, <2>7, SetTouchedQuietly
  <2>. QED BY <2>8 DEF e
<1>. QED
  BY <1>1, <1>2, <1>3

\* The set the bogons of family `f` are saved to.
BogonId(d, f) == CHOOSE s \in Named(d.sets, BogonSet(f)) : TRUE

LEMMA BogonIdIs ==
    ASSUME NEW d, Sound(d), NEW f \in Families
    PROVE  BogonId(d, f) \in Live(d.sets) /\ d.sets[BogonId(d, f)].name = BogonSet(f)
  BY BogonSetIs DEF BogonId

LEMMA SaveBogonSetQuietly ==
    ASSUME NEW d, Sound(d), NEW f \in Families, NEW row, SetRow(row), row.name = BogonSet(f),
           row.family = f, row.entries \subseteq Prefixes(f)
    PROVE  QuietKept(d, UpdatePrefixSet(d, BogonId(d, f), row))
<1> DEFINE id == BogonId(d, f)
           e == UpdatePrefixSet(d, id, row)
<1> SUFFICES ASSUME e # None, NEW S, NEW g, Quiet(d, S, g) PROVE Quiet(e, S, g)
  BY DEF QuietKept
<1> HIDE DEF e
<1>1. id \in Live(d.sets) /\ d.sets[id].name = BogonSet(f)
  BY BogonIdIs
<1> HIDE DEF id
<1>2. "sets" \in Others
  BY DEF Others
<1>3. Named(d.templates, d["sets"][id].name) = {}
  BY <1>1, <1>2, TakenName
<1>4. row \in PrefixSet /\ ValidPrefixSet(row) /\ Named(d.templates, row.name) = {}
  BY <1>1, <1>3 DEF SetRow, ValidPrefixSet
<1>5. QuietKept(d, e)
  BY <1>4, SavePrefixSetQuietly DEF e
<1>. QED
  BY <1>5 DEF QuietKept

-----------------------------------------------------------------------------
(* Communities, which the rest names by their names.                        *)

\* A name that is lost is remembered.
LEMMA SaveCommunityQuietly ==
    ASSUME NEW d, Sound(d), NEW c, Named(d.templates, c.name) = {}, NEW id, NEW e, e # None,
           e \in {CreateCommunityDef(d, c), UpdateCommunityDef(d, id, c)},
           NEW S, NEW g, Quiet(d, S, g)
    PROVE  Quiet(e, S, g \cup (CommunityNames(d) \ CommunityNames(e)))
<1> DEFINE g2 == g \cup (CommunityNames(d) \ CommunityNames(e))
<1>1. "communities" \in DOMAIN d /\ DOMAIN d["communities"] \subseteq Nat /\ Stored(d)
  BY SoundIs, TablesAre DEF Tables, SymbolTables
<1>2. \E i : Puts(d, e, "communities", i, c)
  <2>1. e = CreateCommunityDef(d, c) => Puts(d, e, "communities", NextId(d["communities"]), c)
    BY <1>1, InsertPuts DEF CreateCommunityDef
  <2>2. e = UpdateCommunityDef(d, id, c) => Puts(d, e, "communities", id, c)
    BY <1>1, UpdatePuts DEF UpdateCommunityDef
  <2>. QED BY <2>1, <2>2
<1>3. PICK i : Puts(d, e, "communities", i, c)
  BY <1>2
<1>4. NamedCommunities(d) \subseteq CommunityNames(e) \cup g2
  BY DEF Quiet
<1> HIDE DEF g2
<1>5. "communities" \in Others
  BY DEF Others
<1>6. Quiet(e, S, g2)
  BY <1>1, <1>3, <1>4, <1>5, PutOtherQuietly
<1>. QED
  BY <1>6 DEF g2

\* One that nothing names may go.
LEMMA DeleteCommunityQuietly ==
    ASSUME NEW d, Sound(d), NEW id, ~communityInUse(d, d.communities[id].name)
    PROVE  QuietKept(d, DeleteCommunityDef(d, id))
<1> DEFINE e == DeleteCommunityDef(d, id)
<1> SUFFICES ASSUME e # None, NEW S, NEW g, Quiet(d, S, g) PROVE Quiet(e, S, g)
  BY DEF QuietKept
<1>1. "communities" \in DOMAIN d /\ Stored(d)
  BY SoundIs, TablesAre
<1>2. Puts(d, e, "communities", id, Gone)
  BY <1>1, DeletePuts DEF DeleteCommunityDef
<1> HIDE DEF e
<1>3. CommunityNames(d) \subseteq CommunityNames(e) \cup {d.communities[id].name}
  BY <1>2 DEF CommunityNames, Puts, Live
<1>4. d.communities[id].name \notin NamedCommunities(d)
  BY DEF communityInUse, NamedCommunities
<1>5. NamedCommunities(d) \subseteq CommunityNames(e) \cup g
  BY <1>3, <1>4 DEF Quiet
<1>6. "communities" \in Others
  BY DEF Others
<1>. QED
  BY <1>1, <1>2, <1>5, <1>6, PutOtherQuietly

-----------------------------------------------------------------------------
(* The steps, as long as nothing was outrun.                                *)

Saves(x) == x # None /\ x.at = "second" /\ Is(x, "save", "peers")

LEMMA BeingSavedIs ==
    BeingSaved = {req[q].id : q \in {p \in Requests : Saves(req[p])}}
  BY DEF BeingSaved, At, Saves, Is

LEMMA BeingSavedNext ==
    BeingSaved' = {req'[q].id : q \in {p \in Requests : Saves(req'[p])}}
  BY DEF BeingSaved, At, Saves, Is

\* Who is between the two transactions of a peer's save, after a step of `r`.
LEMMA BeingSavedStays ==
    ASSUME NEW r \in Requests,
           \A q \in Requests \ {r} : Saves(req[q]) => Saves(req'[q]) /\ req'[q].id = req[q].id
    PROVE  /\ BeingSaved \subseteq BeingSaved' \cup {req[r].id}
           /\ ~Saves(req[r]) => BeingSaved \subseteq BeingSaved'
           /\ Saves(req'[r]) => req'[r].id \in BeingSaved'
  BY BeingSavedIs, BeingSavedNext

\* A reader who was not outrun reads the same in the tables that follow.
LEMMA OutrunSees ==
    ASSUME NEW x, IsRequest(x), NEW d, NEW e, NEW g, NEW g2, g \subseteq g2,
           NEW changed \in BOOLEAN, ~changed => e = d,
           x # None, x.fresh => Sees(d, g, x), Outrun(x, changed).fresh
    PROVE  Sees(e, g2, Outrun(x, changed))
<1>1. x.fresh /\ ~changed
  BY OutrunRequest
<1>. QED
  BY <1>1, SeesGrows DEF Outrun

LEMMA OutrunSeesSets ==
    ASSUME NEW l, IsLoop(l), l # None, NEW d, NEW e, NEW changed \in BOOLEAN, ~changed => e = d,
           l.fresh => SeesSets(d, l), Outrun(l, changed).fresh
    PROVE  SeesSets(e, Outrun(l, changed))
<1>1. CASE changed
  <2>1. Outrun(l, changed) = [l EXCEPT !.fresh = FALSE]
    BY <1>1 DEF Outrun
  <2>. QED BY <2>1 DEF IsLoop
<1>2. CASE ~changed
  BY <1>2 DEF Outrun
<1>. QED
  BY <1>1, <1>2

\* What stands for an absent row or a rolled back transaction is no database, and nothing
\* a request or the loop could hold.
NoneIsNothing == ~Stored(None) /\ ~IsRequest(None) /\ ~IsLoop(None)

LEMMA LooksQuiet ==
    ASSUME SafeInv, QuietInv, NEW r \in Requests, NEW c \in calls, NEW id, NEW row,
           NEW next \in {"check", "write"}, Looks(r, c, id, row, next),
           Sees(db, loose, [call |-> c, at |-> next, id |-> id, row |-> row, fresh |-> TRUE])
    PROVE  QuietInv'
<1> DEFINE x == [call |-> c, at |-> next, id |-> id, row |-> row, fresh |-> TRUE]
<1>1. /\ req' = [req EXCEPT ![r] = x] /\ req[r] = None
      /\ db' = db /\ irr' = irr /\ disturbed' = disturbed /\ loose' = loose
  BY DEF Looks
<1>2. DOMAIN req = Requests
  BY DEF SafeInv
<1>3. req'[r] = x /\ \A q \in Requests \ {r} : req'[q] = req[q]
  BY <1>1, <1>2
<1>4. Sees(db, loose, x)
  OBVIOUS
<1> HIDE DEF x
<1>5. \A q \in Requests : req'[q] # None /\ req'[q].fresh => Sees(db', loose', req'[q])
  BY <1>1, <1>3, <1>4 DEF QuietInv
<1>6. BeingSaved \subseteq BeingSaved'
  BY <1>1, <1>3, BeingSavedStays DEF Saves
<1>7. ~disturbed' => Quiet(db', BeingSaved', loose')
  BY <1>1, <1>6, QuietGrows DEF QuietInv
<1>. QED
  BY <1>1, <1>5, <1>7 DEF QuietInv

LEMMA DecidesQuiet ==
    ASSUME SafeInv, QuietInv, NEW r \in Requests, req[r] # None, req[r].at = "check",
           NEW ok, NEW row, Decides(r, ok, row), loose \subseteq loose',
           \A y : y.call = req[r].call /\ y.id = req[r].id /\ y.at = "write" /\ y.row = row
                    /\ ok /\ Sees(db, loose, req[r]) => Sees(db, loose', y)
    PROVE  QuietInv'
<1> DEFINE y == [req[r] EXCEPT !.at = "write", !.row = row]
<1>1. /\ req' = [req EXCEPT ![r] = IF ok THEN y ELSE None]
      /\ db' = db /\ irr' = irr /\ disturbed' = disturbed
  BY DEF Decides
<1>2. DOMAIN req = Requests /\ IsRequest(req[r])
  BY DEF SafeInv, Held
<1>3. Moves(req[r], y, "write", req[r].id, row)
  BY <1>2, Moved
<1> HIDE DEF y
<1>4. req'[r] \in {y, None} /\ (req'[r] # None => ok /\ req'[r] = y)
      /\ \A q \in Requests \ {r} : req'[q] = req[q]
  BY <1>1, <1>2
<1>5. ok /\ y.fresh => Sees(db, loose', y)
  BY <1>3 DEF Moves, QuietInv
<1>6. \A q \in Requests : req'[q] # None /\ req'[q].fresh => Sees(db', loose', req'[q])
  BY <1>1, <1>4, <1>5, SeesGrows DEF QuietInv
<1>7. BeingSaved \subseteq BeingSaved'
  BY <1>4, BeingSavedStays DEF Saves
<1>8. ~disturbed' => Quiet(db', BeingSaved', loose')
  BY <1>1, <1>7, QuietGrows DEF QuietInv
<1>. QED
  BY <1>1, <1>6, <1>8 DEF QuietInv

LEMMA ChecksQuiet ==
    ASSUME SafeInv, QuietInv, NEW r \in Requests, req[r] # None, req[r].at = "check",
           NEW ok, NEW row, Checks(r, ok, row),
           \A y : y.call = req[r].call /\ y.id = req[r].id /\ y.at = "write" /\ y.row = row
                    /\ ok /\ Sees(db, loose, req[r]) => Sees(db, loose, y)
    PROVE  QuietInv'
<1>1. Decides(r, ok, row) /\ loose' = loose
  BY DEF Checks
<1>. QED
  BY <1>1, DecidesQuiet

\* A write of `r` leaves the others at the places they are at.
LEMMA OthersStay ==
    ASSUME NoneIsNothing, SafeInv, NEW r \in Requests, NEW d, NEW next, Writes(r, d, next),
           NEW q \in Requests \ {r}, req[q] # None
    PROVE  /\ req'[q] # None
           /\ req'[q].at = req[q].at /\ req'[q].call = req[q].call /\ req'[q].id = req[q].id
<1> DEFINE changed == d \notin {None, db}
<1>1. req' = [p \in Requests |-> IF p = r THEN Saved(r, d, next) ELSE Outrun(req[p], changed)]
  BY DEF Writes
<1> HIDE DEF changed
<1>2. IsRequest(req[q]) /\ req'[q] = Outrun(req[q], changed)
  BY <1>1 DEF SafeInv, Held
<1>3. changed \in BOOLEAN
  BY DEF changed
<1>4. /\ IsRequest(req'[q]) /\ req'[q].call = req[q].call /\ req'[q].id = req[q].id
      /\ req'[q].at = req[q].at
  BY <1>2, <1>3, OutrunRequest
<1>. QED
  BY <1>4 DEF NoneIsNothing

LEMMA SavesStay ==
    ASSUME NoneIsNothing, SafeInv, NEW r \in Requests, NEW d, NEW next, Writes(r, d, next)
    PROVE  \A q \in Requests \ {r} : Saves(req[q]) => Saves(req'[q]) /\ req'[q].id = req[q].id
  BY OthersStay DEF Saves, Is

\* What a write makes of quiet tables, and what its request has seen of them afterwards.
LeavesQuiet(r, d) ==
    /\ Sees(db, loose, req[r]) /\ d # None /\ Quiet(db, BeingSaved, loose)
          => Quiet(d, BeingSaved', loose')
    /\ Saves(req[r]) /\ Sees(db, loose, req[r]) => d # None
Learns(r, d, next) ==
    \A y : y.call = req[r].call /\ y.at = next /\ y.row = req[r].row /\ y.id = IdSaved(req[r])
             /\ d # None /\ next # "done" /\ Sees(db, loose, req[r]) => Sees(d, loose', y)

\* A write that was not outrun keeps the tables quiet, and knows what it has written; one that
\* was and changes something, or is the second of its request, is remembered.
LEMMA WritesQuiet ==
    ASSUME NoneIsNothing, SafeInv, QuietInv, NEW r \in Requests, req[r] # None, NEW d, NEW next,
           Writes(r, d, next), loose \subseteq loose',
           LeavesQuiet(r, d), Learns(r, d, next)
    PROVE  QuietInv'
<1> DEFINE y == Saved(r, d, next)
           changed == d \notin {None, db}
           late == ~req[r].fresh /\ (changed \/ req[r].at \in {"second", "third"})
<1>1. /\ db' = IF d = None THEN db ELSE d
      /\ req' = [q \in Requests |-> IF q = r THEN y ELSE Outrun(req[q], changed)]
      /\ irr' = Outrun(irr, changed) /\ disturbed' = (disturbed \/ late)
  BY DEF Writes
<1>2. y # None /\ y.fresh => Sees(d, loose', y) /\ d # None
  <2> SUFFICES ASSUME d # None, next # "done", y.fresh PROVE Sees(d, loose', y)
    BY DEF Saved
  <2>1. y = [req[r] EXCEPT !.at = next, !.id = IdSaved(req[r])]
    BY DEF Saved
  <2>2. Moves(req[r], y, next, IdSaved(req[r]), req[r].row)
    <3>1. IsRequest(req[r])
      BY DEF SafeInv, Held
    <3>2. Moves(req[r], [req[r] EXCEPT !.at = next, !.id = IdSaved(req[r])],
                next, IdSaved(req[r]), req[r].row)
      BY <3>1, Moved
    <3>. QED BY <2>1, <3>2
  <2> HIDE DEF y
  <2>. QED BY <2>2 DEF Moves, QuietInv, Learns
<1> HIDE DEF y
<1>3. changed \in BOOLEAN /\ late \in BOOLEAN /\ (~changed => db' = db)
  BY <1>1
<1>4. ASSUME NEW q \in Requests \ {r}
      PROVE  req'[q] = Outrun(req[q], changed) /\ (req[q] = None => req'[q] = None)
  BY <1>1 DEF Outrun
<1>5. ASSUME NEW q \in Requests, req'[q] # None, req'[q].fresh PROVE Sees(db', loose', req'[q])
  <2>1. CASE q = r
    BY <2>1, <1>1, <1>2, <1>5
  <2>2. CASE q # r
    <3>1. req[q] # None /\ IsRequest(req[q]) /\ req'[q] = Outrun(req[q], changed)
      BY <2>2, <1>4, <1>5 DEF SafeInv, Held
    <3>2. req[q].fresh => Sees(db, loose, req[q])
      BY <3>1 DEF QuietInv
    <3> HIDE DEF changed
    <3>. QED BY <3>1, <3>2, <1>3, <1>5, OutrunSees
  <2>. QED BY <2>1, <2>2
<1>6. irr'.fresh => SeesSets(db', irr')
  <2>1. IsLoop(irr) /\ irr # None /\ (irr.fresh => SeesSets(db, irr))
    BY DEF NoneIsNothing, SafeInv, QuietInv
  <2> HIDE DEF changed
  <2>. QED BY <1>1, <1>3, <2>1, OutrunSeesSets
<1>7. ASSUME ~disturbed' PROVE Quiet(db', BeingSaved', loose')
  <2>1. ~disturbed /\ ~late /\ Quiet(db, BeingSaved, loose)
    BY <1>1, <1>3, <1>7 DEF QuietInv
  <2>2. CASE d = None
    <3>1. ~Saves(req[r])
      BY <2>1, <2>2 DEF Saves, QuietInv, LeavesQuiet
    <3>2. BeingSaved \subseteq BeingSaved'
      BY <3>1, SavesStay, BeingSavedStays
    <3>. QED BY <3>2, <2>1, <2>2, <1>1, QuietGrows
  <2>3. CASE d # None /\ req[r].fresh
    BY <2>1, <2>3, <1>1 DEF QuietInv, LeavesQuiet
  <2>4. CASE d # None /\ ~req[r].fresh
    <3>1. d = db /\ ~Saves(req[r])
      BY <2>1, <2>4 DEF Saves
    <3>2. BeingSaved \subseteq BeingSaved'
      BY <3>1, SavesStay, BeingSavedStays
    <3>. QED BY <3>1, <3>2, <2>1, <1>1, QuietGrows
  <2>. QED BY <2>2, <2>3, <2>4
<1>8. disturbed' \in BOOLEAN
  BY <1>1, <1>3 DEF QuietInv
<1>. QED
  BY <1>5, <1>6, <1>7, <1>8 DEF QuietInv

\* The writes of all handlers but the two transactions of a peer's save.
LEMMA KeptWritesQuietly ==
    ASSUME NoneIsNothing, SafeInv, QuietInv, NEW r \in Requests, req[r] # None,
           ~Is(req[r], "save", "peers"), NEW d, NEW next, Writes(r, d, next),
           loose' = loose,
           Sees(db, loose, req[r]) => KeptFor(db, loose, d),
           \A y : y.call = req[r].call /\ y.at = next /\ next # "done" => Sees(d, loose, y)
    PROVE  QuietInv'
<1>1. ~Saves(req[r])
  BY DEF Saves
<1>2. BeingSaved \subseteq BeingSaved'
  BY <1>1, SavesStay, BeingSavedStays
<1>3. LeavesQuiet(r, d)
  <2>. SUFFICES ASSUME Sees(db, loose, req[r]), d # None, Quiet(db, BeingSaved, loose)
                PROVE  Quiet(d, BeingSaved', loose')
    BY <1>1 DEF LeavesQuiet
  <2>1. Quiet(d, BeingSaved, loose)
    BY DEF KeptFor
  <2>. QED BY <1>2, <2>1, QuietGrows
<1>4. Learns(r, d, next)
  BY DEF Learns
<1>5. loose \subseteq loose'
  OBVIOUS
<1>. QED
  BY <1>3, <1>4, <1>5, WritesQuiet

LEMMA WritesQuietly ==
    ASSUME NoneIsNothing, SafeInv, QuietInv, NEW r \in Requests, req[r] # None,
           ~Is(req[r], "save", "peers"), NEW d, NEW next, Writes(r, d, next),
           loose' = loose,
           Sees(db, loose, req[r]) => QuietKept(db, d),
           \A y : y.call = req[r].call /\ y.at = next /\ next # "done" => Sees(d, loose, y)
    PROVE  QuietInv'
  BY KeptWritesQuietly, KeptForAll

\* The last step of such a request.
LEMMA KeptLastWritesQuietly ==
    ASSUME NoneIsNothing, SafeInv, QuietInv, NEW r \in Requests, req[r] # None,
           ~Is(req[r], "save", "peers"), NEW d, Writes(r, d, "done"), loose' = loose,
           Sees(db, loose, req[r]) => KeptFor(db, loose, d)
    PROVE  QuietInv'
  BY KeptWritesQuietly

LEMMA LastWritesQuietly ==
    ASSUME NoneIsNothing, SafeInv, QuietInv, NEW r \in Requests, req[r] # None,
           ~Is(req[r], "save", "peers"), NEW d, Writes(r, d, "done"), loose' = loose,
           Sees(db, loose, req[r]) => QuietKept(db, d)
    PROVE  QuietInv'
  BY WritesQuietly

\* Where a request has read nothing that matters.
LEMMA SeesLittle ==
    ASSUME NEW d, NEW g, NEW x, ~Is(x, "delete", "communities"),
           x.at = "check" \/ x.call.op # "save" \/ x.call.tb = "routes"
    PROVE  Sees(d, g, x)
  BY DEF Sees, Is

-----------------------------------------------------------------------------
(* Peers.                                                                   *)

\* What the check of a peer's form has seen.
LEMMA AcceptedPeerSees ==
    ASSUME NEW d, Sound(d), NEW row \in Peer, PeerAccepted(d, EffectivePeer(d, row))
    PROVE  LET p == EffectivePeer(d, row)
           IN /\ Follows(d, p, FALSE) /\ PoliciesExist(d, p.chain)
              /\ Named(d.templates, p.name) = {}
<1> DEFINE p == EffectivePeer(d, row)
<1>1. LinkHolds(d, p) /\ Named(d.templates, p.name) = {}
  BY FreeOfTemplates DEF PeerAccepted
<1>2. PoliciesExist(d, p.chain)
  BY DEF PeerAccepted, checkChains, PoliciesExist
<1>3. Follows(d, p, FALSE)
  <2>1. LinkHolds(d, row)
    BY <1>1 DEF EffectivePeer
  <2>2. p = ValidPeer(applyTemplate(d, row))
    BY <2>1 DEF EffectivePeer
  <2>3. CASE row.tmpl = None
    <3>1. p.tmpl = None
      BY <2>2, <2>3, ValidPeerIs DEF applyTemplate
    <3>. QED BY <3>1 DEF Follows
  <2>4. CASE row.tmpl # None
    <3> DEFINE id == row.tmpl
               t == d.templates[id]
               a == ApplyTo(t, id, row)
    <3>1. id \in Live(d.templates) /\ TemplateRow(d, t) /\ id \in TemplateIds
      BY <2>1, <2>4, SoundIs, TemplateId DEF LinkHolds, TemplatesSound, Live
    <3>2. t \in PeerTemplate /\ t.shape \in Shape /\ Neat(t.shape)
      <4>1. t \in PeerTemplate /\ ValidTemplate(t) = t
        BY <3>1 DEF TemplateRow
      <4>2. t.shape \in Shape /\ "shape" \in DOMAIN t
        BY <4>1 DEF PeerTemplate
      <4>3. ValidTemplate(t).shape = validateShape(t.shape)
        BY <4>2 DEF ValidTemplate
      <4>. QED BY <4>1, <4>2, <4>3, ValidIsNeat
    <3>3. /\ a \in Peer /\ a.shape = Overriding(row, t.shape) /\ a.chain = t.chain
          /\ a.tmpl = id /\ a.override = row.override
      BY <3>1, <3>2, ApplyToIs
    <3>4. p = ValidPeer(a)
      BY <2>2, <2>4 DEF applyTemplate
    <3> HIDE DEF a
    <3>5. /\ p.shape = validateShape(a.shape) /\ p.chain = a.chain /\ p.tmpl = a.tmpl
          /\ p.override <=> a.override /\ a.tmpl # None
      BY <3>3, <3>4, ValidPeerIs
    <3>6. /\ Overriding(row, t.shape) \in Shape /\ Neat(Overriding(row, t.shape))
          /\ [Overriding(row, t.shape) EXCEPT !.limit = t.shape.limit] = t.shape
          /\ ~row.override => Overriding(row, t.shape) = t.shape
      BY <3>2, OverridingShape
    <3>7. p.shape = Overriding(row, t.shape)
      BY <3>3, <3>5, <3>6, NeatStays
    <3>8. p.tmpl = id /\ p.chain = t.chain /\ (p.override <=> row.override)
      BY <2>4, <3>3, <3>5
    <3> HIDE DEF p, t, id
    <3>9. Follows(d, p, FALSE)
      BY <3>6, <3>7, <3>8 DEF Follows, t
    <3>. QED BY <3>9 DEF p
  <2>. QED BY <2>3, <2>4
<1>. QED
  BY <1>1, <1>2, <1>3

LEMMA PeerWriteQuiet ==
    ASSUME NoneIsNothing, SafeInv, QuietInv, NEW r \in Requests, NEW d,
           At(r, "write", "save", "peers"),
           d = IF IsNew(r) THEN CreatePeer(db, req[r].row)
                           ELSE UpdatePeer(db, req[r].id, req[r].row),
           Writes(r, d, "second"), loose' = loose
    PROVE  QuietInv'
<1> DEFINE x == req[r]
           p == x.row
           i == IdSaved(x)
<1>1. x # None /\ Is(x, "save", "peers") /\ x.at = "write" /\ p \in Peer /\ IsRequest(x)
  BY AtHolds DEF HoldsRow, SafeInv, Held
<1>2. Sound(db)
  BY SafeRows
<1>3. i = IF IsNew(r) THEN NextId(db["peers"]) ELSE x.id
  BY <1>1 DEF IdSaved, Is, IsNew
<1>4. BeingSaved \subseteq BeingSaved' /\ (d # None => i \in BeingSaved')
  <2> DEFINE changed == d \notin {None, db}
             y == Saved(r, d, "second")
  <2>1. req' = [q \in Requests |-> IF q = r THEN y ELSE Outrun(req[q], changed)]
    BY DEF Writes
  <2>2. d # None => Moves(x, y, "second", i, p)
    BY <1>1, Moved DEF Saved
  <2> HIDE DEF changed, y
  <2>3. \A q \in Requests \ {r} : Saves(req[q]) => Saves(req'[q]) /\ req'[q].id = req[q].id
    BY SavesStay
  <2>4. d # None => Saves(req'[r]) /\ req'[r].id = i
    BY <1>1, <2>1, <2>2 DEF Moves, Saves, Is, NoneIsNothing
  <2>5. ~Saves(x)
    BY <1>1 DEF Saves
  <2>. QED BY <2>3, <2>4, <2>5, BeingSavedStays
<1> HIDE DEF i
<1>5. ASSUME Sees(db, loose, x), d # None
      PROVE  /\ Follows(db, p, FALSE) /\ PoliciesExist(db, p.chain)
             /\ QuietPeer(db, p, FALSE, CommunityNames(db) \cup loose)
  BY <1>1, <1>5 DEF Sees, QuietPeer
<1>6. ASSUME Sees(db, loose, x), d # None
      PROVE  /\ Quiet(db, BeingSaved, loose) => Quiet(d, BeingSaved', loose)
             /\ PeerSaved(db, d, i, p)
  <2>1. BeingSaved \cup {i} \subseteq BeingSaved'
    BY <1>4, <1>6
  <2>2. QuietPeer(db, p, FALSE, CommunityNames(db) \cup loose)
    BY <1>5, <1>6
  <2>3. CASE IsNew(r)
    <3>1. d = CreatePeer(db, p) /\ i = NextId(db["peers"])
      BY <2>3, <1>3
    <3>. QED BY <1>1, <1>2, <1>6, <2>1, <2>2, <3>1, CreatePeerQuietly
  <2>4. CASE ~IsNew(r)
    <3>1. d = UpdatePeer(db, x.id, p) /\ i = x.id
      BY <2>4, <1>3
    <3>. QED BY <1>1, <1>2, <1>6, <2>1, <2>2, <3>1, UpdatePeerQuietly
  <2>. QED BY <2>3, <2>4
<1>7. LeavesQuiet(r, d)
  BY <1>1, <1>6 DEF LeavesQuiet, Saves
<1>8. Learns(r, d, "second")
  <2>. SUFFICES ASSUME NEW y, y.call = x.call, y.at = "second", y.row = p, y.id = i, d # None,
                       Sees(db, loose, x)
                PROVE  Sees(d, loose', y)
    BY DEF Learns, i
  <2>1. PeerSaved(db, d, i, p)
    BY <1>6
  <2>2. /\ i \in Live(d.peers) /\ d.peers[i].tmpl = p.tmpl /\ PoliciesExist(d, p.chain)
        /\ p.tmpl # None => p.chain = d.templates[p.tmpl].chain
    BY <1>5, <2>1 DEF PeerSaved, PoliciesExist, Follows
  <2> HIDE DEF p
  <2>. QED BY <1>1, <2>2 DEF Sees, Is
<1>. QED
  BY <1>1, <1>7, <1>8, WritesQuiet

LEMMA PeerSecondQuiet ==
    ASSUME NoneIsNothing, SafeInv, QuietInv, NEW r \in Requests,
           At(r, "second", "save", "peers"),
           Writes(r, SetPeerPolicies(db, req[r].id, req[r].row.chain), "done"),
           loose' = loose
    PROVE  QuietInv'
<1> DEFINE x == req[r]
           p == x.row
           c == p.chain
           d == SetPeerPolicies(db, x.id, c)
<1>1. x # None /\ Is(x, "save", "peers") /\ x.at = "second" /\ p \in Peer
  BY AtHolds DEF HoldsRow
<1>2. Sound(db) /\ c \in Chain
  BY <1>1, SafeRows DEF Peer
<1>3. BeingSaved \subseteq BeingSaved' \cup {x.id}
  BY SavesStay, BeingSavedStays
<1>4. ASSUME Sees(db, loose, x)
      PROVE  /\ d # None
             /\ Quiet(db, BeingSaved, loose) => Quiet(d, BeingSaved', loose)
  <2>1. /\ x.id \in Live(db.peers) /\ db.peers[x.id].tmpl = p.tmpl /\ PoliciesExist(db, c)
        /\ p.tmpl # None => c = db.templates[p.tmpl].chain
    BY <1>1, <1>4 DEF Sees
  <2>2. d # None
    <3> DEFINE row == [db.peers[x.id] EXCEPT !.chain = c]
    <3>1. "peers" \in DOMAIN db /\ x.id \in DOMAIN db["peers"] /\ Stored(db)
      BY <1>2, <2>1, SoundIs, TablesAre DEF Live
    <3>2. d = [db EXCEPT !["peers"][x.id] = row]
      BY <2>1 DEF SetPeerPolicies, affectedOne
    <3> HIDE DEF row, d
    <3>3. Puts(db, d, "peers", x.id, row)
      BY <3>1, <3>2, PutRow
    <3>4. Stored(d)
      BY <3>1, <3>3, StoredPut
    <3>. QED BY <3>4 DEF NoneIsNothing
  <2>3. db.peers[x.id].tmpl # None => c = db.templates[db.peers[x.id].tmpl].chain
    BY <2>1
  <2> HIDE DEF c, p, x
  <2>. QED BY <1>2, <1>3, <2>1, <2>2, <2>3, SetPeerPoliciesQuietly
<1> HIDE DEF d
<1>5. LeavesQuiet(r, d)
  BY <1>4 DEF LeavesQuiet
<1>6. Learns(r, d, "done")
  BY DEF Learns
<1>. QED
  BY <1>1, <1>5, <1>6, WritesQuiet DEF d

LEMMA LooksLittle ==
    ASSUME SafeInv, QuietInv, NEW r \in Requests, NEW c \in calls, NEW id, NEW row,
           NEW next \in {"check", "write"}, Looks(r, c, id, row, next),
           ~(c.op = "delete" /\ c.tb = "communities"),
           next = "check" \/ c.op # "save" \/ c.tb = "routes"
    PROVE  QuietInv'
<1> DEFINE x == [call |-> c, at |-> next, id |-> id, row |-> row, fresh |-> TRUE]
<1>1. ~Is(x, "delete", "communities")
      /\ (x.at = "check" \/ x.call.op # "save" \/ x.call.tb = "routes")
  BY DEF Is
<1> HIDE DEF x
<1>2. Sees(db, loose, x)
  BY <1>1, SeesLittle
<1>. QED
  BY <1>2, LooksQuiet DEF x

LEMMA PeerSaveQuiet ==
    ASSUME NoneIsNothing, SafeInv, QuietInv, NEW r \in Requests, handlePeerSave(r)
    PROVE  QuietInv'
<1>1. ASSUME NEW c \in Asked("save", "peers"), NEW id \in Target(c),
             Looks(r, c, id, KeepSecret(id, c.form), "check")
      PROVE  QuietInv'
  BY <1>1, LooksLittle DEF Asked
<1>2. CASE /\ At(r, "check", "save", "peers")
           /\ LET p == EffectivePeer(db, req[r].row)
              IN ChecksNames(r, PeerAccepted(db, p), CommunityFields(p.shape), p)
  <2> DEFINE x == req[r]
             p == EffectivePeer(db, x.row)
  <2>1. x # None /\ Is(x, "save", "peers") /\ x.at = "check" /\ x.row \in Peer
    BY <1>2, AtHolds DEF HoldsRow
  <2>2. PeerAccepted(db, p) =>
           /\ Follows(db, p, FALSE) /\ PoliciesExist(db, p.chain)
           /\ Named(db.templates, p.name) = {}
    BY <2>1, SafeRows, AcceptedPeerSees
  <2>3. ChecksNames(r, PeerAccepted(db, p), CommunityFields(p.shape), p)
    BY <1>2
  <2> HIDE DEF p
  <2>4. PICK given \in BOOLEAN :
            /\ Decides(r, given, p) /\ (given => PeerAccepted(db, p)) /\ loose \subseteq loose'
            /\ given => CommunityRefs(p.shape) \subseteq CommunityNames(db) \cup loose'
    BY <2>3, NamesDecided DEF CommunityRefs
  <2>5. \A y : y.call = x.call /\ y.id = x.id /\ y.at = "write" /\ y.row = p
                 /\ given /\ Sees(db, loose, x) => Sees(db, loose', y)
    BY <2>1, <2>2, <2>4 DEF Sees, Is
  <2>. QED BY <2>1, <2>4, <2>5, DecidesQuiet
<1>3. CASE /\ At(r, "write", "save", "peers")
           /\ Writes(r, IF IsNew(r) THEN CreatePeer(db, req[r].row)
                                    ELSE UpdatePeer(db, req[r].id, req[r].row), "second")
           /\ UNCHANGED loose
  BY <1>3, PeerWriteQuiet
<1>4. CASE /\ At(r, "second", "save", "peers")
           /\ Writes(r, SetPeerPolicies(db, req[r].id, req[r].row.chain), "done")
           /\ UNCHANGED loose
  BY <1>4, PeerSecondQuiet
<1>. QED
  BY <1>1, <1>2, <1>3, <1>4 DEF handlePeerSave

LEMMA PeerDeleteQuiet ==
    ASSUME NoneIsNothing, SafeInv, QuietInv, NEW r \in Requests, handlePeerDelete(r)
    PROVE  QuietInv'
<1>1. ASSUME NEW c \in Asked("delete", "peers"), NEW id \in Target(c),
             Looks(r, c, id, None, "write")
      PROVE  QuietInv'
  BY <1>1, LooksLittle DEF Asked
<1>2. CASE /\ At(r, "write", "delete", "peers")
           /\ Writes(r, DeletePeer(db, req[r].id), "done")
           /\ UNCHANGED loose
  BY <1>2, SafeRows, DeletePeerQuietly, LastWritesQuietly DEF At, Is
<1>. QED
  BY <1>1, <1>2 DEF handlePeerDelete

LEMMA PeerToggleQuiet ==
    ASSUME NoneIsNothing, SafeInv, QuietInv, NEW r \in Requests, handlePeerToggle(r)
    PROVE  QuietInv'
<1>1. ASSUME NEW c \in Asked("toggle", "peers"), NEW id \in Target(c),
             Looks(r, c, id, db.peers[id], "write")
      PROVE  QuietInv'
  BY <1>1, LooksLittle DEF Asked
<1>2. CASE /\ At(r, "write", "toggle", "peers")
           /\ Writes(r, SetPeerEnabled(db, req[r].id, ~req[r].row.enabled), "done")
           /\ UNCHANGED loose
  <2> DEFINE on == ~req[r].row.enabled
  <2>1. on \in BOOLEAN
    OBVIOUS
  <2>2. Writes(r, SetPeerEnabled(db, req[r].id, on), "done")
    BY <1>2
  <2> HIDE DEF on
  <2>3. QuietKept(db, SetPeerEnabled(db, req[r].id, on))
    BY <2>1, SafeRows, SetPeerEnabledQuietly
  <2>. QED BY <1>2, <2>2, <2>3, LastWritesQuietly DEF At, Is
<1>. QED
  BY <1>1, <1>2 DEF handlePeerToggle

LEMMA PeersAttachQuiet ==
    ASSUME NoneIsNothing, SafeInv, QuietInv, NEW r \in Requests, handlePeersAttach(r)
    PROVE  QuietInv'
<1>1. ASSUME NEW c \in Asked("attach", "peers"),
             LET ids == UNION {namedEntity(db, "peers", n) : n \in c.form.names}
             IN ids # {} /\ Looks(r, c, c.form.to, ids, "write")
      PROVE  QuietInv'
  BY <1>1, LooksLittle DEF Asked
<1>2. CASE /\ At(r, "write", "attach", "peers")
           /\ Writes(r, AttachPeers(db, req[r].row, req[r].id), "done")
           /\ UNCHANGED loose
  BY <1>2, SafeRows, AttachPeersQuietly, LastWritesQuietly DEF At, Is
<1>. QED
  BY <1>1, <1>2 DEF handlePeersAttach

-----------------------------------------------------------------------------
(* Templates and policies.                                                  *)

LEMMA TemplateSaveQuiet ==
    ASSUME NoneIsNothing, SafeInv, QuietInv, NEW r \in Requests, handlePeerTemplateSave(r)
    PROVE  QuietInv'
<1> DEFINE x == req[r]
<1>1. ASSUME NEW c \in Asked("save", "templates"), NEW id \in Target(c),
             Looks(r, c, id, c.form, "check")
      PROVE  QuietInv'
  BY <1>1, LooksLittle DEF Asked
<1>2. CASE /\ At(r, "check", "save", "templates")
           /\ LET t == ValidTemplate(req[r].row)
              IN ChecksNames(r, TemplateAccepted(db, t), CommunityFields(t.shape), t)
  <2> DEFINE t == ValidTemplate(x.row)
  <2>1. x # None /\ Is(x, "save", "templates") /\ x.at = "check"
    BY <1>2, AtHolds
  <2>2. TemplateAccepted(db, t) => ~symbolClash(db, t.name)
    BY DEF TemplateAccepted
  <2>3. ChecksNames(r, TemplateAccepted(db, t), CommunityFields(t.shape), t)
    BY <1>2
  <2> HIDE DEF t
  <2>4. PICK given \in BOOLEAN :
            /\ Decides(r, given, t) /\ (given => TemplateAccepted(db, t)) /\ loose \subseteq loose'
            /\ given => CommunityRefs(t.shape) \subseteq CommunityNames(db) \cup loose'
    BY <2>3, NamesDecided DEF CommunityRefs
  <2>5. \A y : y.call = x.call /\ y.id = x.id /\ y.at = "write" /\ y.row = t
                 /\ given /\ Sees(db, loose, x) => Sees(db, loose', y)
    BY <2>1, <2>2, <2>4 DEF Sees, Is
  <2>. QED BY <2>1, <2>4, <2>5, DecidesQuiet
<1>3. CASE /\ At(r, "write", "save", "templates")
           /\ IF IsNew(r)
              THEN Writes(r, CreatePeerTemplate(db, x.row),
                          IF x.call.link = None THEN "done" ELSE "second")
              ELSE Writes(r, UpdatePeerTemplate(db, x.id, x.row), "done")
           /\ UNCHANGED loose
  <2> DEFINE t == x.row
             n == IF x.call.link = None THEN "done" ELSE "second"
  <2>1. /\ x # None /\ Is(x, "save", "templates") /\ x.at = "write"
        /\ t \in PeerTemplate /\ ValidTemplate(t) = t
    BY <1>3, AtHolds DEF HoldsRow
  <2>2. Sees(db, loose, x) =>
           /\ CommunityRefs(t.shape) \subseteq CommunityNames(db) \cup loose
           /\ ~symbolClash(db, t.name)
    BY <2>1 DEF Sees
  <2>3. Sees(db, loose, x) => /\ KeptFor(db, loose, CreatePeerTemplate(db, t))
                       /\ KeptFor(db, loose, UpdatePeerTemplate(db, x.id, t))
    <3> HIDE DEF x
    <3>. QED BY <2>1, <2>2, SafeRows, CreatePeerTemplateQuietly, UpdatePeerTemplateQuietly
  <2>4. ~Is(x, "save", "peers")
    BY <2>1 DEF Is
  <2>5. CASE IsNew(r)
    <3>1. Writes(r, CreatePeerTemplate(db, t), n) /\ n # "write"
      BY <1>3, <2>5
    <3> HIDE DEF n, t
    <3>2. \A d, y : y.call = x.call /\ y.at = n /\ n # "done" => Sees(d, loose, y)
      BY <2>1, <3>1 DEF Sees, Is
    <3>. QED BY <1>3, <2>1, <2>3, <2>4, <3>1, <3>2, KeptWritesQuietly
  <2>6. CASE ~IsNew(r)
    BY <1>3, <2>1, <2>3, <2>4, <2>6, KeptLastWritesQuietly
  <2>. QED BY <2>5, <2>6
<1>4. CASE /\ At(r, "second", "save", "templates")
           /\ Writes(r, LinkSource(db, x.call.link, x.id), "done")
           /\ UNCHANGED loose
  BY <1>4, SafeRows, LinkSourceQuietly, LastWritesQuietly DEF At, Is
<1>. QED
  BY <1>1, <1>2, <1>3, <1>4 DEF handlePeerTemplateSave

LEMMA TemplateDeleteQuiet ==
    ASSUME NoneIsNothing, SafeInv, QuietInv, NEW r \in Requests, handlePeerTemplateDelete(r)
    PROVE  QuietInv'
<1>1. ASSUME NEW c \in Asked("delete", "templates"), NEW id \in Target(c),
             Looks(r, c, id, None, "write")
      PROVE  QuietInv'
  BY <1>1, LooksLittle DEF Asked
<1>2. CASE /\ At(r, "write", "delete", "templates")
           /\ Writes(r, DeletePeerTemplate(db, req[r].id), "done")
           /\ UNCHANGED loose
  BY <1>2, SafeRows, DeletePeerTemplateQuietly, LastWritesQuietly DEF At, Is
<1>. QED
  BY <1>1, <1>2 DEF handlePeerTemplateDelete

LEMMA PolicySaveQuiet ==
    ASSUME NoneIsNothing, SafeInv, QuietInv, NEW r \in Requests, handlePolicySave(r)
    PROVE  QuietInv'
<1> DEFINE x == req[r]
<1>1. ASSUME NEW c \in Asked("save", "policies"), NEW id \in Target(c),
             Looks(r, c, id, KeepDirection(id, c.form), "check")
      PROVE  QuietInv'
  BY <1>1, LooksLittle DEF Asked
<1>2. CASE /\ At(r, "check", "save", "policies")
           /\ LET p == ValidPolicy(req[r].row)
              IN ChecksNames(r, PolicyAccepted(p), {{p.comm} \ {None}}, p)
  <2> DEFINE p == ValidPolicy(x.row)
  <2>1. x # None /\ Is(x, "save", "policies") /\ x.at = "check"
    BY <1>2, AtHolds
  <2> DEFINE fields == {{p.comm} \ {None}}
  <2>2. ChecksNames(r, PolicyAccepted(p), fields, p)
    BY <1>2
  <2>0. UNION fields = {p.comm} \ {None}
    OBVIOUS
  <2> HIDE DEF p, fields
  <2>3. PICK given \in BOOLEAN :
            /\ Decides(r, given, p) /\ loose \subseteq loose'
            /\ given => UNION fields \subseteq CommunityNames(db) \cup loose'
    BY <2>2, NamesDecided
  <2>4. given => {p.comm} \ {None} \subseteq CommunityNames(db) \cup loose'
    BY <2>0, <2>3
  <2>5. \A y : y.call = x.call /\ y.id = x.id /\ y.at = "write" /\ y.row = p
                 /\ given /\ Sees(db, loose, x) => Sees(db, loose', y)
    BY <2>1, <2>4 DEF Sees, Is
  <2>. QED BY <2>1, <2>3, <2>5, DecidesQuiet
<1>3. CASE /\ At(r, "write", "save", "policies")
           /\ Writes(r, IF IsNew(r) THEN CreatePolicy(db, x.row)
                                    ELSE UpdatePolicy(db, x.id, x.row), "done")
           /\ UNCHANGED loose
  <2> DEFINE d == IF IsNew(r) THEN CreatePolicy(db, x.row) ELSE UpdatePolicy(db, x.id, x.row)
  <2>1. x # None /\ Is(x, "save", "policies") /\ x.at = "write"
    BY <1>3, AtHolds
  <2>2. Sees(db, loose, x) => {x.row.comm} \ {None} \subseteq CommunityNames(db) \cup loose
    BY <2>1 DEF Sees
  <2>3. Sees(db, loose, x) => KeptFor(db, loose, d)
    BY <2>2, SafeRows, SavePolicyQuietly
  <2>4. Writes(r, d, "done") /\ ~Is(x, "save", "peers")
    BY <1>3, <2>1 DEF Is
  <2> HIDE DEF d
  <2>. QED BY <1>3, <2>1, <2>3, <2>4, KeptLastWritesQuietly
<1>. QED
  BY <1>1, <1>2, <1>3 DEF handlePolicySave

LEMMA PolicyDeleteQuiet ==
    ASSUME NoneIsNothing, SafeInv, QuietInv, NEW r \in Requests, handlePolicyDelete(r)
    PROVE  QuietInv'
<1>1. ASSUME NEW c \in Asked("delete", "policies"), NEW id \in Target(c),
             Looks(r, c, id, None, "write")
      PROVE  QuietInv'
  BY <1>1, LooksLittle DEF Asked
<1>2. CASE /\ At(r, "write", "delete", "policies")
           /\ Writes(r, DeletePolicy(db, req[r].id), "done")
           /\ UNCHANGED loose
  BY <1>2, SafeRows, DeletePolicyQuietly, LastWritesQuietly DEF At, Is
<1>. QED
  BY <1>1, <1>2 DEF handlePolicyDelete

-----------------------------------------------------------------------------
(* Prefix sets and AS sets.                                                 *)

\* The checks that keep a row off the names of templates.
LEMMA NamedSees ==
    ASSUME NEW x, NEW tb \in {"sets", "asSets", "communities", "servers", "stations"},
           Is(x, "save", tb), x.at = "check", NEW d, NEW g, NEW row, NEW ok,
           ok => ~refuseTemplateName(d, row.name)
    PROVE  \A y : y.call = x.call /\ y.id = x.id /\ y.at = "write" /\ y.row = row
                     /\ ok /\ Sees(d, g, x) => Sees(d, g, y)
  BY FreeOfTemplates DEF Sees, Is

LEMMA NamedSeen ==
    ASSUME NEW x, NEW tb \in {"sets", "asSets", "communities", "servers", "stations"},
           Is(x, "save", tb), x.at = "write", NEW d, NEW g, Sees(d, g, x)
    PROVE  Named(d.templates, x.row.name) = {}
  BY DEF Sees, Is

LEMMA PrefixSetSaveQuiet ==
    ASSUME NoneIsNothing, SafeInv, QuietInv, NEW r \in Requests, handlePrefixSetSave(r)
    PROVE  QuietInv'
<1> DEFINE x == req[r]
<1>1. ASSUME NEW c \in Asked("save", "sets"), NEW id \in Target(c),
             Looks(r, c, id, KeepSystem(id, c.form), "check")
      PROVE  QuietInv'
  BY <1>1, LooksLittle DEF Asked
<1>2. CASE /\ At(r, "check", "save", "sets")
           /\ LET s == req[r].row
              IN Checks(r, ValidPrefixSet(s) /\ ~refuseTemplateName(db, s.name), s)
  <2> DEFINE s == x.row
             ok == ValidPrefixSet(s) /\ ~refuseTemplateName(db, s.name)
  <2>1. x # None /\ Is(x, "save", "sets") /\ x.at = "check"
    BY <1>2, AtHolds
  <2>2. Checks(r, ok, s) /\ (ok => ~refuseTemplateName(db, s.name))
    BY <1>2
  <2> HIDE DEF ok, s, x
  <2>3. \A y : y.call = x.call /\ y.id = x.id /\ y.at = "write" /\ y.row = s
                 /\ ok /\ Sees(db, loose, x) => Sees(db, loose, y)
    BY <2>1, <2>2, NamedSees
  <2>. QED BY <2>1, <2>2, <2>3, ChecksQuiet DEF x
<1>3. CASE /\ At(r, "write", "save", "sets")
           /\ Writes(r, IF IsNew(r) THEN CreatePrefixSet(db, x.row)
                                    ELSE UpdatePrefixSet(db, x.id, x.row), "done")
           /\ UNCHANGED loose
  <2> DEFINE d == IF IsNew(r) THEN CreatePrefixSet(db, x.row) ELSE UpdatePrefixSet(db, x.id, x.row)
  <2>1. /\ x # None /\ Is(x, "save", "sets") /\ x.at = "write"
        /\ x.row \in PrefixSet /\ ValidPrefixSet(x.row)
    BY <1>3, AtHolds DEF HoldsRow
  <2>2. Sees(db, loose, x) => Named(db.templates, x.row.name) = {}
    <3> HIDE DEF x
    <3>. QED BY <2>1, NamedSeen
  <2>3. Sees(db, loose, x) => QuietKept(db, d)
    BY <2>1, <2>2, SafeRows, SavePrefixSetQuietly
  <2>4. Writes(r, d, "done") /\ ~Is(x, "save", "peers")
    BY <1>3, <2>1 DEF Is
  <2> HIDE DEF d
  <2>. QED BY <1>3, <2>1, <2>3, <2>4, LastWritesQuietly
<1>. QED
  BY <1>1, <1>2, <1>3 DEF handlePrefixSetSave

LEMMA PrefixSetToggleQuiet ==
    ASSUME NoneIsNothing, SafeInv, QuietInv, NEW r \in Requests, handlePrefixSetToggle(r)
    PROVE  QuietInv'
<1>1. ASSUME NEW c \in Asked("toggle", "sets"), NEW id \in Target(c),
             Looks(r, c, id, db.sets[id], "write")
      PROVE  QuietInv'
  BY <1>1, LooksLittle DEF Asked
<1>2. CASE /\ At(r, "write", "toggle", "sets")
           /\ Writes(r, SetPrefixSetDisabled(db, req[r].id, ~req[r].row.disabled), "done")
           /\ UNCHANGED loose
  <2> DEFINE off == ~req[r].row.disabled
  <2>1. off \in BOOLEAN
    OBVIOUS
  <2>2. Writes(r, SetPrefixSetDisabled(db, req[r].id, off), "done")
    BY <1>2
  <2> HIDE DEF off
  <2>3. QuietKept(db, SetPrefixSetDisabled(db, req[r].id, off))
    BY <2>1, SafeRows, SetPrefixSetDisabledQuietly
  <2>. QED BY <1>2, <2>2, <2>3, LastWritesQuietly DEF At, Is
<1>. QED
  BY <1>1, <1>2 DEF handlePrefixSetToggle

\* The store's own words for the deletes of these tables.
LEMMA SetDeletesQuietly ==
    ASSUME NEW d, Sound(d), NEW id
    PROVE  QuietKept(d, DeletePrefixSet(d, id)) /\ QuietKept(d, DeleteASSet(d, id))
<1>1. QuietKept(d, Delete(d, "sets", id)) /\ QuietKept(d, Delete(d, "asSets", id))
  BY DeleteQuietly
<1>2. /\ DeletePrefixSet(d, id) \in {None, Delete(d, "sets", id)}
      /\ DeleteASSet(d, id) \in {None, Delete(d, "asSets", id)}
  BY DEF DeletePrefixSet, DeleteASSet
<1>. QED
  BY <1>1, <1>2 DEF QuietKept

LEMMA PrefixSetDeleteQuiet ==
    ASSUME NoneIsNothing, SafeInv, QuietInv, NEW r \in Requests, handlePrefixSetDelete(r)
    PROVE  QuietInv'
<1>1. ASSUME NEW c \in Asked("delete", "sets"), NEW id \in Target(c),
             Looks(r, c, id, None, "write")
      PROVE  QuietInv'
  BY <1>1, LooksLittle DEF Asked
<1>2. CASE /\ At(r, "write", "delete", "sets")
           /\ Writes(r, DeletePrefixSet(db, req[r].id), "done")
           /\ UNCHANGED loose
  BY <1>2, SafeRows, SetDeletesQuietly, LastWritesQuietly DEF At, Is
<1>. QED
  BY <1>1, <1>2 DEF handlePrefixSetDelete

LEMMA ASSetSaveQuiet ==
    ASSUME NoneIsNothing, SafeInv, QuietInv, NEW r \in Requests, handleASSetSave(r)
    PROVE  QuietInv'
<1> DEFINE x == req[r]
<1>1. ASSUME NEW c \in Asked("save", "asSets"), NEW id \in Target(c),
             Looks(r, c, id, c.form, "check")
      PROVE  QuietInv'
  BY <1>1, LooksLittle DEF Asked
<1>2. CASE /\ At(r, "check", "save", "asSets")
           /\ LET s == req[r].row IN Checks(r, ValidASSet(s) /\ ~refuseTemplateName(db, s.name), s)
  <2> DEFINE s == x.row
             ok == ValidASSet(s) /\ ~refuseTemplateName(db, s.name)
  <2>1. x # None /\ Is(x, "save", "asSets") /\ x.at = "check"
    BY <1>2, AtHolds
  <2>2. Checks(r, ok, s) /\ (ok => ~refuseTemplateName(db, s.name))
    BY <1>2
  <2> HIDE DEF ok, s, x
  <2>3. \A y : y.call = x.call /\ y.id = x.id /\ y.at = "write" /\ y.row = s
                 /\ ok /\ Sees(db, loose, x) => Sees(db, loose, y)
    BY <2>1, <2>2, NamedSees
  <2>. QED BY <2>1, <2>2, <2>3, ChecksQuiet DEF x
<1>3. CASE /\ At(r, "write", "save", "asSets")
           /\ Writes(r, IF IsNew(r) THEN CreateASSet(db, x.row)
                                    ELSE UpdateASSet(db, x.id, x.row), "done")
           /\ UNCHANGED loose
  <2> DEFINE d == IF IsNew(r) THEN CreateASSet(db, x.row) ELSE UpdateASSet(db, x.id, x.row)
  <2>1. x # None /\ Is(x, "save", "asSets") /\ x.at = "write" /\ x.row \in ASSet
    BY <1>3, AtHolds DEF HoldsRow
  <2>2. Sees(db, loose, x) => Named(db.templates, x.row.name) = {}
    <3> HIDE DEF x
    <3>. QED BY <2>1, NamedSeen
  <2>3. Sees(db, loose, x) => QuietKept(db, d)
    BY <2>1, <2>2, SafeRows, SaveASSetQuietly
  <2>4. Writes(r, d, "done") /\ ~Is(x, "save", "peers")
    BY <1>3, <2>1 DEF Is
  <2> HIDE DEF d
  <2>. QED BY <1>3, <2>1, <2>3, <2>4, LastWritesQuietly
<1>. QED
  BY <1>1, <1>2, <1>3 DEF handleASSetSave

LEMMA ASSetDeleteQuiet ==
    ASSUME NoneIsNothing, SafeInv, QuietInv, NEW r \in Requests, handleASSetDelete(r)
    PROVE  QuietInv'
<1>1. ASSUME NEW c \in Asked("delete", "asSets"), NEW id \in Target(c),
             Looks(r, c, id, None, "write")
      PROVE  QuietInv'
  BY <1>1, LooksLittle DEF Asked
<1>2. CASE /\ At(r, "write", "delete", "asSets")
           /\ Writes(r, DeleteASSet(db, req[r].id), "done")
           /\ UNCHANGED loose
  BY <1>2, SafeRows, SetDeletesQuietly, LastWritesQuietly DEF At, Is
<1>. QED
  BY <1>1, <1>2 DEF handleASSetDelete

LEMMA ASSetRefreshQuiet ==
    ASSUME NoneIsNothing, SafeInv, QuietInv, NEW r \in Requests, handleASSetRefresh(r)
    PROVE  QuietInv'
<1>1. ASSUME NEW c \in Asked("refresh", "asSets"), NEW id \in Target(c),
             Looks(r, c, id, db.asSets[id], "write")
      PROVE  QuietInv'
  BY <1>1, LooksLittle DEF Asked
<1>2. ASSUME At(r, "write", "refresh", "asSets"), NEW got \in ExpandedASNs,
             Writes(r, refreshOneASSet(db, req[r].id, req[r].row, got), "done"),
             loose' = loose
      PROVE  QuietInv'
  <2>1. req[r].row \in ASSet
    BY <1>2, AtHolds DEF HoldsRow
  <2>. QED BY <1>2, <2>1, SafeRows, refreshOneASSetQuietly, LastWritesQuietly DEF At, Is
<1>. QED
  BY <1>1, <1>2 DEF handleASSetRefresh

-----------------------------------------------------------------------------
(* Communities.                                                             *)

LEMMA CommunityWriteQuiet ==
    ASSUME NoneIsNothing, SafeInv, QuietInv, NEW r \in Requests, NEW d,
           At(r, "write", "save", "communities"),
           d \in {CreateCommunityDef(db, req[r].row),
                 UpdateCommunityDef(db, req[r].id, req[r].row)},
           Writes(r, d, "done"),
           loose' = loose \cup (CommunityNames(db) \ CommunityNames(db'))
    PROVE  QuietInv'
<1> DEFINE x == req[r]
<1>1. x # None /\ Is(x, "save", "communities") /\ x.at = "write"
  BY AtHolds
<1>2. ~Saves(x)
  BY <1>1 DEF Saves
<1>3. BeingSaved \subseteq BeingSaved'
  BY <1>2, SavesStay, BeingSavedStays
<1>4. ASSUME Sees(db, loose, x), d # None, Quiet(db, BeingSaved, loose)
      PROVE  Quiet(d, BeingSaved', loose')
  <2>1. Named(db.templates, x.row.name) = {}
    <3> HIDE DEF x
    <3>. QED BY <1>1, <1>4, NamedSeen
  <2>2. db' = d
    BY <1>4 DEF Writes
  <2>3. Quiet(d, BeingSaved, loose \cup (CommunityNames(db) \ CommunityNames(d)))
    BY <1>4, <2>1, SafeRows, SaveCommunityQuietly
  <2>4. Quiet(d, BeingSaved, loose')
    BY <2>2, <2>3
  <2>. QED BY <1>3, <2>4, QuietGrows
<1>5. LeavesQuiet(r, d)
  BY <1>2, <1>4 DEF LeavesQuiet
<1>6. Learns(r, d, "done")
  BY DEF Learns
<1>7. loose \subseteq loose'
  OBVIOUS
<1>. QED
  BY <1>1, <1>5, <1>6, <1>7, WritesQuiet

LEMMA CommunitySaveQuiet ==
    ASSUME NoneIsNothing, SafeInv, QuietInv, NEW r \in Requests, handleCommunitySave(r)
    PROVE  QuietInv'
<1> DEFINE x == req[r]
<1>1. ASSUME NEW c \in Asked("save", "communities"), NEW id \in Target(c),
             Looks(r, c, id, c.form, "check")
      PROVE  QuietInv'
  BY <1>1, LooksLittle DEF Asked
<1>2. CASE /\ At(r, "check", "save", "communities")
           /\ LET c == req[r].row
              IN Checks(r, ValidCommunity(c) /\ ~refuseTemplateName(db, c.name), c)
  <2> DEFINE c == x.row
             ok == ValidCommunity(c) /\ ~refuseTemplateName(db, c.name)
  <2>1. x # None /\ Is(x, "save", "communities") /\ x.at = "check"
    BY <1>2, AtHolds
  <2>2. Checks(r, ok, c) /\ (ok => ~refuseTemplateName(db, c.name))
    BY <1>2
  <2> HIDE DEF ok, c, x
  <2>3. \A y : y.call = x.call /\ y.id = x.id /\ y.at = "write" /\ y.row = c
                 /\ ok /\ Sees(db, loose, x) => Sees(db, loose, y)
    BY <2>1, <2>2, NamedSees
  <2>. QED BY <2>1, <2>2, <2>3, ChecksQuiet DEF x
<1>3. CASE /\ At(r, "write", "save", "communities")
           /\ Writes(r, IF IsNew(r) THEN CreateCommunityDef(db, x.row)
                                    ELSE UpdateCommunityDef(db, x.id, x.row), "done")
           /\ loose' = loose \cup (CommunityNames(db) \ CommunityNames(db'))
  <2> DEFINE d == IF IsNew(r) THEN CreateCommunityDef(db, x.row)
                              ELSE UpdateCommunityDef(db, x.id, x.row)
  <2>1. d \in {CreateCommunityDef(db, x.row), UpdateCommunityDef(db, x.id, x.row)}
    OBVIOUS
  <2>2. Writes(r, d, "done")
    BY <1>3
  <2> HIDE DEF d
  <2>. QED BY <1>3, <2>1, <2>2, CommunityWriteQuiet
<1>. QED
  BY <1>1, <1>2, <1>3 DEF handleCommunitySave

LEMMA CommunityDeleteQuiet ==
    ASSUME NoneIsNothing, SafeInv, QuietInv, NEW r \in Requests, handleCommunityDelete(r)
    PROVE  QuietInv'
<1> DEFINE x == req[r]
<1>1. ASSUME NEW c \in Asked("delete", "communities"), NEW id \in Target(c),
             Looks(r, c, id, db.communities[id], "check")
      PROVE  QuietInv'
  <2> DEFINE y == [call |-> c, at |-> "check", id |-> id, row |-> db.communities[id],
                   fresh |-> TRUE]
  <2>1. Sees(db, loose, y)
    BY <1>1 DEF Sees, Is, Asked
  <2>2. c \in calls
    BY DEF Asked
  <2>. QED BY <1>1, <2>1, <2>2, LooksQuiet
<1>2. CASE /\ At(r, "check", "delete", "communities")
           /\ Checks(r, ~communityInUse(db, req[r].row.name), req[r].row)
  <2>1. x # None /\ Is(x, "delete", "communities") /\ x.at = "check"
    BY <1>2, AtHolds
  <2>2. \A y : y.call = x.call /\ y.id = x.id /\ y.at = "write" /\ y.row = x.row
                 /\ ~communityInUse(db, x.row.name) /\ Sees(db, loose, x) => Sees(db, loose, y)
    BY <2>1 DEF Sees, Is
  <2>. QED BY <1>2, <2>1, <2>2, ChecksQuiet
<1>3. CASE /\ At(r, "write", "delete", "communities")
           /\ Writes(r, DeleteCommunityDef(db, x.id), "done")
           /\ UNCHANGED loose
  <2>1. x # None /\ Is(x, "delete", "communities") /\ x.at = "write"
    BY <1>3, AtHolds
  <2>2. Sees(db, loose, x) => ~communityInUse(db, db.communities[x.id].name)
    BY <2>1 DEF Sees
  <2>3. Sees(db, loose, x) => QuietKept(db, DeleteCommunityDef(db, x.id))
    BY <2>2, SafeRows, DeleteCommunityQuietly
  <2>. QED BY <1>3, <2>1, <2>3, LastWritesQuietly DEF Is
<1>. QED
  BY <1>1, <1>2, <1>3 DEF handleCommunityDelete

-----------------------------------------------------------------------------
(* Servers, stations and routes, and settings.                              *)

LEMMA RPKIQuiet ==
    ASSUME NoneIsNothing, SafeInv, QuietInv, NEW r \in Requests,
           handleRPKISave(r) \/ handleRPKIDelete(r)
    PROVE  QuietInv'
<1> DEFINE x == req[r]
<1>1. ASSUME NEW c \in Asked("save", "servers"), NEW id \in Target(c),
             Looks(r, c, id, c.form, "check")
      PROVE  QuietInv'
  BY <1>1, LooksLittle DEF Asked
<1>2. CASE /\ At(r, "check", "save", "servers")
           /\ LET s == req[r].row
              IN \E unread \in BOOLEAN :
                     Checks(r, /\ ~refuseTemplateName(db, s.name)
                               /\ s.enabled \/ unread \/ ~lastEnabledServerGuard(db, req[r].id),
                            s)
  <2> DEFINE s == x.row
  <2>1. x # None /\ Is(x, "save", "servers") /\ x.at = "check"
    BY <1>2, AtHolds
  <2>2. PICK ok : Checks(r, ok, s) /\ (ok => ~refuseTemplateName(db, s.name))
    BY <1>2
  <2> HIDE DEF s, x
  <2>3. \A y : y.call = x.call /\ y.id = x.id /\ y.at = "write" /\ y.row = s
                 /\ ok /\ Sees(db, loose, x) => Sees(db, loose, y)
    BY <2>1, <2>2, NamedSees
  <2>. QED BY <2>1, <2>2, <2>3, ChecksQuiet DEF x
<1>3. CASE /\ At(r, "write", "save", "servers")
           /\ Writes(r, IF IsNew(r) THEN CreateRPKIServer(db, x.row)
                                    ELSE UpdateRPKIServer(db, x.id, x.row), "done")
           /\ UNCHANGED loose
  <2> DEFINE d == IF IsNew(r) THEN CreateRPKIServer(db, x.row)
                              ELSE UpdateRPKIServer(db, x.id, x.row)
  <2>1. x # None /\ Is(x, "save", "servers") /\ x.at = "write"
    BY <1>3, AtHolds
  <2>2. Sees(db, loose, x) => Named(db.templates, x.row.name) = {}
    <3> HIDE DEF x
    <3>. QED BY <2>1, NamedSeen
  <2>3. Sees(db, loose, x) => QuietKept(db, d)
    BY <2>2, SafeRows, RowsQuietly DEF CreateRPKIServer, UpdateRPKIServer
  <2>4. Writes(r, d, "done") /\ ~Is(x, "save", "peers")
    BY <1>3, <2>1 DEF Is
  <2> HIDE DEF d
  <2>. QED BY <1>3, <2>1, <2>3, <2>4, LastWritesQuietly
<1>4. ASSUME NEW c \in Asked("delete", "servers"), NEW id \in Target(c),
             Looks(r, c, id, db.servers[id], "check")
      PROVE  QuietInv'
  BY <1>4, LooksLittle DEF Asked
<1>5. CASE /\ At(r, "check", "delete", "servers")
           /\ \E unread \in BOOLEAN :
                  Checks(r, ~x.row.enabled \/ unread \/ ~lastEnabledServerGuard(db, x.id), x.row)
  <2>1. x # None /\ Is(x, "delete", "servers") /\ x.at = "check"
    BY <1>5, AtHolds
  <2>2. \A y : y.call = x.call => Sees(db, loose, y)
    BY <2>1, SeesLittle DEF Is
  <2>3. PICK ok : Checks(r, ok, x.row)
    BY <1>5
  <2>. QED BY <2>1, <2>2, <2>3, ChecksQuiet
<1>6. CASE /\ At(r, "write", "delete", "servers")
           /\ Writes(r, DeleteRPKIServer(db, x.id), "done")
           /\ UNCHANGED loose
  BY <1>6, SafeRows, DeleteQuietly, LastWritesQuietly DEF At, Is, DeleteRPKIServer
<1>. QED
  BY <1>1, <1>2, <1>3, <1>4, <1>5, <1>6 DEF handleRPKISave, handleRPKIDelete

LEMMA BMPQuiet ==
    ASSUME NoneIsNothing, SafeInv, QuietInv, NEW r \in Requests,
           handleBMPSave(r) \/ handleBMPDelete(r)
    PROVE  QuietInv'
<1> DEFINE x == req[r]
<1>1. ASSUME NEW c \in Asked("save", "stations"), NEW id \in Target(c),
             Looks(r, c, id, c.form, "check")
      PROVE  QuietInv'
  BY <1>1, LooksLittle DEF Asked
<1>2. CASE /\ At(r, "check", "save", "stations")
           /\ Checks(r, ~refuseTemplateName(db, req[r].row.name), req[r].row)
  <2> DEFINE s == x.row
             ok == ~refuseTemplateName(db, s.name)
  <2>1. x # None /\ Is(x, "save", "stations") /\ x.at = "check"
    BY <1>2, AtHolds
  <2>2. Checks(r, ok, s) /\ (ok => ~refuseTemplateName(db, s.name))
    BY <1>2
  <2> HIDE DEF ok, s, x
  <2>3. \A y : y.call = x.call /\ y.id = x.id /\ y.at = "write" /\ y.row = s
                 /\ ok /\ Sees(db, loose, x) => Sees(db, loose, y)
    BY <2>1, <2>2, NamedSees
  <2>. QED BY <2>1, <2>2, <2>3, ChecksQuiet DEF x
<1>3. CASE /\ At(r, "write", "save", "stations")
           /\ Writes(r, IF IsNew(r) THEN CreateBMPStation(db, x.row)
                                    ELSE UpdateBMPStation(db, x.id, x.row), "done")
           /\ UNCHANGED loose
  <2> DEFINE d == IF IsNew(r) THEN CreateBMPStation(db, x.row)
                              ELSE UpdateBMPStation(db, x.id, x.row)
  <2>1. x # None /\ Is(x, "save", "stations") /\ x.at = "write"
    BY <1>3, AtHolds
  <2>2. Sees(db, loose, x) => Named(db.templates, x.row.name) = {}
    <3> HIDE DEF x
    <3>. QED BY <2>1, NamedSeen
  <2>3. Sees(db, loose, x) => QuietKept(db, d)
    BY <2>2, SafeRows, RowsQuietly DEF CreateBMPStation, UpdateBMPStation
  <2>4. Writes(r, d, "done") /\ ~Is(x, "save", "peers")
    BY <1>3, <2>1 DEF Is
  <2> HIDE DEF d
  <2>. QED BY <1>3, <2>1, <2>3, <2>4, LastWritesQuietly
<1>4. ASSUME NEW c \in Asked("delete", "stations"), NEW id \in Target(c),
             Looks(r, c, id, None, "write")
      PROVE  QuietInv'
  BY <1>4, LooksLittle DEF Asked
<1>5. CASE /\ At(r, "write", "delete", "stations")
           /\ Writes(r, DeleteBMPStation(db, x.id), "done")
           /\ UNCHANGED loose
  BY <1>5, SafeRows, DeleteQuietly, LastWritesQuietly DEF At, Is, DeleteBMPStation
<1>. QED
  BY <1>1, <1>2, <1>3, <1>4, <1>5 DEF handleBMPSave, handleBMPDelete

LEMMA StaticRouteQuiet ==
    ASSUME NoneIsNothing, SafeInv, QuietInv, NEW r \in Requests,
           handleStaticRouteSave(r) \/ handleStaticRouteDelete(r)
    PROVE  QuietInv'
<1> DEFINE x == req[r]
<1>1. ASSUME NEW c \in Asked("save", "routes"), NEW id \in Target(c),
             Looks(r, c, id, c.form, "write")
      PROVE  QuietInv'
  BY <1>1, LooksLittle DEF Asked
<1>2. CASE /\ At(r, "write", "save", "routes")
           /\ Writes(r, IF IsNew(r) THEN CreateStaticRoute(db, x.row)
                                    ELSE UpdateStaticRoute(db, x.id, x.row), "done")
           /\ UNCHANGED loose
  <2> DEFINE d == IF IsNew(r) THEN CreateStaticRoute(db, x.row)
                              ELSE UpdateStaticRoute(db, x.id, x.row)
  <2>1. QuietKept(db, d)
    BY SafeRows, RoutesQuietly DEF CreateStaticRoute, UpdateStaticRoute
  <2>2. Writes(r, d, "done") /\ x # None /\ ~Is(x, "save", "peers")
    BY <1>2 DEF At, Is
  <2> HIDE DEF d
  <2>. QED BY <1>2, <2>1, <2>2, LastWritesQuietly
<1>3. ASSUME NEW c \in Asked("delete", "routes"), NEW id \in Target(c),
             Looks(r, c, id, None, "write")
      PROVE  QuietInv'
  BY <1>3, LooksLittle DEF Asked
<1>4. CASE /\ At(r, "write", "delete", "routes")
           /\ Writes(r, DeleteStaticRoute(db, x.id), "done")
           /\ UNCHANGED loose
  BY <1>4, SafeRows, RoutesQuietly, LastWritesQuietly DEF At, Is, DeleteStaticRoute
<1>. QED
  BY <1>1, <1>2, <1>3, <1>4 DEF handleStaticRouteSave, handleStaticRouteDelete

LEMMA RouterQuiet ==
    ASSUME NoneIsNothing, SafeInv, QuietInv, NEW r \in Requests,
           handleSettingsIdentity(r) \/ handleSettingsRaw(r)
    PROVE  QuietInv'
<1>1. ASSUME NEW c \in calls, c.op \in {"identity", "raw"}, NEW id, NEW row,
             NEW next \in {"check", "write"}, Looks(r, c, id, row, next)
      PROVE  QuietInv'
  BY <1>1, LooksLittle
<1>2. ASSUME At(r, "check", "raw", "router"), NEW ok, NEW row, Checks(r, ok, row)
      PROVE  QuietInv'
  <2>1. req[r] # None /\ Is(req[r], "raw", "router") /\ req[r].at = "check"
    BY <1>2, AtHolds
  <2>2. \A y : y.call = req[r].call => Sees(db, loose, y)
    BY <2>1, SeesLittle DEF Is
  <2>. QED BY <1>2, <2>1, <2>2, ChecksQuiet
<1>3. ASSUME NEW op \in {"identity", "raw"}, At(r, "write", op, "router"), NEW d,
             QuietKept(db, d), Writes(r, d, "done"), loose' = loose
      PROVE  QuietInv'
  BY <1>3, LastWritesQuietly DEF At, Is
<1>4. \A row : /\ QuietKept(db, [db EXCEPT !.router = row])
               /\ QuietKept(db, [db EXCEPT !.router.raw = row])
  <2>1. \A x : QuietKept(db, [db EXCEPT !["router"] = x])
    BY SafeRows, SettingsQuietly
  <2>2. ASSUME NEW row
        PROVE  [db EXCEPT !.router.raw = row]
                 = [db EXCEPT !["router"] = [db.router EXCEPT !.raw = row]]
    OBVIOUS
  <2>. QED BY <2>1, <2>2
<1>5. ASSUME NEW op \in {"identity", "raw"}, NEW c \in Asked(op, "router")
      PROVE  c \in calls /\ c.op = op
  BY DEF Asked
<1>. QED
  BY <1>1, <1>2, <1>3, <1>4, <1>5 DEF handleSettingsIdentity, handleSettingsRaw

LEMMA BogonsQuiet ==
    ASSUME NoneIsNothing, SafeInv, QuietInv, NEW r \in Requests, handleSettingsBogons(r)
    PROVE  QuietInv'
<1> DEFINE x == req[r]
<1>1. ASSUME NEW c \in Asked("bogons", "bogons"), NEW row, Looks(r, c, None, row, "write")
      PROVE  QuietInv'
  BY <1>1, LooksLittle DEF Asked
<1>2. ASSUME NEW at, At(r, at, "bogons", "bogons"), NEW f \in Families, NEW next,
             Writes(r, SaveBogonSet(r, f), next), loose' = loose
      PROVE  QuietInv'
  <2>1. x # None /\ Is(x, "bogons", "bogons") /\ BogonsIn(x.row)
    BY <1>2, AtHolds DEF HoldsRow
  <2>2. QuietKept(db, SaveBogonSet(r, f))
    BY <2>1, SafeRows, SaveBogonSetQuietly DEF SaveBogonSet, BogonsIn, BogonId
  <2>3. \A y : y.call = x.call => Sees(SaveBogonSet(r, f), loose, y)
    BY <2>1, SeesLittle DEF Is
  <2>. QED BY <1>2, <2>1, <2>2, <2>3, WritesQuietly DEF Is
<1>3. CASE /\ At(r, "third", "bogons", "bogons")
           /\ Writes(r, [db EXCEPT !.bogons = req[r].row.asns], "done")
           /\ UNCHANGED loose
  <2>1. \A v : QuietKept(db, [db EXCEPT !["bogons"] = v])
    BY SafeRows, SettingsQuietly
  <2>. QED BY <1>3, <2>1, LastWritesQuietly DEF At, Is
<1>4. "ipv4" \in Families /\ "ipv6" \in Families
  BY DEF Families
<1>. QED
  BY <1>1, <1>2, <1>3, <1>4 DEF handleSettingsBogons

LEMMA TornQuiet ==
    ASSUME SafeInv, QuietInv, NEW r \in Requests, Torn(r)
    PROVE  QuietInv'
<1>1. /\ \A q \in Requests : req'[q] # None => req'[q] = req[q]
      /\ db' = db /\ irr' = irr /\ disturbed' = TRUE /\ loose' = loose
  BY DEF Torn, SafeInv
<1>. QED
  BY <1>1 DEF QuietInv

-----------------------------------------------------------------------------
(* The IRR loop.                                                            *)

\* The loop is at work on the same footing as a request: what it writes by a stale copy is
\* remembered.
LEMMA ExpandsQuiet ==
    ASSUME NoneIsNothing, SafeInv, QuietInv, NEW next, IsLoop(next), NEW d, Stored(d),
           Expands(next, d), irr.fresh => QuietKept(db, d),
           irr.fresh => \A l : l.at = next.at /\ l.todo = next.todo => SeesSets(d, l)
    PROVE  QuietInv'
<1> DEFINE changed == d # db
<1>1. /\ db' = d /\ irr' = [next EXCEPT !.fresh = irr.fresh] /\ loose' = loose
      /\ disturbed' = (disturbed \/ (changed /\ ~irr.fresh))
      /\ req' = [q \in Requests |-> Outrun(req[q], changed)]
  BY DEF Expands
<1>2. changed \in BOOLEAN /\ (~changed => d = db)
  OBVIOUS
<1> HIDE DEF changed
<1>3. irr'.fresh = irr.fresh /\ irr'.at = next.at /\ irr'.todo = next.todo
  BY <1>1 DEF IsLoop
<1>4. irr.fresh \in BOOLEAN
  BY DEF SafeInv, IsLoop
<1>5. irr'.fresh => SeesSets(db', irr')
  BY <1>1, <1>3
<1>6. ASSUME NEW q \in Requests, req'[q] # None, req'[q].fresh PROVE Sees(db', loose', req'[q])
  <2>1. req[q] # None /\ IsRequest(req[q]) /\ req'[q] = Outrun(req[q], changed)
    BY <1>1, <1>6 DEF SafeInv, Held, Outrun
  <2>2. req[q].fresh => Sees(db, loose, req[q])
    BY <2>1 DEF QuietInv
  <2>. QED BY <2>1, <2>2, <1>1, <1>2, <1>6, OutrunSees
<1>7. BeingSaved \subseteq BeingSaved'
  <2>1. ASSUME NEW q \in Requests, Saves(req[q])
        PROVE  Saves(req'[q]) /\ req'[q].id = req[q].id
    <3>1. req[q] # None /\ IsRequest(req[q]) /\ req'[q] = Outrun(req[q], changed)
      BY <1>1, <2>1 DEF SafeInv, Held, Saves
    <3>2. /\ IsRequest(req'[q]) /\ req'[q].call = req[q].call /\ req'[q].id = req[q].id
          /\ req'[q].at = req[q].at
      BY <3>1, <1>2, OutrunRequest
    <3>3. req'[q] # None
      BY <3>2 DEF NoneIsNothing
    <3>. QED BY <2>1, <3>2, <3>3 DEF Saves, Is
  <2>. QED BY <2>1, BeingSavedIs, BeingSavedNext
<1>8. ASSUME ~disturbed' PROVE Quiet(db', BeingSaved', loose')
  <2>1. ~disturbed /\ Quiet(db, BeingSaved, loose) /\ (changed => irr.fresh)
    BY <1>1, <1>2, <1>4, <1>8 DEF QuietInv
  <2>2. d # None
    BY DEF NoneIsNothing
  <2>3. Quiet(d, BeingSaved, loose)
    BY <2>1, <2>2, <1>2 DEF QuietKept
  <2>. QED BY <2>3, <1>1, <1>7, QuietGrows
<1>9. disturbed' \in BOOLEAN
  BY <1>1, <1>2, <1>4 DEF QuietInv
<1>. QED
  BY <1>5, <1>6, <1>8, <1>9 DEF QuietInv

\* Nobody but the loop has moved.
LEMMA LoopQuiet ==
    ASSUME QuietInv, UNCHANGED <<db, req, disturbed, loose>>,
           irr'.fresh => SeesSets(db, irr')
    PROVE  QuietInv'
<1>1. BeingSaved' = BeingSaved
  BY DEF BeingSaved, At
<1>. QED
  BY <1>1 DEF QuietInv

LEMMA RunIRRRefreshQuiet ==
    ASSUME SafeInv, QuietInv, RunIRRRefresh
    PROVE  QuietInv'
<1> DEFINE todo == Copies("sets", ListAutoRefreshPrefixSets(db))
<1>1. irr' = [at |-> "sets", todo |-> todo, fresh |-> TRUE]
      /\ UNCHANGED <<db, req, disturbed, loose>>
  BY DEF RunIRRRefresh, Waiting
<1>2. \A s \in todo : s.id \in Live(db.sets) /\ db.sets[s.id] = s.row
  BY DEF Copies, ListAutoRefreshPrefixSets
<1> HIDE DEF todo
<1>3. SeesSets(db, irr')
  BY <1>1, <1>2 DEF SeesSets
<1>. QED
  BY <1>1, <1>3, LoopQuiet

LEMMA refreshIRRSetsQuiet ==
    ASSUME NoneIsNothing, SafeInv, QuietInv, refreshIRRSets
    PROVE  QuietInv'
<1>0. IsLoop(irr)
  BY DEF SafeInv
<1>1. ASSUME irr.at = "sets", NEW s \in irr.todo, NEW got \in ExpandedPrefixes(s.row),
             Expands([irr EXCEPT !.todo = @ \ {s}], refreshOneSet(db, s.id, s.row, got))
      PROVE  QuietInv'
  <2> DEFINE d == refreshOneSet(db, s.id, s.row, got)
             next == [irr EXCEPT !.todo = @ \ {s}]
  <2>1. SetRow(s.row)
    BY <1>0, <1>1 DEF IsLoop
  <2>2. s.row.entries # {} /\ (got = None \/ got \subseteq Prefixes(s.row.family))
        /\ (got = None \/ got \subseteq V4 \cup V6)
    BY <2>1 DEF SetRow, ExpandedPrefixes, Prefixes
  <2>3. d = db \/ SetTouched(db, d, s.id, got)
    BY <2>2, SafeRows, refreshOneSetPuts
  <2>4. Stored(d)
    BY <2>2, SafeRows, refreshOneSetKeeps, SoundIs
  <2>5. irr.fresh => \A t \in irr.todo : t.id \in Live(db.sets) /\ db.sets[t.id] = t.row
    BY <1>1 DEF QuietInv, SeesSets
  <2>6. irr.fresh => QuietKept(db, d)
    BY <1>1, <2>2, <2>5, SafeRows, refreshOneSetQuietly
  <2>7. next.at = irr.at /\ next.todo = irr.todo \ {s} /\ IsLoop(next)
    BY <1>0 DEF IsLoop
  <2>8. ASSUME irr.fresh, NEW t \in irr.todo \ {s}
        PROVE  t.id \in Live(d.sets) /\ d.sets[t.id] = t.row
    <3>1. t = [id |-> t.id, row |-> t.row] /\ s = [id |-> s.id, row |-> s.row]
      BY <1>0, <1>1 DEF IsLoop
    <3>2. t.id # s.id
      BY <3>1, <2>5, <2>8, <1>1
    <3>3. t.id \in Live(db.sets) /\ db.sets[t.id] = t.row
      BY <2>5, <2>8
    <3> HIDE DEF d
    <3>. QED BY <2>3, <3>2, <3>3 DEF SetTouched, Puts, Live
  <2>9. irr.fresh => \A l : l.at = next.at /\ l.todo = next.todo => SeesSets(d, l)
    BY <2>7, <2>8 DEF SeesSets
  <2>10. Expands(next, d)
    BY <1>1
  <2> HIDE DEF d, next
  <2>. QED BY <2>4, <2>6, <2>7, <2>9, <2>10, ExpandsQuiet
<1>2. CASE /\ irr.at = "sets" /\ irr.todo = {}
           /\ irr' = [Waiting EXCEPT !.at = "asSets",
                                     !.todo = Copies("asSets", ListAutoRefreshASSets(db))]
           /\ UNCHANGED <<db, calls, requests, req, ticks, disturbed, loose>>
  <2>1. irr'.at = "asSets"
    BY <1>2 DEF Waiting
  <2>. QED BY <1>2, <2>1, LoopQuiet DEF SeesSets
<1>3. ASSUME irr.at = "asSets", NEW s \in irr.todo, NEW got \in ExpandedASNs,
             Expands([irr EXCEPT !.todo = @ \ {s}], refreshOneASSet(db, s.id, s.row, got))
      PROVE  QuietInv'
  <2> DEFINE d == refreshOneASSet(db, s.id, s.row, got)
             next == [irr EXCEPT !.todo = @ \ {s}]
  <2>1. s.row \in ASSet
    BY <1>0, <1>3 DEF IsLoop
  <2>2. QuietKept(db, d) /\ Stored(d)
    BY <2>1, SafeRows, refreshOneASSetQuietly, refreshOneASSetKeeps, SoundIs
  <2>3. next.at = "asSets" /\ IsLoop(next)
    BY <1>0, <1>3 DEF IsLoop
  <2>4. \A l : l.at = next.at => SeesSets(d, l)
    BY <2>3 DEF SeesSets
  <2>5. Expands(next, d)
    BY <1>3
  <2> HIDE DEF d, next
  <2>. QED BY <2>2, <2>3, <2>4, <2>5, ExpandsQuiet
<1>4. CASE /\ irr.at = "asSets" /\ irr.todo = {}
           /\ irr' = Waiting
           /\ UNCHANGED <<db, calls, requests, req, ticks, disturbed, loose>>
  <2>1. irr'.at = "wait"
    BY <1>4 DEF Waiting
  <2>. QED BY <1>4, <2>1, LoopQuiet DEF SeesSets
<1>. QED
  BY <1>1, <1>2, <1>3, <1>4 DEF refreshIRRSets

-----------------------------------------------------------------------------
(* The whole, as long as nothing was outrun.                                *)

LEMMA HandleQuiet ==
    ASSUME NoneIsNothing, SafeInv, QuietInv, NEW r \in Requests, Handle(r)
    PROVE  QuietInv'
<1>1. CASE handlePeerSave(r) \/ handlePeerDelete(r) \/ handlePeerToggle(r) \/ handlePeersAttach(r)
  BY <1>1, PeerSaveQuiet, PeerDeleteQuiet, PeerToggleQuiet, PeersAttachQuiet
<1>2. CASE \/ handlePeerTemplateSave(r) \/ handlePeerTemplateDelete(r)
           \/ handlePolicySave(r) \/ handlePolicyDelete(r)
  BY <1>2, TemplateSaveQuiet, TemplateDeleteQuiet, PolicySaveQuiet, PolicyDeleteQuiet
<1>3. CASE \/ handlePrefixSetSave(r) \/ handlePrefixSetToggle(r) \/ handlePrefixSetDelete(r)
           \/ handleASSetSave(r) \/ handleASSetDelete(r) \/ handleASSetRefresh(r)
  BY <1>3, PrefixSetSaveQuiet, PrefixSetToggleQuiet, PrefixSetDeleteQuiet, ASSetSaveQuiet,
     ASSetDeleteQuiet, ASSetRefreshQuiet
<1>4. CASE \/ handleCommunitySave(r) \/ handleCommunityDelete(r)
           \/ handleRPKISave(r) \/ handleRPKIDelete(r)
           \/ handleBMPSave(r) \/ handleBMPDelete(r)
           \/ handleStaticRouteSave(r) \/ handleStaticRouteDelete(r)
  BY <1>4, CommunitySaveQuiet, CommunityDeleteQuiet, RPKIQuiet, BMPQuiet, StaticRouteQuiet
<1>5. CASE handleSettingsIdentity(r) \/ handleSettingsRaw(r) \/ handleSettingsBogons(r) \/ Torn(r)
  BY <1>5, RouterQuiet, BogonsQuiet, TornQuiet
<1>. QED
  BY <1>1, <1>2, <1>3, <1>4, <1>5 DEF Handle

LEMMA QuietInit == Init => QuietInv
<1> SUFFICES ASSUME Init PROVE QuietInv
  OBVIOUS
<1>1. PICK s \in Scenarios : db = s.db
  BY DEF Init
<1>2. /\ OneFamily(db) /\ OwnTemplateNames(db)
      /\ NamedCommunities(db) \subseteq CommunityNames(db)
      /\ \A p \in LiveRows(db, "peers") : Follows(db, p, FALSE)
  BY <1>1, CatalogAssumption
<1>3. Followed(db, BeingSaved)
  BY <1>2 DEF Followed, Follows, LiveRows
<1>4. Quiet(db, BeingSaved, loose)
  BY <1>2, <1>3 DEF Quiet
<1>5. \A q \in Requests : req[q] = None
  BY DEF Init
<1>6. SeesSets(db, irr) /\ disturbed \in BOOLEAN
  BY DEF Init, Waiting, SeesSets
<1>. QED
  BY <1>4, <1>5, <1>6 DEF QuietInv

LEMMA QuietStep ==
    ASSUME NoneIsNothing
    PROVE  SafeInv /\ QuietInv /\ [Next]_vars => QuietInv'
<1> SUFFICES ASSUME SafeInv, QuietInv, [Next]_vars PROVE QuietInv'
  OBVIOUS
<1>1. ASSUME NEW r \in Requests, Handle(r) PROVE QuietInv'
  BY <1>1, HandleQuiet
<1>2. CASE RunIRRRefresh \/ refreshIRRSets
  BY <1>2, RunIRRRefreshQuiet, refreshIRRSetsQuiet
<1>3. CASE UNCHANGED vars
  <2>1. irr'.fresh => SeesSets(db, irr')
    BY <1>3 DEF vars, QuietInv
  <2>. QED BY <1>3, <2>1, LoopQuiet DEF vars
<1>. QED
  BY <1>1, <1>2, <1>3 DEF Next

\* As long as no write has gone by a stale read, the tables are as if the requests had come
\* one after the other, and a request still holds against the tables what it has checked.
THEOREM AlwaysQuiet == ASSUME NoneIsNothing PROVE Spec => []QuietInv
<1>1. SafeInv /\ QuietInv /\ [Next]_vars => QuietInv'
  BY QuietStep
<1>. QED
  BY QuietInit, <1>1, AlwaysSafe, PTL DEF Spec

\* A peer linked to a template has its shape, but for the override, and its chain: whichever of
\* them was saved, attached or captured last, unless a write went by a stale read.
THEOREM LinkedPeersFollow == ASSUME NoneIsNothing PROVE Spec => []LinkedPeersFollowTheirTemplate
<1>1. QuietInv => LinkedPeersFollowTheirTemplate
  BY DEF QuietInv, Quiet, Followed, LinkedPeersFollowTheirTemplate
<1>. QED
  BY <1>1, AlwaysQuiet, PTL

\* A community that something names exists, was renamed, or was named in a form that could not
\* look it up: the form of whoever names it and the delete each ask first, and only a stale answer
\* lets both through.
THEOREM NamesResolve == ASSUME NoneIsNothing PROVE Spec => []CommunityNamesResolve
<1>1. QuietInv => CommunityNamesResolve
  BY DEF QuietInv, Quiet, CommunityNamesResolve
<1>. QED
  BY <1>1, AlwaysQuiet, PTL

\* No template shares its name with another symbol of the configuration, in whatever order the
\* two were saved, unless a write went by a stale read.
THEOREM TemplateNamesStayOwn == ASSUME NoneIsNothing PROVE Spec => []TemplateNamesAreTheirOwn
<1>1. QuietInv => TemplateNamesAreTheirOwn
  BY DEF QuietInv, Quiet, TemplateNamesAreTheirOwn
<1>. QED
  BY <1>1, AlwaysQuiet, PTL

\* No set that filters name is ever empty, whoever saved or refreshed it, and its prefixes are of
\* its family unless a write went by a stale read.
THEOREM SetsStayFilled == ASSUME NoneIsNothing PROVE Spec => []SetsStayUsable
<1>1. SafeInv /\ QuietInv => SetsStayUsable
  BY DEF SafeInv, Sound, QuietInv, Quiet, SetsStayUsable
<1>. QED
  BY <1>1, AlwaysSafe, AlwaysQuiet, PTL

-----------------------------------------------------------------------------
(* What a save of a template leaves alone.                                  *)

\* A transaction that has nothing to do with templates, or rolls back.
Elsewhere(d, e) == e # None => e.templates = d.templates

Spares(d, e) ==
    e.templates # d.templates =>
        \A i \in Live(d.peers) \ {j \in DOMAIN d.peers : e.peers[j] = d.peers[j]} :
            LET old == d.peers[i]
                new == e.peers[i]
            IN /\ new = [old EXCEPT !.shape = new.shape, !.chain = new.chain,
                                  !.drained = new.drained]
               /\ new.drained => old.drained
               /\ old.override => new.shape.limit = old.shape.limit
               /\ e.templates[old.tmpl] # d.templates[old.tmpl]

LEMMA RowsElsewhere ==
    ASSUME NEW d, Stored(d), NEW tb, tb # "templates", NEW id, NEW row
    PROVE  /\ Elsewhere(d, Insert(d, tb, row)) /\ Elsewhere(d, Update(d, tb, id, row))
           /\ Elsewhere(d, Delete(d, tb, id))
  BY TablesAre DEF Insert, Update, Delete, Elsewhere

LEMMA PeersElsewhere ==
    ASSUME NEW d, Stored(d), NEW id, NEW row
    PROVE  /\ Elsewhere(d, CreatePeer(d, row)) /\ Elsewhere(d, UpdatePeer(d, id, row))
           /\ Elsewhere(d, SetPeerPolicies(d, id, row)) /\ Elsewhere(d, SetPeerEnabled(d, id, row))
           /\ Elsewhere(d, DeletePeer(d, id)) /\ Elsewhere(d, AttachPeers(d, row, id))
<1>1. /\ Elsewhere(d, CreatePeer(d, row)) /\ Elsewhere(d, UpdatePeer(d, id, row))
      /\ Elsewhere(d, DeletePeer(d, id))
  <2>1. \A q : /\ Elsewhere(d, Insert(d, "peers", q)) /\ Elsewhere(d, Update(d, "peers", id, q))
               /\ Elsewhere(d, Delete(d, "peers", id))
    BY RowsElsewhere
  <2>2. Elsewhere(d, None)
    BY DEF Elsewhere
  <2>. QED BY <2>1, <2>2 DEF CreatePeer, UpdatePeer, DeletePeer
<1>2. "templates" \in DOMAIN d
  BY TablesAre
<1>3. /\ [d EXCEPT !.peers[id].chain = row].templates = d.templates
      /\ [d EXCEPT !.peers[id].enabled = row].templates = d.templates
  BY <1>2
<1>4. Elsewhere(d, AttachPeers(d, row, id))
  BY <1>2 DEF AttachPeers, Elsewhere
<1>. QED
  BY <1>1, <1>3, <1>4 DEF SetPeerPolicies, SetPeerEnabled, Elsewhere

LEMMA SetsElsewhere ==
    ASSUME NEW d, Stored(d), NEW id, NEW s
    PROVE  /\ Elsewhere(d, CreatePrefixSet(d, s)) /\ Elsewhere(d, UpdatePrefixSet(d, id, s))
           /\ Elsewhere(d, SetPrefixSetDisabled(d, id, s)) /\ Elsewhere(d, DeletePrefixSet(d, id))
           /\ Elsewhere(d, CreateASSet(d, s)) /\ Elsewhere(d, UpdateASSet(d, id, s))
           /\ Elsewhere(d, DeleteASSet(d, id))
           /\ \A got : /\ refreshOneSet(d, id, s, got).templates = d.templates
                       /\ refreshOneASSet(d, id, s, got).templates = d.templates
<1>1. \A q : \A tb \in {"sets", "asSets"} :
         /\ Elsewhere(d, Insert(d, tb, q)) /\ Elsewhere(d, Update(d, tb, id, q))
         /\ Elsewhere(d, Delete(d, tb, id))
  BY RowsElsewhere
<1>2. Elsewhere(d, None)
  BY DEF Elsewhere
<1>3. "templates" \in DOMAIN d
  BY TablesAre
<1>4. /\ Elsewhere(d, CreatePrefixSet(d, s)) /\ Elsewhere(d, UpdatePrefixSet(d, id, s))
      /\ Elsewhere(d, DeletePrefixSet(d, id))
      /\ Elsewhere(d, CreateASSet(d, s)) /\ Elsewhere(d, UpdateASSet(d, id, s))
      /\ Elsewhere(d, DeleteASSet(d, id))
  BY <1>1, <1>2 DEF CreatePrefixSet, UpdatePrefixSet, DeletePrefixSet, CreateASSet, UpdateASSet,
                    DeleteASSet
<1>5. Elsewhere(d, SetPrefixSetDisabled(d, id, s))
  BY <1>3 DEF SetPrefixSetDisabled, Elsewhere
<1>6. ASSUME NEW got PROVE refreshOneSet(d, id, s, got).templates = d.templates
  BY <1>3 DEF refreshOneSet, MarkPrefixSetRefreshError, MarkPrefixSetRefreshed,
                    RefreshPrefixSetEntries
<1>7. ASSUME NEW got PROVE refreshOneASSet(d, id, s, got).templates = d.templates
  BY <1>3 DEF refreshOneASSet, MarkASSetRefreshError, MarkASSetRefreshed,
                    RefreshASSetEntries
<1>. QED
  BY <1>4, <1>5, <1>6, <1>7

LEMMA OthersElsewhere ==
    ASSUME NEW d, Stored(d), NEW id, NEW row
    PROVE  /\ Elsewhere(d, CreatePolicy(d, row)) /\ Elsewhere(d, UpdatePolicy(d, id, row))
           /\ Elsewhere(d, DeletePolicy(d, id))
           /\ Elsewhere(d, CreateCommunityDef(d, row))
           /\ Elsewhere(d, UpdateCommunityDef(d, id, row))
           /\ Elsewhere(d, DeleteCommunityDef(d, id))
           /\ Elsewhere(d, CreateRPKIServer(d, row)) /\ Elsewhere(d, UpdateRPKIServer(d, id, row))
           /\ Elsewhere(d, DeleteRPKIServer(d, id))
           /\ Elsewhere(d, CreateBMPStation(d, row)) /\ Elsewhere(d, UpdateBMPStation(d, id, row))
           /\ Elsewhere(d, DeleteBMPStation(d, id))
           /\ Elsewhere(d, CreateStaticRoute(d, row)) /\ Elsewhere(d, UpdateStaticRoute(d, id, row))
           /\ Elsewhere(d, DeleteStaticRoute(d, id))
           /\ Elsewhere(d, [d EXCEPT !.router = row]) /\ Elsewhere(d, [d EXCEPT !.router.raw = row])
           /\ Elsewhere(d, [d EXCEPT !.bogons = row])
<1>1. \A tb \in {"policies", "communities", "servers", "stations", "routes"} :
         /\ Elsewhere(d, Insert(d, tb, row)) /\ Elsewhere(d, Update(d, tb, id, row))
         /\ Elsewhere(d, Delete(d, tb, id))
  BY RowsElsewhere
<1>2. Elsewhere(d, None)
  BY DEF Elsewhere
<1>3. /\ Elsewhere(d, CreatePolicy(d, row)) /\ Elsewhere(d, UpdatePolicy(d, id, row))
      /\ Elsewhere(d, DeletePolicy(d, id))
  BY <1>1, <1>2 DEF CreatePolicy, UpdatePolicy, DeletePolicy
<1>4. /\ Elsewhere(d, CreateCommunityDef(d, row))
      /\ Elsewhere(d, UpdateCommunityDef(d, id, row)) /\ Elsewhere(d, DeleteCommunityDef(d, id))
      /\ Elsewhere(d, CreateRPKIServer(d, row)) /\ Elsewhere(d, UpdateRPKIServer(d, id, row))
      /\ Elsewhere(d, DeleteRPKIServer(d, id))
      /\ Elsewhere(d, CreateBMPStation(d, row)) /\ Elsewhere(d, UpdateBMPStation(d, id, row))
      /\ Elsewhere(d, DeleteBMPStation(d, id))
      /\ Elsewhere(d, CreateStaticRoute(d, row)) /\ Elsewhere(d, UpdateStaticRoute(d, id, row))
      /\ Elsewhere(d, DeleteStaticRoute(d, id))
  BY <1>1 DEF CreateCommunityDef, UpdateCommunityDef, DeleteCommunityDef,
     CreateRPKIServer, UpdateRPKIServer, DeleteRPKIServer,
     CreateBMPStation, UpdateBMPStation, DeleteBMPStation,
     CreateStaticRoute, UpdateStaticRoute, DeleteStaticRoute
<1>5. "templates" \in DOMAIN d
  BY TablesAre
<1>6. /\ Elsewhere(d, [d EXCEPT !.router = row]) /\ Elsewhere(d, [d EXCEPT !.router.raw = row])
      /\ Elsewhere(d, [d EXCEPT !.bogons = row])
  BY <1>5 DEF Elsewhere
<1>. QED
  BY <1>3, <1>4, <1>6

\* A peer that follows its template keeps all but what the template owns.
LEMMA FollowerSpared ==
    ASSUME NEW p \in Peer, NEW t \in PeerTemplate, ValidTemplate(t) = t,
           p.tmpl \in TemplateIds, p.tmpl # None
    PROVE  LET u == updatePeerShape(ApplyTo(t, p.tmpl, p))
           IN /\ u = [p EXCEPT !.shape = u.shape, !.chain = u.chain, !.drained = u.drained]
              /\ u.drained => p.drained
              /\ p.override => u.shape.limit = p.shape.limit
<1> DEFINE u == updatePeerShape(ApplyTo(t, p.tmpl, p))
           s == Overriding(p, t.shape)
           a == [p EXCEPT !.shape = s]
           c == [a EXCEPT !.chain = t.chain]
           w == [c EXCEPT !.tmpl = p.tmpl]
<1>1. /\ u.chain = t.chain /\ u.shape = s /\ (u.drained => p.drained)
  BY Rewritten
<1>2. IsFun(p) /\ c.tmpl = p.tmpl
  BY DEF Peer, IsFun
<1>3. w = c
  BY <1>2, SameAgain DEF IsFun
<1>4. w = ApplyTo(t, p.tmpl, p)
  BY Zenon DEF ApplyTo
<1>5. u = [c EXCEPT !.drained = DrainAllowed(c.shape, c.drained)]
  BY <1>3, <1>4 DEF updatePeerShape
<1>6. "drained" \in DOMAIN c
  BY DEF Peer
<1> HIDE DEF u, w
<1>7. u.drained = DrainAllowed(c.shape, c.drained)
  <2> HIDE DEF c
  <2>. QED BY <1>5, <1>6
<1>8. u = [c EXCEPT !.drained = u.drained]
  <2> HIDE DEF c
  <2>. QED BY <1>5, <1>7
<1>9. u = [p EXCEPT !.shape = u.shape, !.chain = u.chain, !.drained = u.drained]
  BY <1>1, <1>8
<1>10. p.override => u.shape.limit = p.shape.limit
  BY <1>1, OverridingShape DEF PeerTemplate
<1>. QED
  BY <1>1, <1>9, <1>10 DEF u

Templated(d) == IsFun(d.templates)

\* What a step makes of the tables: templates stay, or their rows are written one at a time.
SparesAndStays(d, e) == Spares(d, e) /\ (Templated(d) => Templated(e))

LEMMA ElsewhereSpares ==
    ASSUME NEW d, NEW e, e.templates = d.templates
    PROVE  SparesAndStays(d, e)
  BY DEF SparesAndStays, Spares, Templated

LEMMA CreatePeerTemplateSpares ==
    ASSUME NEW d, Stored(d), NEW t, CreatePeerTemplate(d, t) # None
    PROVE  SparesAndStays(d, CreatePeerTemplate(d, t))
<1> DEFINE e == CreatePeerTemplate(d, t)
<1>1. "templates" \in DOMAIN d /\ "peers" \in DOMAIN d
  BY TablesAre
<1>2. e = [d EXCEPT !["templates"][NextId(d["templates"])] = t]
  BY DEF CreatePeerTemplate, Insert
<1>3. e.peers = d.peers /\ Templated(e)
  BY <1>1, <1>2 DEF Templated, IsFun
<1>. QED
  BY <1>3 DEF SparesAndStays, Spares, Live

LEMMA DeletePeerTemplateSpares ==
    ASSUME NEW d, Stored(d), NEW id, DeletePeerTemplate(d, id) # None
    PROVE  SparesAndStays(d, DeletePeerTemplate(d, id))
<1> DEFINE e == DeletePeerTemplate(d, id)
<1>1. "templates" \in DOMAIN d /\ "peers" \in DOMAIN d
  BY TablesAre
<1>2. e = [d EXCEPT !["templates"][id] = Gone]
  BY DEF DeletePeerTemplate, Delete
<1>3. e.peers = d.peers /\ Templated(e)
  BY <1>1, <1>2 DEF Templated, IsFun
<1>. QED
  BY <1>3 DEF SparesAndStays, Spares, Live

LEMMA UpdatePeerTemplateSpares ==
    ASSUME NEW d, Sound(d), NEW t \in PeerTemplate, ValidTemplate(t) = t, NEW id, Templated(d),
           UpdatePeerTemplate(d, id, t) # None
    PROVE  SparesAndStays(d, UpdatePeerTemplate(d, id, t))
<1> DEFINE saved == [d EXCEPT !["templates"][id] = t]
           e == UpdatePeerTemplate(d, id, t)
<1>1. "templates" \in DOMAIN d /\ "peers" \in DOMAIN d
  BY SoundIs, TablesAre
<1>2. e = RewriteLinked(saved, id, t) /\ id \in Live(d.templates)
  BY DEF UpdatePeerTemplate, Update, affectedOne
<1>3. saved.templates = [d.templates EXCEPT ![id] = t] /\ saved.peers = d.peers
      /\ "peers" \in DOMAIN saved /\ "templates" \in DOMAIN saved
  BY <1>1
<1> HIDE DEF saved
<1>4. /\ e.templates = [d.templates EXCEPT ![id] = t]
      /\ \A i \in DOMAIN d.peers :
            e.peers[i] = IF i \in Linked(d, id) THEN updatePeerShape(ApplyTo(t, id, d.peers[i]))
                         ELSE d.peers[i]
  BY <1>2, <1>3 DEF RewriteLinked, Linked
<1> HIDE DEF e
<1>5. Templated(e)
  BY <1>4 DEF Templated, IsFun
<1>6. ASSUME e.templates # d.templates, NEW i \in Live(d.peers), e.peers[i] # d.peers[i]
      PROVE  LET old == d.peers[i]
                 new == e.peers[i]
             IN /\ new = [old EXCEPT !.shape = new.shape, !.chain = new.chain,
                                   !.drained = new.drained]
                /\ new.drained => old.drained
                /\ old.override => new.shape.limit = old.shape.limit
                /\ e.templates[old.tmpl] # d.templates[old.tmpl]
  <2> DEFINE old == d.peers[i]
  <2>1. i \in DOMAIN d.peers /\ i \in Linked(d, id)
    BY <1>4, <1>6 DEF Live
  <2>2. old \in Peer /\ old.tmpl = id
    BY <2>1, SoundIs DEF Linked, PeersSound, PeerRow
  <2>3. id \in DOMAIN d.templates /\ id \in TemplateIds /\ id # None
    BY <1>2, TemplateId DEF Live
  <2>4. e.peers[i] = updatePeerShape(ApplyTo(t, old.tmpl, old))
    BY <1>4, <2>1, <2>2
  <2>5. d.templates[id] # t
    BY <1>4, <1>6, SameAgain DEF Templated
  <2>6. e.templates[id] = t
    BY <1>4, <2>3
  <2> HIDE DEF old
  <2>7. /\ e.peers[i] = [old EXCEPT !.shape = e.peers[i].shape, !.chain = e.peers[i].chain,
                                  !.drained = e.peers[i].drained]
        /\ e.peers[i].drained => old.drained
        /\ old.override => e.peers[i].shape.limit = old.shape.limit
    <3> DEFINE u == updatePeerShape(ApplyTo(t, old.tmpl, old))
    <3>1. /\ u = [old EXCEPT !.shape = u.shape, !.chain = u.chain, !.drained = u.drained]
          /\ u.drained => old.drained
          /\ old.override => u.shape.limit = old.shape.limit
      BY <2>2, <2>3, FollowerSpared
    <3>2. e.peers[i] = u
      BY <2>4
    <3> HIDE DEF u
    <3>. QED BY <3>1, <3>2
  <2>. QED BY <2>2, <2>5, <2>6, <2>7 DEF old
<1>7. Spares(d, e)
  BY <1>6 DEF Spares, Live
<1>. QED
  BY <1>5, <1>7 DEF SparesAndStays, e

LEMMA StaysAsItIs == ASSUME db' = db PROVE SparesAndStays(db, db')
  BY DEF SparesAndStays, Spares, Templated

LEMMA WritesSpare ==
    ASSUME NEW r, NEW d, NEW next, Writes(r, d, next), Elsewhere(db, d)
    PROVE  SparesAndStays(db, db')
<1>1. db' = IF d = None THEN db ELSE d
  BY DEF Writes
<1>. QED
  BY <1>1, ElsewhereSpares, StaysAsItIs DEF Elsewhere

LEMMA TemplateSaveSpares ==
    ASSUME SafeInv, Templated(db), NEW r \in Requests, handlePeerTemplateSave(r)
    PROVE  SparesAndStays(db, db')
<1> DEFINE x == req[r]
<1>1. ASSUME NEW c, NEW id, NEW row, Looks(r, c, id, row, "check") PROVE SparesAndStays(db, db')
  BY <1>1, StaysAsItIs DEF Looks
<1>2. ASSUME NEW ok, NEW row, NEW fields, Checks(r, ok, row) \/ ChecksNames(r, ok, fields, row)
      PROVE  SparesAndStays(db, db')
  BY <1>2, StaysAsItIs DEF Checks, ChecksNames, Decides
<1>3. ASSUME At(r, "write", "save", "templates"), NEW next,
             Writes(r, CreatePeerTemplate(db, x.row), next)
      PROVE  SparesAndStays(db, db')
  <2> DEFINE d == CreatePeerTemplate(db, x.row)
  <2>1. db' = IF d = None THEN db ELSE d
    BY <1>3 DEF Writes
  <2>2. d # None => SparesAndStays(db, d)
    BY SafeRows, CreatePeerTemplateSpares
  <2> HIDE DEF d
  <2>. QED BY <2>1, <2>2, StaysAsItIs
<1>4. ASSUME At(r, "write", "save", "templates"),
             Writes(r, UpdatePeerTemplate(db, x.id, x.row), "done")
      PROVE  SparesAndStays(db, db')
  <2> DEFINE d == UpdatePeerTemplate(db, x.id, x.row)
  <2>1. db' = IF d = None THEN db ELSE d
    BY <1>4 DEF Writes
  <2>2. x.row \in PeerTemplate /\ ValidTemplate(x.row) = x.row
    BY <1>4, AtHolds DEF HoldsRow
  <2>3. d # None => SparesAndStays(db, d)
    BY <2>2, SafeRows, UpdatePeerTemplateSpares
  <2> HIDE DEF d
  <2>. QED BY <2>1, <2>3, StaysAsItIs
<1>5. ASSUME Writes(r, LinkSource(db, x.call.link, x.id), "done")
      PROVE  SparesAndStays(db, db')
  <2>1. \A p : Elsewhere(db, AttachPeers(db, {p}, x.id)) /\ Elsewhere(db, db)
    BY SafeRows, PeersElsewhere DEF Elsewhere
  <2>2. Elsewhere(db, LinkSource(db, x.call.link, x.id))
    BY <2>1 DEF LinkSource, LinkPeerToTemplate
  <2>. QED BY <1>5, <2>2, WritesSpare
<1>. QED
  BY <1>1, <1>2, <1>3, <1>4, <1>5 DEF handlePeerTemplateSave

LEMMA TemplateDeleteSpares ==
    ASSUME SafeInv, NEW r \in Requests, handlePeerTemplateDelete(r)
    PROVE  SparesAndStays(db, db')
<1>1. ASSUME NEW c, NEW id, NEW row, Looks(r, c, id, row, "write") PROVE SparesAndStays(db, db')
  BY <1>1, StaysAsItIs DEF Looks
<1>2. ASSUME NEW id, Writes(r, DeletePeerTemplate(db, id), "done")
      PROVE  SparesAndStays(db, db')
  <2> DEFINE d == DeletePeerTemplate(db, id)
  <2>1. db' = IF d = None THEN db ELSE d
    BY <1>2 DEF Writes
  <2>2. d # None => SparesAndStays(db, d)
    BY SafeRows, DeletePeerTemplateSpares
  <2> HIDE DEF d
  <2>. QED BY <2>1, <2>2, StaysAsItIs
<1>. QED
  BY <1>1, <1>2 DEF handlePeerTemplateDelete

\* No other handler writes a template.
LEMMA HandleSpares ==
    ASSUME SafeInv, Templated(db), NEW r \in Requests, Handle(r)
    PROVE  SparesAndStays(db, db')
<1>1. ASSUME NEW c, NEW id, NEW row, NEW next, Looks(r, c, id, row, next)
      PROVE  SparesAndStays(db, db')
  BY <1>1, StaysAsItIs DEF Looks
<1>2. ASSUME NEW ok, NEW row, NEW fields, Checks(r, ok, row) \/ ChecksNames(r, ok, fields, row)
      PROVE  SparesAndStays(db, db')
  BY <1>2, StaysAsItIs DEF Checks, ChecksNames, Decides
<1>3. ASSUME NEW d, NEW next, Writes(r, d, next), Elsewhere(db, d) PROVE SparesAndStays(db, db')
  BY <1>3, WritesSpare
<1>0. Stored(db)
  BY SafeRows
<1>4. CASE handlePeerSave(r) \/ handlePeerDelete(r) \/ handlePeerToggle(r) \/ handlePeersAttach(r)
  <2>1. \A id, row : /\ Elsewhere(db, CreatePeer(db, row)) /\ Elsewhere(db, UpdatePeer(db, id, row))
                     /\ Elsewhere(db, SetPeerPolicies(db, id, row))
                     /\ Elsewhere(db, SetPeerEnabled(db, id, row))
                     /\ Elsewhere(db, DeletePeer(db, id)) /\ Elsewhere(db, AttachPeers(db, row, id))
    BY <1>0, PeersElsewhere
  <2>2. CASE handlePeerSave(r)
    BY <2>1, <2>2, <1>1, <1>2, <1>3 DEF handlePeerSave
  <2>3. CASE handlePeerDelete(r) \/ handlePeerToggle(r)
    BY <2>1, <2>3, <1>1, <1>2, <1>3 DEF handlePeerDelete, handlePeerToggle
  <2>4. CASE handlePeersAttach(r)
    BY <2>1, <2>4, <1>1, <1>2, <1>3 DEF handlePeersAttach
  <2>. QED BY <1>4, <2>2, <2>3, <2>4
<1>5. CASE handlePeerTemplateSave(r) \/ handlePeerTemplateDelete(r)
  BY <1>5, TemplateSaveSpares, TemplateDeleteSpares
<1>6. CASE handlePrefixSetSave(r) \/ handlePrefixSetToggle(r) \/ handlePrefixSetDelete(r)
             \/ handleASSetSave(r) \/ handleASSetDelete(r) \/ handleASSetRefresh(r)
             \/ handleSettingsBogons(r)
  <2>1. \A id, s : /\ Elsewhere(db, CreatePrefixSet(db, s))
                   /\ Elsewhere(db, UpdatePrefixSet(db, id, s))
                   /\ Elsewhere(db, SetPrefixSetDisabled(db, id, s))
                   /\ Elsewhere(db, DeletePrefixSet(db, id))
                   /\ Elsewhere(db, CreateASSet(db, s)) /\ Elsewhere(db, UpdateASSet(db, id, s))
                   /\ Elsewhere(db, DeleteASSet(db, id))
    BY <1>0, SetsElsewhere
  <2>2. CASE handlePrefixSetSave(r) \/ handlePrefixSetToggle(r) \/ handlePrefixSetDelete(r)
    BY <2>1, <2>2, <1>1, <1>2, <1>3
       DEF handlePrefixSetSave, handlePrefixSetToggle, handlePrefixSetDelete
  <2>3. CASE handleASSetSave(r) \/ handleASSetDelete(r)
    BY <2>1, <2>3, <1>1, <1>2, <1>3 DEF handleASSetSave, handleASSetDelete
  <2>5. CASE handleASSetRefresh(r)
    <3>1. \A id, s, got : /\ refreshOneSet(db, id, s, got).templates = db.templates
                          /\ refreshOneASSet(db, id, s, got).templates = db.templates
      BY SafeRows, SetsElsewhere
    <3>2. \A id, s, got : Elsewhere(db, refreshOneASSet(db, id, s, got))
      BY <3>1 DEF Elsewhere
    <3>. QED BY <3>2, <2>5, <1>1, <1>3 DEF handleASSetRefresh
  <2>4. CASE handleSettingsBogons(r)
    <3>1. \A asns : Elsewhere(db, [db EXCEPT !.bogons = asns])
      BY <1>0, OthersElsewhere
    <3>. QED BY <2>1, <3>1, <2>4, <1>1, <1>2, <1>3 DEF handleSettingsBogons, SaveBogonSet
  <2>. QED BY <1>6, <2>2, <2>3, <2>4, <2>5
<1>7. CASE \/ handlePolicySave(r) \/ handlePolicyDelete(r)
           \/ handleCommunitySave(r) \/ handleCommunityDelete(r)
           \/ handleRPKISave(r) \/ handleRPKIDelete(r)
           \/ handleBMPSave(r) \/ handleBMPDelete(r)
           \/ handleStaticRouteSave(r) \/ handleStaticRouteDelete(r)
           \/ handleSettingsIdentity(r) \/ handleSettingsRaw(r)
  <2>1. \A id, row :
           /\ Elsewhere(db, CreatePolicy(db, row)) /\ Elsewhere(db, UpdatePolicy(db, id, row))
           /\ Elsewhere(db, DeletePolicy(db, id))
           /\ Elsewhere(db, CreateCommunityDef(db, row))
           /\ Elsewhere(db, UpdateCommunityDef(db, id, row))
           /\ Elsewhere(db, DeleteCommunityDef(db, id))
           /\ Elsewhere(db, CreateRPKIServer(db, row))
           /\ Elsewhere(db, UpdateRPKIServer(db, id, row))
           /\ Elsewhere(db, DeleteRPKIServer(db, id))
           /\ Elsewhere(db, CreateBMPStation(db, row))
           /\ Elsewhere(db, UpdateBMPStation(db, id, row))
           /\ Elsewhere(db, DeleteBMPStation(db, id))
           /\ Elsewhere(db, CreateStaticRoute(db, row))
           /\ Elsewhere(db, UpdateStaticRoute(db, id, row))
           /\ Elsewhere(db, DeleteStaticRoute(db, id))
           /\ Elsewhere(db, [db EXCEPT !.router = row])
           /\ Elsewhere(db, [db EXCEPT !.router.raw = row])
    BY <1>0, OthersElsewhere
  <2>2. CASE handlePolicySave(r) \/ handlePolicyDelete(r)
    BY <2>1, <2>2, <1>1, <1>2, <1>3 DEF handlePolicySave, handlePolicyDelete
  <2>3. CASE handleCommunitySave(r) \/ handleCommunityDelete(r)
    BY <2>1, <2>3, <1>1, <1>2, <1>3 DEF handleCommunitySave, handleCommunityDelete
  <2>4. CASE handleRPKISave(r) \/ handleRPKIDelete(r)
    BY <2>1, <2>4, <1>1, <1>2, <1>3 DEF handleRPKISave, handleRPKIDelete
  <2>5. CASE handleBMPSave(r) \/ handleBMPDelete(r)
    BY <2>1, <2>5, <1>1, <1>2, <1>3 DEF handleBMPSave, handleBMPDelete
  <2>6. CASE handleStaticRouteSave(r) \/ handleStaticRouteDelete(r)
    BY <2>1, <2>6, <1>1, <1>2, <1>3 DEF handleStaticRouteSave, handleStaticRouteDelete
  <2>7. CASE handleSettingsIdentity(r) \/ handleSettingsRaw(r)
    BY <2>1, <2>7, <1>1, <1>2, <1>3 DEF handleSettingsIdentity, handleSettingsRaw
  <2>. QED BY <1>7, <2>2, <2>3, <2>4, <2>5, <2>6, <2>7
<1>8. CASE Torn(r)
  BY <1>8, StaysAsItIs DEF Torn
<1>. QED
  BY <1>4, <1>5, <1>6, <1>7, <1>8 DEF Handle

LEMMA StepSpares == SafeInv /\ Templated(db) /\ [Next]_vars => SparesAndStays(db, db')
<1> SUFFICES ASSUME SafeInv, Templated(db), [Next]_vars PROVE SparesAndStays(db, db')
  OBVIOUS
<1>1. ASSUME NEW r \in Requests, Handle(r) PROVE SparesAndStays(db, db')
  BY <1>1, HandleSpares
<1>2. CASE RunIRRRefresh \/ UNCHANGED vars
  BY <1>2, StaysAsItIs DEF RunIRRRefresh, vars
<1>3. CASE refreshIRRSets
  <2>1. ASSUME NEW next, NEW d, Expands(next, d), d.templates = db.templates
        PROVE  SparesAndStays(db, db')
    BY <2>1, ElsewhereSpares DEF Expands
  <2>2. \A id, s, got : /\ refreshOneSet(db, id, s, got).templates = db.templates
                        /\ refreshOneASSet(db, id, s, got).templates = db.templates
    BY SafeRows, SetsElsewhere
  <2>3. ASSUME NEW s, NEW got, NEW next,
               \/ Expands(next, refreshOneSet(db, s.id, s.row, got))
               \/ Expands(next, refreshOneASSet(db, s.id, s.row, got))
        PROVE  SparesAndStays(db, db')
    BY <2>1, <2>2, <2>3
  <2>4. CASE db' = db
    BY <2>4, StaysAsItIs
  <2>. QED BY <1>3, <2>3, <2>4, Zenon DEF refreshIRRSets
<1>. QED
  BY <1>1, <1>2, <1>3 DEF Next

\* Saving a template leaves alone what its peers own: their identity, their switches, and the
\* limit of one that overrides it; and it touches no peer of another template.
THEOREM TemplateSparesPeers == Spec => TemplateSparesWhatPeersOwn
<1>1. Init => Templated(db)
  BY CatalogAssumption DEF Init, Templated, IsFun
<1>2. SafeInv /\ Templated(db) /\ [Next]_vars => Templated(db)'
  BY StepSpares DEF SparesAndStays, Templated
<1>3. SafeInv /\ Templated(db) /\ [Next]_vars =>
        [db'.templates # db.templates =>
           \A i \in Live(db.peers) \ {j \in DOMAIN db.peers : db'.peers[j] = db.peers[j]} :
               LET old == db.peers[i]
                   new == db'.peers[i]
               IN /\ new = [old EXCEPT !.shape = new.shape, !.chain = new.chain,
                                     !.drained = new.drained]
                  /\ new.drained => old.drained
                  /\ old.override => new.shape.limit = old.shape.limit
                  /\ db'.templates[old.tmpl] # db.templates[old.tmpl]]_vars
  BY StepSpares DEF SparesAndStays, Spares
<1>. QED
  BY <1>1, <1>2, <1>3, AlwaysSafe, PTL DEF Spec, TemplateSparesWhatPeersOwn

-----------------------------------------------------------------------------
(* What is rendered of the tables.                                          *)

\* Sound tables are tables a file can be rendered of that names nothing undeclared: the bogon
\* set a filter names is there, is not empty, and was not switched off.
LEMMA SoundIsOrderly ==
    ASSUME NEW d, Sound(d)
    PROVE  Orderly(d)
<1>1. \A tb \in SymbolTables \cup {"policies", "routes"} : IsFiniteSet(DOMAIN d[tb])
  BY SoundIs DEF Stored, Tables
<1>2. /\ LiveRows(d, "peers") \subseteq Peer
      /\ \A p \in LiveRows(d, "peers") : PoliciesExist(d, p.chain)
  BY SoundIs DEF PeersSound, PeerRow, LiveRows
<1>3. /\ LiveRows(d, "policies") \subseteq Policy
      /\ \A p \in LiveRows(d, "policies") : SetsExist(d, p)
  BY SoundIs DEF PoliciesSound, PolicyRow, LiveRows
<1>4. ASSUME NEW f \in Families
      PROVE  \E i \in Named(d.sets, BogonSet(f)) : ~d.sets[i].disabled /\ d.sets[i].entries # {}
  <2>1. PICK i \in Named(d.sets, BogonSet(f)) : d.sets[i].system
    BY SoundIs DEF Stored
  <2>2. i \in Live(d.sets)
    BY <2>1 DEF Named
  <2>3. ~d.sets[i].disabled /\ d.sets[i].entries # {}
    BY <2>1, <2>2, SoundIs DEF Stored, SetsSound, SetRow
  <2>. QED BY <2>1, <2>3
<1>. QED BY <1>1, <1>2, <1>3, <1>4 DEF Orderly

\* The file that is rendered of sound tables loads, or is refused before it is written.
LEMMA SoundLoads ==
    ASSUME NEW d, Sound(d)
    PROVE  Loads(d)
<1>1. Orderly(d) /\ IsFiniteSet(Names)
  BY SoundIsOrderly, CatalogAssumption
<1>2. CASE ~RefusedUnwritten(d) /\ ~checkSymbols(Sections(d))
  BY <1>1, <1>2, FileLoads DEF Loads, ToldBy
<1>. QED BY <1>2 DEF Loads

\* Whatever was saved, at the same time as whatever else, the file the renderer then writes is
\* one BIRD loads: every name it uses is declared in it, once and before its use; the checks of
\* the renderer refuse what is not, but for a name the lint reports in red.
THEOREM ConfigAlwaysLoads == Spec => ConfigLoads
<1>1. SafeInv' => Loads(db')
  BY SoundLoads DEF SafeInv
<1>2. SafeInv /\ [Next]_vars => [db' # db => Loads(db')]_vars
  BY <1>1, SafeStep
<1>. QED
  BY <1>2, AlwaysSafe, PTL DEF Spec, ConfigLoads
=============================================================================
