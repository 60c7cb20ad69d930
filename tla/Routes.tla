------------------------------- MODULE Routes -------------------------------
(***************************************************************************)
(* What becomes of a route in a network whose routers run the generated    *)
(* configuration: it is learned from a neighbor or originated, carried     *)
(* over internal sessions, put into the kernel and announced to other      *)
(* neighbors.  The routers of the network are rendered from one catalog.   *)
(***************************************************************************)
EXTENDS Lint

CONSTANTS
    Fabrics,    \* the catalogs the network may be configured with
    Wire,       \* the routes neighbors may send, whatever they carry
    Own         \* the routes the network originates

\* A catalog as the forms leave it.  A chain is read split by the direction of its policies.
Configured(d) ==
    /\ None \notin Live(d.peers) \cup Live(d.asSets)
    /\ LiveRows(d, "peers") \subseteq Peer /\ LiveRows(d, "policies") \subseteq Policy
    /\ \A i, j \in Live(d.peers) : d.peers[i].name = d.peers[j].name => i = j
    /\ \A p \in LiveRows(d, "peers") :
          /\ p.shape = validateShape(p.shape) /\ (p.drained => ~IsIBGP(p.shape))
          /\ IsFiniteSet(p.shape.importComms \cup p.shape.exportComms)
          /\ \A i \in Elements(p.chain.imports) :
                i \in Live(d.policies) /\ d.policies[i].dir = "import"
          /\ \A i \in Elements(p.chain.exports) :
                i \in Live(d.policies) /\ d.policies[i].dir = "export"
    /\ \A q \in LiveRows(d, "policies") : IsFiniteSet(q.announce)

IsRoute(r) ==
    /\ r = [net |-> r.net, path |-> r.path, comms |-> r.comms, pref |-> r.pref, hole |-> r.hole]
    /\ r.path \in Seq(Nat) /\ r.net.len \in Nat

ASSUME RoutesAssumption ==
    /\ IsFiniteSet(PolicyIds)
    /\ \A d \in Fabrics : Configured(d)
    /\ \A r \in Wire \cup Own : IsRoute(r)
    /\ \A r \in Own : r.comms = {} /\ r.path = <<>>

VARIABLES
    fabric,          \* the catalog
    at,         \* where the route is: offered, in a table, announced, dropped
    route,      \* the route as it is there
    sent,       \* the route as it was sent or originated
    from,       \* the peer it was learned from, None for a route of our own
    to          \* the peer it was announced to

routeVars == <<fabric, at, route, sent, from, to>>

Peers == {p \in Live(fabric.peers) : /\ fabric.peers[p].enabled
                                     /\ fabric.peers[p].fam = route.net.fam}
Internal == {p \in Peers : IsIBGP(fabric.peers[p].shape)}
Neighbors == Peers \ Internal

Passes(out, there) ==
    /\ at' = IF out.verdict = "accept" THEN there ELSE "dropped"
    /\ route' = out.route

Learn ==
    /\ at = "offered"
    /\ \E p \in Neighbors :
           /\ Passes(ImportRoute(fabric, fabric.peers[p], route), "table")
           /\ from' = p
    /\ UNCHANGED <<fabric, sent, to>>

\* Out of one router and into the next, over the two ends of an internal session.
Relay ==
    /\ at = "table"
    /\ \E p, q \in Internal :
           LET out == ExportRoute(fabric, fabric.peers[p], route)
           IN Passes(IF out.verdict = "reject" THEN out
                     ELSE ImportRoute(fabric, fabric.peers[q], out.route), "table")
    /\ UNCHANGED <<fabric, sent, from, to>>

Announce ==
    /\ at = "table"
    /\ \E q \in Neighbors \ {from} :
           /\ Passes(ExportRoute(fabric, fabric.peers[q], route), "announced")
           /\ to' = q
    /\ UNCHANGED <<fabric, sent, from>>

\* The kernel takes what its export filter accepts; the route stays in the table.
Install ==
    /\ at = "table"
    /\ writeKernelExport(fabric, route.net.fam, route.net, IF from = None THEN "static" ELSE "bgp")
    /\ at' = "kernel"
    /\ UNCHANGED <<fabric, route, sent, from, to>>

RoutesInit ==
    /\ fabric \in Fabrics /\ ~Refused(fabric)
    /\ \/ route \in Wire /\ at = "offered"
       \/ route \in Own /\ at = "table"
    /\ sent = route
    /\ from = None /\ to = None

RoutesNext == Learn \/ Relay \/ Announce \/ Install

RoutesSpec == RoutesInit /\ [][RoutesNext]_routeVars

-----------------------------------------------------------------------------
(* Properties.                                                              *)

\* What a neighbor says with our own large communities is not listened to.
Said(r) == {c \in r.comms : ~(c.large /\ c.asn = fabric.router.asn)}

Objection(pol, p, r) ==
    \/ pol.rules.default = "reject" /\ IsDefault(r.net)
    \/ pol.rules.default = "only" /\ ~IsDefault(r.net)
    \/ /\ ~IsDefault(r.net) /\ OutOf(pol.rules.lens[p.fam], r.net.len)
    \/ pol.comm # None /\ communityByName(fabric, pol.comm) \cap Said(r) # {}
    \/ pol.bogons /\ r.net \in NetsOf(SetNamed(fabric, BogonSet(p.fam)))
    \/ /\ pol.allow # None
       /\ \/ AllowSet(fabric, pol).disabled \/ AllowSet(fabric, pol).family # p.fam
          \/ r.net \notin NetsOf(AllowSet(fabric, pol).entries)
    \/ pol.origin # None /\ Origin(r) \cap fabric.asSets[pol.origin].members = {}
    \/ pol.rov = "reject" /\ \E o \in Origin(r) : <<r.net, o>> \in RPKIInvalid
    \/ pol.rules.pathLen > 0 /\ Len(r.path) > pol.rules.pathLen
    \/ pol.rules.ownASN /\ fabric.router.asn \in Elements(r.path)
    \/ /\ pol.rules.bogonASNs # "off"
       /\ \E b \in BogonASNs(fabric) : /\ b.asn \in Elements(r.path)
                                  /\ ~(b.private /\ pol.rules.bogonASNs = "exceptPrivate")

\* The communities of a list of names.
Marks(names) == UNION {communityByName(fabric, n) : n \in names}

\* The one way past the vetoes: a host route that its sender, or a community of
\* the session, asks to be discarded, inside what the policy that honours it allows.
Honoured(pol, p, r) ==
    /\ pol.rules.blackhole /\ IsHost(r.net)
    /\ BLACKHOLE \in r.comms \cup Marks(p.shape.importComms)
    /\ pol.allow # None => /\ ~ClosedFor(fabric, pol, p.fam)
                           /\ r.net \in NetsBelow(AllowSet(fabric, pol).entries)

SetsPreference(q) ==
    \E i \in Elements(fabric.peers[q].chain.imports) : fabric.policies[i].rules.pref > 0

\* A route from a neighbor is in a table only if no policy of the session's
\* chain objects to what was sent, wherever in the chain it stands, or as a
\* discard that a policy of the chain honours, all those before it not
\* objecting.  A drained session's routes are the last choice, discards apart,
\* until an internal session's policy sets a preference of its own.
VetoesHold ==
    (at \notin {"offered", "dropped"} /\ from # None) =>
        LET p == fabric.peers[from]
            Pol(i) == fabric.policies[p.chain.imports[i]]
            Silent(n) == \A i \in 1..n : ~Objection(Pol(i), p, sent)
        IN \/ /\ Silent(Len(p.chain.imports))
              /\ p.drained => route.pref = 0 \/ \E q \in Internal : SetsPreference(q)
           \/ /\ route.hole
              /\ \E i \in DOMAIN p.chain.imports : Honoured(Pol(i), p, sent) /\ Silent(i - 1)

\* What is known of where a route entered: the session's relationship, the
\* communities of that session, what its sender may say for itself, and whether a
\* ROA contradicts it.
Entry == IF from = None THEN {} ELSE {fabric.peers[from]}
TrueMarks ==
    Said(sent)
        \cup (UNION {Marks(p.shape.importComms) \cup {TagOf(fabric, p.shape.role)} : p \in Entry})
        \cup {m \in {RPKI_INVALID(fabric)} :
                 \E o \in Origin(sent) : <<sent.net, o>> \in RPKIInvalid}

\* What the session it leaves by adds before its policies look.
ExitMarks(q) ==
    Marks(q.shape.exportComms) \cup {m \in {GRACEFUL_SHUTDOWN} : q.drained}

Permits(pol, q, r) ==
    LET marks == TrueMarks \cup ExitMarks(q)
    IN \/ "everything" \in pol.sources
       \/ "default" \in pol.sources /\ IsDefault(r.net)
       \/ \E role \in pol.sources \cap DOMAIN roleTag : TagOf(fabric, role) \in marks
       \/ \E s \in pol.announce : /\ fabric.sets[s].family = q.fam /\ ~fabric.sets[s].disabled
                                  /\ r.net \in NetsOf(fabric.sets[s].entries)
       \/ pol.comm # None /\ communityByName(fabric, pol.comm) \cap marks # {}

\* A route is announced to a neighbor only if a policy of that session permits
\* it by what it is and by where it truly entered the network, whatever tags
\* its sender put on it and over however many internal sessions it came.  (The
\* last way in: a session that adds the very mark its policy looks for.)
AnnouncedByPermission ==
    at = "announced" =>
        LET q == fabric.peers[to]
        IN \E i \in Elements(q.chain.exports) : Permits(fabric.policies[i], q, route)

\* A session the lint says accepts nothing has never brought a route, discards
\* apart, nor a path without its AS where that is what the lint counts on.
DeafByLint(p) ==
    \E w \in LintReport(fabric) :
        /\ p.name \in w.peers
        /\ \/ w.finding.what \in {"accepts nothing: default", "accepts nothing: origin"}
           \/ w.finding.what = "rejects every route: private AS" /\ p.shape.firstAS
LintIsRight ==
    (at = "table" /\ from # None /\ ~route.hole) => ~DeafByLint(fabric.peers[from])

=============================================================================
