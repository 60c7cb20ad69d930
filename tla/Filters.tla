------------------------------ MODULE Filters -------------------------------
(***************************************************************************)
(* The filters of the generated configuration: what the renderer writes    *)
(* for a policy and for a session, as a sequence of statements, and what   *)
(* BIRD makes of a route with them.  A policy is a function a session's    *)
(* filter calls: its accepts and rejects end the whole filter, and its end *)
(* returns to the caller, so a chain of policies is their statements one   *)
(* after the other.                                                        *)
(*                                                                         *)
(* A statement: `when` its test (with its argument) holds, `do`.  `uses`   *)
(* are the symbols it mentions; what a symbol is defined as is put in its  *)
(* place in the test.                                                      *)
(***************************************************************************)
EXTENDS Library

CONSTANTS
    Pattern,        \* of a prefix: [base, modified, nets, below], its text without the modifier,
                    \* whether it has one, the nets it matches and those inside it
    RPKIInvalid,    \* the <<net, origin>> a ROA contradicts
    DefaultBogons   \* the bogon AS numbers birdy ships

Seqs == INSTANCE SequencesExt

\* A net is [fam, len, id, addrs], the last those of the model's addresses inside it, an address
\* [fam, id]; a route is [net, path, comms, pref, hole], the last set when its traffic is discarded.
IsDefault(net) == net.len = 0
IsHost(net) == net.len = Bits(net.fam)

-----------------------------------------------------------------------------
(* Symbols: BIRD's name space, kept as triples.  A derived name that a row  *)
(* also carries is one symbol.                                              *)

Symbol(n) == <<"name", "", n>>
Symbols(ns) == {Symbol(n) : n \in ns}
DerivedNames(k1, k2, n) ==
    {m \in DOMAIN Derived : Derived[m].kind = <<k1, k2>> /\ Derived[m].base = n}
DerivedSymbol(k1, k2, n) ==
    IF DerivedNames(k1, k2, n) = {} THEN <<k1, k2, n>>
    ELSE Symbol(CHOOSE m \in DerivedNames(k1, k2, n) : TRUE)

filterPrefix(p) == IF IsIBGP(p.shape) THEN "ibgp" ELSE "ebgp"
FilterName(p, way) == DerivedSymbol(filterPrefix(p), way, p.name)
policyFunc(pol, f) == DerivedSymbol(IF pol.dir = "import" THEN "imp" ELSE "exp", f, pol.name)

BogonSet(f) == IF f = "ipv4" THEN "BOGONS_V4" ELSE "BOGONS_V6"
RoaTable(f) == IF f = "ipv4" THEN "rpki4" ELSE "rpki6"

-----------------------------------------------------------------------------
(* Communities: [large, asn, data].                                         *)

Large(asn, data) == [large |-> TRUE, asn |-> asn, data |-> data]
Standard(asn, data) == [large |-> FALSE, asn |-> asn, data |-> data]

BLACKHOLE == Standard(65535, 666)
GRACEFUL_SHUTDOWN == Standard(65535, 0)

roleTag == [upstream |-> [name |-> "FROM_UPSTREAM", data |-> 1000],
            ix       |-> [name |-> "FROM_IX", data |-> 2000],
            customer |-> [name |-> "FROM_CUSTOMER", data |-> 3000]]
TagOf(d, role) == Large(d.router.asn, roleTag[role].data)
RPKI_INVALID(d) == Large(d.router.asn, 1)

\* A name that resolves to nothing mentions its symbol all the same.
communityByName(d, n) == {d.communities[c].value : c \in Named(d.communities, n)}
communityRefExpr(d, n) == [names |-> Symbols({n}), values |-> communityByName(d, n)]

-----------------------------------------------------------------------------
(* Statements.                                                              *)

Stmt(test, arg, do, val, syms) ==
    <<[test |-> test, arg |-> arg, do |-> do, val |-> val, uses |-> syms]>>
RejectIf(test, arg, syms) == Stmt(test, arg, "reject", None, syms)
AcceptIf(test, arg, syms) == Stmt(test, arg, "accept", None, syms)
Always(do, val, syms) == Stmt("always", None, do, val, syms)
Opt(given, stmts) == IF given THEN stmts ELSE <<>>

UsesOf(stmts) == UNION {stmts[i].uses : i \in DOMAIN stmts}

Origin(route) == {route.path[i] : i \in {Len(route.path)} \cap DOMAIN route.path}
First(route) == {route.path[i] : i \in {1} \cap DOMAIN route.path}
NetsOf(entries) == UNION {Pattern[e].nets : e \in entries}
NetsBelow(entries) == UNION {Pattern[e].below : e \in entries}
OutOf(bounds, len) == len < bounds.min \/ (bounds.max > 0 /\ len > bounds.max)

\* What BIRD's expressions compute.
Holds(test, arg, route) ==
    CASE test = "always"      -> TRUE
      [] test = "default"     -> IsDefault(route.net)
      [] test = "not default" -> ~IsDefault(route.net)
      [] test = "blackhole"   -> BLACKHOLE \in route.comms /\ IsHost(route.net)
      [] test = "blackhole in" -> /\ BLACKHOLE \in route.comms /\ IsHost(route.net)
                                  /\ route.net \in NetsBelow(arg)
      [] test = "length"      -> OutOf(arg, route.net.len)
      [] test = "length but default" -> ~IsDefault(route.net) /\ OutOf(arg, route.net.len)
      [] test = "in"          -> route.net \in NetsOf(arg)
      [] test = "not in"      -> route.net \notin NetsOf(arg)
      [] test = "carries"     -> arg \cap route.comms # {}
      [] test = "origin not in" -> Origin(route) \cap arg = {}
      [] test = "first not"   -> arg \notin First(route)
      [] test = "invalid"     -> \E o \in Origin(route) : <<route.net, o>> \in RPKIInvalid
      [] test = "longer path" -> Len(route.path) > arg
      [] test = "path has"    -> Elements(route.path) \cap arg # {}

Effect(do, val, route) ==
    CASE do = "add"     -> [route EXCEPT !.comms = @ \cup val]
      [] do = "strip"   -> [route EXCEPT !.comms = {c \in @ : ~(c.large /\ c.asn = val)}]
      [] do = "prefer"  -> [route EXCEPT !.pref = val]
      [] do = "prepend" -> [route EXCEPT !.path = <<val>> \o @]
      [] do = "discard" -> [route EXCEPT !.hole = TRUE]
      [] OTHER          -> route

Verdict(do) == IF do \in {"accept", "discard"} THEN "accept"
               ELSE IF do = "reject" THEN "reject" ELSE "open"

Execute(out, stmt) ==
    IF out.verdict # "open" \/ ~Holds(stmt.test, stmt.arg, out.route) THEN out
    ELSE [verdict |-> Verdict(stmt.do), route |-> Effect(stmt.do, stmt.val, out.route)]

Run(stmts, start) ==
    LET out[k \in 0..Len(stmts)] == IF k = 0 THEN start ELSE Execute(out[k - 1], stmts[k])
    IN out[Len(stmts)]
RunFilter(stmts, route) == Run(stmts, [verdict |-> "open", route |-> route])

-----------------------------------------------------------------------------
(* Import policies object; only a blackhole may pass.  An allow-list that   *)
(* is switched off or of the other family leaves the policy nothing.        *)

AllowSet(d, pol) == d.sets[pol.allow]
\* Mutant: an allow-list that is switched off is named all the same.
ClosedForOtherFamily(d, pol, f) == pol.allow # None /\ AllowSet(d, pol).family # f
ClosedFor(d, pol, f) ==
    pol.allow # None /\ (AllowSet(d, pol).disabled \/ AllowSet(d, pol).family # f)

DefaultRule(pol) ==
    CASE pol.rules.default = "reject" -> RejectIf("default", None, {})
      [] pol.rules.default = "only"   -> RejectIf("not default", None, {})
      [] OTHER                        -> <<>>

LengthRule(pol, f) ==
    LET bounds == pol.rules.lens[f]
    IN Opt(pol.rules.default # "only" /\ (bounds.min > 0 \/ bounds.max > 0),
           RejectIf(IF pol.rules.default = "accept" THEN "length but default" ELSE "length",
                    bounds, {}))

\* Mutant: any host route may ask to be discarded, whatever the policy allows.
BlackholeAnywhere(d, pol) == Opt(pol.rules.blackhole, Stmt("blackhole", None, "discard", None, {}))
BlackholeRule(d, pol) ==
    Opt(pol.rules.blackhole,
        IF pol.allow = None THEN Stmt("blackhole", None, "discard", None, {})
        ELSE Stmt("blackhole in", AllowSet(d, pol).entries, "discard", None, {}))

\* Generated filters name the bogon set of their family.
SetNamed(d, n) == UNION {d.sets[s].entries : s \in Named(d.sets, n)}
BogonRule(d, pol, f) ==
    Opt(pol.bogons, RejectIf("in", SetNamed(d, BogonSet(f)), Symbols({BogonSet(f)})))

MatchRule(d, pol, verdict) ==
    Opt(pol.comm # None,
        LET ref == communityRefExpr(d, pol.comm)
        IN Stmt("carries", ref.values, verdict, None, ref.names))

AllowRule(d, pol) ==
    Opt(pol.allow # None,
        RejectIf("not in", AllowSet(d, pol).entries, Symbols({AllowSet(d, pol).name})))

OriginRule(d, pol) ==
    Opt(pol.origin # None,
        LET set == d.asSets[pol.origin]
        IN RejectIf("origin not in", set.members, Symbols({set.name})))

ROVRule(d, pol, f) ==
    CASE pol.rov = "reject" -> RejectIf("invalid", None, Symbols({RoaTable(f)}))
      [] pol.rov = "log"    -> Stmt("invalid", None, "add", {RPKI_INVALID(d)},
                                    Symbols({RoaTable(f), "RPKI_INVALID"}))
      [] OTHER              -> <<>>

\* An empty list means the shipped one.
BogonASNs(d) == IF d.bogons = {} THEN DefaultBogons ELSE d.bogons
ASNsOf(list) == {b.asn : b \in list}
NotPrivate(list) == {b \in list : ~b.private}
IsPrivateASN(d, asn) == \E b \in BogonASNs(d) : b.private /\ b.asn = asn

PathRule(d, pol) ==
    Opt(pol.rules.pathLen > 0, RejectIf("longer path", pol.rules.pathLen, {}))
        \o Opt(pol.rules.ownASN, RejectIf("path has", {d.router.asn}, {}))
        \o CASE pol.rules.bogonASNs = "all" ->
                    RejectIf("path has", ASNsOf(BogonASNs(d)), Symbols({"BOGON_ASNS"}))
             [] pol.rules.bogonASNs = "exceptPrivate" ->
                    RejectIf("path has", ASNsOf(NotPrivate(BogonASNs(d))),
                             Symbols({"BOGON_ASNS_EXCEPT_PRIVATE"}))
             [] OTHER -> <<>>

writeImportBody(d, pol, f) ==
    IF ClosedFor(d, pol, f) THEN Always("reject", None, {})
    ELSE BlackholeRule(d, pol) \o DefaultRule(pol) \o LengthRule(pol, f)
             \o BogonRule(d, pol, f) \o MatchRule(d, pol, "reject") \o AllowRule(d, pol)
             \o OriginRule(d, pol) \o ROVRule(d, pol, f) \o PathRule(d, pol)
             \o Opt(pol.rules.pref > 0, Always("prefer", pol.rules.pref, {}))

-----------------------------------------------------------------------------
(* Export policies permit; only a bogon is vetoed.                          *)

\* A set of the other family, switched off or empty permits nothing.
Announced(d, pol, f) ==
    {s \in pol.announce : /\ d.sets[s].family = f
                          /\ ~d.sets[s].disabled
                          /\ d.sets[s].entries # {}}

AnnounceRule(d, pol, f) ==
    LET sets == Seqs!SetToSeq(Announced(d, pol, f))
    IN [i \in DOMAIN sets |-> AcceptIf("in", d.sets[sets[i]].entries,
                                       Symbols({d.sets[sets[i]].name}))[1]]

ProvenanceRule(d, pol, role) ==
    Opt(role \in pol.sources,
        AcceptIf("carries", {TagOf(d, role)}, Symbols({roleTag[role].name})))

writeExportBody(d, pol, f) ==
    BogonRule(d, pol, f)
        \o (IF "everything" \in pol.sources THEN Always("accept", None, {})
            ELSE Opt("default" \in pol.sources, AcceptIf("default", None, {}))
                     \o AnnounceRule(d, pol, f)
                     \o ProvenanceRule(d, pol, "upstream")
                     \o ProvenanceRule(d, pol, "ix")
                     \o ProvenanceRule(d, pol, "customer")
                     \o MatchRule(d, pol, "accept"))

-----------------------------------------------------------------------------
(* The filters of a session.                                                *)

PolicyBody(d, id, f) ==
    LET pol == d.policies[id]
    IN IF pol.dir = "import" THEN writeImportBody(d, pol, f) ELSE writeExportBody(d, pol, f)
ChainBody(d, ids, f) == Seqs!FlattenSeq([i \in DOMAIN ids |-> PolicyBody(d, ids[i], f)])

AddCommunities(d, names) ==
    LET ns == Seqs!SetToSeq(names)
    IN [i \in DOMAIN ns |->
           LET ref == communityRefExpr(d, ns[i]) IN Always("add", ref.values, ref.names)[1]]

\* Mutant: a neighbor's use of our own large communities is left alone.
TrustingHead(d, p) ==
    Opt(p.shape.firstAS, RejectIf("first not", p.asn, {}))
        \o Opt(p.shape.originOnly, RejectIf("origin not in", {p.asn}, {}))
        \o AddCommunities(d, p.shape.importComms)
        \o Opt(~IsIBGP(p.shape), Always("add", {TagOf(d, p.shape.role)},
                                        Symbols({roleTag[p.shape.role].name})))
\* The tags come before the policies, which may accept; the drain after, which they would overrule.
ImportHead(d, p) ==
    Opt(p.shape.firstAS, RejectIf("first not", p.asn, {}))
        \o Opt(p.shape.originOnly, RejectIf("origin not in", {p.asn}, {}))
        \o Opt(~IsIBGP(p.shape), Always("strip", d.router.asn, {}))
        \o AddCommunities(d, p.shape.importComms)
        \o Opt(~IsIBGP(p.shape), Always("add", {TagOf(d, p.shape.role)},
                                        Symbols({roleTag[p.shape.role].name})))

writePeerImportFilter(d, p) ==
    ImportHead(d, p) \o ChainBody(d, p.chain.imports, p.fam)
        \o Opt(p.drained, Always("prefer", 0, {})) \o Always("accept", None, {})

ExportHead(d, p) ==
    Opt(p.drained, Always("add", {GRACEFUL_SHUTDOWN}, {}))
        \o [i \in 1..p.shape.prepend |-> Always("prepend", d.router.asn, Symbols({"LOCAL_ASN"}))[1]]
        \o AddCommunities(d, p.shape.exportComms)

writePeerExportFilter(d, p) ==
    ExportHead(d, p) \o ChainBody(d, p.chain.exports, p.fam) \o Always("reject", None, {})

\* Without a chain an internal session carries all (or, outwards, none if told
\* so), an external one announces nothing and has a filter all the same.
HasImportFilter(p) == ~IsIBGP(p.shape) \/ p.chain.imports # <<>>
HasExportFilter(p) == p.chain.exports # <<>>
CarriesAll(p) == IsIBGP(p.shape) /\ p.shape.carry = "all"

ImportRoute(d, p, route) ==
    IF HasImportFilter(p) THEN RunFilter(writePeerImportFilter(d, p), route)
    ELSE [verdict |-> "accept", route |-> route]
ExportRoute(d, p, route) ==
    IF HasExportFilter(p) THEN RunFilter(writePeerExportFilter(d, p), route)
    ELSE [verdict |-> IF CarriesAll(p) THEN "accept" ELSE "reject", route |-> route]

-----------------------------------------------------------------------------
(* The kernel's table: static routes, and BGP routes if asked for, but none *)
(* that covers an address the router itself depends on.                     *)

kernelProtectedAddrs(d, f) ==
    {a \in ({d.router.id} \cup {d.router.src[g] : g \in Families}
               \cup UNION {d.peers[p].addrs : p \in Live(d.peers)}) \ {None} : a.fam = f}

writeKernelExport(d, f, net, source) ==
    /\ d.router.src[f] # None \/ f \in d.router.bgp
    /\ \/ source = "static"
       \/ /\ source = "bgp" /\ f \in d.router.bgp
          /\ (IsDefault(net) \/ kernelProtectedAddrs(d, f) \cap net.addrs = {})

=============================================================================
