------------------------------- MODULE Config -------------------------------
(***************************************************************************)
(* The renderer: from the tables to the sections of bird.conf, each with   *)
(* the symbols it declares and the symbols it uses, or a refusal.  BIRD    *)
(* loads the file if every name is declared once, before it is used.       *)
(***************************************************************************)
EXTENDS Filters

LiveRows(d, tb) == {d[tb][i] : i \in Live(d[tb])}
NamesOf(rows) == {row.name : row \in rows}
Enabled(d, tb) == {row \in LiveRows(d, tb) : row.enabled}

-----------------------------------------------------------------------------
(* Refusals.                                                                *)

NoIdentity(d) == d.router.id = None \/ d.router.asn = 0

\* A policy that vetoes bogons needs both sets, filled.
checkBogonSets(d) ==
    /\ \E p \in LiveRows(d, "policies") : p.bogons
    /\ \E f \in Families : SetNamed(d, BogonSet(f)) = {}

checkRPKI(d) == Feeding(d) = {} /\ Validating(d) # {}

\* A policy that is closed for a family is not written any further for it.
AllowMissing(d, pol) ==
    /\ pol.allow # None
    /\ \/ pol.allow \notin Live(d.sets)
       \/ ~AllowSet(d, pol).disabled /\ AllowSet(d, pol).entries = {}
OriginMissing(d, pol) ==
    /\ pol.origin # None /\ \E f \in Families : ~ClosedFor(d, pol, f)
    /\ pol.origin \notin Live(d.asSets) \/ d.asSets[pol.origin].members = {}
PolicyRefused(d, pol) ==
    IF pol.dir = "import" THEN AllowMissing(d, pol) \/ OriginMissing(d, pol)
    ELSE "everything" \notin pol.sources /\ ~(pol.announce \subseteq Live(d.sets))

-----------------------------------------------------------------------------
(* Sections.                                                                *)

Section(group, n, declared, used) ==
    <<[path |-> <<group, n>>, declares |-> declared, uses |-> used]>>
Defines(names) == [i \in DOMAIN names |-> Symbol(names[i])]
Declare(names) == Defines(Seqs!SetToSeq(names))
EachOf(S, Op(_)) ==
    LET s == Seqs!SetToSeq(S) IN Seqs!FlattenSeq([i \in DOMAIN s |-> Op(s[i])])

writeGlobals(d) == Section("globals", "", Defines(<<"LOCAL_ASN">>), {})

\* The library's communities, after birdy's own; two of one name are two defines.
writeCommunities(d) ==
    Section("communities", "",
            Defines(<<"FROM_UPSTREAM", "FROM_IX", "FROM_CUSTOMER", "RPKI_INVALID">>)
                \o Declare(NamesOf(LiveRows(d, "communities"))), {})

\* A set that is switched off or empty is withheld.
Rendered(d) == {s \in LiveRows(d, "sets") : ~s.disabled /\ s.entries # {}}
writeSets(d) == Section("sets", "prefixes", Declare(NamesOf(Rendered(d))), {})
writeASSets(d) ==
    Section("sets", "as",
            Declare(NamesOf({s \in LiveRows(d, "asSets") : s.members # {}})), {})

writeBogonASNs(d) ==
    Section("bogons", "asns", Defines(<<"BOGON_ASNS", "BOGON_ASNS_EXCEPT_PRIVATE">>), {})

RoaTables(d) == IF Enabled(d, "servers") = {} THEN {} ELSE {RoaTable(f) : f \in Families}
writeRPKITables(d) == Section("rpki", "tables", Declare(RoaTables(d)), {})
writeRPKIProtocols(d) ==
    Section("rpki", "servers", Declare(NamesOf(Enabled(d, "servers"))), Symbols(RoaTables(d)))

writeBaseProtocols(d) ==
    Section("protocols", "base", Defines(<<"direct1", "kernel4", "kernel6">>), {})
writeBFDProtocol(d) ==
    Section("protocols", "bfd",
            Declare({n \in {"bfd1"} : \E p \in LiveRows(d, "peers") : p.shape.bfd}), {})
writeBMP(d) == Section("protocols", "bmp", Declare(NamesOf(Enabled(d, "stations"))), {})

Originators(d) == {s \in Rendered(d) : s.originate}
writeOriginators(d) ==
    Section("sets", "originators",
            Seqs!SetToSeq({DerivedSymbol("originate", "", s.name) : s \in Originators(d)}), {})

StaticName(f) == IF f = "ipv4" THEN "static_v4" ELSE "static_v6"
writeStaticRoutes(d) ==
    Section("static", "", Declare({StaticName(r.family) : r \in Enabled(d, "routes")}), {})

writePolicy(d, id) ==
    LET pol == d.policies[id]
    IN Section("policies", pol.name, <<policyFunc(pol, "ipv4"), policyFunc(pol, "ipv6")>>,
               UNION {UsesOf(PolicyBody(d, id, f)) : f \in Families})

\* Only a template some peer is linked to is written.
usedTemplates(d) == {t \in Live(d.templates) : Linked(d, t) # {}}
writeTemplate(d, t) ==
    Section("templates", t.name, <<Symbol(t.name)>>, Symbols({"LOCAL_ASN"}))

Calls(d, p, ids) == {policyFunc(d.policies[i], p.fam) : i \in Elements(ids)}
Inherits(d, p) == {d.templates[t].name : t \in usedTemplates(d) \cap {p.tmpl}}
writePeer(d, p) ==
    Section("peers", p.name,
            Opt(HasImportFilter(p), <<FilterName(p, "in")>>)
                \o Opt(HasExportFilter(p), <<FilterName(p, "out")>>) \o <<Symbol(p.name)>>,
            Symbols({"LOCAL_ASN"} \cup Inherits(d, p))
                \cup UsesOf(Opt(HasImportFilter(p), ImportHead(d, p)))
                \cup UsesOf(Opt(HasExportFilter(p), ExportHead(d, p)))
                \cup Calls(d, p, p.chain.imports) \cup Calls(d, p, p.chain.exports))

\* In the order of the file; a block of raw configuration, which birdy does not
\* understand, comes last and is BIRD's to judge.
Sections(d) ==
    writeGlobals(d) \o writeCommunities(d) \o writeSets(d) \o writeASSets(d) \o writeBogonASNs(d)
        \o writeRPKITables(d) \o writeBaseProtocols(d) \o writeBFDProtocol(d) \o writeBMP(d)
        \o writeRPKIProtocols(d) \o writeOriginators(d) \o writeStaticRoutes(d)
        \o EachOf(Live(d.policies), LAMBDA id : writePolicy(d, id))
        \o EachOf(usedTemplates(d), LAMBDA t : writeTemplate(d, d.templates[t]))
        \o EachOf(LiveRows(d, "peers"), LAMBDA p : writePeer(d, p))

-----------------------------------------------------------------------------
(* Every name once, BIRD's own included.                                    *)

birdSymbols == Symbols({"master4", "master6"})
DeclaredIn(secs) == Seqs!FlattenSeq([i \in DOMAIN secs |-> secs[i].declares])
checkSymbols(secs) ==
    LET all == DeclaredIn(secs)
    IN birdSymbols \cap Elements(all) # {} \/ Cardinality(Elements(all)) # Len(all)

RefusedUnwritten(d) ==
    \/ NoIdentity(d) \/ checkBogonSets(d) \/ checkRPKI(d)
    \/ \E p \in LiveRows(d, "policies") : PolicyRefused(d, p)
Refused(d) == RefusedUnwritten(d) \/ checkSymbols(Sections(d))

\* What bird -p reports: a name used before it is declared, or declared twice.
Undefined(secs) ==
    UNION {secs[i].uses \ UNION {Elements(secs[j].declares) : j \in 1..i} : i \in DOMAIN secs}
DeclaredTwice(secs) ==
    LET all == DeclaredIn(secs)
    IN {all[i] : i \in {j \in DOMAIN all : \E k \in 1..(j - 1) : all[k] = all[j]}}
           \cup (birdSymbols \cap Elements(all))

=============================================================================
