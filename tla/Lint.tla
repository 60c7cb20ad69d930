-------------------------------- MODULE Lint --------------------------------
(***************************************************************************)
(* The lint of the Changes page: combinations BIRD would load but that do  *)
(* not do what they say.  A finding is [sev, peer, what, about, asn], kept *)
(* to what tells one message from another; `peer` is None for those that   *)
(* are not about one session.                                              *)
(***************************************************************************)
EXTENDS Config

Finding(sev, peer, what, about, asn) ==
    [sev |-> sev, peer |-> peer, what |-> what, about |-> about, asn |-> asn]
Danger(peer, what, about) == Finding("danger", peer, what, about, 0)
Warn(peer, what, about) == Finding("warn", peer, what, about, 0)
DangerFor(p, what, about) == Finding("danger", p.name, what, about, p.asn)

When(given, finding) == IF given THEN {finding} ELSE {}

LintPeers(d) == LiveRows(d, "peers")
External(d) == {p \in LintPeers(d) : ~IsIBGP(p.shape)}
LintPolicies(d) == LiveRows(d, "policies")
ImportsOf(d, p) == {d.policies[i] : i \in Elements(p.chain.imports)}
ExportsOf(d, p) == {d.policies[i] : i \in Elements(p.chain.exports)}

-----------------------------------------------------------------------------
(* The model as a whole.                                                    *)

DanglingCommunities(d) ==
    (UNION {{Danger(p.name, "import community", {n}) :
                n \in p.shape.importComms \ CommunityNames(d)}
                \cup {Danger(p.name, "export community", {n}) :
                         n \in p.shape.exportComms \ CommunityNames(d)} : p \in LintPeers(d)})
        \cup {Danger(None, "matched community", {pol.name, pol.comm}) :
                 pol \in {q \in LintPolicies(d) : q.comm \notin CommunityNames(d) \cup {None}}}

LintReflector(d) ==
    When(d.router.cluster /\ \A p \in LintPeers(d) : ~p.shape.rrClient,
         Warn(None, "cluster id unused", {}))
LintRaw(d) == When(d.router.raw, Warn(None, "raw block", {}))

\* A static route and an anchor for the same prefix.  Neither the switch of the set nor what
\* the renderer withholds is looked at.  Of several sets that originate it one is named, the last
\* by its name: names have no order here, so it is some one of them.
AnchorsOf(s) == {Pattern[e].base : e \in s.entries}
originated(d, prefix) ==
    {s.name : s \in {t \in LiveRows(d, "sets") : t.originate /\ prefix \in AnchorsOf(t)}}
LintAnchors(d) ==
    {Danger(None, "route and anchor", {r.name, CHOOSE n \in originated(d, r.name) : TRUE}) :
        r \in {q \in Enabled(d, "routes") : originated(d, q.name) # {}}}

SetsOf(d, pol) == {d.sets[s] : s \in pol.announce \cap Live(d.sets)}
LintModifiers(d) ==
    UNION {{Warn(None, "announces more-specifics", {pol.name, Pattern[e].base}) :
               e \in {x \in UNION {s.entries : s \in SetsOf(d, pol)} : Pattern[x].modified}} :
           pol \in LintPolicies(d)}

LintDisabledSets(d) ==
    UNION {When(pol.allow \in Live(d.sets) /\ AllowSet(d, pol).disabled,
                Danger(None, "accepts only a disabled set", {pol.name}))
               \cup {Warn(None, "announces a disabled set", {pol.name, s.name}) :
                        s \in {t \in SetsOf(d, pol) : t.disabled}} : pol \in LintPolicies(d)}

LintRPKI(d) ==
    LET rejecting == \E p \in LintPolicies(d) : p.rov = "reject"
        logging == {p.name : p \in {q \in LintPolicies(d) : q.rov = "log"}}
    IN When(Feeding(d) # {} /\ ~rejecting /\ logging = {}, Warn(None, "RPKI data ignored", {}))
           \cup When(~rejecting /\ logging # {}, Warn(None, "RPKI only logged", logging))

LintIdentity(d) == When(NoIdentity(d), Warn(None, "no identity", {}))

-----------------------------------------------------------------------------
(* One session.                                                             *)

LintRole(d, p) ==
    When(IsIBGP(p.shape) /\ p.asn # d.router.asn, DangerFor(p, "internal, but not our AS", {}))
        \cup When(~IsIBGP(p.shape) /\ p.asn = d.router.asn,
                     Danger(p.name, "our AS, but external", {}))
        \cup When(IsIBGP(p.shape) /\ ~p.shape.nextHopSelf, Warn(p.name, "next hop unchanged", {}))
        \cup When(p.drained, Warn(p.name, "draining", {}))

\* Mutant: any policy that looks at bogon AS numbers is taken to refuse the private ones.
LintPrivateASNAny(d, p) ==
    {DangerFor(p, "rejects every route: private AS", {pol.name}) :
        pol \in {q \in ImportsOf(d, p) : IsPrivateASN(d, p.asn) /\ q.rules.bogonASNs # "off"}}
LintPrivateASN(d, p) ==
    {DangerFor(p, "rejects every route: private AS", {pol.name}) :
        pol \in {q \in ImportsOf(d, p) : IsPrivateASN(d, p.asn) /\ q.rules.bogonASNs = "all"}}

\* Import policies are ANDed: the first that rejects the default is named.
Rejecting(d, p) ==
    {i \in DOMAIN p.chain.imports : d.policies[p.chain.imports[i]].rules.default = "reject"}
FirstRejecting(d, p) ==
    d.policies[p.chain.imports[CHOOSE i \in Rejecting(d, p) : \A j \in Rejecting(d, p) : i <= j]]
LintDefault(d, p) ==
    UNION {When(pol.rules.default = "accept",
                Danger(p.name, "never accepts the default", {FirstRejecting(d, p).name, pol.name}))
               \cup When(pol.rules.default = "only",
                         Danger(p.name, "accepts nothing: default",
                                {FirstRejecting(d, p).name, pol.name})) :
           pol \in {q \in ImportsOf(d, p) : Rejecting(d, p) # {}}}

LintOrigins(d, p) ==
    When(p.shape.role = "upstream" /\ p.shape.originOnly,
         Danger(p.name, "origin only, upstream", {}))
        \cup {Danger(p.name, "origin set, upstream", {pol.name}) :
                 pol \in {q \in ImportsOf(d, p) : q.origin # None /\ p.shape.role = "upstream"}}
        \cup {DangerFor(p, "accepts nothing: origin", {d.asSets[pol.origin].name}) :
                 pol \in {q \in ImportsOf(d, p) : /\ p.shape.originOnly
                                                  /\ q.origin \in Live(d.asSets)
                                                  /\ p.asn \notin d.asSets[q.origin].members}}

LintOpen(d, p) ==
    When(p.chain.imports = <<>>, Danger(p.name, "accepts everything", {}))
        \cup When(p.shape.limit = 0, Warn(p.name, "no import limit", {}))

\* A community or another policy of the chain may announce all the same: not looked at.
PermitsNothing(d, pol) ==
    pol.sources = {} /\ \A s \in SetsOf(d, pol) : s.disabled \/ s.entries = {}
LintSilent(d, p) ==
    {Danger(p.name, "announces nothing", {pol.name}) :
        pol \in {q \in ExportsOf(d, p) : PermitsNothing(d, q)}}

LintLeaks(d, p) ==
    {Danger(p.name, "leaks the table", {pol.name, p.shape.role}) :
        pol \in {q \in ExportsOf(d, p) : /\ p.shape.role \in {"upstream", "ix"}
                                         /\ "everything" \in q.sources}}
        \cup {Danger(p.name, "leaks upstreams", {pol.name}) :
                 pol \in {q \in ExportsOf(d, p) : /\ p.shape.role = "upstream"
                                                  /\ "upstream" \in q.sources}}

LintPeer(d, p) ==
    LintPrivateASN(d, p) \cup LintDefault(d, p) \cup LintOrigins(d, p) \cup LintOpen(d, p)
        \cup LintSilent(d, p) \cup LintLeaks(d, p)

-----------------------------------------------------------------------------
(* The same finding about several peers of one template becomes one, which  *)
(* still names them.                                                        *)

LinkedTemplate(d, n) == {d.peers[i].tmpl : i \in Named(d.peers, n)} \ {None}
SameFor(d, ws, w) ==
    {v \in ws : /\ LinkedTemplate(d, v.peer) = LinkedTemplate(d, w.peer)
                /\ [v EXCEPT !.peer = None] = [w EXCEPT !.peer = None]}
Folded(d, ws, w) == LinkedTemplate(d, w.peer) # {} /\ Cardinality(SameFor(d, ws, w)) > 1
foldByTemplate(d, ws) ==
    {[finding |-> [w EXCEPT !.peer = None],
      peers |-> IF Folded(d, ws, w) THEN {v.peer : v \in SameFor(d, ws, w)}
                ELSE {w.peer} \ {None}] :
        w \in ws}

Findings(d) ==
    DanglingCommunities(d) \cup LintReflector(d) \cup LintRaw(d) \cup LintAnchors(d)
        \cup LintModifiers(d) \cup LintDisabledSets(d) \cup LintRPKI(d) \cup LintIdentity(d)
        \cup (UNION {LintRole(d, p) : p \in LintPeers(d)})
        \cup (UNION {LintPeer(d, p) : p \in External(d)})

LintReport(d) == foldByTemplate(d, Findings(d))

=============================================================================
