------------------------------ MODULE Library ------------------------------
(***************************************************************************)
(* The rest of the catalog: policies, prefix sets, AS sets, communities,   *)
(* RPKI servers, BMP stations and static routes, and what the store's      *)
(* transactions do to them.  A policy names sets by id and a community by  *)
(* name; the sets may be kept by the IRR refresh (bgpq4) instead of by     *)
(* hand.                                                                   *)
(***************************************************************************)
EXTENDS Peering

CONSTANTS
    SetIds, ASSetIds,
    V4, V6,         \* the prefixes of either family
    ASNs            \* the members of AS sets

Prefixes(f) == IF f = "ipv4" THEN V4 ELSE V6

\* What an import policy looks at besides sets, communities and ROAs; 0 means unset.
Lengths == [min: Nat, max: Nat]
Rules == [default: {"reject", "accept", "only"}, blackhole: BOOLEAN, lens: [Families -> Lengths],
          pathLen: Nat, ownASN: BOOLEAN, bogonASNs: {"off", "all", "exceptPrivate"}, pref: Nat]
ZeroRules == [default |-> "reject", blackhole |-> FALSE,
              lens |-> [f \in Families |-> [min |-> 0, max |-> 0]],
              pathLen |-> 0, ownASN |-> FALSE, bogonASNs |-> "off", pref |-> 0]
\* What an export policy announces besides sets and a community.
Sources == {"everything", "default", "upstream", "ix", "customer"}

Policy == [name: Names, dir: {"import", "export"}, comm: Names \cup {None}, bogons: BOOLEAN,
           allow: SetIds \cup {None}, origin: ASSetIds \cup {None}, rov: {"off", "log", "reject"},
           rules: Rules, announce: SUBSET SetIds, sources: SUBSET Sources]
PrefixSet == [name: Names, family: Families, entries: SUBSET (V4 \cup V6), originate: BOOLEAN,
              source: BOOLEAN, auto: BOOLEAN, disabled: BOOLEAN, system: BOOLEAN, failed: BOOLEAN]
\* notes: the members that carry a hand-written note.
ASSet == [name: Names, members: SUBSET ASNs, notes: SUBSET ASNs, source: BOOLEAN,
          auto: BOOLEAN, failed: BOOLEAN]

-----------------------------------------------------------------------------
(* Policies.                                                                *)

zeroExportFields(p) == [p EXCEPT !.announce = {}, !.sources = {}]

\* Mutant: a column of the other direction is kept.
zeroImportFieldsButOrigin(p) ==
    [p EXCEPT !.allow = None, !.rov = "off", !.rules = ZeroRules]
zeroImportFields(p) ==
    [p EXCEPT !.allow = None, !.origin = None, !.rov = "off", !.rules = ZeroRules]

ValidPolicy(p) == IF p.dir = "import" THEN zeroExportFields(p) ELSE zeroImportFields(p)

Bits(f) == IF f = "ipv4" THEN 32 ELSE 128
checkLenBounds(len, bits) ==
    len.min <= bits /\ len.max <= bits /\ (len.max = 0 \/ len.min <= len.max)
\* An export policy that announces nothing is refused.
Announces(p) == p.sources # {} \/ p.announce # {} \/ p.comm # None
PolicyAccepted(p) ==
    IF p.dir = "import"
    THEN p.rules.pathLen <= 255 /\ \A f \in Families : checkLenBounds(p.rules.lens[f], Bits(f))
    ELSE Announces(p)

SetsExist(d, p) ==
    /\ p.allow \in Live(d.sets) \cup {None}
    /\ p.announce \subseteq Live(d.sets)
    /\ p.origin \in Live(d.asSets) \cup {None}

CreatePolicy(d, p) == IF SetsExist(d, p) THEN Insert(d, "policies", p) ELSE None
UpdatePolicy(d, id, p) == IF SetsExist(d, p) THEN Update(d, "policies", id, p) ELSE None
DeletePolicy(d, id) == IF Restricted(d, "policies", id) THEN None ELSE Delete(d, "policies", id)

-----------------------------------------------------------------------------
(* Prefix sets.                                                             *)

ValidPrefixSet(s) ==
    /\ s.entries # {}
    /\ s.entries \subseteq Prefixes(s.family)

CreatePrefixSet(d, s) == Insert(d, "sets", s)

\* The form's columns; the switch and the refresh's bookkeeping are not its own.
UpdatePrefixSet(d, id, s) ==
    IF affectedOne(d, "sets", id)
    THEN Update(d, "sets", id, [s EXCEPT !.disabled = d.sets[id].disabled,
                                         !.system = d.sets[id].system,
                                         !.failed = d.sets[id].failed])
    ELSE None

SetPrefixSetDisabled(d, id, off) ==
    IF affectedOne(d, "sets", id) /\ ~d.sets[id].system
    THEN [d EXCEPT !.sets[id].disabled = off]
    ELSE None

DeletePrefixSet(d, id) ==
    IF affectedOne(d, "sets", id) /\ ~d.sets[id].system /\ ~Restricted(d, "sets", id)
    THEN Delete(d, "sets", id)
    ELSE None

\* Only the entries and the bookkeeping; a deleted set fails the foreign key of its entries.
RefreshPrefixSetEntries(d, id, fresh) ==
    IF affectedOne(d, "sets", id)
    THEN [d EXCEPT !.sets[id].entries = fresh, !.sets[id].failed = FALSE]
    ELSE d

MarkPrefixSetRefreshed(d, id) ==
    IF affectedOne(d, "sets", id) THEN [d EXCEPT !.sets[id].failed = FALSE] ELSE d

MarkPrefixSetRefreshError(d, id) ==
    IF affectedOne(d, "sets", id) THEN [d EXCEPT !.sets[id].failed = TRUE] ELSE d

-----------------------------------------------------------------------------
(* AS sets.                                                                 *)

ValidASSet(s) == s.members # {}

CreateASSet(d, s) == Insert(d, "asSets", s)

UpdateASSet(d, id, s) ==
    IF affectedOne(d, "asSets", id)
    THEN Update(d, "asSets", id, [s EXCEPT !.failed = d.asSets[id].failed])
    ELSE None

DeleteASSet(d, id) == IF Restricted(d, "asSets", id) THEN None ELSE Delete(d, "asSets", id)

RefreshASSetEntries(d, id, members, notes) ==
    IF affectedOne(d, "asSets", id)
    THEN [d EXCEPT !.asSets[id].members = members, !.asSets[id].notes = notes,
                   !.asSets[id].failed = FALSE]
    ELSE d

MarkASSetRefreshed(d, id) ==
    IF affectedOne(d, "asSets", id) THEN [d EXCEPT !.asSets[id].failed = FALSE] ELSE d

MarkASSetRefreshError(d, id) ==
    IF affectedOne(d, "asSets", id) THEN [d EXCEPT !.asSets[id].failed = TRUE] ELSE d

-----------------------------------------------------------------------------
(* The refresh: `copy` is the set as it was read before bgpq4 was asked,    *)
(* `got` what bgpq4 answered, None for an error.                            *)

\* Mutant: an empty answer is saved.
NeverRefuses(copy, got) == FALSE
RefusesEmpty(copy, got) == got = {} /\ copy.entries # {}

refreshOneSet(d, id, copy, got) ==
    IF got = None THEN MarkPrefixSetRefreshError(d, id)
    ELSE IF RefusesEmpty(copy, got) THEN MarkPrefixSetRefreshError(d, id)
    ELSE IF got = copy.entries THEN MarkPrefixSetRefreshed(d, id)
    ELSE RefreshPrefixSetEntries(d, id, got)

CarriedNotes(copy, got) == copy.notes \cap got

refreshOneASSet(d, id, copy, got) ==
    IF got \in {None, {}} THEN MarkASSetRefreshError(d, id)
    ELSE IF got = copy.members THEN MarkASSetRefreshed(d, id)
    ELSE RefreshASSetEntries(d, id, got, CarriedNotes(copy, got))

ListAutoRefreshPrefixSets(d) == {s \in Live(d.sets) : d.sets[s].auto /\ d.sets[s].source}
ListAutoRefreshASSets(d) == {s \in Live(d.asSets) : d.asSets[s].auto /\ d.asSets[s].source}

-----------------------------------------------------------------------------
(* Communities are referenced by their name, in text no foreign key sees.   *)

\* A community may not shadow a name birdy or BIRD defines itself.
ValidCommunity(c) == c.name \notin builtinSymbols

CreateCommunityDef(d, c) == Insert(d, "communities", c)
UpdateCommunityDef(d, id, c) == Update(d, "communities", id, c)
DeleteCommunityDef(d, id) == Delete(d, "communities", id)

CommunityNames(d) == {d.communities[c].name : c \in Live(d.communities)}

CommunityFields(s) == {s.importComms, s.exportComms}
CommunityRefs(s) == UNION CommunityFields(s)
PeerRefs(d) == UNION {CommunityRefs(d.peers[p].shape) : p \in Live(d.peers)}
TemplateRefs(d) == UNION {CommunityRefs(d.templates[t].shape) : t \in Live(d.templates)}
PolicyRefs(d) == {d.policies[p].comm : p \in Live(d.policies)} \ {None}

\* Mutant: templates are not asked.
communityInUseButTemplates(d, n) == n \in PeerRefs(d) \cup PolicyRefs(d)
communityInUse(d, n) == n \in PeerRefs(d) \cup TemplateRefs(d) \cup PolicyRefs(d)
checkCommunityRefs(d, refs) == refs \subseteq CommunityNames(d)

-----------------------------------------------------------------------------
(* RPKI servers, BMP stations and static routes: named rows of their own.   *)

CreateRPKIServer(d, s) == Insert(d, "servers", s)
UpdateRPKIServer(d, id, s) == Update(d, "servers", id, s)
DeleteRPKIServer(d, id) == Delete(d, "servers", id)

Validating(d) == {p \in Live(d.policies) : d.policies[p].rov # "off"}
Feeding(d) == {s \in Live(d.servers) : d.servers[s].enabled}

\* Turning this server off would leave a validating policy without ROA data.
lastEnabledServerGuard(d, id) == Feeding(d) \ {id} = {} /\ Validating(d) # {}

CreateBMPStation(d, s) == Insert(d, "stations", s)
UpdateBMPStation(d, id, s) == Update(d, "stations", id, s)
DeleteBMPStation(d, id) == Delete(d, "stations", id)

CreateStaticRoute(d, r) == Insert(d, "routes", r)
UpdateStaticRoute(d, id, r) == Update(d, "routes", id, r)
DeleteStaticRoute(d, id) == Delete(d, "routes", id)

=============================================================================
