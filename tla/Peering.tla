------------------------------ MODULE Peering ------------------------------
(***************************************************************************)
(* Peers and peer templates: what the store's transactions do to them.     *)
(* A template owns a shape and a chain of policies; a linked peer carries  *)
(* a copy of both, which a save of the template rewrites.                  *)
(*                                                                         *)
(* The governed columns are kept to what the properties tell apart:        *)
(*   role        the relationship, which decides the tag of its routes     *)
(*   firstAS     enforceFirstAS; originOnly: originPeerOnly                *)
(*   prepend     prependCount; bgpRole and gtsm go the way of these three  *)
(*   nextHopSelf and rrClient, which only an internal session has          *)
(*   carry       iBGPExportDefault                                         *)
(*   bfd         whether the session asks for BFD                          *)
(*   limit       importLimit and its action, the columns that may be       *)
(*               overridden; the transport columns go the way of this one  *)
(*               without an override                                       *)
(*   importComms, exportComms   the community names they mention           *)
(***************************************************************************)
EXTENDS Rows

CONSTANTS PeerIds, TemplateIds, PolicyIds, Limits, Addrs

Families == {"ipv4", "ipv6"}
Roles == {"upstream", "ix", "customer", "ibgp"}

Shape == [role: Roles, firstAS: BOOLEAN, originOnly: BOOLEAN, prepend: 0..10,
          nextHopSelf: BOOLEAN, rrClient: BOOLEAN, carry: {"all", "none"}, bfd: BOOLEAN,
          limit: Limits,
          importComms: SUBSET Names, exportComms: SUBSET Names]
ChainIds == UNION {[1..n -> PolicyIds] : n \in 0..Cardinality(PolicyIds)}
Chain == [imports: ChainIds, exports: ChainIds]
NoChain == [imports |-> <<>>, exports |-> <<>>]

\* asn and fam are those of the neighbor, addrs the addresses its session runs between.
Peer == [name: Names, asn: Nat, fam: Families, addrs: SUBSET Addrs,
         enabled: BOOLEAN, secret: BOOLEAN, drained: BOOLEAN,
         tmpl: TemplateIds \cup {None}, override: BOOLEAN, shape: Shape, chain: Chain]
PeerTemplate == [name: Names, shape: Shape, chain: Chain]

-----------------------------------------------------------------------------
(* Validation normalises: what the other kind of session would make of a    *)
(* column is cleared, not refused.                                          *)

IsIBGP(s) == s.role = "ibgp"

validateShape(s) ==
    IF IsIBGP(s)
    THEN [s EXCEPT !.firstAS = FALSE, !.originOnly = FALSE, !.prepend = 0,
                   !.importComms = {}, !.exportComms = {}]
    ELSE [s EXCEPT !.nextHopSelf = FALSE, !.rrClient = FALSE]

\* The drain is the peer's own switch, but an eBGP one.
DrainAllowed(s, drained) == drained /\ ~IsIBGP(s)

ValidPeer(p) ==
    [p EXCEPT !.shape = validateShape(@),
              !.drained = DrainAllowed(p.shape, @),
              !.override = @ /\ p.tmpl # None]

ValidTemplate(t) == [t EXCEPT !.shape = validateShape(@)]

\* Mutant: the peer's own limit is overwritten.
NeverOverriding(p, s) == s

\* The template's columns over the peer's, but for the ones it overrides.
Overriding(p, s) == IF p.override THEN [s EXCEPT !.limit = p.shape.limit] ELSE s

\* Mutant: the chain does not follow.
ApplyShapeTo(t, id, p) == [p EXCEPT !.shape = Overriding(p, t.shape), !.tmpl = id]
ApplyTo(t, id, p) ==
    [p EXCEPT !.shape = Overriding(p, t.shape), !.chain = t.chain, !.tmpl = id]

-----------------------------------------------------------------------------
(* Transactions on peers.                                                   *)

LinkHolds(d, p) == p.tmpl = None \/ p.tmpl \in Live(d.templates)
PoliciesExist(d, c) == Elements(c.imports) \cup Elements(c.exports) \subseteq Live(d.policies)

CreatePeer(d, p) ==
    IF LinkHolds(d, p) THEN Insert(d, "peers", [p EXCEPT !.chain = NoChain]) ELSE None

UpdatePeer(d, id, p) ==
    IF affectedOne(d, "peers", id) /\ LinkHolds(d, p)
    THEN Update(d, "peers", id, [p EXCEPT !.chain = d.peers[id].chain])
    ELSE None

\* An empty chain inserts no row, so nothing notices that the peer is gone.
SetPeerPolicies(d, id, c) ==
    IF ~affectedOne(d, "peers", id) THEN IF c = NoChain THEN d ELSE None
    ELSE IF PoliciesExist(d, c) THEN [d EXCEPT !.peers[id].chain = c] ELSE None

SetPeerEnabled(d, id, on) ==
    IF affectedOne(d, "peers", id) THEN [d EXCEPT !.peers[id].enabled = on] ELSE None

DeletePeer(d, id) == Delete(d, "peers", id)

\* Mutant: a peer that turns internal stays drained.
KeepsDrained(p) == p

\* The governed columns and the link, inside the caller's transaction.
updatePeerShape(p) == [p EXCEPT !.drained = DrainAllowed(p.shape, @)]

-----------------------------------------------------------------------------
(* Transactions on templates.                                               *)

CreatePeerTemplate(d, t) ==
    IF PoliciesExist(d, t.chain) THEN Insert(d, "templates", t) ELSE None

Linked(d, id) == {p \in Live(d.peers) : d.peers[p].tmpl = id}

RewriteLinked(d, id, t) ==
    [d EXCEPT !.peers = [p \in DOMAIN @ |->
        IF p \in Linked(d, id) THEN updatePeerShape(ApplyTo(t, id, @[p])) ELSE @[p]]]

UpdatePeerTemplate(d, id, t) ==
    LET saved == Update(d, "templates", id, t)
    IN IF saved = None \/ ~PoliciesExist(d, t.chain) THEN None ELSE RewriteLinked(saved, id, t)

\* Every peer of the selection, or none: one that is gone rolls the rest back.
AttachOne(d, id, p) ==
    IF id = None THEN [p EXCEPT !.tmpl = None, !.override = FALSE]
    ELSE updatePeerShape(ApplyTo(d.templates[id], id, [p EXCEPT !.override = FALSE]))

AttachPeers(d, ids, id) ==
    IF ids \subseteq Live(d.peers) /\ (id = None \/ id \in Live(d.templates))
    THEN [d EXCEPT !.peers = [p \in DOMAIN @ |->
             IF p \in ids THEN AttachOne(d, id, @[p]) ELSE @[p]]]
    ELSE None

LinkPeerToTemplate(d, p, id) == AttachPeers(d, {p}, id)

DeletePeerTemplate(d, id) ==
    IF Restricted(d, "templates", id) THEN None ELSE Delete(d, "templates", id)

=============================================================================
