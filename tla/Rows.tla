-------------------------------- MODULE Rows --------------------------------
(***************************************************************************)
(* The model database as its schema sees it: tables of rows keyed by an    *)
(* id that is never given out twice (AUTOINCREMENT), a unique name per     *)
(* table, foreign keys that refuse (RESTRICT), and one namespace of BIRD   *)
(* symbols across the tables.  A transaction is an operator that returns   *)
(* the database it commits, or None when it rolls back.                    *)
(***************************************************************************)
EXTENDS Naturals, Sequences, FiniteSets, TLC

CONSTANTS
    None,       \* a NULL column, an unused id, a transaction that rolled back
    Gone,       \* the row of an id that was used and deleted
    Names,      \* what the rows are called
    Derived     \* names built from another row: name -> [kind, table, base]

ASSUME RowsAssumption ==
    /\ None # Gone
    /\ DOMAIN Derived \subseteq Names

Live(t) == {i \in DOMAIN t : t[i] \notin {None, Gone}}
Named(t, n) == {i \in Live(t) : t[i].name = n}
Unused(t) == {i \in DOMAIN t : t[i] = None}
NextId(t) == CHOOSE i \in Unused(t) : \A j \in Unused(t) : i <= j

-----------------------------------------------------------------------------
(* The three statements every table answers in the same way.  An INSERT     *)
(* finds no id only at the bound of the model.                              *)

Insert(d, tb, row) ==
    IF Unused(d[tb]) # {} /\ Named(d[tb], row.name) = {}
    THEN [d EXCEPT ![tb][NextId(d[tb])] = row]
    ELSE None

affectedOne(d, tb, id) == id \in Live(d[tb])

Update(d, tb, id, row) ==
    IF affectedOne(d, tb, id) /\ Named(d[tb], row.name) \subseteq {id}
    THEN [d EXCEPT ![tb][id] = row]
    ELSE None

Delete(d, tb, id) == IF affectedOne(d, tb, id) THEN [d EXCEPT ![tb][id] = Gone] ELSE None

\* The page's own lookup: the URL holds a name, the row's id is used from then on.
namedEntity(d, tb, n) == Named(d[tb], n)

-----------------------------------------------------------------------------
(* Foreign keys that RESTRICT: who still names a row.                       *)

Elements(s) == {s[i] : i \in DOMAIN s}
InChain(row, id) == id \in Elements(row.chain.imports) \cup Elements(row.chain.exports)

TemplateHeld(d, id) == \E p \in Live(d.peers) : d.peers[p].tmpl = id
PeerPoliciesHold(d, id) == \E p \in Live(d.peers) : InChain(d.peers[p], id)
TemplatePoliciesHold(d, id) == \E t \in Live(d.templates) : InChain(d.templates[t], id)
PolicyHeld(d, id) == PeerPoliciesHold(d, id) \/ TemplatePoliciesHold(d, id)
AcceptOnlyHolds(d, id) == \E p \in Live(d.policies) : d.policies[p].allow = id
AnnounceHolds(d, id) == \E p \in Live(d.policies) : id \in d.policies[p].announce
\* Mutant: an allow-list may be deleted.
SetHeldByAnnouncements(d, id) == AnnounceHolds(d, id)
SetHeld(d, id) == AcceptOnlyHolds(d, id) \/ AnnounceHolds(d, id)
OriginHolds(d, id) == \E p \in Live(d.policies) : d.policies[p].origin = id

Restricted(d, tb, id) ==
    CASE tb = "templates" -> TemplateHeld(d, id)
      [] tb = "policies"  -> PolicyHeld(d, id)
      [] tb = "sets"      -> SetHeld(d, id)
      [] tb = "asSets"    -> OriginHolds(d, id)
      [] OTHER            -> FALSE

-----------------------------------------------------------------------------
(* The namespace of BIRD symbols.                                           *)

SymbolTables == {"peers", "templates", "sets", "asSets", "communities", "servers", "stations"}

\* The names birdy renders outside any table, and the tables BIRD brings along.
builtinSymbols == {"LOCAL_ASN", "FROM_UPSTREAM", "FROM_IX", "FROM_CUSTOMER", "RPKI_INVALID",
                   "BOGON_ASNS", "BOGON_ASNS_EXCEPT_PRIVATE", "rpki4", "rpki6", "device1",
                   "direct1", "kernel4", "kernel6", "bfd1", "static_v4", "static_v6",
                   "master4", "master6"}

derivedSymbols(d, n) ==
    /\ n \in DOMAIN Derived
    /\ Named(d[Derived[n].table], Derived[n].base) # {}

SymbolUses(d, n) ==
    {tb \in SymbolTables : Named(d[tb], n) # {}}
        \cup (IF n \in builtinSymbols \/ derivedSymbols(d, n) THEN {"built-in"} ELSE {})

\* Mutant: the names birdy itself writes are forgotten.
symbolClashButBuiltin(d, n) == SymbolUses(d, n) \ {"templates", "built-in"} # {}
\* A template's name must be free of every other kind of symbol ...
symbolClash(d, n) == SymbolUses(d, n) \ {"templates"} # {}
\* ... and everything else must stay off the names of templates.
refuseTemplateName(d, n) == "templates" \in SymbolUses(d, n)

=============================================================================
