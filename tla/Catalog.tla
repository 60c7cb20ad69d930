------------------------------ MODULE Catalog ------------------------------
(***************************************************************************)
(* The editing half of the web interface: the handlers that save, delete,  *)
(* toggle and attach the rows of the catalog, and the loop that keeps IRR  *)
(* sets fresh.  Each request runs on its own goroutine and nothing locks   *)
(* the catalog, so a handler is three steps others may come between: it    *)
(* looks its row up by name, checks the form against the tables, and       *)
(* writes one transaction, or two for a peer and for a template captured   *)
(* from one, and three for the bogon lists.  Reads of one kind are one     *)
(* step.  A lookup that finds nothing and a form that is refused end the   *)
(* request and change nothing.                                             *)
(***************************************************************************)
EXTENDS Lint

CONSTANTS
    Requests,       \* the requests in flight at a time
    Scenarios       \* where behaviours start: the database, the calls that may be made, and the
                    \* bounds: how many requests are requests and how often the IRR loop runs

VARIABLES
    db,         \* the tables
    calls,      \* what the operators may ask
    requests,   \* how many more requests are requests
    req,        \* a request in flight: its call, where it is, what it has read
    irr,        \* the IRR loop: the sets it has still to expand, as it read them
    ticks,      \* how many more times the IRR loop runs
    disturbed,  \* a write went by what was read before somebody else's write, or was torn
    loose       \* the names of communities nobody vouches for: lost to a rename, or saved in a
                \* form that could not look them up

vars == <<db, calls, requests, req, irr, ticks, disturbed, loose>>

-----------------------------------------------------------------------------
(* The life of a request.                                                   *)

Asked(op, tb) == {c \in calls : c.op = op /\ c.tb = tb}
At(r, at, op, tb) == req[r] # None /\ req[r].at = at /\ req[r].call.op = op /\ req[r].call.tb = tb
Target(c) == IF c.name = None THEN {None} ELSE namedEntity(db, c.tb, c.name)
IsNew(r) == req[r].id = None

Looks(r, c, id, row, next) ==
    /\ req[r] = None /\ requests > 0
    /\ req' = [req EXCEPT ![r] = [call |-> c, at |-> next, id |-> id, row |-> row, fresh |-> TRUE]]
    /\ requests' = requests - 1
    /\ UNCHANGED <<db, calls, irr, ticks, disturbed, loose>>

Decides(r, ok, row) ==
    /\ req' = [req EXCEPT ![r] = IF ok THEN [@ EXCEPT !.at = "write", !.row = row] ELSE None]
    /\ UNCHANGED <<db, calls, requests, irr, ticks, disturbed>>

Checks(r, ok, row) == Decides(r, ok, row) /\ UNCHANGED loose

\* The fields that name communities are looked up one by one, and a lookup that fails lets its
\* field through, whatever it names.
ChecksNames(r, ok, fields, row) ==
    \E read \in SUBSET fields :
        LET given == ok /\ \A names \in read : checkCommunityRefs(db, names)
        IN /\ Decides(r, given, row)
           /\ loose' = IF given THEN loose \cup ((UNION fields) \ CommunityNames(db)) ELSE loose

\* Everybody who has read something holds it against a database that has moved on.
Outrun(x, changed) == IF x # None /\ changed THEN [x EXCEPT !.fresh = FALSE] ELSE x

\* What was inserted is known by its id from then on; the bogon lists need none.
IdSaved(x) == IF x.id = None /\ x.call.tb # "bogons" THEN NextId(db[x.call.tb]) ELSE x.id

Saved(r, d, next) ==
    IF d = None \/ next = "done" THEN None
    ELSE [req[r] EXCEPT !.at = next, !.id = IdSaved(req[r])]

Writes(r, d, next) ==
    LET changed == d \notin {None, db}
    IN /\ db' = IF d = None THEN db ELSE d
       /\ disturbed' = (disturbed \/ (/\ ~req[r].fresh
                                      /\ changed \/ req[r].at \in {"second", "third"}))
       /\ req' = [q \in Requests |-> IF q = r THEN Saved(r, d, next) ELSE Outrun(req[q], changed)]
       /\ irr' = Outrun(irr, changed)
       /\ UNCHANGED <<calls, requests, ticks>>

\* birdy goes down between the two transactions of a request.
Torn(r) ==
    /\ req[r] # None /\ req[r].at \in {"second", "third"}
    /\ req' = [req EXCEPT ![r] = None]
    /\ disturbed' = TRUE
    /\ UNCHANGED <<db, calls, requests, irr, ticks, loose>>

-----------------------------------------------------------------------------
(* Peers.                                                                   *)

KeepSecret(id, p) == IF id = None THEN p ELSE [p EXCEPT !.secret = @ \/ db.peers[id].secret]

applyTemplate(d, p) == IF p.tmpl = None THEN p ELSE ApplyTo(d.templates[p.tmpl], p.tmpl, p)

checkChains(d, c) ==
    /\ \A i \in Elements(c.imports) : i \in Live(d.policies) /\ d.policies[i].dir = "import"
    /\ \A i \in Elements(c.exports) : i \in Live(d.policies) /\ d.policies[i].dir = "export"

EffectivePeer(d, p) == IF LinkHolds(d, p) THEN ValidPeer(applyTemplate(d, p)) ELSE p

PeerAccepted(d, p) ==
    /\ LinkHolds(d, p)
    /\ checkChains(d, p.chain)
    /\ ~refuseTemplateName(d, p.name)

handlePeerSave(r) ==
    \/ \E c \in Asked("save", "peers") : \E id \in Target(c) :
           Looks(r, c, id, KeepSecret(id, c.form), "check")
    \/ /\ At(r, "check", "save", "peers")
       /\ LET p == EffectivePeer(db, req[r].row)
          IN ChecksNames(r, PeerAccepted(db, p), CommunityFields(p.shape), p)
    \/ /\ At(r, "write", "save", "peers")
       /\ Writes(r, IF IsNew(r) THEN CreatePeer(db, req[r].row)
                                ELSE UpdatePeer(db, req[r].id, req[r].row), "second")
       /\ UNCHANGED loose
    \/ /\ At(r, "second", "save", "peers")
       /\ Writes(r, SetPeerPolicies(db, req[r].id, req[r].row.chain), "done")
       /\ UNCHANGED loose

handlePeerDelete(r) ==
    \/ \E c \in Asked("delete", "peers") : \E id \in Target(c) : Looks(r, c, id, None, "write")
    \/ /\ At(r, "write", "delete", "peers")
       /\ Writes(r, DeletePeer(db, req[r].id), "done")
       /\ UNCHANGED loose

handlePeerToggle(r) ==
    \/ \E c \in Asked("toggle", "peers") : \E id \in Target(c) :
           Looks(r, c, id, db.peers[id], "write")
    \/ /\ At(r, "write", "toggle", "peers")
       /\ Writes(r, SetPeerEnabled(db, req[r].id, ~req[r].row.enabled), "done")
       /\ UNCHANGED loose

\* The form names the peers and holds the id of the template, or "detach".
handlePeersAttach(r) ==
    \/ \E c \in Asked("attach", "peers") :
           /\ c.form.to \in Live(db.templates) \cup {None}
           /\ LET ids == UNION {namedEntity(db, "peers", n) : n \in c.form.names}
              IN ids # {} /\ Looks(r, c, c.form.to, ids, "write")
    \/ /\ At(r, "write", "attach", "peers")
       /\ Writes(r, AttachPeers(db, req[r].row, req[r].id), "done")
       /\ UNCHANGED loose

-----------------------------------------------------------------------------
(* Peer templates; a new one may be captured from a peer, to be linked to it.*)

TemplateAccepted(d, t) ==
    /\ checkChains(d, t.chain)
    /\ ~symbolClash(d, t.name)

LinkSource(d, from, id) ==
    LET src == namedEntity(d, "peers", from)
    IN IF src = {} THEN d ELSE LinkPeerToTemplate(d, CHOOSE p \in src : TRUE, id)

handlePeerTemplateSave(r) ==
    \/ \E c \in Asked("save", "templates") : \E id \in Target(c) : Looks(r, c, id, c.form, "check")
    \/ /\ At(r, "check", "save", "templates")
       /\ LET t == ValidTemplate(req[r].row)
          IN ChecksNames(r, TemplateAccepted(db, t), CommunityFields(t.shape), t)
    \/ /\ At(r, "write", "save", "templates")
       /\ IF IsNew(r)
          THEN Writes(r, CreatePeerTemplate(db, req[r].row),
                      IF req[r].call.link = None THEN "done" ELSE "second")
          ELSE Writes(r, UpdatePeerTemplate(db, req[r].id, req[r].row), "done")
       /\ UNCHANGED loose
    \/ /\ At(r, "second", "save", "templates")
       /\ Writes(r, LinkSource(db, req[r].call.link, req[r].id), "done")
       /\ UNCHANGED loose

handlePeerTemplateDelete(r) ==
    \/ \E c \in Asked("delete", "templates") : \E id \in Target(c) : Looks(r, c, id, None, "write")
    \/ /\ At(r, "write", "delete", "templates")
       /\ Writes(r, DeletePeerTemplate(db, req[r].id), "done")
       /\ UNCHANGED loose

-----------------------------------------------------------------------------
(* Policies.                                                                *)

\* A policy keeps the direction it was created with.
KeepDirection(id, p) == IF id = None THEN p ELSE [p EXCEPT !.dir = db.policies[id].dir]

handlePolicySave(r) ==
    \/ \E c \in Asked("save", "policies") : \E id \in Target(c) :
           Looks(r, c, id, KeepDirection(id, c.form), "check")
    \/ /\ At(r, "check", "save", "policies")
       /\ LET p == ValidPolicy(req[r].row)
          IN ChecksNames(r, PolicyAccepted(p), {{p.comm} \ {None}}, p)
    \/ /\ At(r, "write", "save", "policies")
       /\ Writes(r, IF IsNew(r) THEN CreatePolicy(db, req[r].row)
                                ELSE UpdatePolicy(db, req[r].id, req[r].row), "done")
       /\ UNCHANGED loose

handlePolicyDelete(r) ==
    \/ \E c \in Asked("delete", "policies") : \E id \in Target(c) : Looks(r, c, id, None, "write")
    \/ /\ At(r, "write", "delete", "policies")
       /\ Writes(r, DeletePolicy(db, req[r].id), "done")
       /\ UNCHANGED loose

-----------------------------------------------------------------------------
(* Prefix sets and AS sets.                                                 *)

\* Filters name a system set: only what it holds may change.
KeepSystem(id, s) ==
    IF id = None \/ ~db.sets[id].system THEN s
    ELSE [s EXCEPT !.name = db.sets[id].name, !.family = db.sets[id].family, !.originate = FALSE]

handlePrefixSetSave(r) ==
    \/ \E c \in Asked("save", "sets") : \E id \in Target(c) :
           Looks(r, c, id, KeepSystem(id, c.form), "check")
    \/ /\ At(r, "check", "save", "sets")
       /\ LET s == req[r].row
          IN Checks(r, ValidPrefixSet(s) /\ ~refuseTemplateName(db, s.name), s)
    \/ /\ At(r, "write", "save", "sets")
       /\ Writes(r, IF IsNew(r) THEN CreatePrefixSet(db, req[r].row)
                                ELSE UpdatePrefixSet(db, req[r].id, req[r].row), "done")
       /\ UNCHANGED loose

handlePrefixSetToggle(r) ==
    \/ \E c \in Asked("toggle", "sets") : \E id \in Target(c) :
           ~db.sets[id].system /\ Looks(r, c, id, db.sets[id], "write")
    \/ /\ At(r, "write", "toggle", "sets")
       /\ Writes(r, SetPrefixSetDisabled(db, req[r].id, ~req[r].row.disabled), "done")
       /\ UNCHANGED loose

handlePrefixSetDelete(r) ==
    \/ \E c \in Asked("delete", "sets") : \E id \in Target(c) : Looks(r, c, id, None, "write")
    \/ /\ At(r, "write", "delete", "sets")
       /\ Writes(r, DeletePrefixSet(db, req[r].id), "done")
       /\ UNCHANGED loose

handleASSetSave(r) ==
    \/ \E c \in Asked("save", "asSets") : \E id \in Target(c) : Looks(r, c, id, c.form, "check")
    \/ /\ At(r, "check", "save", "asSets")
       /\ LET s == req[r].row IN Checks(r, ValidASSet(s) /\ ~refuseTemplateName(db, s.name), s)
    \/ /\ At(r, "write", "save", "asSets")
       /\ Writes(r, IF IsNew(r) THEN CreateASSet(db, req[r].row)
                                ELSE UpdateASSet(db, req[r].id, req[r].row), "done")
       /\ UNCHANGED loose

handleASSetDelete(r) ==
    \/ \E c \in Asked("delete", "asSets") : \E id \in Target(c) : Looks(r, c, id, None, "write")
    \/ /\ At(r, "write", "delete", "asSets")
       /\ Writes(r, DeleteASSet(db, req[r].id), "done")
       /\ UNCHANGED loose

ExpandedASNs == {None} \cup SUBSET ASNs
ExpandedPrefixes(copy) == {None} \cup SUBSET Prefixes(copy.family)

\* bgpq4 runs between the two steps.
handleASSetRefresh(r) ==
    \/ \E c \in Asked("refresh", "asSets") : \E id \in Target(c) :
           db.asSets[id].source /\ Looks(r, c, id, db.asSets[id], "write")
    \/ /\ At(r, "write", "refresh", "asSets")
       /\ \E got \in ExpandedASNs :
              Writes(r, refreshOneASSet(db, req[r].id, req[r].row, got), "done")
       /\ UNCHANGED loose

-----------------------------------------------------------------------------
(* Communities.                                                             *)

handleCommunitySave(r) ==
    \/ \E c \in Asked("save", "communities") : \E id \in Target(c) :
           Looks(r, c, id, c.form, "check")
    \/ /\ At(r, "check", "save", "communities")
       /\ LET c == req[r].row
          IN Checks(r, ValidCommunity(c) /\ ~refuseTemplateName(db, c.name), c)
    \/ /\ At(r, "write", "save", "communities")
       /\ Writes(r, IF IsNew(r) THEN CreateCommunityDef(db, req[r].row)
                                ELSE UpdateCommunityDef(db, req[r].id, req[r].row), "done")
       /\ loose' = loose \cup (CommunityNames(db) \ CommunityNames(db'))

handleCommunityDelete(r) ==
    \/ \E c \in Asked("delete", "communities") : \E id \in Target(c) :
           Looks(r, c, id, db.communities[id], "check")
    \/ /\ At(r, "check", "delete", "communities")
       /\ Checks(r, ~communityInUse(db, req[r].row.name), req[r].row)
    \/ /\ At(r, "write", "delete", "communities")
       /\ Writes(r, DeleteCommunityDef(db, req[r].id), "done")
       /\ UNCHANGED loose

-----------------------------------------------------------------------------
(* RPKI servers, BMP stations, static routes.  The guard of the last server *)
(* lets the request through when it cannot read the servers or the policies.*)

handleRPKISave(r) ==
    \/ \E c \in Asked("save", "servers") : \E id \in Target(c) : Looks(r, c, id, c.form, "check")
    \/ /\ At(r, "check", "save", "servers")
       /\ LET s == req[r].row
          IN \E unread \in BOOLEAN :
                 Checks(r, /\ ~refuseTemplateName(db, s.name)
                           /\ s.enabled \/ unread \/ ~lastEnabledServerGuard(db, req[r].id), s)
    \/ /\ At(r, "write", "save", "servers")
       /\ Writes(r, IF IsNew(r) THEN CreateRPKIServer(db, req[r].row)
                                ELSE UpdateRPKIServer(db, req[r].id, req[r].row), "done")
       /\ UNCHANGED loose

handleRPKIDelete(r) ==
    \/ \E c \in Asked("delete", "servers") : \E id \in Target(c) :
           Looks(r, c, id, db.servers[id], "check")
    \/ /\ At(r, "check", "delete", "servers")
       /\ \E unread \in BOOLEAN :
              Checks(r, ~req[r].row.enabled \/ unread \/ ~lastEnabledServerGuard(db, req[r].id),
                     req[r].row)
    \/ /\ At(r, "write", "delete", "servers")
       /\ Writes(r, DeleteRPKIServer(db, req[r].id), "done")
       /\ UNCHANGED loose

handleBMPSave(r) ==
    \/ \E c \in Asked("save", "stations") : \E id \in Target(c) : Looks(r, c, id, c.form, "check")
    \/ /\ At(r, "check", "save", "stations")
       /\ Checks(r, ~refuseTemplateName(db, req[r].row.name), req[r].row)
    \/ /\ At(r, "write", "save", "stations")
       /\ Writes(r, IF IsNew(r) THEN CreateBMPStation(db, req[r].row)
                                ELSE UpdateBMPStation(db, req[r].id, req[r].row), "done")
       /\ UNCHANGED loose

handleBMPDelete(r) ==
    \/ \E c \in Asked("delete", "stations") : \E id \in Target(c) : Looks(r, c, id, None, "write")
    \/ /\ At(r, "write", "delete", "stations")
       /\ Writes(r, DeleteBMPStation(db, req[r].id), "done")
       /\ UNCHANGED loose

handleStaticRouteSave(r) ==
    \/ \E c \in Asked("save", "routes") : \E id \in Target(c) : Looks(r, c, id, c.form, "write")
    \/ /\ At(r, "write", "save", "routes")
       /\ Writes(r, IF IsNew(r) THEN CreateStaticRoute(db, req[r].row)
                                ELSE UpdateStaticRoute(db, req[r].id, req[r].row), "done")
       /\ UNCHANGED loose

handleStaticRouteDelete(r) ==
    \/ \E c \in Asked("delete", "routes") : \E id \in Target(c) : Looks(r, c, id, None, "write")
    \/ /\ At(r, "write", "delete", "routes")
       /\ Writes(r, DeleteStaticRoute(db, req[r].id), "done")
       /\ UNCHANGED loose

-----------------------------------------------------------------------------
(* Settings that the configuration is made from: the router's identity, its *)
(* raw block, and the bogon lists.  The first two are columns of one row.   *)

\* The whole row goes back, its other columns as they were when it was read.
handleSettingsIdentity(r) ==
    \/ \E c \in Asked("identity", "router") :
           Looks(r, c, None, [c.form EXCEPT !.raw = db.router.raw], "write")
    \/ /\ At(r, "write", "identity", "router")
       /\ Writes(r, [db EXCEPT !.router = req[r].row], "done")
       /\ UNCHANGED loose

\* The block is saved if what is rendered around it still parses: what bird -p says of the
\* block is anything, unless there is no identity to render with and nothing is checked.
handleSettingsRaw(r) ==
    \/ \E c \in Asked("raw", "router") : Looks(r, c, None, c.form, "check")
    \/ /\ At(r, "check", "raw", "router")
       /\ \E bird \in BOOLEAN :
              Checks(r, NoIdentity(db) \/ (bird /\ ~Refused(db)), req[r].row)
    \/ /\ At(r, "write", "raw", "router")
       /\ Writes(r, [db EXCEPT !.router.raw = req[r].row], "done")
       /\ UNCHANGED loose

\* Three transactions, one after the other, for what is read and checked as one.
BogonRow(c, f) ==
    [db.sets[CHOOSE s \in Named(db.sets, BogonSet(f)) : TRUE] EXCEPT !.entries = c.form.sets[f]]
BogonsAccepted(form) ==
    /\ \A f \in Families : form.sets[f] # {} /\ form.sets[f] \subseteq Prefixes(f)
    /\ form.asns # {}
SaveBogonSet(r, f) ==
    UpdatePrefixSet(db, CHOOSE s \in Named(db.sets, BogonSet(f)) : TRUE, req[r].row.sets[f])

handleSettingsBogons(r) ==
    \/ \E c \in Asked("bogons", "bogons") :
           /\ BogonsAccepted(c.form)
           /\ Looks(r, c, None, [sets |-> [f \in Families |-> BogonRow(c, f)],
                                asns |-> c.form.asns], "write")
    \/ /\ At(r, "write", "bogons", "bogons")
       /\ Writes(r, SaveBogonSet(r, "ipv4"), "second")
       /\ UNCHANGED loose
    \/ /\ At(r, "second", "bogons", "bogons")
       /\ Writes(r, SaveBogonSet(r, "ipv6"), "third")
       /\ UNCHANGED loose
    \/ /\ At(r, "third", "bogons", "bogons")
       /\ Writes(r, [db EXCEPT !.bogons = req[r].row.asns], "done")
       /\ UNCHANGED loose

-----------------------------------------------------------------------------
(* The IRR loop.  Each tick lists the prefix sets, expands and writes them  *)
(* one after the other, then does the same with the AS sets.                *)

Waiting == [at |-> "wait", todo |-> {}, fresh |-> TRUE]
Copies(tb, ids) == {[id |-> i, row |-> db[tb][i]] : i \in ids}

Expands(next, d) ==
    LET changed == d # db
    IN /\ db' = d
       /\ disturbed' = (disturbed \/ (changed /\ ~irr.fresh))
       /\ irr' = [next EXCEPT !.fresh = irr.fresh]
       /\ req' = [q \in Requests |-> Outrun(req[q], changed)]
       /\ UNCHANGED <<calls, requests, ticks, loose>>

RunIRRRefresh ==
    /\ irr.at = "wait" /\ ticks > 0
    /\ ticks' = ticks - 1
    /\ irr' = [Waiting EXCEPT !.at = "sets", !.todo = Copies("sets", ListAutoRefreshPrefixSets(db))]
    /\ UNCHANGED <<db, calls, requests, req, disturbed, loose>>

refreshIRRSets ==
    \/ /\ irr.at = "sets"
       /\ \E s \in irr.todo : \E got \in ExpandedPrefixes(s.row) :
              Expands([irr EXCEPT !.todo = @ \ {s}], refreshOneSet(db, s.id, s.row, got))
    \/ /\ irr.at = "sets" /\ irr.todo = {}
       /\ irr' = [Waiting EXCEPT !.at = "asSets",
                                 !.todo = Copies("asSets", ListAutoRefreshASSets(db))]
       /\ UNCHANGED <<db, calls, requests, req, ticks, disturbed, loose>>
    \/ /\ irr.at = "asSets"
       /\ \E s \in irr.todo : \E got \in ExpandedASNs :
              Expands([irr EXCEPT !.todo = @ \ {s}], refreshOneASSet(db, s.id, s.row, got))
    \/ /\ irr.at = "asSets" /\ irr.todo = {}
       /\ irr' = Waiting
       /\ UNCHANGED <<db, calls, requests, req, ticks, disturbed, loose>>

-----------------------------------------------------------------------------
Init ==
    /\ \E s \in Scenarios : db = s.db /\ calls = s.calls /\ requests = s.requests /\ ticks = s.ticks
    /\ req = [r \in Requests |-> None]
    /\ irr = Waiting
    /\ disturbed = FALSE
    /\ loose = {}

Handle(r) ==
    \/ handlePeerSave(r) \/ handlePeerDelete(r) \/ handlePeerToggle(r) \/ handlePeersAttach(r)
    \/ handlePeerTemplateSave(r) \/ handlePeerTemplateDelete(r)
    \/ handlePolicySave(r) \/ handlePolicyDelete(r)
    \/ handlePrefixSetSave(r) \/ handlePrefixSetToggle(r) \/ handlePrefixSetDelete(r)
    \/ handleASSetSave(r) \/ handleASSetDelete(r) \/ handleASSetRefresh(r)
    \/ handleCommunitySave(r) \/ handleCommunityDelete(r)
    \/ handleRPKISave(r) \/ handleRPKIDelete(r)
    \/ handleBMPSave(r) \/ handleBMPDelete(r)
    \/ handleStaticRouteSave(r) \/ handleStaticRouteDelete(r)
    \/ handleSettingsIdentity(r) \/ handleSettingsRaw(r) \/ handleSettingsBogons(r)
    \/ Torn(r)

Next == (\E r \in Requests : Handle(r)) \/ RunIRRRefresh \/ refreshIRRSets

Spec == Init /\ [][Next]_vars

-----------------------------------------------------------------------------
(* What the properties ask of tables `d`.                                   *)

\* Every row is one the form could have saved: of its kind, and with the columns
\* that are not its kind's cleared, so a policy hides no filter it does not show.
RowsFit(d) ==
    /\ LiveRows(d, "peers") \subseteq Peer /\ LiveRows(d, "templates") \subseteq PeerTemplate
    /\ LiveRows(d, "policies") \subseteq Policy /\ LiveRows(d, "sets") \subseteq PrefixSet
    /\ LiveRows(d, "asSets") \subseteq ASSet
    /\ \A t \in LiveRows(d, "templates") : ValidTemplate(t) = t
    /\ \A p \in LiveRows(d, "policies") :
          IF p.dir = "import" THEN p.announce = {} /\ p.sources = {}
          ELSE p.allow = None /\ p.origin = None /\ p.rov = "off" /\ p.rules = ZeroRules

\* No row names a row that is gone: a chain, a link to a template, the sets of a policy.
RefsResolve(d) ==
    /\ \A p \in LiveRows(d, "peers") : LinkHolds(d, p) /\ PoliciesExist(d, p.chain)
    /\ \A t \in LiveRows(d, "templates") : PoliciesExist(d, t.chain)
    /\ \A p \in LiveRows(d, "policies") : SetsExist(d, p)

\* A linked peer has its template's shape, but for the override, and its chain, unless a
\* save has yet to write that.
Follows(d, p, saving) ==
    p.tmpl # None =>
        LET t == d.templates[p.tmpl]
        IN /\ [p.shape EXCEPT !.limit = t.shape.limit] = t.shape
           /\ (p.override \/ p.shape.limit = t.shape.limit)
           /\ (p.chain = t.chain \/ saving)

\* The communities that peers, templates and policies name.
NamedCommunities(d) == PeerRefs(d) \cup TemplateRefs(d) \cup PolicyRefs(d)

\* The name of a template is the name of nothing else that renders a symbol.
OwnTemplateNames(d) ==
    \A t \in LiveRows(d, "templates") :
        /\ t.name \notin builtinSymbols
        /\ \A tb \in SymbolTables \ {"templates"} : Named(d[tb], t.name) = {}

\* An internal session is not drained and carries nothing that only means something to an
\* external one, and the other way round.
SessionsClean(d) ==
    \A p \in LiveRows(d, "peers") :
        /\ p.shape = validateShape(p.shape)
        /\ p.drained => ~IsIBGP(p.shape)
        /\ p.override => p.tmpl # None

SetsFilled(d) ==
    /\ \A s \in LiveRows(d, "sets") : s.entries # {}
    /\ \A s \in LiveRows(d, "asSets") : s.members # {}
OneFamily(d) == \A s \in LiveRows(d, "sets") : s.entries \subseteq Prefixes(s.family)

\* The tables of the schema, finite and numbered as AUTOINCREMENT does; a name is the name of
\* one set; the bogon sets every database is made with are there, and no switch turns them off.
Tables == SymbolTables \cup {"policies", "routes"}
Stored(d) ==
    /\ Tables \subseteq DOMAIN d /\ DOMAIN d.templates \subseteq TemplateIds
    /\ \A tb \in Tables : DOMAIN d[tb] \subseteq Nat /\ IsFiniteSet(DOMAIN d[tb])
    /\ \A i, j \in Live(d.sets) : d.sets[i].name = d.sets[j].name => i = j
    /\ \A f \in Families : \E i \in Named(d.sets, BogonSet(f)) :
          d.sets[i].system /\ d.sets[i].family = f
    /\ \A i \in Live(d.sets) : d.sets[i].system => ~d.sets[i].disabled

\* What a form can hold: rows of their kind, and never a system set that is new.  What is done
\* to a row that exists is asked for under its name.
WellFormed(c) ==
    /\ c.op = "save" =>
          /\ c.tb = "peers" => c.form \in Peer
          /\ c.tb = "templates" => c.form \in PeerTemplate
          /\ c.tb = "policies" => c.form \in Policy
          /\ c.tb = "sets" => c.form \in PrefixSet /\ (c.name = None => ~c.form.system)
          /\ c.tb = "asSets" => c.form \in ASSet
    /\ c.op \in {"toggle", "refresh", "delete"} => c.name # None
    /\ c.op = "bogons" => c.form.sets \in [Families -> SUBSET (V4 \cup V6)]

\* Behaviours start from tables birdy itself has saved; what stands for an absent row is no row
\* of any kind, and no id.  A name has at most 63 characters.
ASSUME CatalogAssumption ==
    /\ None \notin Nat /\ IsFiniteSet(PolicyIds) /\ IsFiniteSet(Names)
    /\ \A none \in {None, Gone} :
          none \notin Peer /\ none \notin PeerTemplate /\ none \notin Policy
              /\ none \notin PrefixSet /\ none \notin ASSet
    /\ \A s \in Scenarios :
          /\ s.db.templates = [i \in DOMAIN s.db.templates |-> s.db.templates[i]]
          /\ Stored(s.db) /\ RowsFit(s.db) /\ RefsResolve(s.db) /\ SessionsClean(s.db)
          /\ SetsFilled(s.db) /\ OneFamily(s.db) /\ OwnTemplateNames(s.db)
          /\ NamedCommunities(s.db) \subseteq CommunityNames(s.db)
          /\ \A p \in LiveRows(s.db, "peers") : Follows(s.db, p, FALSE)
          /\ \A c \in s.calls : WellFormed(c)

-----------------------------------------------------------------------------
(* Properties.                                                              *)

BeingSaved == {req[r].id : r \in {q \in Requests : At(q, "second", "save", "peers")}}

\* Whatever is saved, and in whatever order, the rows are such as the forms save.
CatalogTypeOK == RowsFit(db)

\* Whatever runs at the same time, no row names a row that is gone (the checks of the
\* handlers are outrun; the foreign keys and the transactions are not).
ReferencesResolve == RefsResolve(db)

\* As long as no write has gone by a stale read, a peer linked to a template has
\* its shape, but for the override, and its chain; a peer whose save is between
\* its two transactions has the shape only.
LinkedPeersFollowTheirTemplate ==
    ~disturbed => \A i \in Live(db.peers) : Follows(db, db.peers[i], i \in BeingSaved)

\* As long as no write has gone by a stale read, a community named by a peer, a
\* template or a policy exists, but for those nobody vouches for: the delete asks
\* who still names it, the rename does not, and a form that cannot look a name up
\* is saved all the same.
CommunityNamesResolve ==
    ~disturbed => NamedCommunities(db) \subseteq CommunityNames(db) \cup loose

\* As long as no write has gone by a stale read, the name of a template is the
\* name of nothing else that renders a symbol: the save of either refuses it.
TemplateNamesAreTheirOwn == ~disturbed => OwnTemplateNames(db)

\* Whatever runs at the same time, an internal session is never drained and
\* carries nothing that only means something to an external one, and the other
\* way round; also when a template has turned its peers from one into the other.
InternalSessionsStayClean == SessionsClean(db)

\* No set that filters name is ever empty: bgpq4's empty answer is not taken
\* for "nothing", whatever was saved while it ran.  And its prefixes are of its
\* family, as long as no write has gone by a stale read.
SetsStayUsable == SetsFilled(db) /\ (~disturbed => OneFamily(db))

\* Whatever is saved, and in whatever order: if the renderer does not refuse the
\* tables, what it writes declares every name once and before its use, but for
\* a community that is gone, and then the lint of the Changes page says so.
ToldBy(report, symbol) ==
    \E w \in report : w.finding.sev = "danger" /\ symbol[3] \in w.finding.about
Loads(d) ==
    LET secs == Sections(d)
    IN \/ RefusedUnwritten(d) \/ checkSymbols(secs)
       \/ /\ DeclaredTwice(secs) = {}
          /\ \A x \in Undefined(secs) : ToldBy(LintReport(d), x)
ConfigLoads == [][db' # db => Loads(db')]_vars

\* Saving a template leaves alone what its peers own: their identity, their
\* switches, and the limit of one that overrides it.
TemplateSparesWhatPeersOwn ==
    [][db'.templates # db.templates =>
           \A i \in Live(db.peers) \ {j \in DOMAIN db.peers : db'.peers[j] = db.peers[j]} :
               LET old == db.peers[i]
                   new == db'.peers[i]
               IN /\ new = [old EXCEPT !.shape = new.shape, !.chain = new.chain,
                                     !.drained = new.drained]
                  /\ new.drained => old.drained
                  /\ old.override => new.shape.limit = old.shape.limit
                  /\ db'.templates[old.tmpl] # db.templates[old.tmpl]]_vars
=============================================================================
