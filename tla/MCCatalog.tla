----------------------------- MODULE MCCatalog -----------------------------
(* Small catalogs, each with the calls that get in each other's way. *)
EXTENDS Catalog

MCNames ==
    {"a", "b", "t", "u", "x", "imp", "exp", "s", "o", "c", "ebgp_in_a", "ra", "rb", "m",
     "192.0.2.0/24", "BOGONS_V4", "BOGONS_V6"} \cup builtinSymbols
MCDerived == [n \in {"ebgp_in_a"} |-> [kind |-> <<"ebgp", "in">>, table |-> "peers", base |-> "a"]]

MCPattern ==
    [e \in V4 \cup V6 |-> [base |-> IF e = 4 THEN "192.0.2.0/24" ELSE "other", modified |-> e = 44,
                          nets |-> {}, below |-> {}]]
MCDefaultBogons == {[asn |-> 65001, private |-> TRUE], [asn |-> 0, private |-> FALSE]}

eBGP == [role |-> "customer", firstAS |-> TRUE, originOnly |-> FALSE, prepend |-> 1,
         nextHopSelf |-> FALSE, rrClient |-> FALSE, carry |-> "all", bfd |-> FALSE, limit |-> 1,
         importComms |-> {}, exportComms |-> {}]
Mixed == [eBGP EXCEPT !.role = "ibgp", !.nextHopSelf = TRUE, !.limit = 2, !.importComms = {"c"}]
In == [imports |-> <<1>>, exports |-> <<>>]
InOut == [imports |-> <<1>>, exports |-> <<2>>]

APeer(n) == [name |-> n, asn |-> 65001, fam |-> "ipv4", addrs |-> {}, enabled |-> TRUE,
             secret |-> TRUE, drained |-> FALSE, tmpl |-> None, override |-> FALSE,
             shape |-> eBGP, chain |-> NoChain]
ATemplate(n) == [name |-> n, shape |-> eBGP, chain |-> In]
APolicy(n, dir) == [name |-> n, dir |-> dir, comm |-> None, bogons |-> FALSE, allow |-> None,
                    origin |-> None, rov |-> "off", rules |-> ZeroRules, announce |-> {},
                    sources |-> {}]
ASetOf(n, f, e) == [name |-> n, family |-> f, entries |-> e, originate |-> FALSE,
                    source |-> TRUE, auto |-> TRUE, disabled |-> FALSE, system |-> FALSE,
                    failed |-> FALSE]
BogonsOf(f, e) ==
    [ASetOf(BogonSet(f), f, e) EXCEPT !.source = FALSE, !.auto = FALSE, !.system = TRUE]
AnASSet(n) == [name |-> n, members |-> {65001}, notes |-> {65001}, source |-> TRUE, auto |-> TRUE,
               failed |-> FALSE]
ACommunity(n) == [name |-> n, value |-> Large(65000, 7)]
AServer(n, on) == [name |-> n, enabled |-> on]
ARoute(n) == [name |-> n, family |-> "ipv4", enabled |-> TRUE]

Ids(n, rows) == [i \in 1..n |-> IF i \in DOMAIN rows THEN rows[i] ELSE None]

ARouter == [id |-> "router", asn |-> 65000, cluster |-> FALSE, raw |-> FALSE,
            src |-> [f \in Families |-> None], bgp |-> {}]

Base ==
    [peers |-> Ids(3, <<[APeer("a") EXCEPT !.tmpl = 1, !.override = TRUE, !.shape.limit = 2,
                                           !.chain = In, !.drained = TRUE],
                        APeer("b")>>),
     templates |-> Ids(2, <<ATemplate("t")>>),
     policies |-> Ids(3, <<[APolicy("imp", "import") EXCEPT !.allow = 1, !.origin = 1,
                                                            !.bogons = TRUE],
                           [APolicy("exp", "export") EXCEPT !.announce = {1}]>>),
     sets |-> Ids(4, <<ASetOf("s", "ipv4", {4}), BogonsOf("ipv4", {4}), BogonsOf("ipv6", {6})>>),
     asSets |-> Ids(2, <<AnASSet("o")>>),
     communities |-> Ids(2, <<ACommunity("c")>>),
     servers |-> Ids(3, <<AServer("ra", TRUE), AServer("rb", TRUE)>>),
     stations |-> Ids(2, <<AServer("m", FALSE)>>),
     routes |-> Ids(2, <<ARoute("192.0.2.0/24")>>),
     router |-> ARouter,
     bogons |-> {}]

Call(op, tb, n, form) == [op |-> op, tb |-> tb, name |-> n, form |-> form, link |-> None]
Save(tb, n, form) == Call("save", tb, n, form)
DeleteOf(tb, n) == Call("delete", tb, n, None)
Attach(ns, to) == Call("attach", "peers", None, [names |-> ns, to |-> to])

\* Peers and templates.
Linking ==
    {Save("peers", "a", [APeer("a") EXCEPT !.tmpl = 1, !.override = TRUE, !.drained = TRUE,
                                           !.secret = FALSE, !.shape.limit = 2]),
     Save("peers", "a", [APeer("a") EXCEPT !.shape = Mixed, !.drained = TRUE, !.chain = InOut]),
     Save("peers", None, [APeer("x") EXCEPT !.tmpl = 1]),
     Save("templates", "t", [ATemplate("t") EXCEPT !.shape = Mixed, !.chain = InOut]),
     Save("templates", "t", [ATemplate("u") EXCEPT !.shape.limit = 2, !.chain = NoChain]),
     [Save("templates", None, ATemplate("u")) EXCEPT !.link = "b"],
     DeleteOf("templates", "t"), DeleteOf("peers", "b"), DeleteOf("policies", "exp"),
     Attach({"a", "b"}, 1), Attach({"a"}, None),
     Call("toggle", "peers", "a", None)}

\* Policies and the sets they name, against the IRR refresh.
Filtering ==
    {Save("policies", "exp", [APolicy("exp", "import") EXCEPT !.origin = 1, !.rov = "reject",
                                                             !.sources = {"customer"}]),
     Save("policies", None, [APolicy("x", "import") EXCEPT !.allow = 1, !.announce = {1}]),
     DeleteOf("policies", "imp"),
     Save("sets", "s", ASetOf("s", "ipv6", {6})), Save("sets", "s", ASetOf("s", "ipv6", {4})),
     Save("sets", "BOGONS_V4", ASetOf("x", "ipv6", {6})),
     Save("sets", None, ASetOf("x", "ipv4", {4})),
     DeleteOf("sets", "s"), DeleteOf("sets", "BOGONS_V4"), Call("toggle", "sets", "s", None)}

Originating ==
    {Save("policies", "exp", [APolicy("exp", "import") EXCEPT !.origin = 1]),
     Save("policies", "imp", APolicy("imp", "import")),
     Save("asSets", "o", [AnASSet("o") EXCEPT !.members = {65002}, !.notes = {}]),
     Save("asSets", "o", [AnASSet("s") EXCEPT !.source = FALSE]),
     DeleteOf("asSets", "o"), Call("refresh", "asSets", "o", None)}

\* Everything that has a name, and the one name space.
Naming ==
    {Save("templates", None, ATemplate("x")), Save("templates", None, ATemplate("LOCAL_ASN")),
     Save("templates", "t", ATemplate("ebgp_in_a")),
     Save("peers", None, APeer("x")), Save("sets", None, ASetOf("x", "ipv4", {4})),
     Save("asSets", None, AnASSet("x")), Save("communities", None, ACommunity("x")),
     Save("servers", None, AServer("x", TRUE)), Save("stations", None, AServer("x", TRUE))}

\* References to a community by its name.
Tagging ==
    {Save("communities", "c", ACommunity("x")), DeleteOf("communities", "c"),
     Save("communities", None, ACommunity("c")),
     Save("peers", "b", [APeer("b") EXCEPT !.shape.importComms = {"c"}]),
     Save("templates", "t", [ATemplate("t") EXCEPT !.shape.importComms = {"c"}]),
     Save("policies", "imp", [APolicy("imp", "import") EXCEPT !.comm = "c"]),
     Attach({"b"}, 1), DeleteOf("peers", "a")}

\* What the feeds, the stations and the routes of the router are edited with.
Feeds ==
    {Save("servers", "ra", AServer("ra", FALSE)), DeleteOf("servers", "rb"),
     Save("policies", "imp", [APolicy("imp", "import") EXCEPT !.rov = "log"]),
     Save("stations", "m", AServer("x", TRUE)), DeleteOf("stations", "m"),
     Save("routes", "192.0.2.0/24", ARoute("x")), Save("routes", None, ARoute("b")),
     DeleteOf("routes", "192.0.2.0/24")}

\* What the router is and what nobody may announce to it.
Identity == [ARouter EXCEPT !.asn = 65010, !.cluster = TRUE]
Bogons(v4, v6, asns) == Call("bogons", "bogons", None,
                             [sets |-> [f \in Families |-> IF f = "ipv4" THEN v4 ELSE v6],
                              asns |-> asns])
Settings ==
    {Call("identity", "router", None, Identity), Call("raw", "router", None, TRUE),
     Bogons({44}, {6}, {[asn |-> 1, private |-> FALSE]}), Bogons({4}, {}, {}),
     Save("sets", "BOGONS_V6", BogonsOf("ipv6", {6})), DeleteOf("policies", "imp"),
     Save("peers", "b", [APeer("rpki4") EXCEPT !.shape.bfd = TRUE])}

Scenario(d, c, n, t) == [db |-> d, calls |-> c, requests |-> n, ticks |-> t]
\* The loop expands one set at a time: bgpq4 may answer anything each time.
PrefixesOnly == [Base EXCEPT !.asSets[1].auto = FALSE]
ASNsOnly == [Base EXCEPT !.sets[1].auto = FALSE]

MCScenarios ==
    {Scenario(Base, Linking, 3, 0), Scenario(PrefixesOnly, Filtering, 2, 1),
     Scenario(ASNsOnly, Originating, 2, 1), Scenario(Base, Naming, 2, 0),
     Scenario(Base, Tagging, 3, 0), Scenario(Base, Feeds, 3, 0), Scenario(Base, Settings, 3, 0)}
=============================================================================
