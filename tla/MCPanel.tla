------------------------------ MODULE MCPanel ------------------------------
(***************************************************************************)
(* The parts of the panel beside the pipeline, each on its own: a run      *)
(* chooses one and leaves the others as they are.                          *)
(***************************************************************************)
EXTENDS Routes, Changes, Fleet, Access, Limiter, Settings

VARIABLE part

-----------------------------------------------------------------------------
(* Small networks and the routes that meet them.                            *)

MCNames ==
    {"up", "ix", "cust", "core", "edge", "hole", "strict", "marked", "carry", "own", "all",
     "tagged", "mine", "safe", "cone", "c", "d", "e", "BLACKHOLE", "GRACEFUL_SHUTDOWN",
     "BOGONS_V4", "BOGONS_V6"} \cup builtinSymbols

MCDerived == [n \in {} |-> None]

\* Nets: the default, a bogon, our own prefix and a host in it, a customer's
\* prefix, a host in it and a longer piece of it, and one of IPv6.
MCAddrs == {[fam |-> "ipv4", id |-> 1]}
Net(f, len, id) == [fam |-> f, len |-> len, id |-> id, addrs |-> IF len = 0 THEN Addrs ELSE {}]
Default == Net("ipv4", 0, "default")
Martian == Net("ipv4", 24, "martian")
Ours == [Net("ipv4", 24, "ours") EXCEPT !.addrs = Addrs]
OursHost == Net("ipv4", 32, "ours host")
Theirs == Net("ipv4", 24, "theirs")
TheirsHost == Net("ipv4", 32, "theirs host")
Piece == Net("ipv4", 25, "piece")
Six == Net("ipv6", 48, "six")

PrefixOf(nets, below) ==
    [base |-> "text", modified |-> FALSE, nets |-> nets, below |-> nets \cup below]
MCPattern == <<PrefixOf({Martian}, {}), PrefixOf({Ours}, {OursHost}),
               PrefixOf({Theirs}, {TheirsHost, Piece}), PrefixOf({Six}, {})>>
MCInvalid == {<<Theirs, 64501>>}
MCDefaultBogons == {[asn |-> 64512, private |-> TRUE], [asn |-> 0, private |-> FALSE]}

Sent(net, path, comms) ==
    [net |-> net, path |-> path, comms |-> comms, pref |-> 100, hole |-> FALSE]
Forged == Large(65000, 3000)
Mark == Large(65000, 7)
Plea == Standard(64500, 1)
MCWire ==
    {Sent(n, p, c) : n \in {Default, Martian, Ours, Theirs, TheirsHost, OursHost, Piece, Six},
                     p \in {<<64500>>, <<64501>>, <<64512>>, <<64500, 64501>>, <<64501, 0>>,
                            <<64500, 65000>>, <<64500, 64501, 64501>>},
                     c \in {{}, {BLACKHOLE}, {Forged, Mark}, {Plea}}}
MCOwn == {Sent(Ours, <<>>, {}), Sent(Default, <<>>, {})}

eBGP == [role |-> "upstream", firstAS |-> TRUE, originOnly |-> FALSE, prepend |-> 0,
         nextHopSelf |-> FALSE, rrClient |-> FALSE, carry |-> "all", bfd |-> FALSE, limit |-> 0,
         importComms |-> {}, exportComms |-> {}]
Session(n, role, asn, imports, exports) ==
    ValidPeer([name |-> n, asn |-> asn, fam |-> "ipv4", addrs |-> {}, enabled |-> TRUE,
               secret |-> FALSE, drained |-> FALSE, tmpl |-> None, override |-> FALSE,
               shape |-> [eBGP EXCEPT !.role = role],
               chain |-> [imports |-> imports, exports |-> exports]])
APolicy(n, dir) == [name |-> n, dir |-> dir, comm |-> None, bogons |-> FALSE, allow |-> None,
                    origin |-> None, rov |-> "off", rules |-> ZeroRules, announce |-> {},
                    sources |-> {}]
ASetOf(n, f, e) == [name |-> n, family |-> f, entries |-> e, originate |-> FALSE, source |-> FALSE,
                    auto |-> FALSE, disabled |-> FALSE, system |-> FALSE, failed |-> FALSE]
AMark(n, v) == [name |-> n, value |-> v]

Base ==
    [peers |-> <<Session("up", "upstream", 64500, <<2>>, <<6>>),
                 Session("ix", "ix", 64501, <<2, 3>>, <<6, 7>>),
                 Session("cust", "customer", 64501, <<1, 3>>, <<5>>),
                 Session("core", "ibgp", 65000, <<>>, <<>>)>>,
     templates |-> <<>>,
     policies |-> <<[APolicy("hole", "import") EXCEPT !.allow = 3, !.rules.blackhole = TRUE,
                                                      !.rules.default = "accept"],
                    [APolicy("strict", "import") EXCEPT
                         !.bogons = TRUE, !.rov = "reject", !.rules.pathLen = 2,
                         !.rules.ownASN = TRUE,
                         !.rules.bogonASNs = "all", !.rules.lens["ipv4"] = [min |-> 8, max |-> 24]],
                    [APolicy("marked", "import") EXCEPT !.comm = "d", !.origin = 1, !.rov = "log",
                                                        !.rules.default = "accept"],
                    [APolicy("carry", "import") EXCEPT !.rules.pref = 50,
                                                       !.rules.default = "accept"],
                    [APolicy("all", "export") EXCEPT !.sources = {"everything"}, !.bogons = TRUE],
                    [APolicy("own", "export") EXCEPT !.sources = {"customer"}, !.announce = {2}],
                    [APolicy("tagged", "export") EXCEPT !.comm = "c"]>>,
     sets |-> <<[ASetOf("BOGONS_V4", "ipv4", {1}) EXCEPT !.system = TRUE],
                ASetOf("mine", "ipv4", {2}), ASetOf("safe", "ipv4", {3}),
                [ASetOf("BOGONS_V6", "ipv6", {4}) EXCEPT !.system = TRUE]>>,
     asSets |-> <<[name |-> "cone", members |-> {64501}, notes |-> {}, source |-> FALSE,
                   auto |-> FALSE, failed |-> FALSE]>>,
     communities |-> <<AMark("c", Mark), AMark("d", Plea), AMark("e", Forged),
                       AMark("BLACKHOLE", BLACKHOLE),
                       AMark("GRACEFUL_SHUTDOWN", GRACEFUL_SHUTDOWN)>>,
     servers |-> <<[name |-> "roa", enabled |-> TRUE]>>,
     stations |-> <<>>,
     routes |-> <<>>,
     router |-> [id |-> None, asn |-> 65000, cluster |-> FALSE, raw |-> FALSE,
                 src |-> [f \in Families |-> None], bgp |-> {"ipv4"}],
     bogons |-> {}]

Edge == [Base EXCEPT !.router.id = CHOOSE a \in Addrs : TRUE]

\* A router that was only just given its identity.
NewRouter == [Edge EXCEPT !.peers = <<>>, !.policies = <<>>, !.communities = <<>>, !.asSets = <<>>,
                       !.servers = <<>>]

MCFabrics ==
    {Edge, NewRouter,
     \* a mark of the session, and a session that asks for it in vain
     [Edge EXCEPT !.peers[3].shape.importComms = {"c"}, !.peers[1].chain.exports = <<7>>],
     \* a session that adds the mark its own policy looks for, after prepending
     [Edge EXCEPT !.peers[1].shape.exportComms = {"c"}, !.peers[1].shape.prepend = 2,
                  !.peers[1].chain.exports = <<7>>],
     \* a session that has all its routes discarded where they may be, and one that calls them a
     \* customer's; a draining one that lets out what is marked as draining
     [Edge EXCEPT !.peers[3].shape.importComms = {"BLACKHOLE"},
                  !.peers[2].shape.importComms = {"e"}],
     [Edge EXCEPT !.peers[1].drained = TRUE, !.peers[1].chain.exports = <<7>>,
                  !.policies[7].comm = "GRACEFUL_SHUTDOWN"],
     \* draining, and an internal session with a preference of its own
     [Edge EXCEPT !.peers[1].drained = TRUE, !.peers[3].drained = TRUE],
     [Edge EXCEPT !.peers[1].drained = TRUE,
                  !.peers[4].chain = [imports |-> <<1, 4>>, exports |-> <<5>>]],
     \* closed: the allow-list is off, or of the other family
     [Edge EXCEPT !.sets[3].disabled = TRUE, !.sets[2].disabled = TRUE],
     [Edge EXCEPT !.sets[3] = [ASetOf("safe", "ipv6", {4}) EXCEPT !.disabled = FALSE],
                  !.peers[3].fam = "ipv6"],
     \* deaf sessions: no default and nothing else, a private AS, an origin of its own
     [Edge EXCEPT !.policies[3].rules.default = "only", !.peers[3].chain.imports = <<2, 3>>],
     [Edge EXCEPT !.peers[3].asn = 64512, !.peers[3].chain.imports = <<2>>,
                  !.peers[2].asn = 64512, !.peers[2].chain.imports = <<4>>],
     [Edge EXCEPT !.peers[3].asn = 64512, !.policies[2].rules.bogonASNs = "exceptPrivate",
                  !.peers[3].chain.imports = <<2>>],
     [Edge EXCEPT !.peers[2].asn = 64500, !.peers[2].shape.originOnly = TRUE,
                  !.peers[2].shape.firstAS = FALSE],
     \* any discard is honoured; the session needs not name its AS first
     [Edge EXCEPT !.policies[1].allow = None, !.peers[2].chain.imports = <<1, 2>>,
                  !.peers[2].shape.firstAS = FALSE, !.peers[2].chain.exports = <<5>>,
                  !.policies[6].sources = {"ix", "upstream", "default"}]}

-----------------------------------------------------------------------------
(* Short texts: three or fewer lines on disk, up to four in the candidate.  *)

Line(w) == <<w, "lf">>
Lines(ws) == Seqs!FlattenSeq([k \in DOMAIN ws |-> Line(ws[k])])
Words == {"a", "b", "old password"}
MCTexts ==
    {Lines(ws) : ws \in UNION {[1..n -> Words] : n \in 0..3}}
    \cup {<<"a">>, <<"lf">>, <<"a", "lf", "lf">>, <<"a", "crlf", "b", "crlf">>,
          Lines(<<"a", "b", "a", "b">>), Lines(<<"b", "new password", "a", "a">>)}
MCLayouts ==
    {<<Line("a")>>, <<Line("a"), Line("b")>>, <<Line("a"), Lines(<<"b", "b">>), Line("a")>>,
     <<Line("b"), Line("new password"), Lines(<<"a", "a">>)>>, <<Line("a"), <<>>, Line("b")>>,
     <<Lines(<<"a", "b">>), <<"c">>>>}

-----------------------------------------------------------------------------
(* One part at a time.                                                      *)

Chosen(p, first) == part = p \/ first

PanelInit ==
    /\ part \in {"routes", "changes", "fleet", "access", "limiter", "settings"}
    /\ RoutesInit /\ Chosen("routes", fabric = NewRouter /\ route = Sent(Ours, <<>>, {}))
    /\ ChangesInit /\ Chosen("changes", page.bodies = <<Line("a")>> /\ page.context = 0)
    /\ FleetInit
    /\ AccessInit
    /\ LimiterInit
    /\ SettingsInit /\ Chosen("settings", row.token = "none" /\ row.applied = 0)

PanelNext ==
    \/ part = "routes" /\ RoutesNext
       /\ UNCHANGED <<part, page, fleetVars, accessVars, limiterVars, settingsVars>>
    \/ part = "changes" /\ ChangesNext
       /\ UNCHANGED <<part, routeVars, fleetVars, accessVars, limiterVars, settingsVars>>
    \/ part = "fleet" /\ FleetNext
       /\ UNCHANGED <<part, routeVars, page, accessVars, limiterVars, settingsVars>>
    \/ part = "access" /\ AccessNext
       /\ UNCHANGED <<part, routeVars, page, fleetVars, limiterVars, settingsVars>>
    \/ part = "limiter" /\ LimiterNext
       /\ UNCHANGED <<part, routeVars, page, fleetVars, accessVars, settingsVars>>
    \/ part = "settings" /\ SettingsNext
       /\ UNCHANGED <<part, routeVars, page, fleetVars, accessVars, limiterVars>>

panelVars ==
    <<part, routeVars, page, fleetVars, accessVars, limiterVars, settingsVars>>
Spec == PanelInit /\ [][PanelNext]_panelVars
=============================================================================
