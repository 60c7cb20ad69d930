----------------------------- MODULE MCAlerts -----------------------------
(* A small instance of the poller with the notifier: what matters here is *)
(* who hears of it, so every session imports the same number of routes.   *)
EXTENDS Alerts

CONSTANTS p1, sessions, outages

MCPeers == {p1}
MCCounts == {4}
MCDestinations == {sessions, outages}
MCWants == [d \in MCDestinations |->
    IF d = sessions THEN Throttled ELSE {"unreachable"}]
=============================================================================
