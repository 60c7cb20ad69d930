----------------------------- MODULE MCPoller -----------------------------
(* A small instance of the poller, without the notifier behind it.  Peers *)
(* do not meet in a poll: one of them and many moves show more than two.  *)
EXTENDS Poller

CONSTANT p1

MCPeers == {p1}
MCCounts == {1, 4}
=============================================================================
