--------------------------- MODULE ChangeControl ---------------------------
(***************************************************************************)
(* What the apply pipeline promises, with no files, daemon or handlers: a  *)
(* router's configuration changes by proposals.  At most one is open; it   *)
(* is either accepted, and becomes the baseline in the same step, or       *)
(* withdrawn, and leaves the baseline alone; and it is never reopened.     *)
(* The only other way the baseline moves is by adopting what is there.     *)
(***************************************************************************)
EXTENDS Integers, Sequences

CONSTANTS Configs, Texts, None

VARIABLES
    baseline, \* the configuration the operator stands by, or None
    ledger    \* every proposal ever made and what became of it

Open == {i \in DOMAIN ledger : ledger[i].status = "pending"}

Init == baseline = None /\ ledger = <<>>

Propose(cfg) ==
    /\ Open = {}
    /\ ledger' = Append(ledger, [cfg |-> cfg, status |-> "pending"])
    /\ UNCHANGED baseline

Accept(i) ==
    /\ i \in Open
    /\ ledger' = [ledger EXCEPT ![i].status = "confirmed"]
    /\ baseline' = ledger[i].cfg

Withdraw(i) ==
    /\ i \in Open
    /\ ledger' = [ledger EXCEPT ![i].status = "reverted"]
    /\ UNCHANGED baseline

Adopt(text) ==
    /\ baseline' = text
    /\ UNCHANGED ledger

Next ==
    \/ \E cfg \in Configs : Propose(cfg)
    \/ \E i \in DOMAIN ledger : Accept(i) \/ Withdraw(i)
    \/ \E text \in Texts \cup {None} : Adopt(text)

Spec == Init /\ [][Next]_<<baseline, ledger>>
=============================================================================
