------------------------------ MODULE MCApply ------------------------------
(* Small instances of the apply pipeline. *)
EXTENDS Apply, TLC

CONSTANTS c1, c2, f1, t1, t2

MCConfigs == {c1, c2}
MCForeign == {f1}
MCTorn == {t1, t2}

\* Configurations, and texts of half-written file sets, are interchangeable.
Symmetry == Permutations(MCConfigs) \cup Permutations(MCTorn)
=============================================================================
