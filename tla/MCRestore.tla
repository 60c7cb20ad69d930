----------------------------- MODULE MCRestore -----------------------------
(* Small instances of staging and applying a restore. *)
EXTENDS Restore

CONSTANTS d1, d2, d3

MCContents == {d1, d2, d3}
=============================================================================
