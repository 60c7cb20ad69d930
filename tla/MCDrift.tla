------------------------------ MODULE MCDrift ------------------------------
(* The same instances with the drift watcher beside the pipeline. *)
EXTENDS MCApply, Drift
=============================================================================
