----------------------------- MODULE MCBatchRun -----------------------------
(***************************************************************************)
(* Instances of the batch runner for TLC.                                  *)
(***************************************************************************)
EXTENDS BatchSafety, TLC

Symmetric == Permutations(Ops) \cup Permutations(Runners)
=============================================================================
