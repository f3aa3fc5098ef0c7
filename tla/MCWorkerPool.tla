---------------------------- MODULE MCWorkerPool ----------------------------
(***************************************************************************)
(* Instances of the worker for TLC.                                        *)
(***************************************************************************)
EXTENDS WorkerSafety, TLC

Symmetric == Permutations(Reqs) \cup Permutations(Devices)
=============================================================================
