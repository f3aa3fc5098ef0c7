---------------------------- MODULE MCTaskEngine ----------------------------
(***************************************************************************)
(* Instances of the task engine for TLC.                                   *)
(***************************************************************************)
EXTENDS TaskSafety, TaskClaims, TaskLiveness

=============================================================================
