---------------------------- MODULE MCOwnership -----------------------------
(***************************************************************************)
(* An instance of the ownership protocol for TLC: two sessions, two tasks. *)
(***************************************************************************)
EXTENDS Ownership, TLC
=============================================================================
