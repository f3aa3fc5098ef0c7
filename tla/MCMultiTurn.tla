---------------------------- MODULE MCMultiTurn -----------------------------
(***************************************************************************)
(* Instances of the multi-turn runner for TLC: three diagnostics, two of    *)
(* them of one symbol, and two benchmark cases.                             *)
(***************************************************************************)
EXTENDS MultiTurnSafety

SymbolOf == [e \in {"e1", "e2", "e3"} |-> IF e = "e3" THEN "s2" ELSE "s1"]
Of(rank, errs, direct, cases, score) ==
    [rank |-> rank, errs |-> errs, direct |-> direct, cases |-> cases, score |-> score]

(* A build failure with two diagnostics or one of them, compiled candidates *)
(* that pass one case or both, and two valid ones.                          *)
Measurements ==
    {Of(1, {"e1", "e2"}, TRUE, {}, 0), Of(1, {"e1"}, TRUE, {}, 0), Of(1, {"e2"}, TRUE, {}, 0),
     Of(3, {"e3"}, FALSE, {"c1"}, 0), Of(3, {"e1"}, FALSE, {"c1", "c2"}, 0),
     Of(4, {}, FALSE, {"c1", "c2"}, 1), Of(4, {}, FALSE, {"c1", "c2"}, 2)}
=============================================================================
