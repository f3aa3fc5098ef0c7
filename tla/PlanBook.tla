------------------------------ MODULE PlanBook ------------------------------
(***************************************************************************)
(* plan.md as the rest of the system sees it: the plan record of           *)
(* TaskRecord, rewritten by create_plan.py and settled item by item by     *)
(* pipeline.py.                                                            *)
(***************************************************************************)
EXTENDS TaskRecord

VARIABLE plan

Init == plan = NoPlan

\* A new version: fresh numbers above every earlier one, settled rows kept.
Rewrite ==
  \E n \in PlanSizes, first \in {FirstPid([nextPid |-> 0], plan)} :
    plan' = RewrittenPlan(plan.v + 1, first, n, plan)

\* One round settles one item.
SettleOne ==
  /\ HasPending(plan)
  /\ \E d \in Decisions : plan' = SettledPlan(plan, d)

Next == Rewrite \/ SettleOne
Spec == Init /\ [][Next]_plan
=============================================================================
