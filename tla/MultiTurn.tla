----------------------------- MODULE MultiTurn ------------------------------
(***************************************************************************)
(* ascendc_multi_turn/runner.py: the loop that plans, generates, evaluates *)
(* and settles one candidate after another, first until a candidate is      *)
(* valid (bootstrap), then for speed (optimization).  Every file it writes  *)
(* is a variable of its own and every write a step, so that the process     *)
(* may die between any two and be resumed with --resume.                    *)
(***************************************************************************)
EXTENDS RepairState, Sequences

CONSTANTS
    Outcomes,       \* the results an evaluation may have, a subset of Result
    MaxBootstrap,   \* --max-bootstrap-rounds
    MaxRounds,      \* --max-rounds
    MaxTotal,       \* --max-total-rounds
    FailThreshold,  \* CONSECUTIVE_FAIL_THRESHOLD
    MaxRestarts,    \* bound on the resumes after a death or a pause
    MaxFaults,      \* bound on failed model calls, evaluator faults and no-ops
    MayDie,         \* whether the process may be killed
    Noisy           \* whether a candidate's score may differ when measured again

ASSUME MultiTurnAssumption ==
    /\ Outcomes \subseteq Result
    /\ MaxBootstrap \in Nat \ {0} /\ MaxRounds \in Nat /\ MaxTotal \in Nat
    /\ FailThreshold \in Nat \ {0} /\ MaxRestarts \in Nat /\ MaxFaults \in Nat
    /\ MayDie \in BOOLEAN /\ Noisy \in BOOLEAN

VARIABLES
    traj,    \* trajectory.json: the recorded rounds, best_round, the workflow, the status
    pend,    \* run_state.json: the pending evaluation round, its attempt and phase
    plan,    \* plan.json: "none", "pending" or "settled"
    best,    \* best.json, a bundle (0: no file)
    base0,   \* baseline.json
    repair,  \* repair_state.json
    orch,    \* the highest attempt in orchestration_attempts.jsonl
    dir,     \* round_NN of the pending attempt: base.json, candidate.json, and what
             \* the candidate measures
    work,    \* the bundle in the task directory
    m,       \* the process's own variables
    pc,      \* its next step; "down" when there is no process
    gens,    \* candidates generated: the last one's bundle
    faults, restarts

vars == <<traj, pend, plan, best, base0, repair, orch, dir, work, m, pc, gens,
          faults, restarts>>

(* Bundle 1 is the scaffold create_project writes, n + 1 the nth candidate. *)
Scaffold == 1
NoPend == [round |-> 0, attempt |-> 0, phase |-> "none"]
NoDir == [attempt |-> 0, base |-> 0, cand |-> 0, truth |-> NoResult]
NoMemory == [cur |-> 0, prev |-> NoResult, best |-> 0, bestRes |-> NoResult,
             bestRound |-> 0, baseline |-> 0, phase |-> "none", plan |-> "none", diag |-> FALSE,
             attempt |-> 0, base |-> 0, baseRes |-> NoResult, cand |-> 0,
             res |-> NoResult, dec |-> "none", outcome |-> "none", stop |-> "none"]

Init ==
    /\ traj = [rounds |-> <<>>, best |-> 0, status |-> "running",
               wf |-> [baseline |-> 0, diag |-> FALSE, fails |-> 0, noops |-> 0]]
    /\ pend = NoPend /\ plan = "none" /\ best = 0 /\ base0 = 0
    /\ repair = EmptyRepair /\ orch = 0 /\ dir = NoDir /\ work = Scaffold
    /\ m = NoMemory /\ pc = "down" /\ gens = Scaffold
    /\ faults = 0 /\ restarts = 0

(* The rounds charged to a budget, and those of an attempt.                 *)
Rounds(phase) == {i \in DOMAIN traj.rounds : traj.rounds[i].phase = phase}
RoundsOf(attempt) == {i \in DOMAIN traj.rounds : traj.rounds[i].attempt = attempt}
EvaluationRound == Len(traj.rounds) + 1
HasItem == m.plan = "pending"
Bootstrapping == m.baseline = 0

-----------------------------------------------------------------------------
(* run() up to its loop: the state a resume rebuilds from the files.        *)
Resumed ==
    LET last == traj.rounds[Len(traj.rounds)].res
        bestRes == IF best # 0 /\ RoundsOf(traj.best) # {}
                   THEN traj.rounds[Min(RoundsOf(traj.best))].res ELSE NoResult
        baseline == IF traj.wf.baseline # 0 THEN traj.wf.baseline
                    ELSE IF Valid(bestRes) THEN traj.best ELSE 0
        fromRepair == baseline = 0 /\ repair.bundle # 0
    IN [NoMemory EXCEPT
          !.best = best, !.bestRes = bestRes, !.bestRound = traj.best,
          !.baseline = baseline, !.plan = plan,
          !.cur = IF fromRepair THEN repair.bundle ELSE IF best # 0 THEN best ELSE work,
          !.prev = IF fromRepair THEN repair.eval
                   ELSE IF traj.rounds # <<>> THEN last ELSE NoResult]

Start ==
    /\ pc = "down" /\ restarts <= MaxRestarts
    /\ restarts' = restarts + 1
    /\ m' = Resumed
    /\ work' = Resumed.cur
    /\ traj' = [traj EXCEPT !.status = "running"]
    /\ pc' = "preflight"
    /\ UNCHANGED <<pend, plan, best, base0, repair, orch, dir, gens, faults>>

Stop(reason) == m' = [m EXCEPT !.stop = reason] /\ pc' = "finish"

(* The environment is checked before the loop; a failure pauses the run.    *)
Preflight ==
    /\ pc = "preflight"
    /\ \/ pc' = "head" /\ UNCHANGED <<m, faults>>
       \/ faults < MaxFaults /\ faults' = faults + 1 /\ Stop("paused")
    /\ UNCHANGED <<traj, pend, plan, best, base0, repair, orch, dir, work, gens, restarts>>

(* begin_pending: the attempt pending for this evaluation round goes on;    *)
(* otherwise the next number after every recorded round and failed attempt. *)
NextAttempt ==
    IF pend.round = EvaluationRound THEN pend.attempt
    ELSE 1 + Max({orch} \cup {traj.rounds[i].attempt : i \in DOMAIN traj.rounds} \cup {0})

StopReason ==
    IF Len(traj.rounds) >= MaxTotal
      THEN IF m.baseline # 0 THEN "completed" ELSE "blocked"
    ELSE IF Bootstrapping /\ Cardinality(Rounds("bootstrap")) >= MaxBootstrap THEN "blocked"
    ELSE IF ~Bootstrapping /\ Cardinality(Rounds("optimization")) >= MaxRounds THEN "completed"
    ELSE "none"

(* The head of the loop: budgets, the plan item, the pending attempt.       *)
Evaluating == pend.round = EvaluationRound /\ pend.phase = "EVAL"

LoopHead ==
    /\ pc = "head"
    /\ IF StopReason # "none"
       THEN Stop(StopReason) /\ UNCHANGED pend
       ELSE LET planned == IF traj.wf.diag THEN "none" ELSE m.plan
                needPlan == planned # "pending" /\ ~Evaluating
            IN /\ pend' = [round |-> EvaluationRound, attempt |-> NextAttempt,
                           phase |-> IF Evaluating THEN "EVAL" ELSE "EDIT"]
               /\ m' = [m EXCEPT !.plan = planned, !.diag = traj.wf.diag,
                                 !.phase = IF m.baseline = 0 THEN "bootstrap" ELSE "optimization",
                                 !.attempt = NextAttempt, !.base = m.cur,
                                 !.baseRes = m.prev]
               /\ pc' = IF needPlan THEN "plan" ELSE "edit"
    /\ UNCHANGED <<traj, plan, best, base0, repair, orch, dir, work, gens, faults, restarts>>

-----------------------------------------------------------------------------
(* A failed model call or an unusable answer is an orchestration attempt,   *)
(* which costs no round, and pauses the run.                                *)
OrchestrationFailure ==
    /\ faults < MaxFaults /\ faults' = faults + 1
    /\ orch' = Max({orch, m.attempt})
    /\ Stop("paused")

PlanFails ==
    /\ pc = "plan" /\ OrchestrationFailure
    /\ UNCHANGED <<traj, pend, plan, best, base0, repair, dir, work, gens, restarts>>

(* _create_plan writes plan.json and then the workflow; a diagnosis resets  *)
(* the streak.                                                              *)
WritePlan ==
    /\ pc = "plan"
    /\ plan' = "pending" /\ m' = [m EXCEPT !.plan = "pending"]
    /\ pc' = "adopt"
    /\ UNCHANGED <<traj, pend, best, base0, repair, orch, dir, work, gens, faults, restarts>>

AdoptPlan ==
    /\ pc = "adopt"
    /\ traj' = [traj EXCEPT !.wf.fails = IF m.diag THEN 0 ELSE @]
    /\ pc' = "planned"
    /\ UNCHANGED <<pend, plan, best, base0, repair, orch, dir, work, m, gens, faults, restarts>>

ClearDiagnosis ==
    /\ pc = "planned"
    /\ traj' = [traj EXCEPT !.wf.diag = FALSE]
    /\ pc' = "edit"
    /\ UNCHANGED <<pend, plan, best, base0, repair, orch, dir, work, m, gens, faults, restarts>>

(* A diagnosis without sufficient evidence has no items and blocks the run. *)
InsufficientDiagnosis ==
    /\ pc = "plan" /\ m.diag /\ faults < MaxFaults
    /\ faults' = faults + 1
    /\ plan' = "settled"
    /\ Stop("blocked")
    /\ UNCHANGED <<traj, pend, best, base0, repair, orch, dir, work, gens, restarts>>

-----------------------------------------------------------------------------
(* _prepare_candidate.  A checkpoint that reached EVAL is taken up again    *)
(* with the base it was made from.                                          *)
HasCheckpoint == pend.phase = "EVAL" /\ dir.attempt = m.attempt /\ dir.cand # 0

ReuseCheckpoint ==
    /\ pc = "edit" /\ HasCheckpoint
    /\ work' = dir.cand
    /\ m' = [m EXCEPT !.base = dir.base, !.cand = dir.cand]
    /\ pc' = "compare"
    /\ UNCHANGED <<traj, pend, plan, best, base0, repair, orch, dir, gens, faults, restarts>>

WriteBase ==
    /\ pc = "edit" /\ ~HasCheckpoint
    /\ dir' = [NoDir EXCEPT !.attempt = m.attempt, !.base = m.base]
    /\ pc' = "generate"
    /\ UNCHANGED <<traj, pend, plan, best, base0, repair, orch, work, m, gens, faults, restarts>>

GenerateFails ==
    /\ pc = "generate" /\ OrchestrationFailure
    /\ work' \in {work, m.base}
    /\ UNCHANGED <<traj, pend, plan, best, base0, repair, dir, gens, restarts>>

(* The answer is merged into the base, written to the task directory and    *)
(* then checkpointed; one that changes nothing but comments is the base.    *)
Generate ==
    /\ pc = "generate"
    /\ \/ gens' = gens + 1 /\ work' = gens + 1 /\ UNCHANGED faults
       \/ faults < MaxFaults /\ faults' = faults + 1
          /\ work' = m.base /\ UNCHANGED gens
    /\ m' = [m EXCEPT !.cand = work']
    /\ pc' = "checkpoint"
    /\ UNCHANGED <<traj, pend, plan, best, base0, repair, orch, dir, restarts>>

Checkpoint ==
    /\ pc = "checkpoint"
    /\ dir' = [dir EXCEPT !.cand = m.cand]
    /\ pc' = "mark"
    /\ UNCHANGED <<traj, pend, plan, best, base0, repair, orch, work, m, gens, faults, restarts>>

MarkEval ==
    /\ pc = "mark"
    /\ pend' = [pend EXCEPT !.phase = "EVAL"]
    /\ pc' = "compare"
    /\ UNCHANGED <<traj, plan, best, base0, repair, orch, dir, work, m, gens, faults, restarts>>

-----------------------------------------------------------------------------
(* A candidate that is its base is recorded as an orchestration attempt,    *)
(* settles the item, and asks for a diagnosis; three in a row pause.        *)
IsNoOp == m.cand = m.base

RecordNoOp ==
    /\ pc = "compare" /\ IsNoOp
    /\ work' = m.base /\ orch' = Max({orch, m.attempt})
    /\ pc' = "noop-plan"
    /\ UNCHANGED <<traj, pend, plan, best, base0, repair, dir, m, gens, faults, restarts>>

SettleNoOp ==
    /\ pc = "noop-plan"
    /\ plan' = IF HasItem THEN "settled" ELSE plan
    /\ pc' = "noop-pend"
    /\ UNCHANGED <<traj, pend, best, base0, repair, orch, dir, work, m, gens, faults, restarts>>

CompleteNoOp ==
    /\ pc = "noop-pend"
    /\ pend' = NoPend
    /\ pc' = "noop-workflow"
    /\ UNCHANGED <<traj, plan, best, base0, repair, orch, dir, work, m, gens, faults, restarts>>

DiagnoseNoOp ==
    /\ pc = "noop-workflow"
    /\ traj' = [traj EXCEPT !.wf.diag = TRUE, !.wf.noops = @ + 1]
    /\ IF traj.wf.noops + 1 >= 3
       THEN m' = [m EXCEPT !.plan = "none", !.stop = "paused"] /\ pc' = "finish"
       ELSE m' = [m EXCEPT !.plan = "none"] /\ pc' = "head"
    /\ UNCHANGED <<pend, plan, best, base0, repair, orch, dir, work, gens, faults, restarts>>

-----------------------------------------------------------------------------
(* What evaluating the candidate may report: the same as the last time,     *)
(* but for the noise of a measured score.                                   *)
Measured ==
    IF dir.truth = NoResult THEN Outcomes
    ELSE {dir.truth} \cup
         (IF Noisy /\ Valid(dir.truth) THEN {r \in Outcomes : Valid(r)} ELSE {})

(* An infrastructure fault leaves the candidate pending and pauses.         *)
EvaluatorFails ==
    /\ pc = "compare" /\ ~IsNoOp /\ OrchestrationFailure
    /\ work' = m.base
    /\ UNCHANGED <<traj, pend, plan, best, base0, repair, dir, gens, restarts>>

(* The decision of a round and the bundle and evidence the next one starts  *)
(* from.                                                                    *)
(* (Faulty variants: any valid candidate is kept, the outcome of the repair *)
(* is taken for the decision, and a rejected candidate is not rolled back.) *)
KeepsAnyValid(r) == Valid(r)
Keeps(r) == IF Bootstrapping THEN Valid(r) ELSE Better(r, m.bestRes)
DecisionOn(r, outcome) ==
    IF Keeps(r) THEN IF Bootstrapping THEN "BASELINE_KEEP" ELSE "KEEP"
    ELSE IF Bootstrapping
         THEN IF Accepts(outcome) /\ outcome # "INITIAL_KEEP" THEN "PARTIAL_KEEP" ELSE "FAIL"
         ELSE IF Valid(r) THEN "DISCARD" ELSE "FAIL"

SettledWithoutRollback(r, outcome) ==
    [m EXCEPT !.res = r, !.outcome = outcome, !.dec = DecisionOn(r, outcome),
              !.baseline = IF Bootstrapping /\ Keeps(r) THEN m.attempt ELSE @,
              !.best = IF Keeps(r) THEN m.cand ELSE @,
              !.bestRes = IF Keeps(r) THEN r ELSE @,
              !.bestRound = IF Keeps(r) THEN m.attempt ELSE @,
              !.cur = m.cand, !.prev = r]
Settled(r, outcome) ==
    LET round == [m EXCEPT !.res = r, !.outcome = outcome, !.dec = DecisionOn(r, outcome)]
    IN IF Keeps(r)
       THEN [round EXCEPT !.baseline = IF Bootstrapping THEN m.attempt ELSE @,
                          !.best = m.cand, !.bestRes = r, !.bestRound = m.attempt,
                          !.cur = m.cand, !.prev = r]
       ELSE IF Bootstrapping /\ Accepts(outcome)
       THEN [round EXCEPT !.cur = m.cand, !.prev = r]
       ELSE IF Bootstrapping
       THEN [round EXCEPT !.cur = m.base, !.prev = m.baseRes]
       ELSE IF m.best # 0 THEN [round EXCEPT !.cur = m.best, !.prev = m.bestRes]
       ELSE round

Evaluate ==
    /\ pc = "compare" /\ ~IsNoOp
    /\ \E r \in Measured :
         /\ dir' = [dir EXCEPT !.truth = r]
         /\ m' = Settled(r, Decide(m.baseRes, r, repair.cleared))
    /\ pc' = CASE m'.dec = "BASELINE_KEEP" -> "baseline"
               [] m'.dec = "KEEP" -> "best"
               [] OTHER -> "restore"
    /\ UNCHANGED <<traj, pend, plan, best, base0, repair, orch, work, gens, faults, restarts>>

(* Settling: baseline.json, best.json or the task directory; the repair     *)
(* state in bootstrap; the plan item; the round; the pending attempt; the   *)
(* workflow; and the plan of the bootstrap.                                 *)
AfterFiles == IF m.phase = "bootstrap" THEN "observe" ELSE "item"

WriteBaseline ==
    /\ pc = "baseline"
    /\ base0' = m.cand /\ pc' = "best"
    /\ UNCHANGED <<traj, pend, plan, best, repair, orch, dir, work, m, gens, faults, restarts>>

WriteBest ==
    /\ pc = "best"
    /\ best' = m.cand
    /\ pc' = AfterFiles
    /\ UNCHANGED <<traj, pend, plan, base0, repair, orch, dir, work, m, gens, faults, restarts>>

RestoreWork ==
    /\ pc = "restore"
    /\ work' = m.cur
    /\ pc' = AfterFiles
    /\ UNCHANGED <<traj, pend, plan, best, base0, repair, orch, dir, m, gens, faults, restarts>>

ObserveRepair ==
    /\ pc = "observe"
    /\ repair' = Observe(repair, m.baseRes, m.res, m.cand, m.outcome)
    /\ pc' = "item"
    /\ UNCHANGED <<traj, pend, plan, best, base0, orch, dir, work, m, gens, faults, restarts>>

SettleItem ==
    /\ pc = "item"
    /\ plan' = IF HasItem THEN "settled" ELSE plan
    /\ pc' = "round"
    /\ UNCHANGED <<traj, pend, best, base0, repair, orch, dir, work, m, gens, faults, restarts>>

SaveRound ==
    /\ pc = "round"
    /\ traj' = [traj EXCEPT
         !.rounds = Append(@, [attempt |-> m.attempt, bundle |-> m.cand,
                               phase |-> m.phase, dec |-> m.dec, res |-> m.res]),
         !.best = m.bestRound]
    /\ pc' = "complete"
    /\ UNCHANGED <<pend, plan, best, base0, repair, orch, dir, work, m, gens, faults, restarts>>

CompleteRound ==
    /\ pc = "complete"
    /\ pend' = NoPend /\ pc' = "workflow"
    /\ UNCHANGED <<traj, plan, best, base0, repair, orch, dir, work, m, gens, faults, restarts>>

SaveWorkflow ==
    /\ pc = "workflow"
    /\ LET fails == IF m.dec = "FAIL" THEN traj.wf.fails + 1 ELSE 0
       IN traj' = [traj EXCEPT !.wf =
            [baseline |-> m.baseline, fails |-> fails, noops |-> 0,
             diag |-> fails >= FailThreshold \/ Escalates(repair, m.prev)]]
    /\ m' = [m EXCEPT !.plan = "none"]
    /\ pc' = IF m.dec = "BASELINE_KEEP" THEN "unlink" ELSE "head"
    /\ UNCHANGED <<pend, plan, best, base0, repair, orch, dir, work, gens, faults, restarts>>

DropPlan ==
    /\ pc = "unlink"
    /\ plan' = "none" /\ pc' = "head"
    /\ UNCHANGED <<traj, pend, best, base0, repair, orch, dir, work, m, gens, faults, restarts>>

(* After the loop: the best bundle is restored, then _finish writes the     *)
(* workflow and, with the summary, the status.                              *)
(* (Faulty variant: the loop goes on when the budget is spent.)             *)
FinishContinues ==
    /\ pc = "finish"
    /\ work' = IF m.best # 0 THEN m.best ELSE work
    /\ traj' = [traj EXCEPT !.wf.baseline = m.baseline]
    /\ pc' = IF m.stop = "completed" THEN "head" ELSE "status"
    /\ UNCHANGED <<pend, plan, best, base0, repair, orch, dir, m, gens, faults, restarts>>

Finish ==
    /\ pc = "finish"
    /\ work' = IF m.best # 0 THEN m.best ELSE work
    /\ traj' = [traj EXCEPT !.wf.baseline = m.baseline]
    /\ pc' = "status"
    /\ UNCHANGED <<pend, plan, best, base0, repair, orch, dir, m, gens, faults, restarts>>

MarkStatus ==
    /\ pc = "status"
    /\ traj' = [traj EXCEPT !.status = m.stop]
    /\ pc' = "down" /\ m' = NoMemory
    /\ UNCHANGED <<pend, plan, best, base0, repair, orch, dir, work, gens, faults, restarts>>

Die ==
    /\ MayDie /\ pc # "down"
    /\ pc' = "down" /\ m' = NoMemory
    /\ UNCHANGED <<traj, pend, plan, best, base0, repair, orch, dir, work, gens, faults, restarts>>

Work ==
    \/ Preflight \/ LoopHead
    \/ PlanFails \/ WritePlan \/ AdoptPlan \/ ClearDiagnosis \/ InsufficientDiagnosis
    \/ ReuseCheckpoint \/ WriteBase \/ GenerateFails \/ Generate \/ Checkpoint \/ MarkEval
    \/ RecordNoOp \/ SettleNoOp \/ CompleteNoOp \/ DiagnoseNoOp
    \/ EvaluatorFails \/ Evaluate \/ WriteBaseline \/ WriteBest \/ RestoreWork
    \/ ObserveRepair \/ SettleItem \/ SaveRound \/ CompleteRound \/ SaveWorkflow
    \/ DropPlan \/ Finish \/ MarkStatus

Next == Start \/ Work \/ Die

Spec == Init /\ [][Next]_vars
FairSpec == Spec /\ WF_vars(Work)
=============================================================================
