-------------------------- MODULE MultiTurnProofs ---------------------------
(***************************************************************************)
(* What the files of the multi-turn runner say, for every budget and every *)
(* set of results, wherever and however often its process dies.            *)
(***************************************************************************)
EXTENDS MultiTurnSafety, FiniteSetTheorems, TLAPS

-----------------------------------------------------------------------------
(* Helpers *)

LEMMA MaxAbove ==
  ASSUME NEW S \in SUBSET Int, NEW x \in S, \A y \in S : y <= x
  PROVE  Max(S) = x
<1>1. \E z \in S : \A y \in S : z >= y
  <2>1. \A y \in S : x >= y
    OBVIOUS
  <2> QED BY <2>1
<1>2. Max(S) \in S /\ \A y \in S : Max(S) >= y
  BY <1>1, Zenon DEF Max
<1>3. Max(S) \in Int /\ x \in Int /\ Max(S) >= x /\ Max(S) <= x
  BY <1>2
<1> QED BY ONLY <1>3

LEMMA MinOfOne ==
  ASSUME NEW x \in Int
  PROVE  Min({x}) = x
BY DEF Min

-----------------------------------------------------------------------------
(* Types *)

LEMMA DecideType ==
  ASSUME NEW base, NEW r, NEW cleared
  PROVE  Decide(base, r, cleared) \in RepairOutcomes
<1>1. CASE base = NoResult
  BY <1>1 DEF Decide, RepairOutcomes
<1>2. CASE base # NoResult /\ r.rank > base.rank
  BY <1>2 DEF Decide, RepairOutcomes
<1>3. CASE base # NoResult /\ ~(r.rank > base.rank)
  BY <1>3 DEF Decide, RepairOutcomes
<1> QED BY <1>1, <1>2, <1>3

LEMMA DecisionType ==
  ASSUME NEW r, NEW outcome
  PROVE  DecisionOn(r, outcome) \in Decisions
BY DEF DecisionOn, Decisions, Kept

\* Every write of a process in its loop, but for evaluating and settling.
Editing ==
  \/ Preflight \/ LoopHead \/ PlanFails \/ WritePlan \/ AdoptPlan \/ ClearDiagnosis
  \/ InsufficientDiagnosis \/ ReuseCheckpoint \/ WriteBase \/ GenerateFails \/ Generate
  \/ Checkpoint \/ MarkEval

LEMMA PairMax ==
  ASSUME NEW a \in Nat, NEW b \in Nat
  PROVE  Max({a, b}) \in Nat
<1>1. CASE a <= b
  BY <1>1, MaxAbove
<1>2. CASE b <= a
  BY <1>2, MaxAbove
<1> QED BY <1>1, <1>2

LEMMA StopTyped ==
  ASSUME m \in Memory, NEW reason \in Ends, Stop(reason)
  PROVE  m' \in Memory /\ pc' = "finish"
BY DEF Stop, Memory

LEMMA FailureTyped ==
  ASSUME RunType, OrchestrationFailure
  PROVE  m' \in Memory /\ pc' = "finish" /\ orch' \in Nat /\ faults' \in Nat
<1>1. m \in Memory /\ m.attempt \in Nat /\ orch \in Nat /\ faults \in Nat
  BY DEF RunType, Memory
<1>2. Stop("paused") /\ faults' = faults + 1 /\ orch' = Max({orch, m.attempt})
  BY DEF OrchestrationFailure
<1>3. "paused" \in Ends
  BY DEF Ends
<1>4. m' \in Memory /\ pc' = "finish"
  BY <1>1, <1>2, <1>3, StopTyped
<1> QED BY <1>1, <1>2, <1>4, PairMax

Increasing ==
  \A i, j \in DOMAIN traj.rounds : i < j => traj.rounds[i].attempt < traj.rounds[j].attempt

\* begin_pending's next number is above every recorded attempt.
LEMMA NextAttemptType ==
  ASSUME RunType, Increasing
  PROVE  /\ NextAttempt \in Nat
         /\ pend.round # EvaluationRound =>
              NextAttempt > 0 /\ \A i \in DOMAIN traj.rounds : traj.rounds[i].attempt < NextAttempt
<1> DEFINE attempts == {traj.rounds[i].attempt : i \in DOMAIN traj.rounds}
           S == {orch} \cup attempts \cup {0}
           n == Len(traj.rounds)
<1>1. /\ traj.rounds \in Seq(RoundRec) /\ orch \in Nat
      /\ pend.round \in Nat /\ pend.attempt \in Nat
  BY DEF RunType
<1>2. /\ n \in Nat /\ DOMAIN traj.rounds = 1..n
      /\ \A i \in 1..n : traj.rounds[i].attempt \in Nat
  <2>1. n \in Nat /\ DOMAIN traj.rounds = 1..n
    BY <1>1
  <2>2. \A i \in 1..n : traj.rounds[i] \in RoundRec
    BY <1>1
  <2> QED BY <2>1, <2>2 DEF RoundRec
<1>3. S \in SUBSET Int /\ orch \in S /\ n > 0 => traj.rounds[n].attempt \in S
  BY <1>1, <1>2
<1>4. \E x \in S : \A y \in S : y <= x
  <2>1. CASE n = 0
    <3>1. \A y \in S : y <= orch
      BY <1>1, <1>2, <2>1
    <3> QED BY <3>1, <1>3
  <2>2. CASE n > 0
    <3>1. \A i \in 1..n : traj.rounds[i].attempt <= traj.rounds[n].attempt
      <4> SUFFICES ASSUME NEW i \in 1..n
                   PROVE  traj.rounds[i].attempt <= traj.rounds[n].attempt
        OBVIOUS
      <4>1. CASE i = n
        BY <4>1, <1>2
      <4>2. CASE i < n
        BY <4>2, <1>2, <2>2 DEF Increasing
      <4> QED BY <4>1, <4>2, <1>2
    <3>2. traj.rounds[n].attempt \in Nat
      BY <1>2, <2>2
    <3>3. CASE orch <= traj.rounds[n].attempt
      <4>1. \A y \in S : y <= traj.rounds[n].attempt
        BY <1>2, <3>1, <3>2, <3>3
      <4>2. traj.rounds[n].attempt \in S
        BY <1>3, <2>2
      <4> HIDE DEF S, n, attempts
      <4> QED BY <4>1, <4>2
    <3>4. CASE traj.rounds[n].attempt <= orch
      <4>1. \A y \in S : y <= orch
        BY <1>1, <1>2, <3>1, <3>2, <3>4
      <4> QED BY <4>1
    <3> QED BY <3>2, <3>3, <3>4, <1>1
  <2>3. n = 0 \/ n > 0
    BY <1>2
  <2> HIDE DEF S, n
  <2> QED BY <2>1, <2>2, <2>3
<1>5. PICK x \in S : \A y \in S : y <= x
  BY <1>4
<1>6. Max(S) = x
  <2>1. S \in SUBSET Int
    BY <1>1, <1>2
  <2> QED BY <1>5, <2>1, MaxAbove
<1>7. NextAttempt = IF pend.round = EvaluationRound THEN pend.attempt ELSE 1 + x
  BY <1>6 DEF NextAttempt
<1>8. x \in Nat /\ \A i \in DOMAIN traj.rounds : traj.rounds[i].attempt <= x
  BY <1>1, <1>2, <1>5
<1> HIDE DEF S, attempts
<1> QED BY <1>1, <1>2, <1>7, <1>8

LEMMA EditingTyped ==
  ASSUME RunType, Increasing, Editing
  PROVE  RunType'
<1> USE MultiTurnAssumption
<1>1. CASE Preflight
  <2>1. CASE pc' = "head" /\ UNCHANGED <<m, faults>>
    BY <1>1, <2>1 DEF Preflight, RunType, Pcs
  <2>2. CASE faults' = faults + 1 /\ Stop("paused")
    <3>1. m' \in Memory /\ pc' = "finish"
      BY <2>2, StopTyped DEF RunType, Ends
    <3> QED BY <1>1, <2>2, <3>1 DEF Preflight, RunType, Pcs
  <2> QED BY <1>1, <2>1, <2>2 DEF Preflight
<1>2. CASE LoopHead
  <2>1. CASE StopReason # "none"
    <3>1. StopReason \in Ends /\ Stop(StopReason)
      BY <1>2, <2>1 DEF LoopHead, StopReason, Ends
    <3>2. m' \in Memory /\ pc' = "finish" /\ pend' = pend
      BY <1>2, <2>1, <3>1, StopTyped DEF RunType, LoopHead
    <3> QED BY <1>2, <3>2 DEF LoopHead, RunType, Pcs
  <2>2. CASE StopReason = "none"
    <3>1. m.plan \in Plans /\ m.cur \in Nat /\ m.prev \in Results /\ traj.wf.diag \in BOOLEAN
      BY DEF RunType, Memory
    <3>2. /\ pend' = [round |-> EvaluationRound, attempt |-> NextAttempt,
                      phase |-> IF Evaluating THEN "EVAL" ELSE "EDIT"]
          /\ \E planned \in Plans, diag \in BOOLEAN, phase \in Phases :
               m' = [m EXCEPT !.plan = planned, !.diag = diag, !.phase = phase,
                              !.attempt = NextAttempt, !.base = m.cur, !.baseRes = m.prev]
          /\ pc' \in {"plan", "edit"}
      BY <1>2, <2>2, <3>1 DEF LoopHead, Plans, Phases
    <3>3. m' \in Memory
      <4>1. PICK planned \in Plans, diag \in BOOLEAN, phase \in Phases :
              m' = [m EXCEPT !.plan = planned, !.diag = diag, !.phase = phase,
                             !.attempt = NextAttempt, !.base = m.cur, !.baseRes = m.prev]
        BY <3>2
      <4>2. NextAttempt \in Nat /\ m \in Memory
        BY NextAttemptType DEF RunType
      <4> QED BY ONLY <4>1, <4>2, <3>1 DEF Memory
    <3>4. EvaluationRound \in Nat
      BY DEF RunType, EvaluationRound
    <3>5. pend' \in [round : Nat, attempt : Nat, phase : {"none", "EDIT", "EVAL"}]
      BY <3>2, <3>4, NextAttemptType
    <3>6. pc' \in Pcs
      BY <3>2 DEF Pcs, InLoop
    <3> QED BY <1>2, <3>3, <3>5, <3>6 DEF LoopHead, RunType
  <2> QED BY <2>1, <2>2
<1>3. CASE PlanFails
  BY <1>3, FailureTyped DEF PlanFails, RunType, Pcs
<1>4. CASE WritePlan
  BY <1>4 DEF WritePlan, RunType, Memory, Pcs, InLoop, Plans
<1>5. CASE AdoptPlan
  <2>1. m.diag \in BOOLEAN /\ traj.wf.fails \in Nat
    BY DEF RunType, Memory
  <2>2. \E f \in Nat : traj' = [traj EXCEPT !.wf.fails = f]
    BY <1>5, <2>1 DEF AdoptPlan
  <2>3. PICK f \in Nat : traj' = [traj EXCEPT !.wf.fails = f]
    BY <2>2
  <2>4. /\ traj' \in [rounds : Seq(RoundRec), best : Nat, status : Ends \cup {"running"},
                      wf : [baseline : Nat, diag : BOOLEAN, fails : Nat, noops : Nat]]
    BY <2>3 DEF RunType
  <2> QED BY <1>5, <2>4 DEF AdoptPlan, RunType, Pcs, InLoop
<1>6. CASE ClearDiagnosis
  BY <1>6 DEF ClearDiagnosis, RunType, Pcs, InLoop
<1>7. CASE InsufficientDiagnosis
  <2>1. m' \in Memory /\ pc' = "finish"
    BY <1>7, StopTyped DEF InsufficientDiagnosis, RunType, Ends
  <2> QED BY <1>7, <2>1 DEF InsufficientDiagnosis, RunType, Pcs, Plans
<1>8. CASE ReuseCheckpoint
  BY <1>8 DEF ReuseCheckpoint, RunType, Memory, Pcs, InLoop
<1>9. CASE WriteBase
  BY <1>9 DEF WriteBase, RunType, Memory, Pcs, InLoop, NoDir, Results
<1>10. CASE GenerateFails
  BY <1>10, FailureTyped DEF GenerateFails, RunType, Pcs, Memory
<1>11. CASE Generate
  <2>1. work' \in Nat /\ gens' \in Nat \ {0} /\ faults' \in Nat
    <3>1. gens \in Nat \ {0} /\ faults \in Nat /\ m.base \in Nat
      BY DEF RunType, Memory
    <3>2. \/ gens' = gens + 1 /\ work' = gens + 1 /\ faults' = faults
          \/ faults' = faults + 1 /\ work' = m.base /\ gens' = gens
      BY <1>11 DEF Generate
    <3> QED BY ONLY <3>1, <3>2
  <2>2. m' \in Memory
    BY <1>11, <2>1 DEF Generate, RunType, Memory
  <2> QED BY <1>11, <2>1, <2>2 DEF Generate, RunType, Pcs, InLoop
<1>12. CASE Checkpoint
  BY <1>12 DEF Checkpoint, RunType, Memory, Pcs, InLoop
<1>13. CASE MarkEval
  BY <1>13 DEF MarkEval, RunType, Pcs, InLoop
<1> QED BY <1>1, <1>2, <1>3, <1>4, <1>5, <1>6, <1>7, <1>8, <1>9, <1>10, <1>11, <1>12, <1>13 DEF Editing

LEMMA NoOpTyped ==
  ASSUME RunType, RecordNoOp \/ SettleNoOp \/ CompleteNoOp \/ DiagnoseNoOp \/ EvaluatorFails
  PROVE  RunType'
<1> USE MultiTurnAssumption
<1>1. CASE RecordNoOp
  <2>1. m.base \in Nat /\ Max({orch, m.attempt}) \in Nat
    BY PairMax DEF RunType, Memory
  <2> QED BY <1>1, <2>1 DEF RecordNoOp, RunType, Pcs, NoOp
<1>2. CASE SettleNoOp
  BY <1>2 DEF SettleNoOp, RunType, Pcs, NoOp, Plans
<1>3. CASE CompleteNoOp
  BY <1>3 DEF CompleteNoOp, RunType, Pcs, NoPend
<1>4. CASE DiagnoseNoOp
  <2>1. traj.wf.noops \in Nat
    BY DEF RunType
  <2>2. traj' = [traj EXCEPT !.wf.diag = TRUE, !.wf.noops = traj.wf.noops + 1]
    BY <1>4 DEF DiagnoseNoOp
  <2>3. traj' \in [rounds : Seq(RoundRec), best : Nat, status : Ends \cup {"running"},
                   wf : [baseline : Nat, diag : BOOLEAN, fails : Nat, noops : Nat]]
    <3>1. [traj EXCEPT !.wf.diag = TRUE]
            \in [rounds : Seq(RoundRec), best : Nat, status : Ends \cup {"running"},
                 wf : [baseline : Nat, diag : BOOLEAN, fails : Nat, noops : Nat]]
      BY DEF RunType
    <3> DEFINE t == [traj EXCEPT !.wf.diag = TRUE]
    <3>2. traj' = [t EXCEPT !.wf.noops = traj.wf.noops + 1]
      BY <2>2
    <3>3. t \in [rounds : Seq(RoundRec), best : Nat, status : Ends \cup {"running"},
                wf : [baseline : Nat, diag : BOOLEAN, fails : Nat, noops : Nat]]
      BY <3>1
    <3> HIDE DEF t
    <3> DEFINE k == traj.wf.noops + 1
    <3>4. k \in Nat /\ traj' = [t EXCEPT !.wf.noops = k]
      BY <3>2, <2>1
    <3> HIDE DEF k
    <3> QED BY <3>3, <3>4
  <2>4. m' \in Memory /\ pc' \in Pcs
    <3>1. m \in Memory
      BY DEF RunType
    <3>2. \/ m' = [m EXCEPT !.plan = "none", !.stop = "paused"] /\ pc' = "finish"
          \/ m' = [m EXCEPT !.plan = "none"] /\ pc' = "head"
      BY <1>4 DEF DiagnoseNoOp
    <3>3. CASE m' = [m EXCEPT !.plan = "none", !.stop = "paused"] /\ pc' = "finish"
      BY <3>1, <3>3 DEF Memory, Plans, Ends, Pcs
    <3>4. CASE m' = [m EXCEPT !.plan = "none"] /\ pc' = "head"
      BY <3>1, <3>4 DEF Memory, Plans, Pcs
    <3> QED BY <3>2, <3>3, <3>4
  <2> QED BY <1>4, <2>3, <2>4 DEF DiagnoseNoOp, RunType
<1>5. CASE EvaluatorFails
  <2>1. m.base \in Nat
    BY DEF RunType, Memory
  <2> QED BY <1>5, <2>1, FailureTyped DEF EvaluatorFails, RunType, Pcs
<1> QED BY <1>1, <1>2, <1>3, <1>4, <1>5

LEMMA SettleTyped ==
  ASSUME RunType, pc \in Settling => m.res \in Outcomes,
         \/ WriteBaseline \/ WriteBest \/ RestoreWork \/ ObserveRepair \/ SettleItem
         \/ SaveRound \/ CompleteRound \/ SaveWorkflow \/ DropPlan
  PROVE  RunType'
<1> USE MultiTurnAssumption
<1>1. CASE WriteBaseline
  BY <1>1 DEF WriteBaseline, RunType, Memory, Pcs, Settling
<1>2. CASE WriteBest
  BY <1>2 DEF WriteBest, AfterFiles, RunType, Memory, Pcs, Settling
<1>3. CASE RestoreWork
  BY <1>3 DEF RestoreWork, AfterFiles, RunType, Memory, Pcs, Settling
<1>4. CASE ObserveRepair
  <2>1. /\ repair.cleared \in SUBSET Errors /\ repair.failed \in [Errors -> Nat]
        /\ m.cand \in Nat /\ m.res \in Results /\ m.baseRes \in Results
    BY DEF RunType, Memory
  <2>2. Cleared(m.baseRes, m.res) \in SUBSET Errors
    BY <2>1 DEF Cleared, OpenErrors, Results, Result
  <2>3. [e \in Errors |-> repair.failed[e] + IF e \in Targets(m.baseRes, m.res) THEN 1 ELSE 0]
          \in [Errors -> Nat]
    BY <2>1
  <2>4. repair' \in [bundle : Nat, eval : Results, cleared : SUBSET Errors,
                     failed : [Errors -> Nat]]
    <3>1. CASE Accepts(m.outcome)
      BY <1>4, <2>1, <2>2, <3>1 DEF ObserveRepair, Observe, RunType
    <3>2. CASE ~Accepts(m.outcome)
      BY <1>4, <2>1, <2>3, <3>2 DEF ObserveRepair, Observe, RunType
    <3> QED BY <3>1, <3>2
  <2> QED BY <1>4, <2>4 DEF ObserveRepair, RunType, Pcs, Settling
<1>5. CASE SettleItem
  BY <1>5 DEF SettleItem, RunType, Pcs, Settling, Plans
<1>6. CASE SaveRound
  <2>1. /\ m.attempt \in Nat /\ m.cand \in Nat /\ m.phase \in Phases /\ m.dec \in Decisions
        /\ m.bestRound \in Nat
    BY DEF RunType, Memory
  <2>2. m.res \in Outcomes
    BY <1>6 DEF SaveRound, Settling
  <2> DEFINE r == [attempt |-> m.attempt, bundle |-> m.cand, phase |-> m.phase,
                   dec |-> m.dec, res |-> m.res]
  <2>3. r \in RoundRec
    BY <2>1, <2>2 DEF RoundRec
  <2>4. traj' = [traj EXCEPT !.rounds = Append(traj.rounds, r), !.best = m.bestRound]
    BY <1>6 DEF SaveRound
  <2> HIDE DEF r
  <2>5. Append(traj.rounds, r) \in Seq(RoundRec)
    BY <2>3 DEF RunType
  <2>6. traj' \in [rounds : Seq(RoundRec), best : Nat, status : Ends \cup {"running"},
                   wf : [baseline : Nat, diag : BOOLEAN, fails : Nat, noops : Nat]]
    BY <2>1, <2>4, <2>5 DEF RunType
  <2> QED BY <1>6, <2>6 DEF SaveRound, RunType, Pcs
<1>7. CASE CompleteRound
  BY <1>7 DEF CompleteRound, RunType, Pcs, NoPend
<1>8. CASE SaveWorkflow
  <2>1. /\ traj.wf.fails \in Nat /\ m.baseline \in Nat /\ FailThreshold \in Nat
    BY DEF RunType, Memory
  <2>2. PICK fails \in Nat, diag \in BOOLEAN :
          traj' = [traj EXCEPT !.wf = [baseline |-> m.baseline, fails |-> fails,
                                       noops |-> 0, diag |-> diag]]
    <3>1. Escalates(repair, m.prev) \in BOOLEAN
      BY DEF Escalates
    <3>2. (IF m.dec = "FAIL" THEN traj.wf.fails + 1 ELSE 0) \in Nat
      BY <2>1
    <3> QED BY <1>8, <3>1, <3>2 DEF SaveWorkflow
  <2>3. traj' \in [rounds : Seq(RoundRec), best : Nat, status : Ends \cup {"running"},
                   wf : [baseline : Nat, diag : BOOLEAN, fails : Nat, noops : Nat]]
    BY <2>1, <2>2 DEF RunType
  <2>4. m' \in Memory /\ pc' \in Pcs
    BY <1>8 DEF SaveWorkflow, RunType, Memory, Plans, Pcs
  <2>5. UNCHANGED <<pend, plan, best, base0, repair, orch, dir, work, gens, faults, restarts>>
    BY <1>8 DEF SaveWorkflow
  <2> QED BY <2>3, <2>4, <2>5 DEF RunType
<1>9. CASE DropPlan
  BY <1>9 DEF DropPlan, RunType, Pcs, Plans
<1> QED BY <1>1, <1>2, <1>3, <1>4, <1>5, <1>6, <1>7, <1>8, <1>9

LEMMA OneRoundOf ==
  ASSUME RunType, Increasing, NEW a \in Nat, NEW i \in RoundsOf(a)
  PROVE  /\ i \in DOMAIN traj.rounds /\ traj.rounds[i].attempt = a
         /\ Min(RoundsOf(a)) = i
<1>1. i \in DOMAIN traj.rounds /\ traj.rounds[i].attempt = a
  BY DEF RoundsOf
<1>2. DOMAIN traj.rounds \in SUBSET Int
  BY DEF RunType
<1>3. ASSUME NEW j \in RoundsOf(a)
      PROVE  j = i
  <2>1. j \in DOMAIN traj.rounds /\ traj.rounds[j].attempt = a
    BY DEF RoundsOf
  <2>2. ~(i < j) /\ ~(j < i)
    BY <1>1, <2>1 DEF Increasing
  <2> QED BY <1>1, <1>2, <2>1, <2>2
<1>4. RoundsOf(a) = {i}
  BY <1>3
<1> QED BY <1>1, <1>2, <1>4, MinOfOne

\* What run() has in hand when it resumes.
LEMMA ResumedIs ==
  ASSUME RunType, Increasing
  PROVE  /\ Resumed \in Memory
         /\ Resumed.best = best /\ Resumed.bestRound = traj.best
         /\ best # 0 => \A i \in DOMAIN traj.rounds :
              traj.rounds[i].attempt = traj.best => Resumed.bestRes = traj.rounds[i].res
         /\ (\A i \in DOMAIN traj.rounds : traj.rounds[i].attempt # traj.best) =>
              Resumed.bestRes = NoResult
         /\ Resumed.baseline = IF traj.wf.baseline # 0 THEN traj.wf.baseline
                               ELSE IF Valid(Resumed.bestRes) THEN traj.best ELSE 0
         /\ Resumed.baseline = 0 /\ repair.bundle # 0 =>
              Resumed.cur = repair.bundle /\ Resumed.prev = repair.eval
         /\ Resumed.cur \in {repair.bundle, best, work}
         /\ Resumed.base = 0 /\ Resumed.cand = 0
<1> DEFINE bestRes == IF best # 0 /\ RoundsOf(traj.best) # {}
                      THEN traj.rounds[Min(RoundsOf(traj.best))].res ELSE NoResult
           baseline == IF traj.wf.baseline # 0 THEN traj.wf.baseline
                       ELSE IF Valid(bestRes) THEN traj.best ELSE 0
           fromRepair == baseline = 0 /\ repair.bundle # 0
           cur == IF fromRepair THEN repair.bundle ELSE IF best # 0 THEN best ELSE work
           prev == IF fromRepair THEN repair.eval
                   ELSE IF traj.rounds # <<>> THEN traj.rounds[Len(traj.rounds)].res
                   ELSE NoResult
<1>1. /\ traj.rounds \in Seq(RoundRec) /\ traj.best \in Nat /\ traj.wf.baseline \in Nat
      /\ repair.bundle \in Nat /\ repair.eval \in Results /\ best \in Nat /\ work \in Nat
      /\ plan \in Plans
  BY DEF RunType
<1>2. \A i \in DOMAIN traj.rounds : traj.rounds[i].res \in Results
  <2>1. \A i \in DOMAIN traj.rounds : traj.rounds[i] \in RoundRec
    BY <1>1
  <2> QED BY <2>1 DEF RoundRec, Results
<1>3. Resumed = [NoMemory EXCEPT
                   !.best = best, !.bestRes = bestRes, !.bestRound = traj.best,
                   !.baseline = baseline, !.plan = plan, !.cur = cur, !.prev = prev]
  BY DEF Resumed
<1>4. bestRes \in Results
  <2>1. CASE RoundsOf(traj.best) # {}
    BY <1>1, <1>2, <2>1, OneRoundOf DEF Results
  <2>2. CASE RoundsOf(traj.best) = {}
    BY <2>2 DEF Results
  <2> QED BY <2>1, <2>2
<1>5. prev \in Results
  <2>1. CASE traj.rounds = <<>>
    BY <1>1, <2>1 DEF Results
  <2>2. CASE traj.rounds # <<>>
    <3>1. Len(traj.rounds) \in DOMAIN traj.rounds
      BY <1>1, <2>2
    <3> QED BY <1>1, <3>1, <1>2 DEF Results
  <2> QED BY <2>1, <2>2
<1>6. baseline \in Nat /\ cur \in Nat /\ cur \in {repair.bundle, best, work}
  BY <1>1
<1>7. best # 0 => \A i \in DOMAIN traj.rounds :
        traj.rounds[i].attempt = traj.best => bestRes = traj.rounds[i].res
  BY <1>1, OneRoundOf DEF RoundsOf
<1>8. (\A i \in DOMAIN traj.rounds : traj.rounds[i].attempt # traj.best) => bestRes = NoResult
  BY DEF RoundsOf
<1>9. /\ baseline = IF traj.wf.baseline # 0 THEN traj.wf.baseline
                    ELSE IF Valid(bestRes) THEN traj.best ELSE 0
      /\ baseline = 0 /\ repair.bundle # 0 => cur = repair.bundle /\ prev = repair.eval
  OBVIOUS
<1> HIDE DEF bestRes, baseline, fromRepair, cur, prev
<1>10. /\ Resumed \in Memory
       /\ Resumed.best = best /\ Resumed.bestRound = traj.best
       /\ Resumed.bestRes = bestRes /\ Resumed.baseline = baseline
       /\ Resumed.cur = cur /\ Resumed.prev = prev
       /\ Resumed.base = 0 /\ Resumed.cand = 0
  BY <1>1, <1>3, <1>4, <1>5, <1>6
  DEF NoMemory, Memory, Results, Phases, Plans, Decisions, RepairOutcomes, Ends
<1> QED BY <1>6, <1>7, <1>8, <1>9, <1>10

LEMMA SettledIs ==
  ASSUME RunType, NEW r \in Outcomes, NEW outcome \in RepairOutcomes
  PROVE  LET s == Settled(r, outcome)
         IN  /\ s \in Memory
             /\ s.res = r /\ s.outcome = outcome /\ s.dec = DecisionOn(r, outcome)
             /\ s.phase = m.phase /\ s.attempt = m.attempt /\ s.base = m.base
             /\ s.baseRes = m.baseRes /\ s.cand = m.cand
             /\ Keeps(r) =>
                  /\ s.baseline = IF Bootstrapping THEN m.attempt ELSE m.baseline
                  /\ s.best = m.cand /\ s.bestRes = r /\ s.bestRound = m.attempt
             /\ ~Keeps(r) =>
                  /\ s.baseline = m.baseline /\ s.best = m.best
                  /\ s.bestRes = m.bestRes /\ s.bestRound = m.bestRound
             /\ ~Keeps(r) /\ Bootstrapping =>
                  IF Accepts(outcome) THEN s.cur = m.cand /\ s.prev = r
                                      ELSE s.cur = m.base /\ s.prev = m.baseRes
             /\ s.cur \in {m.cand, m.base, m.best, m.cur}
<1>1. m \in Memory /\ r \in Results /\ DecisionOn(r, outcome) \in Decisions
  BY DecisionType DEF RunType, Results
<1> DEFINE round == [m EXCEPT !.res = r, !.outcome = outcome, !.dec = DecisionOn(r, outcome)]
<1>2. /\ round \in Memory
      /\ round.res = r /\ round.outcome = outcome /\ round.dec = DecisionOn(r, outcome)
      /\ round.phase = m.phase /\ round.attempt = m.attempt /\ round.base = m.base
      /\ round.baseRes = m.baseRes /\ round.cand = m.cand /\ round.baseline = m.baseline
      /\ round.best = m.best /\ round.bestRes = m.bestRes /\ round.bestRound = m.bestRound
      /\ round.cur = m.cur /\ round.prev = m.prev
  BY <1>1 DEF Memory
<1>3. CASE Keeps(r)
  <2>1. Settled(r, outcome) =
          [round EXCEPT !.baseline = IF Bootstrapping THEN m.attempt ELSE m.baseline,
                        !.best = m.cand, !.bestRes = r, !.bestRound = m.attempt,
                        !.cur = m.cand, !.prev = r]
    BY <1>2, <1>3 DEF Settled
  <2>2. (IF Bootstrapping THEN m.attempt ELSE m.baseline) \in Nat
    BY <1>1 DEF Memory
  <2>3. m.cand \in Nat /\ m.attempt \in Nat
    BY <1>1 DEF Memory
  <2> DEFINE b == IF Bootstrapping THEN m.attempt ELSE m.baseline
             s == Settled(r, outcome)
  <2> HIDE DEF round, b, s
  <2>4. s = [round EXCEPT !.baseline = b, !.best = m.cand, !.bestRes = r,
                          !.bestRound = m.attempt, !.cur = m.cand, !.prev = r]
    BY <2>1 DEF b, s
  <2>5. s \in Memory
    BY <1>1, <1>2, <2>2, <2>3, <2>4 DEF Memory, b
  <2>6. /\ s.res = r /\ s.outcome = outcome /\ s.dec = DecisionOn(r, outcome)
        /\ s.phase = m.phase /\ s.attempt = m.attempt /\ s.base = m.base
        /\ s.baseRes = m.baseRes /\ s.cand = m.cand
        /\ s.baseline = b /\ s.best = m.cand /\ s.bestRes = r /\ s.bestRound = m.attempt
        /\ s.cur = m.cand
    BY <1>2, <2>4 DEF Memory
  <2> QED BY <1>3, <2>5, <2>6 DEF b, s
<1>4. CASE ~Keeps(r) /\ Bootstrapping /\ Accepts(outcome)
  <2>1. Settled(r, outcome) = [round EXCEPT !.cur = m.cand, !.prev = r]
    BY <1>4 DEF Settled
  <2> HIDE DEF round
  <2> QED BY <1>1, <1>2, <1>4, <2>1 DEF Memory
<1>5. CASE ~Keeps(r) /\ Bootstrapping /\ ~Accepts(outcome)
  <2>1. Settled(r, outcome) = [round EXCEPT !.cur = m.base, !.prev = m.baseRes]
    BY <1>5 DEF Settled
  <2> HIDE DEF round
  <2> QED BY <1>1, <1>2, <1>5, <2>1 DEF Memory
<1>6. CASE ~Keeps(r) /\ ~Bootstrapping
  <2>1. Settled(r, outcome) = IF m.best # 0 THEN [round EXCEPT !.cur = m.best, !.prev = m.bestRes]
                              ELSE round
    BY <1>6 DEF Settled
  <2> HIDE DEF round
  <2>2. CASE m.best # 0
    <3>1. m.best \in Nat /\ m.bestRes \in Results
      BY <1>1 DEF Memory
    <3> DEFINE s == Settled(r, outcome)
    <3>2. s = [round EXCEPT !.cur = m.best, !.prev = m.bestRes]
      BY <2>1, <2>2
    <3> HIDE DEF s
    <3>3. s \in Memory
      BY <1>2, <3>1, <3>2 DEF Memory
    <3>4. /\ s.res = r /\ s.outcome = outcome /\ s.dec = DecisionOn(r, outcome)
          /\ s.phase = m.phase /\ s.attempt = m.attempt /\ s.base = m.base
          /\ s.baseRes = m.baseRes /\ s.cand = m.cand /\ s.baseline = m.baseline
          /\ s.best = m.best /\ s.bestRes = m.bestRes /\ s.bestRound = m.bestRound
          /\ s.cur = m.best
      BY <1>2, <3>2 DEF Memory
    <3> QED BY <1>6, <3>3, <3>4 DEF s
  <2>3. CASE m.best = 0
    BY <1>1, <1>2, <1>6, <2>1, <2>3
  <2> QED BY <2>2, <2>3
<1> QED BY <1>3, <1>4, <1>5, <1>6

LEMMA EvaluateIs ==
  ASSUME RunType, Evaluate
  PROVE  \E r \in Outcomes :
           /\ r \in Measured
           /\ dir' = [dir EXCEPT !.truth = r]
           /\ m' = Settled(r, Decide(m.baseRes, r, repair.cleared))
           /\ pc' = CASE DecisionOn(r, Decide(m.baseRes, r, repair.cleared)) = "BASELINE_KEEP" -> "baseline"
                      [] DecisionOn(r, Decide(m.baseRes, r, repair.cleared)) = "KEEP" -> "best"
                      [] OTHER -> "restore"
<1>1. PICK r \in Measured :
        /\ dir' = [dir EXCEPT !.truth = r]
        /\ m' = Settled(r, Decide(m.baseRes, r, repair.cleared))
  BY DEF Evaluate
<1>2. r \in Outcomes
  BY DEF Measured, RunType, Results
<1>3. m'.dec = DecisionOn(r, Decide(m.baseRes, r, repair.cleared))
  BY <1>1, <1>2, SettledIs, DecideType
<1>4. pc' = CASE m'.dec = "BASELINE_KEEP" -> "baseline"
              [] m'.dec = "KEEP" -> "best"
              [] OTHER -> "restore"
  BY DEF Evaluate
<1> QED BY <1>1, <1>2, <1>3, <1>4

LEMMA EvaluateTyped ==
  ASSUME RunType, Evaluate
  PROVE  RunType'
<1>1. PICK r \in Outcomes :
        /\ dir' = [dir EXCEPT !.truth = r]
        /\ m' = Settled(r, Decide(m.baseRes, r, repair.cleared))
  BY EvaluateIs
<1>2. m' \in Memory
  BY <1>1, SettledIs, DecideType
<1>3. dir' \in [attempt : Nat, base : Nat, cand : Nat, truth : Results]
  BY <1>1 DEF RunType, Results
<1>4. pc' \in Pcs
  BY DEF Evaluate, Pcs, Settling
<1> QED BY <1>2, <1>3, <1>4 DEF Evaluate, RunType

LEMMA RestTyped ==
  ASSUME RunType, Increasing, Start \/ Finish \/ MarkStatus \/ Die
  PROVE  RunType'
<1> DEFINE T == [rounds : Seq(RoundRec), best : Nat, status : Ends \cup {"running"},
                 wf : [baseline : Nat, diag : BOOLEAN, fails : Nat, noops : Nat]]
<1>1. NoMemory \in Memory
  BY DEF NoMemory, Memory, Results, Phases, Plans, Decisions, RepairOutcomes, Ends
<1>2. traj \in T /\ m \in Memory /\ m.best \in Nat /\ m.baseline \in Nat /\ m.stop \in Ends
  BY DEF RunType, Memory
<1>3. CASE Start
  <2>1. Resumed \in Memory /\ Resumed.cur \in Nat
    BY ResumedIs DEF Memory
  <2>2. traj' \in T
    BY <1>2, <1>3 DEF Start
  <2>3. /\ m' = Resumed /\ work' = Resumed.cur /\ restarts' = restarts + 1 /\ pc' = "preflight"
        /\ UNCHANGED <<pend, plan, best, base0, repair, orch, dir, gens, faults>>
    BY <1>3 DEF Start
  <2>4. m' \in Memory /\ work' \in Nat /\ restarts' \in Nat /\ pc' \in Pcs
    BY <2>1, <2>3 DEF RunType, Pcs
  <2> QED BY <2>2, <2>3, <2>4 DEF RunType
<1>4. CASE Finish
  <2>1. traj' = [traj EXCEPT !.wf.baseline = m.baseline]
    BY <1>4 DEF Finish
  <2>2. traj' \in T
    BY <1>2, <2>1
  <2> QED BY <1>2, <1>4, <2>2 DEF Finish, RunType, Pcs
<1>5. CASE MarkStatus
  <2>1. traj' \in T
    BY <1>2, <1>5 DEF MarkStatus
  <2> QED BY <1>1, <1>5, <2>1 DEF MarkStatus, RunType, Pcs
<1>6. CASE Die
  BY <1>1, <1>6 DEF Die, RunType, Pcs
<1> QED BY <1>3, <1>4, <1>5, <1>6

LEMMA TypeStep ==
  ASSUME RunType, Increasing, pc \in Settling => m.res \in Outcomes, Next
  PROVE  RunType'
BY EditingTyped, NoOpTyped, SettleTyped, EvaluateTyped, RestTyped DEF Next, Work, Editing

-----------------------------------------------------------------------------
(* What each step writes *)

SameRounds ==
  traj'.rounds = traj.rounds /\ traj'.best = traj.best
SameTraj == SameRounds /\ traj'.wf.baseline = traj.wf.baseline

\* What the process has in hand between rounds, and for the one under way.
SameBest ==
  /\ m'.cur = m.cur /\ m'.prev = m.prev /\ m'.best = m.best /\ m'.bestRes = m.bestRes
  /\ m'.bestRound = m.bestRound /\ m'.baseline = m.baseline
SameVerdict == m'.res = m.res /\ m'.dec = m.dec /\ m'.outcome = m.outcome
SameAim ==
  m'.phase = m.phase /\ m'.attempt = m.attempt /\ m'.base = m.base /\ m'.baseRes = m.baseRes
SameMind == SameBest /\ SameAim /\ m'.cand = m.cand /\ SameVerdict

Goes ==
  \/ pc = "preflight" /\ pc' = "head"
  \/ pc \in {"preflight", "head", "plan", "generate", "compare", "noop-workflow"} /\ pc' = "finish"
  \/ pc = "plan" /\ pc' = "adopt"
  \/ pc = "adopt" /\ pc' = "planned"
  \/ pc = "planned" /\ pc' = "edit"
  \/ pc = "compare" /\ m.cand = m.base /\ pc' = "noop-plan"
  \/ pc = "noop-plan" /\ pc' = "noop-pend"
  \/ pc \in {"noop-workflow", "unlink"} /\ pc' = "head"
  \/ pc = "baseline" /\ pc' = "best"
  \/ pc = "restore" /\ m.phase = "bootstrap" /\ pc' = "observe"
  \/ pc = "restore" /\ m.phase # "bootstrap" /\ pc' = "item"
  \/ pc = "item" /\ pc' = "round"

\* A step that changes neither the record nor what the process knows.
Quiet ==
  /\ SameTraj /\ SameMind /\ Goes
  /\ UNCHANGED <<pend, best, repair, dir, gens, restarts>>
  /\ work' \in {work, m.base, m.cur}

QuietAction ==
  \/ Preflight \/ (LoopHead /\ StopReason # "none") \/ PlanFails \/ WritePlan \/ AdoptPlan
  \/ ClearDiagnosis \/ InsufficientDiagnosis \/ GenerateFails \/ RecordNoOp \/ SettleNoOp
  \/ DiagnoseNoOp \/ EvaluatorFails \/ WriteBaseline \/ RestoreWork \/ SettleItem \/ DropPlan

LEMMA StopKeeps ==
  ASSUME RunType, NEW reason, Stop(reason)
  PROVE  SameMind /\ pc' = "finish"
BY DEF Stop, RunType, Memory, SameMind, SameBest, SameAim, SameVerdict

LEMMA PlanKeeps ==
  ASSUME RunType, NEW p, m' = [m EXCEPT !.plan = p]
  PROVE  SameMind
BY DEF RunType, Memory, SameMind, SameBest, SameAim, SameVerdict

LEMMA QuietSteps ==
  ASSUME RunType, QuietAction
  PROVE  Quiet
<1>0. m' = m => SameMind
  BY DEF SameMind, SameBest, SameAim, SameVerdict
<1>00. traj' = traj => SameTraj
  BY DEF SameTraj, SameRounds
<1>1. CASE Preflight
  BY <1>0, <1>00, <1>1, StopKeeps DEF Preflight, Quiet, Goes
<1>2. CASE LoopHead /\ StopReason # "none"
  BY <1>0, <1>00, <1>2, StopKeeps DEF LoopHead, Quiet, Goes
<1>3. CASE PlanFails
  BY <1>0, <1>00, <1>3, StopKeeps DEF PlanFails, OrchestrationFailure, Quiet, Goes
<1>4. CASE WritePlan
  BY <1>0, <1>00, <1>4, PlanKeeps DEF WritePlan, Quiet, Goes
<1>5. CASE AdoptPlan
  <2>1. SameTraj
    BY <1>5 DEF AdoptPlan, SameTraj, SameRounds, RunType
  <2> QED BY <1>0, <1>5, <2>1 DEF AdoptPlan, Quiet, Goes
<1>6. CASE ClearDiagnosis
  <2>1. SameTraj
    BY <1>6 DEF ClearDiagnosis, SameTraj, SameRounds, RunType
  <2> QED BY <1>0, <1>6, <2>1 DEF ClearDiagnosis, Quiet, Goes
<1>7. CASE InsufficientDiagnosis
  BY <1>00, <1>7, StopKeeps DEF InsufficientDiagnosis, Quiet, Goes
<1>8. CASE GenerateFails
  BY <1>00, <1>8, StopKeeps DEF GenerateFails, OrchestrationFailure, Quiet, Goes
<1>9. CASE RecordNoOp
  BY <1>0, <1>00, <1>9 DEF RecordNoOp, IsNoOp, Quiet, Goes
<1>10. CASE SettleNoOp
  BY <1>0, <1>00, <1>10 DEF SettleNoOp, Quiet, Goes
<1>11. CASE DiagnoseNoOp
  <2>1. SameTraj
    BY <1>11 DEF DiagnoseNoOp, SameTraj, SameRounds, RunType
  <2>2. \/ m' = [m EXCEPT !.plan = "none", !.stop = "paused"] /\ pc' = "finish"
        \/ m' = [m EXCEPT !.plan = "none"] /\ pc' = "head"
    BY <1>11 DEF DiagnoseNoOp
  <2>3. SameMind
    <3>1. CASE m' = [m EXCEPT !.plan = "none", !.stop = "paused"]
      BY <3>1 DEF RunType, Memory, SameMind, SameBest, SameAim, SameVerdict
    <3> QED BY <2>2, <3>1, PlanKeeps
  <2> QED BY <1>11, <2>1, <2>2, <2>3 DEF DiagnoseNoOp, Quiet, Goes
<1>12. CASE EvaluatorFails
  BY <1>00, <1>12, StopKeeps DEF EvaluatorFails, OrchestrationFailure, Quiet, Goes
<1>13. CASE WriteBaseline
  BY <1>0, <1>00, <1>13 DEF WriteBaseline, Quiet, Goes
<1>14. CASE RestoreWork
  BY <1>0, <1>00, <1>14 DEF RestoreWork, AfterFiles, Quiet, Goes
<1>15. CASE SettleItem
  BY <1>0, <1>00, <1>15 DEF SettleItem, Quiet, Goes
<1>16. CASE DropPlan
  BY <1>0, <1>00, <1>16 DEF DropPlan, Quiet, Goes
<1> QED BY <1>1, <1>2, <1>3, <1>4, <1>5, <1>6, <1>7, <1>8, <1>9, <1>10, <1>11, <1>12, <1>13,
           <1>14, <1>15, <1>16 DEF QuietAction

\* The head of the loop, when it begins a round.
Begins ==
  /\ pc = "head" /\ StopReason = "none" /\ pc' \in {"plan", "edit"}
  /\ SameTraj /\ SameBest /\ m'.cand = m.cand /\ SameVerdict
  /\ pend'.round = EvaluationRound /\ pend'.attempt = NextAttempt
  /\ pend'.phase = IF Evaluating THEN "EVAL" ELSE "EDIT"
  /\ m'.attempt = NextAttempt /\ m'.base = m.cur /\ m'.baseRes = m.prev
  /\ m'.phase = IF m.baseline = 0 THEN "bootstrap" ELSE "optimization"
  /\ UNCHANGED <<best, repair, dir, work, gens, restarts>>

LEMMA HeadBegins ==
  ASSUME RunType, LoopHead, StopReason = "none"
  PROVE  Begins
<1>1. /\ pend' = [round |-> EvaluationRound, attempt |-> NextAttempt,
                  phase |-> IF Evaluating THEN "EVAL" ELSE "EDIT"]
      /\ \E planned, diag :
           m' = [m EXCEPT !.plan = planned, !.diag = diag,
                          !.phase = IF m.baseline = 0 THEN "bootstrap" ELSE "optimization",
                          !.attempt = NextAttempt, !.base = m.cur, !.baseRes = m.prev]
      /\ pc = "head" /\ pc' \in {"plan", "edit"}
      /\ UNCHANGED <<traj, best, repair, dir, work, gens, restarts>>
  BY DEF LoopHead
<1>2. PICK planned, diag :
        m' = [m EXCEPT !.plan = planned, !.diag = diag,
                       !.phase = IF m.baseline = 0 THEN "bootstrap" ELSE "optimization",
                       !.attempt = NextAttempt, !.base = m.cur, !.baseRes = m.prev]
  BY <1>1
<1>3. m \in Memory
  BY DEF RunType
<1>4. /\ SameBest /\ m'.cand = m.cand /\ SameVerdict
      /\ m'.attempt = NextAttempt /\ m'.base = m.cur /\ m'.baseRes = m.prev
      /\ m'.phase = IF m.baseline = 0 THEN "bootstrap" ELSE "optimization"
  BY ONLY <1>2, <1>3 DEF Memory, SameBest, SameVerdict
<1> QED BY <1>1, <1>4 DEF Begins, SameTraj, SameRounds

\* The candidate: from its checkpoint, or generated from the base.
Reuses ==
  /\ pc = "edit" /\ HasCheckpoint /\ pc' = "compare"
  /\ SameTraj /\ SameBest /\ SameVerdict
  /\ m'.phase = m.phase /\ m'.attempt = m.attempt /\ m'.baseRes = m.baseRes
  /\ m'.base = dir.base /\ m'.cand = dir.cand /\ work' = dir.cand
  /\ UNCHANGED <<pend, best, repair, dir, gens, restarts>>

Generates ==
  /\ pc = "generate" /\ pc' = "checkpoint"
  /\ SameTraj /\ SameBest /\ SameAim /\ SameVerdict
  /\ m'.cand = work'
  /\ (gens' = gens + 1 /\ work' = gens + 1) \/ (gens' = gens /\ work' = m.base)
  /\ UNCHANGED <<pend, best, repair, dir, restarts>>

LEMMA Prepares ==
  ASSUME RunType
  PROVE  (ReuseCheckpoint => Reuses) /\ (Generate => Generates)
<1>1. m \in Memory
  BY DEF RunType
<1>2. ASSUME ReuseCheckpoint
      PROVE  Reuses
  BY <1>1, <1>2 DEF ReuseCheckpoint, Reuses, Memory, SameTraj, SameRounds, SameBest, SameVerdict
<1>3. ASSUME Generate
      PROVE  Generates
  <2>1. m' = [m EXCEPT !.cand = work']
    BY <1>3 DEF Generate
  <2>2. SameBest /\ SameAim /\ SameVerdict /\ m'.cand = work'
    BY <1>1, <2>1 DEF Memory, SameBest, SameAim, SameVerdict
  <2>3. /\ pc = "generate" /\ pc' = "checkpoint"
        /\ (gens' = gens + 1 /\ work' = gens + 1) \/ (gens' = gens /\ work' = m.base)
        /\ UNCHANGED <<traj, pend, best, repair, dir, restarts>>
    BY <1>3 DEF Generate
  <2> QED BY ONLY <2>2, <2>3 DEF Generates, SameTraj, SameRounds
<1> QED BY <1>2, <1>3

\* A step that only writes files: the base, the checkpoint, the phase of the
\* pending attempt, its end, the best bundle and the repair state.
Dir(attempt, base, cand, truth) ==
  dir'.attempt = attempt /\ dir'.base = base /\ dir'.cand = cand /\ dir'.truth = truth

BasesOn ==
  /\ pc = "edit" /\ ~HasCheckpoint /\ pc' = "generate"
  /\ SameTraj /\ SameMind /\ Dir(m.attempt, m.base, 0, NoResult)
  /\ UNCHANGED <<pend, best, repair, work, gens, restarts>>
Checkpoints ==
  /\ pc = "checkpoint" /\ pc' = "mark"
  /\ SameTraj /\ SameMind /\ Dir(dir.attempt, dir.base, m.cand, dir.truth)
  /\ UNCHANGED <<pend, best, repair, work, gens, restarts>>
Marks ==
  /\ pc = "mark" /\ pc' = "compare"
  /\ SameTraj /\ SameMind
  /\ pend'.round = pend.round /\ pend'.attempt = pend.attempt /\ pend'.phase = "EVAL"
  /\ UNCHANGED <<best, repair, dir, work, gens, restarts>>
Completes ==
  /\ (pc = "noop-pend" /\ pc' = "noop-workflow") \/ (pc = "complete" /\ pc' = "workflow")
  /\ SameTraj /\ SameMind
  /\ pend' = NoPend /\ pend'.round = 0 /\ pend'.phase = "none"
  /\ UNCHANGED <<best, repair, dir, work, gens, restarts>>
Lands ==
  /\ pc = "best"
  /\ pc' = IF m.phase = "bootstrap" THEN "observe" ELSE "item"
  /\ SameTraj /\ SameMind /\ best' = m.cand
  /\ UNCHANGED <<pend, repair, dir, work, gens, restarts>>
Observes ==
  /\ pc = "observe" /\ pc' = "item"
  /\ SameTraj /\ SameMind
  /\ repair'.bundle = IF Accepts(m.outcome) THEN m.cand ELSE repair.bundle
  /\ repair'.eval = IF Accepts(m.outcome) THEN m.res ELSE repair.eval
  /\ repair'.cleared = IF Accepts(m.outcome)
                       THEN (repair.cleared \cup Cleared(m.baseRes, m.res)) \ m.res.errs
                       ELSE repair.cleared
  /\ UNCHANGED <<pend, best, dir, work, gens, restarts>>

LEMMA FileSteps ==
  ASSUME RunType
  PROVE  /\ WriteBase => BasesOn
         /\ Checkpoint => Checkpoints
         /\ MarkEval => Marks
         /\ CompleteNoOp \/ CompleteRound => Completes
         /\ WriteBest => Lands
         /\ ObserveRepair => Observes
<1>0. m' = m => SameMind
  BY DEF SameMind, SameBest, SameAim, SameVerdict
<1>00. traj' = traj => SameTraj
  BY DEF SameTraj, SameRounds
<1>1. WriteBase => BasesOn
  BY <1>0, <1>00 DEF WriteBase, BasesOn, Dir, NoDir
<1>2. Checkpoint => Checkpoints
  BY <1>0, <1>00 DEF Checkpoint, Checkpoints, Dir, RunType
<1>3. MarkEval => Marks
  BY <1>0, <1>00 DEF MarkEval, Marks, RunType
<1>4. CompleteNoOp \/ CompleteRound => Completes
  <2>1. pend' = NoPend => pend'.round = 0 /\ pend'.phase = "none"
    BY DEF NoPend
  <2>2. CompleteNoOp => Completes
    BY <1>0, <1>00, <2>1 DEF CompleteNoOp, Completes
  <2>3. CompleteRound => Completes
    BY <1>0, <1>00, <2>1 DEF CompleteRound, Completes
  <2> QED BY <2>2, <2>3
<1>5. WriteBest => Lands
  BY <1>0, <1>00 DEF WriteBest, Lands, AfterFiles
<1>6. ASSUME ObserveRepair
      PROVE  Observes
  <2>1. /\ repair'.bundle = IF Accepts(m.outcome) THEN m.cand ELSE repair.bundle
        /\ repair'.eval = IF Accepts(m.outcome) THEN m.res ELSE repair.eval
        /\ repair'.cleared = IF Accepts(m.outcome)
                             THEN (repair.cleared \cup Cleared(m.baseRes, m.res)) \ m.res.errs
                             ELSE repair.cleared
    <3>1. repair' = Observe(repair, m.baseRes, m.res, m.cand, m.outcome)
      BY <1>6 DEF ObserveRepair
    <3>2. repair \in [bundle : Nat, eval : Results, cleared : SUBSET Errors,
                      failed : [Errors -> Nat]]
      BY DEF RunType
    <3>3. CASE Accepts(m.outcome)
      BY <3>1, <3>2, <3>3 DEF Observe
    <3>4. CASE ~Accepts(m.outcome)
      BY <3>1, <3>2, <3>4 DEF Observe
    <3> QED BY <3>3, <3>4
  <2> QED BY <1>0, <1>00, <1>6, <2>1 DEF ObserveRepair, Observes
<1> QED BY <1>1, <1>2, <1>3, <1>4, <1>5, <1>6

\* The evaluation of a candidate, and what the process then has in hand.
Evaluates(r) ==
  /\ pc = "compare" /\ m.cand # m.base /\ r \in Outcomes /\ r \in Measured
  /\ SameTraj /\ SameAim /\ m'.cand = m.cand
  /\ Dir(dir.attempt, dir.base, dir.cand, r)
  /\ m'.res = r /\ m'.outcome = Decide(m.baseRes, r, repair.cleared)
  /\ m'.cur \in {m.cand, m.base, m.best, m.cur}
  /\ \/ /\ Keeps(r)
        /\ m.baseline = 0 => pc' = "baseline" /\ m'.dec = "BASELINE_KEEP" /\ m'.baseline = m.attempt
        /\ m.baseline # 0 => pc' = "best" /\ m'.dec = "KEEP" /\ m'.baseline = m.baseline
        /\ m'.best = m.cand /\ m'.bestRes = r /\ m'.bestRound = m.attempt
     \/ /\ ~Keeps(r)
        /\ pc' = "restore" /\ m'.dec \notin Kept
        /\ m'.baseline = m.baseline /\ m'.best = m.best
        /\ m'.bestRes = m.bestRes /\ m'.bestRound = m.bestRound
        /\ m.baseline = 0 => IF Accepts(m'.outcome) THEN m'.cur = m.cand /\ m'.prev = r
                                                    ELSE m'.cur = m.base /\ m'.prev = m.baseRes
        /\ Valid(r) => m'.dec = "DISCARD"
  /\ UNCHANGED <<pend, best, repair, work, gens, restarts>>

LEMMA EvaluateStep ==
  ASSUME RunType, Evaluate
  PROVE  \E r \in Outcomes : Evaluates(r)
<1>1. PICK r \in Outcomes :
        /\ r \in Measured
        /\ dir' = [dir EXCEPT !.truth = r]
        /\ m' = Settled(r, Decide(m.baseRes, r, repair.cleared))
        /\ pc' = CASE DecisionOn(r, Decide(m.baseRes, r, repair.cleared)) = "BASELINE_KEEP" -> "baseline"
                   [] DecisionOn(r, Decide(m.baseRes, r, repair.cleared)) = "KEEP" -> "best"
                   [] OTHER -> "restore"
  BY EvaluateIs
<1> DEFINE outcome == Decide(m.baseRes, r, repair.cleared)
<1>2. outcome \in RepairOutcomes
  BY DecideType
<1> HIDE DEF outcome
<1>3. /\ m' = Settled(r, outcome)
      /\ pc' = CASE DecisionOn(r, outcome) = "BASELINE_KEEP" -> "baseline"
                 [] DecisionOn(r, outcome) = "KEEP" -> "best"
                 [] OTHER -> "restore"
  BY <1>1 DEF outcome
<1>4. /\ m'.res = r /\ m'.outcome = outcome /\ m'.dec = DecisionOn(r, outcome)
      /\ SameAim /\ m'.cand = m.cand
      /\ Keeps(r) =>
           /\ m'.baseline = IF Bootstrapping THEN m.attempt ELSE m.baseline
           /\ m'.best = m.cand /\ m'.bestRes = r /\ m'.bestRound = m.attempt
      /\ ~Keeps(r) =>
           /\ m'.baseline = m.baseline /\ m'.best = m.best
           /\ m'.bestRes = m.bestRes /\ m'.bestRound = m.bestRound
      /\ ~Keeps(r) /\ Bootstrapping =>
           IF Accepts(outcome) THEN m'.cur = m.cand /\ m'.prev = r
                               ELSE m'.cur = m.base /\ m'.prev = m.baseRes
      /\ m'.cur \in {m.cand, m.base, m.best, m.cur}
  BY <1>2, <1>3, SettledIs DEF SameAim
<1>5. Dir(dir.attempt, dir.base, dir.cand, r)
  BY <1>1 DEF Dir, RunType
<1>6. /\ pc = "compare" /\ m.cand # m.base
      /\ SameTraj
      /\ UNCHANGED <<pend, best, repair, work, gens, restarts>>
  BY DEF Evaluate, IsNoOp, SameTraj, SameRounds
<1>7. CASE Keeps(r)
  <2>1. DecisionOn(r, outcome) = IF m.baseline = 0 THEN "BASELINE_KEEP" ELSE "KEEP"
    BY <1>7 DEF DecisionOn, Bootstrapping
  <2>2. /\ m.baseline = 0 => pc' = "baseline" /\ m'.dec = "BASELINE_KEEP" /\ m'.baseline = m.attempt
        /\ m.baseline # 0 => pc' = "best" /\ m'.dec = "KEEP" /\ m'.baseline = m.baseline
    BY <1>3, <1>4, <1>7, <2>1 DEF Bootstrapping
  <2> QED BY <1>1, <1>4, <1>5, <1>6, <1>7, <2>2 DEF Evaluates, outcome
<1>8. CASE ~Keeps(r)
  <2>1. DecisionOn(r, outcome) \in {"PARTIAL_KEEP", "FAIL", "DISCARD"}
    BY <1>8 DEF DecisionOn
  <2>2. pc' = "restore" /\ m'.dec \notin Kept
    BY <1>3, <1>4, <2>1 DEF Kept
  <2>3. Valid(r) => m'.dec = "DISCARD"
    BY <1>4, <1>8 DEF DecisionOn, Keeps
  <2> QED BY <1>1, <1>4, <1>5, <1>6, <1>8, <2>2, <2>3 DEF Evaluates, outcome, Bootstrapping
<1> QED BY <1>7, <1>8

\* The round joins the record.
N == Len(traj.rounds)
Records ==
  /\ pc = "round" /\ pc' = "complete" /\ SameMind
  /\ N \in Nat /\ DOMAIN traj.rounds = 1..N
  /\ Len(traj'.rounds) = N + 1 /\ DOMAIN traj'.rounds = 1..(N + 1)
  /\ \A i \in 1..N : traj'.rounds[i] = traj.rounds[i]
  /\ traj'.rounds[N + 1].attempt = m.attempt /\ traj'.rounds[N + 1].bundle = m.cand
  /\ traj'.rounds[N + 1].phase = m.phase /\ traj'.rounds[N + 1].dec = m.dec
  /\ traj'.rounds[N + 1].res = m.res
  /\ traj'.best = m.bestRound /\ traj'.wf.baseline = traj.wf.baseline
  /\ UNCHANGED <<pend, best, repair, dir, work, gens, restarts>>

LEMMA SaveRecords ==
  ASSUME RunType, SaveRound
  PROVE  Records
<1> DEFINE r == [attempt |-> m.attempt, bundle |-> m.cand, phase |-> m.phase,
                 dec |-> m.dec, res |-> m.res]
<1>1. traj' = [traj EXCEPT !.rounds = Append(traj.rounds, r), !.best = m.bestRound]
  BY DEF SaveRound
<1>2. /\ r.attempt = m.attempt /\ r.bundle = m.cand /\ r.phase = m.phase
      /\ r.dec = m.dec /\ r.res = m.res
  OBVIOUS
<1> HIDE DEF r
<1>3. traj.rounds \in Seq(RoundRec)
  BY DEF RunType
<1>4. /\ traj'.rounds = Append(traj.rounds, r) /\ traj'.best = m.bestRound
      /\ traj'.wf.baseline = traj.wf.baseline
  BY <1>1 DEF RunType
<1>5. /\ N \in Nat /\ DOMAIN traj.rounds = 1..N
      /\ Len(traj'.rounds) = N + 1 /\ DOMAIN traj'.rounds = 1..(N + 1)
      /\ \A i \in 1..N : traj'.rounds[i] = traj.rounds[i]
      /\ traj'.rounds[N + 1] = r
  BY <1>3, <1>4 DEF N
<1> QED BY <1>2, <1>4, <1>5 DEF SaveRound, Records, SameMind, SameBest, SameAim, SameVerdict

\* The workflow is written, after a round or at the end of the run.
Saves ==
  /\ SameRounds /\ SameMind /\ traj'.wf.baseline = m.baseline
  /\ \/ pc = "workflow" /\ pc' \in {"unlink", "head"}
     \/ pc = "finish" /\ pc' = "status"
  /\ work' \in {work, m.best}
  /\ UNCHANGED <<pend, best, repair, dir, gens, restarts>>

\* The process is gone.
Stops ==
  /\ pc # "down" /\ pc' = "down" /\ SameTraj
  /\ m'.cur = 0 /\ m'.best = 0 /\ m'.base = 0 /\ m'.cand = 0 /\ m'.phase = "none"
  /\ m'.dec = "none"
  /\ UNCHANGED <<pend, best, repair, dir, work, gens, restarts>>

Resumes ==
  /\ pc = "down" /\ pc' = "preflight" /\ SameTraj
  /\ restarts <= MaxRestarts /\ restarts' = restarts + 1
  /\ m' = Resumed /\ work' = m'.cur
  /\ UNCHANGED <<pend, best, repair, dir, gens>>

LEMMA EndSteps ==
  ASSUME RunType
  PROVE  /\ SaveWorkflow \/ Finish => Saves
         /\ MarkStatus \/ Die => Stops
         /\ Start => Resumes
<1>1. ASSUME SaveWorkflow
      PROVE  Saves
  <2> DEFINE fails == IF m.dec = "FAIL" THEN traj.wf.fails + 1 ELSE 0
             wf == [baseline |-> m.baseline, fails |-> fails, noops |-> 0,
                    diag |-> fails >= FailThreshold \/ Escalates(repair, m.prev)]
  <2>0. traj' = [traj EXCEPT !.wf = wf] /\ wf.baseline = m.baseline
    BY <1>1 DEF SaveWorkflow
  <2> HIDE DEF wf
  <2>1. \E w : traj' = [traj EXCEPT !.wf = w] /\ w.baseline = m.baseline
    BY <2>0
  <2>2. SameRounds /\ traj'.wf.baseline = m.baseline
    BY <2>1 DEF RunType, SameRounds
  <2>3. SameMind
    BY <1>1, PlanKeeps DEF SaveWorkflow
  <2> QED BY <1>1, <2>2, <2>3 DEF SaveWorkflow, Saves
<1>2. ASSUME Finish
      PROVE  Saves
  <2>1. SameRounds /\ traj'.wf.baseline = m.baseline
    BY <1>2 DEF Finish, SameRounds, RunType
  <2>2. SameMind
    BY <1>2 DEF Finish, SameMind, SameBest, SameAim, SameVerdict
  <2> QED BY <1>2, <2>1, <2>2 DEF Finish, Saves
<1>3. m' = NoMemory =>
        /\ m'.cur = 0 /\ m'.best = 0 /\ m'.base = 0 /\ m'.cand = 0 /\ m'.phase = "none"
        /\ m'.dec = "none"
  BY DEF NoMemory
<1>4. ASSUME MarkStatus
      PROVE  Stops
  <2>1. SameTraj
    BY <1>4 DEF MarkStatus, SameTraj, SameRounds, RunType
  <2> QED BY <1>3, <1>4, <2>1 DEF MarkStatus, Stops
<1>5. ASSUME Die
      PROVE  Stops
  BY <1>3, <1>5 DEF Die, Stops, SameTraj, SameRounds
<1>6. ASSUME Start
      PROVE  Resumes
  <2>1. SameTraj
    BY <1>6 DEF Start, SameTraj, SameRounds, RunType
  <2> QED BY <1>6, <2>1 DEF Start, Resumes
<1> QED BY <1>1, <1>2, <1>4, <1>5, <1>6

Steps ==
  \/ Quiet \/ Begins \/ Reuses \/ Generates \/ BasesOn \/ Checkpoints \/ Marks \/ Completes
  \/ (\E r \in Outcomes : Evaluates(r)) \/ Lands \/ Observes \/ Records \/ Saves \/ Stops
  \/ Resumes

LEMMA EveryStep ==
  ASSUME RunType, Next
  PROVE  Steps
<1>1. QuietAction => Quiet
  BY QuietSteps
<1>2. LoopHead => Begins \/ Quiet
  BY <1>1, HeadBegins DEF QuietAction
<1>3. Evaluate => \E r \in Outcomes : Evaluates(r)
  BY EvaluateStep
<1>4. SaveRound => Records
  BY SaveRecords
<1> QED BY <1>1, <1>2, <1>3, <1>4, Prepares, FileSteps, EndSteps
        DEF Next, Work, QuietAction, Steps

-----------------------------------------------------------------------------
(* The conjuncts of the invariant, one after the other *)

LEMMA RecordTyped ==
  ASSUME RunType
  PROVE  /\ \A i \in DOMAIN traj.rounds :
              /\ traj.rounds[i].attempt \in Nat /\ traj.rounds[i].bundle \in Nat
              /\ traj.rounds[i].res \in Outcomes
         /\ traj.best \in Nat /\ traj.wf.baseline \in Nat
<1>1. traj.rounds \in Seq(RoundRec)
  BY DEF RunType
<1>2. \A i \in DOMAIN traj.rounds : traj.rounds[i] \in RoundRec
  BY <1>1
<1>3. \A i \in DOMAIN traj.rounds :
        /\ traj.rounds[i].attempt \in Nat /\ traj.rounds[i].bundle \in Nat
        /\ traj.rounds[i].res \in Outcomes
  BY <1>2 DEF RoundRec
<1> QED BY <1>3 DEF RunType

LEMMA LengthTyped ==
  ASSUME RunType
  PROVE  /\ N \in Nat /\ DOMAIN traj.rounds = 1..N
         /\ EvaluationRound = N + 1 /\ EvaluationRound \in Nat /\ EvaluationRound > 0
<1>1. traj.rounds \in Seq(RoundRec)
  BY DEF RunType
<1>2. N \in Nat /\ DOMAIN traj.rounds = 1..N /\ EvaluationRound = N + 1
  BY <1>1 DEF N, EvaluationRound
<1> QED BY <1>2

LEMMA FilesTyped ==
  ASSUME RunType
  PROVE  /\ pend.round \in Nat /\ pend.attempt \in Nat
         /\ best \in Nat /\ work \in Nat /\ gens \in Nat /\ gens > 0 /\ restarts \in Nat
         /\ repair.bundle \in Nat /\ repair.eval \in Results /\ repair.cleared \in SUBSET Errors
         /\ dir.attempt \in Nat /\ dir.base \in Nat /\ dir.cand \in Nat /\ dir.truth \in Results
BY DEF RunType

LEMMA MindTyped ==
  ASSUME RunType
  PROVE  /\ m.cur \in Nat /\ m.best \in Nat /\ m.base \in Nat /\ m.cand \in Nat
         /\ m.attempt \in Nat /\ m.bestRound \in Nat /\ m.baseline \in Nat
         /\ m.prev \in Results /\ m.bestRes \in Results /\ m.baseRes \in Results
         /\ m.res \in Results
<1>1. m \in Memory
  BY DEF RunType
<1> QED BY <1>1 DEF Memory

LEMMA MadeStep ==
  ASSUME RunType, Increasing, Made, Steps
  PROVE  Made'
<1> USE DEF Made
<1>0. SameTraj \/ SameRounds => traj'.rounds = traj.rounds
  BY DEF SameTraj, SameRounds
<1>1. CASE Quiet
  BY <1>0, <1>1 DEF Quiet, SameMind, SameBest, SameAim
<1>2. CASE Begins
  BY <1>0, <1>2 DEF Begins, SameBest
<1>3. CASE Reuses
  BY <1>0, <1>3 DEF Reuses, SameBest
<1>4. CASE Generates
  <2>1. gens' >= gens /\ gens' \in Nat /\ gens \in Nat /\ work' <= gens'
    BY <1>4, FilesTyped, MindTyped DEF Generates
  <2>2. \A i \in DOMAIN traj.rounds : traj.rounds[i].bundle <= gens'
    BY <2>1, RecordTyped
  <2>3. /\ best <= gens' /\ repair.bundle <= gens' /\ dir.base <= gens' /\ dir.cand <= gens'
    BY <2>1, FilesTyped
  <2>4. m.cur <= gens' /\ m.best <= gens' /\ m.base <= gens'
    BY <2>1, MindTyped
  <2> QED BY <1>0, <1>4, <2>1, <2>2, <2>3, <2>4 DEF Generates, SameBest, SameAim
<1>5. CASE BasesOn \/ Checkpoints \/ Marks \/ Completes
  <2>1. gens \in Nat
    BY FilesTyped
  <2> QED BY <1>0, <1>5, <2>1
          DEF BasesOn, Checkpoints, Marks, Completes, Dir, SameMind, SameBest, SameAim
<1>6. CASE \E r \in Outcomes : Evaluates(r)
  BY <1>0, <1>6 DEF Evaluates, Dir, SameAim
<1>7. CASE Lands
  BY <1>0, <1>7 DEF Lands, SameMind, SameBest, SameAim
<1>8. CASE Observes
  BY <1>0, <1>8 DEF Observes, SameMind, SameBest, SameAim
<1>9. CASE Records
  <2>1. \A i \in DOMAIN traj'.rounds : traj'.rounds[i].bundle <= gens
    <3> SUFFICES ASSUME NEW i \in 1..(N + 1)
                 PROVE  traj'.rounds[i].bundle <= gens
      BY <1>9 DEF Records
    <3>1. CASE i = N + 1
      BY <1>9, <3>1 DEF Records
    <3>2. CASE i \in 1..N
      BY <1>9, <3>2 DEF Records
    <3> QED BY <3>1, <3>2, <1>9 DEF Records
  <2> QED BY <1>9, <2>1 DEF Records, SameMind, SameBest, SameAim
<1>10. CASE Saves
  BY <1>0, <1>10 DEF Saves, SameMind, SameBest, SameAim
<1>11. CASE Stops
  <2>1. gens \in Nat
    BY FilesTyped
  <2> QED BY <1>0, <1>11, <2>1 DEF Stops
<1>12. CASE Resumes
  <2>1. gens \in Nat
    BY FilesTyped
  <2>2. /\ m'.best = best /\ m'.cur \in {repair.bundle, best, work}
        /\ m'.base = 0 /\ m'.cand = 0
    BY <1>12, ResumedIs DEF Resumes
  <2> QED BY <1>0, <1>12, <2>1, <2>2 DEF Resumes
<1> QED BY <1>1, <1>2, <1>3, <1>4, <1>5, <1>6, <1>7, <1>8, <1>9, <1>10, <1>11, <1>12 DEF Steps

\* A step that leaves the recorded rounds, or adds one at the end.
LEMMA AttemptsStep ==
  ASSUME RunType, AttemptsInStep, Steps
  PROVE  AttemptsInStep'
<1> USE DEF AttemptsInStep, AboveRecorded, Current
<1>0. SameTraj \/ SameRounds => traj'.rounds = traj.rounds /\ EvaluationRound' = EvaluationRound
  BY DEF SameTraj, SameRounds, EvaluationRound
<1>00. Increasing
  BY DEF Increasing
<1>1. CASE Quiet
  BY <1>0, <1>1 DEF Quiet, Goes, SameMind, SameAim, InLoop, Settling, NoOp
<1>2. CASE Begins
  <2>1. /\ NextAttempt \in Nat
        /\ NextAttempt > 0 /\ \A i \in DOMAIN traj.rounds : traj.rounds[i].attempt < NextAttempt
    <3>1. CASE pend.round = EvaluationRound
      BY <3>1, FilesTyped DEF NextAttempt
    <3>2. CASE pend.round # EvaluationRound
      BY <3>2, <1>00, NextAttemptType
    <3> QED BY <3>1, <3>2
  <2>2. EvaluationRound \in Nat
    BY LengthTyped
  <2> QED BY <1>0, <1>2, <2>1, <2>2 DEF Begins, InLoop, Settling, NoOp
<1>3. CASE Reuses
  BY <1>0, <1>3 DEF Reuses, HasCheckpoint, InLoop, Settling, NoOp
<1>4. CASE Generates
  BY <1>0, <1>4 DEF Generates, SameAim, InLoop, Settling, NoOp
<1>5. CASE BasesOn
  BY <1>0, <1>5 DEF BasesOn, SameMind, SameAim, InLoop, Settling, NoOp
<1>6. CASE Checkpoints
  BY <1>0, <1>6 DEF Checkpoints, SameMind, SameAim, InLoop, Settling, NoOp
<1>7. CASE Marks
  BY <1>0, <1>7 DEF Marks, SameMind, SameAim, InLoop, Settling, NoOp
<1>8. CASE Completes
  <2>1. EvaluationRound \in Nat /\ EvaluationRound > 0
    BY LengthTyped
  <2> QED BY <1>0, <1>8, <2>1 DEF Completes, InLoop, Settling, NoOp
<1>9. CASE \E r \in Outcomes : Evaluates(r)
  BY <1>0, <1>9 DEF Evaluates, SameAim, InLoop, Settling, NoOp
<1>10. CASE Lands
  BY <1>0, <1>10 DEF Lands, SameMind, SameAim, InLoop, Settling, NoOp
<1>11. CASE Observes
  BY <1>0, <1>11 DEF Observes, SameMind, SameAim, InLoop, Settling, NoOp
<1>12. CASE Records
  <2>1. pend.round = N + 1 /\ pend.attempt = m.attempt /\ AboveRecorded(m.attempt)
    BY <1>12, LengthTyped DEF Records, Settling
  <2>2. EvaluationRound' = N + 2 /\ N \in Nat /\ DOMAIN traj.rounds = 1..N
    BY <1>12 DEF Records, EvaluationRound
  <2>3. pend' = pend /\ ~Current' /\ pend'.round <= EvaluationRound'
    BY <1>12, <2>1, <2>2 DEF Records
  <2>4. \A i \in DOMAIN traj'.rounds : traj'.rounds[i].attempt > 0
    <3> SUFFICES ASSUME NEW i \in 1..(N + 1)
                 PROVE  traj'.rounds[i].attempt > 0
      BY <1>12 DEF Records
    <3>1. CASE i = N + 1
      BY <1>12, <2>1, <3>1 DEF Records
    <3>2. CASE i \in 1..N
      BY <1>12, <3>2 DEF Records
    <3> QED BY <3>1, <3>2, <2>2
  <2>5. \A i, j \in DOMAIN traj'.rounds :
          i < j => traj'.rounds[i].attempt < traj'.rounds[j].attempt
    <3> SUFFICES ASSUME NEW i \in 1..(N + 1), NEW j \in 1..(N + 1), i < j
                 PROVE  traj'.rounds[i].attempt < traj'.rounds[j].attempt
      BY <1>12 DEF Records
    <3>1. i \in 1..N /\ traj'.rounds[i] = traj.rounds[i]
      BY <1>12, <2>2 DEF Records
    <3>2. CASE j = N + 1
      BY <1>12, <2>1, <2>2, <3>1, <3>2 DEF Records
    <3>3. CASE j \in 1..N
      BY <1>12, <2>2, <3>1, <3>3 DEF Records
    <3> QED BY <3>2, <3>3, <2>2
  <2>6. pc' = "complete"
    BY <1>12 DEF Records
  <2> QED BY <2>3, <2>4, <2>5, <2>6 DEF InLoop, Settling, NoOp
<1>13. CASE Saves
  BY <1>0, <1>13 DEF Saves, InLoop, Settling, NoOp
<1>14. CASE Stops
  BY <1>0, <1>14 DEF Stops, InLoop, Settling, NoOp
<1>15. CASE Resumes
  BY <1>0, <1>15 DEF Resumes, InLoop, Settling, NoOp
<1> QED BY <1>1, <1>2, <1>3, <1>4, <1>5, <1>6, <1>7, <1>8, <1>9, <1>10, <1>11, <1>12, <1>13,
           <1>14, <1>15 DEF Steps

LEMMA CandidatesStep ==
  ASSUME RunType, Made, AttemptsInStep, CandidatesInStep, Steps
  PROVE  CandidatesInStep'
<1> USE DEF CandidatesInStep, Unrecorded, InLoop, Settling, NoOp
<1>0. SameTraj \/ SameRounds => traj'.rounds = traj.rounds
  BY DEF SameTraj, SameRounds
<1>1. CASE Quiet
  BY <1>0, <1>1 DEF Quiet, Goes, SameMind, SameAim, AboveRecorded
<1>2. CASE Begins
  BY <1>0, <1>2 DEF Begins, AboveRecorded
<1>3. CASE Reuses
  <2>1. AboveRecorded(m.attempt)
    BY <1>3 DEF AttemptsInStep, Current, Reuses
  <2>2. dir.attempt = m.attempt /\ dir.cand # 0
    BY <1>3 DEF Reuses, HasCheckpoint
  <2>3. dir.cand = dir.base \/ Unrecorded(dir.cand)
    BY <2>1, <2>2
  <2> QED BY <1>0, <1>3, <2>2, <2>3 DEF Reuses, AboveRecorded
<1>4. CASE Generates
  <2>1. m'.cand = m.base \/ Unrecorded(m'.cand)
    <3>1. CASE work' = gens + 1
      <4>1. gens \in Nat /\ \A i \in DOMAIN traj.rounds : traj.rounds[i].bundle \in Nat
        BY FilesTyped, RecordTyped
      <4>2. \A i \in DOMAIN traj.rounds : traj.rounds[i].bundle # gens + 1
        BY <4>1 DEF Made
      <4> QED BY <1>4, <3>1, <4>1, <4>2 DEF Generates
    <3>2. CASE work' = m.base
      BY <1>4, <3>2 DEF Generates
    <3> QED BY <1>4, <3>1, <3>2 DEF Generates
  <2> QED BY <1>0, <1>4, <2>1 DEF Generates, SameAim, AboveRecorded
<1>5. CASE BasesOn
  BY <1>0, <1>5 DEF BasesOn, Dir, SameMind, SameAim, AboveRecorded
<1>6. CASE Checkpoints
  BY <1>0, <1>6 DEF Checkpoints, Dir, SameMind, SameAim, AboveRecorded
<1>7. CASE Marks
  BY <1>0, <1>7 DEF Marks, SameMind, SameAim, AboveRecorded
<1>8. CASE Completes
  BY <1>0, <1>8 DEF Completes, AboveRecorded
<1>9. CASE \E r \in Outcomes : Evaluates(r)
  BY <1>0, <1>9 DEF Evaluates, Dir, SameAim, AboveRecorded
<1>10. CASE Lands
  BY <1>0, <1>10 DEF Lands, SameMind, SameAim, AboveRecorded
<1>11. CASE Observes
  BY <1>0, <1>11 DEF Observes, SameMind, SameAim, AboveRecorded
<1>12. CASE Records
  <2>1. /\ N \in Nat /\ DOMAIN traj.rounds = 1..N /\ DOMAIN traj'.rounds = 1..(N + 1)
        /\ \A i \in 1..N : traj'.rounds[i] = traj.rounds[i]
        /\ traj'.rounds[N + 1].attempt = m.attempt /\ traj'.rounds[N + 1].bundle = m.cand
        /\ pc = "round" /\ pc' = "complete" /\ dir' = dir
    BY <1>12 DEF Records
  <2>2. Unrecorded(m.cand) /\ dir.attempt = m.attempt
    BY <2>1
  <2>3. \A i, j \in DOMAIN traj'.rounds : i < j => traj'.rounds[i].bundle # traj'.rounds[j].bundle
    <3> SUFFICES ASSUME NEW i \in 1..(N + 1), NEW j \in 1..(N + 1), i < j
                 PROVE  traj'.rounds[i].bundle # traj'.rounds[j].bundle
      BY <2>1
    <3>1. i \in 1..N /\ traj'.rounds[i] = traj.rounds[i]
      BY <2>1
    <3>2. CASE j = N + 1
      BY <2>1, <2>2, <3>1, <3>2
    <3>3. CASE j \in 1..N
      BY <2>1, <3>1, <3>3
    <3> QED BY <3>2, <3>3, <2>1
  <2>4. ~AboveRecorded(dir.attempt)'
    <3>1. N + 1 \in DOMAIN traj'.rounds /\ traj'.rounds[N + 1].attempt = dir'.attempt
      BY <2>1, <2>2
    <3>2. dir'.attempt \in Nat
      BY <2>1, FilesTyped
    <3> QED BY <3>1, <3>2 DEF AboveRecorded
  <2> QED BY <2>1, <2>3, <2>4
<1>13. CASE Saves
  BY <1>0, <1>13 DEF Saves, AboveRecorded
<1>14. CASE Stops
  BY <1>0, <1>14 DEF Stops, AboveRecorded
<1>15. CASE Resumes
  BY <1>0, <1>15 DEF Resumes, AboveRecorded
<1> QED BY <1>1, <1>2, <1>3, <1>4, <1>5, <1>6, <1>7, <1>8, <1>9, <1>10, <1>11, <1>12, <1>13,
           <1>14, <1>15 DEF Steps

LEMMA RoundsCounted ==
  ASSUME RunType, NEW ph
  PROVE  /\ IsFiniteSet(Rounds(ph)) /\ Cardinality(Rounds(ph)) \in Nat
         /\ Rounds(ph) \subseteq 1..N
<1>1. Rounds(ph) \subseteq 1..N
  BY LengthTyped DEF Rounds
<1>2. IsFiniteSet(1..N)
  BY LengthTyped, FS_Interval
<1> QED BY <1>1, <1>2, FS_Subset, FS_CardinalityType

\* One more round counts against the budget of its phase, and no other.
LEMMA OneMoreRound ==
  ASSUME RunType, Records, NEW ph
  PROVE  Cardinality(Rounds(ph))' = Cardinality(Rounds(ph)) + IF m.phase = ph THEN 1 ELSE 0
<1>1. /\ N \in Nat /\ DOMAIN traj.rounds = 1..N /\ DOMAIN traj'.rounds = 1..(N + 1)
      /\ \A i \in 1..N : traj'.rounds[i] = traj.rounds[i]
      /\ traj'.rounds[N + 1].phase = m.phase
  BY DEF Records
<1>2. IsFiniteSet(Rounds(ph)) /\ Cardinality(Rounds(ph)) \in Nat /\ N + 1 \notin Rounds(ph)
  BY <1>1, RoundsCounted
<1>3. CASE m.phase = ph
  <2>1. Rounds(ph)' = Rounds(ph) \cup {N + 1}
    BY <1>1, <1>3 DEF Rounds
  <2>2. Cardinality(Rounds(ph) \cup {N + 1}) = Cardinality(Rounds(ph)) + 1
    BY <1>2, FS_AddElement
  <2> QED BY <1>3, <2>1, <2>2
<1>4. CASE m.phase # ph
  <2>1. Rounds(ph)' = Rounds(ph)
    BY <1>1, <1>4 DEF Rounds
  <2> QED BY <1>2, <1>4, <2>1
<1> QED BY <1>3, <1>4

LEMMA BudgetsStep ==
  ASSUME RunType, BudgetsHold, BudgetLeft, Steps
  PROVE  BudgetsHold' /\ BudgetLeft'
<1> DEFINE B == Cardinality(Rounds("bootstrap"))
           O == Cardinality(Rounds("optimization"))
<1>0. /\ B \in Nat /\ O \in Nat /\ N \in Nat
      /\ MaxBootstrap \in Nat /\ MaxRounds \in Nat /\ MaxTotal \in Nat
  BY RoundsCounted, LengthTyped, MultiTurnAssumption
<1>1. CASE SameTraj \/ SameRounds
  <2>1. B' = B /\ O' = O /\ N' = N
    BY <1>1 DEF Rounds, N, SameTraj, SameRounds
  <2>2. BudgetsHold'
    BY <2>1 DEF BudgetsHold, N
  <2>3. BudgetLeft'
    <3>1. CASE Begins
      <4>1. StopReason = "none" /\ m'.phase = IF Bootstrapping THEN "bootstrap" ELSE "optimization"
        BY <3>1 DEF Begins, Bootstrapping
      <4>2. /\ ~(N >= MaxTotal)
            /\ Bootstrapping => ~(B >= MaxBootstrap)
            /\ ~Bootstrapping => ~(O >= MaxRounds)
        BY <4>1 DEF StopReason, N
      <4>3. N < MaxTotal /\ (Bootstrapping => B < MaxBootstrap) /\ (~Bootstrapping => O < MaxRounds)
        BY <1>0, <4>2
      <4> QED BY <2>1, <4>1, <4>3 DEF BudgetLeft, N
    <3>2. CASE ~Begins
      <4>1. m'.phase = m.phase \/ pc' \notin InLoop \cup Settling
        BY <3>2 DEF Steps, Quiet, Reuses, Generates, BasesOn, Checkpoints, Marks, Completes,
             Evaluates, Lands, Observes, Records, Saves, Stops, Resumes, SameMind, SameAim,
             InLoop, Settling
      <4>2. pc' \in InLoop \cup Settling => pc \in InLoop \cup Settling
        <5>1. Quiet => (pc' \in InLoop \cup Settling => pc \in InLoop \cup Settling)
          BY DEF Quiet, Goes, InLoop, Settling
        <5> QED BY <3>2, <5>1 DEF Steps, Reuses, Generates, BasesOn, Checkpoints, Marks,
             Completes, Evaluates, Lands, Observes, Records, Saves, Stops, Resumes,
             InLoop, Settling
      <4> QED BY <2>1, <4>1, <4>2 DEF BudgetLeft, N
    <3> QED BY <3>1, <3>2
  <2> QED BY <2>2, <2>3
<1>2. CASE Records
  <2>1. /\ m.phase \in {"bootstrap", "optimization"} /\ N < MaxTotal
        /\ m.phase = "bootstrap" => B < MaxBootstrap
        /\ m.phase = "optimization" => O < MaxRounds
    BY <1>2 DEF Records, BudgetLeft, Settling, N
  <2>2. /\ B' = B + IF m.phase = "bootstrap" THEN 1 ELSE 0
        /\ O' = O + IF m.phase = "optimization" THEN 1 ELSE 0
    BY <1>2, OneMoreRound
  <2>3. N' = N + 1 /\ pc' = "complete"
    BY <1>2 DEF Records, N
  <2>4. B <= MaxBootstrap /\ O <= MaxRounds
    BY DEF BudgetsHold
  <2>5. B' <= MaxBootstrap /\ O' <= MaxRounds /\ N' <= MaxTotal
    <3> HIDE DEF B, O
    <3> QED BY <1>0, <2>1, <2>2, <2>3, <2>4
  <2> QED BY <2>3, <2>5 DEF BudgetsHold, BudgetLeft, InLoop, Settling, N
<1>3. ~Records => SameTraj \/ SameRounds
  BY DEF Steps, Quiet, Begins, Reuses, Generates, BasesOn, Checkpoints, Marks, Completes,
         Evaluates, Lands, Observes, Saves, Stops, Resumes
<1> QED BY <1>1, <1>2, <1>3

LEMMA Scores ==
  ASSUME NEW r \in Outcomes
  PROVE  r.score \in Int /\ r.rank \in Int /\ r # NoResult /\ r.errs \in SUBSET Errors
<1>1. r \in Result
  BY MultiTurnAssumption
<1>2. 0..MaxScore \subseteq Int /\ NoResult \notin Result
  BY RepairAssumption DEF Result
<1> QED BY <1>1, <1>2 DEF Result

LEMMA SameBestRound ==
  ASSUME SameRounds
  PROVE  /\ traj'.rounds = traj.rounds /\ traj'.best = traj.best
         /\ \A i : IsBest(i)' <=> IsBest(i)
         /\ SameBest => (KnowsBest' <=> KnowsBest)
         /\ m'.res = m.res => (Exceeds(m.res)' <=> Exceeds(m.res))
<1>1. traj'.rounds = traj.rounds /\ traj'.best = traj.best
  BY DEF SameRounds
<1>2. ASSUME NEW i
      PROVE  IsBest(i)' <=> IsBest(i)
  BY <1>1 DEF IsBest, NoneBetter
<1>3. SameBest => (KnowsBest' <=> KnowsBest)
  BY <1>1 DEF KnowsBest, SameBest
<1>4. m'.res = m.res => (Exceeds(m.res)' <=> Exceeds(m.res))
  BY <1>1 DEF Exceeds
<1> QED BY <1>1, <1>2, <1>3, <1>4

\* An evaluated candidate is kept when it exceeds every recorded round.
LEMMA KeptExceeds ==
  ASSUME RunType, BestInStep, KnowsBest, NEW r \in Outcomes
  PROVE  /\ Keeps(r) <=> Exceeds(r)
         /\ ~Keeps(r) /\ Valid(r) => traj.best # 0 /\ r.score <= m.bestRes.score
<1>1. r.score \in Int /\ \A i \in DOMAIN traj.rounds : traj.rounds[i].res.score \in Int
  BY Scores, RecordTyped
<1>2. CASE m.baseline = 0
  <2>1. traj.best = 0 /\ \A i \in DOMAIN traj.rounds : ~Valid(traj.rounds[i].res)
    BY <1>2 DEF KnowsBest, BestInStep
  <2> QED BY <1>2, <2>1 DEF Keeps, Bootstrapping, Exceeds
<1>3. CASE m.baseline # 0
  <2>1. traj.best # 0
    BY <1>3 DEF KnowsBest
  <2>2. PICK i \in DOMAIN traj.rounds : IsBest(i)
    BY <2>1 DEF BestInStep
  <2>3. /\ m.bestRes = traj.rounds[i].res /\ Valid(m.bestRes)
        /\ \A j \in DOMAIN traj.rounds :
             Valid(traj.rounds[j].res) => traj.rounds[j].res.score <= m.bestRes.score
    BY <2>2 DEF IsBest, NoneBetter, KnowsBest
  <2>4. m.bestRes.score \in Int
    BY <1>1, <2>3
  <2>5. Keeps(r) <=> Valid(r) /\ r.score > m.bestRes.score
    BY <1>3, <2>3 DEF Keeps, Bootstrapping, Better
  <2>6. Keeps(r) => Exceeds(r)
    BY <1>1, <2>3, <2>4, <2>5 DEF Exceeds
  <2>7. Exceeds(r) => Keeps(r)
    BY <1>1, <2>3, <2>4, <2>5, <2>2 DEF Exceeds
  <2> QED BY <1>1, <2>1, <2>4, <2>5, <2>6, <2>7
<1> QED BY <1>2, <1>3

LEMMA BestStep ==
  ASSUME RunType, AttemptsInStep, CandidatesInStep, BestInStep, Steps
  PROVE  BestInStep'
<1> USE DEF Settling, Pcs, InLoop, NoOp
<1>0. SameTraj => SameRounds /\ traj'.wf.baseline = traj.wf.baseline
  BY DEF SameTraj
<1>t. pc \in Pcs
  BY DEF RunType
<1>k. pc \notin Settling \cup {"down", "status"} => KnowsBest
  BY <1>t DEF BestInStep
<1>1. CASE Quiet
  BY <1>0, <1>1, <1>k, SameBestRound
  DEF Quiet, Goes, SameMind, SameBest, SameAim, SameVerdict, BestInStep, Kept
<1>2. CASE Begins
  BY <1>0, <1>2, <1>k, SameBestRound DEF Begins, BestInStep
<1>3. CASE Reuses
  BY <1>0, <1>3, <1>k, SameBestRound DEF Reuses, BestInStep
<1>4. CASE Generates
  BY <1>0, <1>4, <1>k, SameBestRound DEF Generates, BestInStep
<1>5. CASE BasesOn \/ Checkpoints \/ Marks
  BY <1>0, <1>5, <1>k, SameBestRound DEF BasesOn, Checkpoints, Marks, SameMind, BestInStep
<1>6. CASE Completes
  BY <1>0, <1>6, <1>k, SameBestRound DEF Completes, SameMind, BestInStep
<1>7. CASE \E r \in Outcomes : Evaluates(r)
  <2>1. PICK r \in Outcomes : Evaluates(r)
    BY <1>7
  <2>2. KnowsBest /\ m.attempt > 0
    <3>1. pc = "compare"
      BY <2>1 DEF Evaluates
    <3> QED BY <3>1, <1>k DEF AttemptsInStep, Current, AboveRecorded
  <2>3. /\ SameRounds /\ traj'.wf.baseline = traj.wf.baseline /\ best' = best
        /\ m'.res = r /\ dir'.truth = r /\ m'.attempt = m.attempt
    BY <1>0, <2>1 DEF Evaluates, Dir, SameAim
  <2>4. /\ Keeps(r) <=> Exceeds(r)
        /\ ~Keeps(r) /\ Valid(r) => traj.best # 0 /\ r.score <= m.bestRes.score
    BY <2>2, KeptExceeds
  <2>5. Exceeds(m.res)' <=> Exceeds(r)
    BY <2>3, SameBestRound DEF Exceeds
  <2>6. CASE Keeps(r)
    <3>1. /\ m.baseline = 0 => pc' = "baseline" /\ m'.dec = "BASELINE_KEEP" /\ m'.baseline = m.attempt
          /\ m.baseline # 0 => pc' = "best" /\ m'.dec = "KEEP" /\ m'.baseline = m.baseline
          /\ m'.bestRes = r /\ m'.bestRound = m.attempt
      BY <2>1, <2>6 DEF Evaluates
    <3>2. m.baseline = 0 <=> traj.best = 0
      BY <2>2 DEF KnowsBest
    <3> QED BY <2>2, <2>3, <2>4, <2>5, <2>6, <3>1, <3>2, SameBestRound DEF BestInStep, Kept
  <2>7. CASE ~Keeps(r)
    <3>1. /\ pc' = "restore" /\ m'.dec \notin Kept
          /\ m'.baseline = m.baseline /\ m'.bestRes = m.bestRes /\ m'.bestRound = m.bestRound
      BY <2>1, <2>7 DEF Evaluates
    <3>2. KnowsBest'
      BY <2>2, <2>3, <3>1, SameBestRound DEF KnowsBest
    <3> QED BY <2>2, <2>3, <2>4, <2>7, <3>1, <3>2, SameBestRound DEF BestInStep
  <2> QED BY <2>6, <2>7
<1>8. CASE Lands
  <2>1. m.cand # 0 /\ m.dec \in Kept
    BY <1>8 DEF Lands, CandidatesInStep, Unrecorded, BestInStep
  <2> QED BY <1>0, <1>8, <2>1, SameBestRound
          DEF Lands, SameMind, SameBest, SameAim, SameVerdict, BestInStep
<1>9. CASE Observes
  BY <1>0, <1>9, SameBestRound
  DEF Observes, SameMind, SameBest, SameAim, SameVerdict, BestInStep
<1>10. CASE Records
  <2>1. /\ N \in Nat /\ DOMAIN traj.rounds = 1..N /\ DOMAIN traj'.rounds = 1..(N + 1)
        /\ \A i \in 1..N : traj'.rounds[i] = traj.rounds[i]
        /\ traj'.rounds[N + 1].attempt = m.attempt /\ traj'.rounds[N + 1].res = m.res
        /\ pc = "round" /\ pc' = "complete"
        /\ traj'.best = m.bestRound /\ traj'.wf.baseline = traj.wf.baseline
        /\ best' = best /\ m'.bestRound = m.bestRound /\ m'.baseline = m.baseline
        /\ m'.bestRes = m.bestRes
    BY <1>10 DEF Records, SameMind, SameBest
  <2>2. AboveRecorded(m.attempt) /\ m.attempt > 0
    BY <2>1 DEF AttemptsInStep, Current, AboveRecorded
  <2>3. m.res \in Outcomes /\ m.cand # 0
    BY <2>1 DEF BestInStep, CandidatesInStep, Unrecorded
  <2>t. /\ m.attempt \in Nat /\ m.res.score \in Int
        /\ \A i \in 1..N : traj.rounds[i].attempt \in Nat /\ traj.rounds[i].res.score \in Int
    BY <2>1, <2>3, Scores, MindTyped, RecordTyped
  <2>4. CASE m.dec \in Kept
    <3>1. /\ m.bestRound = m.attempt /\ m.bestRes = m.res /\ Exceeds(m.res) /\ best = m.cand
          /\ m.baseline # 0
      BY <2>1, <2>2, <2>4 DEF BestInStep
    <3>n. PICK n \in Nat : n = N + 1
      BY <2>1
    <3>2. IsBest(n)'
      <4>1. \A j \in 1..(N + 1) :
              Valid(traj'.rounds[j].res) => traj'.rounds[j].res.score <= m.res.score
        <5> SUFFICES ASSUME NEW j \in 1..(N + 1), Valid(traj'.rounds[j].res)
                     PROVE  traj'.rounds[j].res.score <= m.res.score
          OBVIOUS
        <5>1. CASE j = N + 1
          <6>1. traj'.rounds[j].res = m.res /\ m.res.score \in Int
            BY <2>1, <2>t, <5>1
          <6> QED BY ONLY <6>1
        <5>2. CASE j \in 1..N
          <6>1. traj'.rounds[j].res = traj.rounds[j].res /\ traj.rounds[j].res.score \in Int
            BY <2>1, <2>t, <5>2
          <6>2. traj.rounds[j].res.score < m.res.score
            BY <2>1, <3>1, <5>2, <6>1 DEF Exceeds
          <6> QED BY ONLY <6>1, <6>2, <2>t
        <5> QED BY <5>1, <5>2, <2>1
      <4>2. traj'.rounds[n].attempt = traj'.best /\ traj'.rounds[n].res = m.res /\ Valid(m.res)
        BY <2>1, <3>1, <3>n DEF Exceeds
      <4> QED BY <2>1, <4>1, <4>2 DEF IsBest, NoneBetter
    <3>3. n \in DOMAIN traj'.rounds
      BY <2>1, <3>n
    <3>4. \A i \in DOMAIN traj'.rounds :
            traj'.rounds[i].attempt = traj'.best => m'.bestRes = traj'.rounds[i].res
      <4> SUFFICES ASSUME NEW i \in 1..(N + 1), traj'.rounds[i].attempt = m.attempt
                   PROVE  m.res = traj'.rounds[i].res
        BY <2>1, <3>1
      <4>1. ASSUME i \in 1..N
            PROVE  FALSE
        <5>1. traj.rounds[i].attempt < m.attempt /\ traj.rounds[i].attempt = m.attempt
          BY <2>1, <2>2, <4>1 DEF AboveRecorded
        <5> QED BY ONLY <5>1, <2>t
      <4> QED BY <2>1, <4>1
    <3>5. KnowsBest'
      BY <2>1, <2>2, <3>1, <3>4 DEF KnowsBest
    <3> QED BY <2>1, <2>2, <2>3, <3>1, <3>2, <3>3, <3>5 DEF BestInStep
  <2>5. CASE m.dec \notin Kept
    <3>1. KnowsBest /\ (Valid(m.res) => traj.best # 0 /\ m.res.score <= m.bestRes.score)
      BY <2>1, <2>5 DEF BestInStep
    <3>2. traj'.best = traj.best
      BY <2>1, <3>1 DEF KnowsBest
    <3>3. m.attempt # traj.best
      <4>1. CASE traj.best = 0
        BY <2>2, <4>1
      <4>2. CASE traj.best # 0
        <5>1. PICK i \in DOMAIN traj.rounds : IsBest(i)
          BY <4>2 DEF BestInStep
        <5> QED BY <5>1, <2>1, <2>2, <2>t DEF IsBest, AboveRecorded
      <4> QED BY <4>1, <4>2
    <3>4. KnowsBest'
      <4>1. \A i \in DOMAIN traj'.rounds :
              traj'.rounds[i].attempt = traj'.best => m'.bestRes = traj'.rounds[i].res
        <5> SUFFICES ASSUME NEW i \in 1..(N + 1), traj'.rounds[i].attempt = traj.best
                     PROVE  m.bestRes = traj'.rounds[i].res
          BY <2>1, <3>2
        <5>1. i \in 1..N
          BY <2>1, <3>3
        <5> QED BY <2>1, <3>1, <5>1 DEF KnowsBest
      <4> QED BY <2>1, <3>1, <3>2, <4>1 DEF KnowsBest
    <3>5. IF traj'.best = 0 THEN \A i \in DOMAIN traj'.rounds : ~Valid(traj'.rounds[i].res)
                            ELSE \E i \in DOMAIN traj'.rounds : IsBest(i)'
      <4>1. CASE traj.best = 0
        <5>1. \A i \in 1..N : ~Valid(traj.rounds[i].res)
          BY <2>1, <4>1 DEF BestInStep
        <5>2. \A i \in 1..(N + 1) : ~Valid(traj'.rounds[i].res)
          <6> SUFFICES ASSUME NEW i \in 1..(N + 1)
                       PROVE  ~Valid(traj'.rounds[i].res)
            OBVIOUS
          <6>1. CASE i = N + 1
            BY <2>1, <3>1, <4>1, <6>1
          <6>2. CASE i \in 1..N
            BY <2>1, <5>1, <6>2
          <6> QED BY <6>1, <6>2, <2>1
        <5> QED BY <2>1, <3>2, <4>1, <5>2
      <4>2. CASE traj.best # 0
        <5>1. PICK i \in 1..N : IsBest(i)
          BY <2>1, <4>2 DEF BestInStep
        <5>2. m.bestRes = traj.rounds[i].res
          BY <2>1, <3>1, <5>1 DEF IsBest, KnowsBest
        <5>3. \A j \in 1..(N + 1) :
                Valid(traj'.rounds[j].res) => traj'.rounds[j].res.score <= traj.rounds[i].res.score
          <6> SUFFICES ASSUME NEW j \in 1..(N + 1), Valid(traj'.rounds[j].res)
                       PROVE  traj'.rounds[j].res.score <= traj.rounds[i].res.score
            OBVIOUS
          <6>1. CASE j = N + 1
            BY <2>1, <3>1, <5>2, <6>1
          <6>2. CASE j \in 1..N
            BY <2>1, <5>1, <6>2 DEF IsBest, NoneBetter
          <6> QED BY <6>1, <6>2, <2>1
        <5>4. IsBest(i)'
          BY <2>1, <3>2, <5>1, <5>3 DEF IsBest, NoneBetter
        <5>5. i \in DOMAIN traj'.rounds
          BY <2>1
        <5> QED BY <3>2, <4>2, <5>4, <5>5
      <4> QED BY <4>1, <4>2
    <3> QED BY <2>1, <3>2, <3>4, <3>5 DEF BestInStep
  <2> QED BY <2>4, <2>5
<1>11. CASE Saves
  <2>1. KnowsBest
    BY <1>11, <1>k DEF Saves
  <2>2. m.baseline = 0 <=> traj.best = 0
    BY <2>1 DEF KnowsBest
  <2> QED BY <1>11, <2>1, <2>2, SameBestRound DEF Saves, SameMind, BestInStep
<1>12. CASE Stops
  BY <1>0, <1>12, SameBestRound DEF Stops, BestInStep, Kept
<1>13. CASE Resumes
  <2>1. /\ m'.bestRound = traj.best
        /\ best # 0 => \A i \in DOMAIN traj.rounds :
             traj.rounds[i].attempt = traj.best => m'.bestRes = traj.rounds[i].res
        /\ (\A i \in DOMAIN traj.rounds : traj.rounds[i].attempt # traj.best) =>
             m'.bestRes = NoResult
        /\ m'.baseline = IF traj.wf.baseline # 0 THEN traj.wf.baseline
                         ELSE IF Valid(m'.bestRes) THEN traj.best ELSE 0
    <3>1. Increasing
      BY DEF AttemptsInStep, Increasing
    <3> QED BY <1>13, <3>1, ResumedIs DEF Resumes
  <2>2. SameRounds /\ traj'.wf.baseline = traj.wf.baseline /\ best' = best /\ pc' = "preflight"
    BY <1>0, <1>13 DEF Resumes
  <2>3. CASE traj.best = 0
    <3>1. \A i \in DOMAIN traj.rounds : traj.rounds[i].attempt # traj.best
      BY <2>3, RecordTyped DEF AttemptsInStep
    <3>2. m'.bestRes = NoResult /\ ~Valid(m'.bestRes) /\ traj.wf.baseline = 0
      BY <2>1, <2>3, <3>1 DEF BestInStep, Valid
    <3>3. KnowsBest'
      BY <2>1, <2>2, <2>3, <3>1, <3>2, SameBestRound DEF KnowsBest
    <3> QED BY <2>2, <3>3, SameBestRound DEF BestInStep
  <2>4. CASE traj.best # 0
    <3>1. best # 0
      BY <2>4 DEF BestInStep
    <3>2. PICK i \in DOMAIN traj.rounds : IsBest(i)
      BY <2>4 DEF BestInStep
    <3>3. m'.bestRes = traj.rounds[i].res /\ Valid(m'.bestRes)
      BY <2>1, <3>1, <3>2 DEF IsBest
    <3>4. KnowsBest'
      BY <2>1, <2>2, <2>4, <3>1, <3>3, SameBestRound DEF KnowsBest
    <3> QED BY <2>2, <3>4, SameBestRound DEF BestInStep
  <2> QED BY <2>3, <2>4
<1> QED BY <1>1, <1>2, <1>3, <1>4, <1>5, <1>6, <1>7, <1>8, <1>9, <1>10, <1>11, <1>12, <1>13
        DEF Steps

LEMMA BaselineKeptStep ==
  ASSUME RunType, BestInStep, BaselineKept, Steps
  PROVE  BaselineKept'
<1>1. CASE SameRounds
  BY <1>1 DEF SameRounds, BaselineKept, IsBaseline
<1>2. CASE Records
  <2>1. /\ N \in Nat /\ DOMAIN traj.rounds = 1..N /\ DOMAIN traj'.rounds = 1..(N + 1)
        /\ \A i \in 1..N : traj'.rounds[i] = traj.rounds[i]
        /\ traj'.rounds[N + 1].dec = m.dec /\ traj'.rounds[N + 1].res = m.res
        /\ pc = "round"
    BY <1>2 DEF Records
  <2>2. m.dec = "BASELINE_KEEP" => Valid(m.res) /\ traj.best = 0
    BY <2>1 DEF BestInStep, Settling, Kept, Exceeds
  <2>3. \A i \in 1..N : IsBaseline(i) => traj.best # 0
    BY <2>1 DEF BaselineKept, BestInStep
  <2>4. \A i \in 1..(N + 1) : traj'.rounds[i].dec = "BASELINE_KEEP" => Valid(traj'.rounds[i].res)
    <3> SUFFICES ASSUME NEW i \in 1..(N + 1), traj'.rounds[i].dec = "BASELINE_KEEP"
                 PROVE  Valid(traj'.rounds[i].res)
      OBVIOUS
    <3>1. CASE i = N + 1
      BY <2>1, <2>2, <3>1
    <3>2. CASE i \in 1..N
      BY <2>1, <3>2 DEF BaselineKept, IsBaseline
    <3> QED BY <3>1, <3>2, <2>1
  <2>5. \A i, j \in 1..(N + 1) :
          traj'.rounds[i].dec = "BASELINE_KEEP" /\ traj'.rounds[j].dec = "BASELINE_KEEP" => i = j
    <3> SUFFICES ASSUME NEW i \in 1..(N + 1), NEW j \in 1..(N + 1),
                        traj'.rounds[i].dec = "BASELINE_KEEP",
                        traj'.rounds[j].dec = "BASELINE_KEEP"
                 PROVE  i = j
      OBVIOUS
    <3>1. CASE m.dec = "BASELINE_KEEP"
      BY <2>1, <2>2, <2>3, <3>1 DEF IsBaseline
    <3>2. CASE m.dec # "BASELINE_KEEP"
      <4>1. i \in 1..N /\ j \in 1..N
        BY <2>1, <3>2
      <4> QED BY <2>1, <4>1 DEF BaselineKept, IsBaseline
    <3> QED BY <3>1, <3>2
  <2> QED BY <2>1, <2>4, <2>5 DEF BaselineKept, IsBaseline
<1>3. ~Records => SameRounds
  BY DEF Steps, Quiet, Begins, Reuses, Generates, BasesOn, Checkpoints, Marks, Completes,
         Evaluates, Lands, Observes, Saves, Stops, Resumes, SameTraj
<1> QED BY <1>1, <1>2, <1>3

LEMMA RepairFitsStep ==
  ASSUME RunType, CandidatesInStep, BestInStep, RepairFits, Steps
  PROVE  RepairFits'
<1>1. CASE repair' = repair
  BY <1>1 DEF RepairFits
<1>2. CASE Observes
  <2>1. m.res \in Outcomes /\ m.cand # 0
    BY <1>2 DEF Observes, BestInStep, CandidatesInStep, Unrecorded, Settling
  <2>2. m.res # NoResult
    BY <2>1, Scores
  <2>3. CASE Accepts(m.outcome)
    BY <1>2, <2>1, <2>2, <2>3 DEF Observes, RepairFits
  <2>4. CASE ~Accepts(m.outcome)
    BY <1>2, <2>4 DEF Observes, RepairFits
  <2> QED BY <2>3, <2>4
<1>3. ~Observes => repair' = repair
  BY DEF Steps, Quiet, Begins, Reuses, Generates, BasesOn, Checkpoints, Marks, Completes,
         Evaluates, Lands, Records, Saves, Stops, Resumes
<1> QED BY <1>1, <1>2, <1>3

LEMMA RepairStep ==
  ASSUME RunType, AttemptsInStep, BudgetLeft, BestInStep, RepairInStep, Steps
  PROVE  RepairInStep'
<1> USE DEF Settling, InLoop, AimsAt, FirstProcess
<1>1. CASE Quiet
  <2>1. pc \in {"noop-workflow", "unlink"} => pend.phase # "EVAL"
    BY DEF AttemptsInStep, NoPend
  <2>2. /\ m'.cur = m.cur /\ m'.prev = m.prev /\ m'.baseline = m.baseline /\ m'.phase = m.phase
        /\ m'.base = m.base /\ m'.baseRes = m.baseRes /\ m'.cand = m.cand /\ m'.res = m.res
        /\ m'.outcome = m.outcome
        /\ UNCHANGED <<pend, repair, restarts>> /\ Goes
    BY <1>1 DEF Quiet, SameMind, SameBest, SameAim, SameVerdict
  <2>3. pc \in Settling => m.phase \in {"bootstrap", "optimization"}
    BY DEF BudgetLeft
  <2>4. pc = "baseline" => m.baseline # 0
    BY DEF BestInStep, Kept, AttemptsInStep, Current, AboveRecorded
  <2> QED BY <2>1, <2>2, <2>3, <2>4 DEF RepairInStep, Goes
<1>2. CASE Begins
  BY <1>2 DEF Begins, SameBest, RepairInStep, Evaluating
<1>3. CASE Reuses
  <2>1. ~FirstProcess
    BY <1>3 DEF Reuses, HasCheckpoint, RepairInStep
  <2> QED BY <1>3, <2>1 DEF Reuses, SameBest, SameVerdict, RepairInStep
<1>4. CASE Generates
  BY <1>4 DEF Generates, SameBest, SameAim, RepairInStep
<1>5. CASE BasesOn \/ Checkpoints \/ Marks
  BY <1>5 DEF BasesOn, Checkpoints, Marks, SameMind, SameBest, SameAim, RepairInStep
<1>6. CASE Completes
  BY <1>6 DEF Completes, SameMind, SameBest, SameAim, RepairInStep
<1>7. CASE \E r \in Outcomes : Evaluates(r)
  <2>1. PICK r \in Outcomes : Evaluates(r)
    BY <1>7
  <2>2. /\ pc = "compare" /\ m'.res = r /\ m'.outcome = Decide(m.baseRes, r, repair.cleared)
        /\ m'.phase = m.phase /\ m'.base = m.base /\ m'.baseRes = m.baseRes /\ m'.cand = m.cand
        /\ UNCHANGED <<pend, repair, restarts>>
    BY <2>1 DEF Evaluates, SameAim
  <2>3. m.attempt # 0 /\ (m.phase = "bootstrap" <=> m.baseline = 0)
    BY <2>2 DEF AttemptsInStep, Current, AboveRecorded, RepairInStep
  <2>4. CASE Keeps(r)
    <3>1. /\ m.baseline = 0 => pc' = "baseline" /\ m'.baseline = m.attempt
          /\ m.baseline # 0 => pc' = "best" /\ m'.baseline = m.baseline
      BY <2>1, <2>4 DEF Evaluates
    <3> QED BY <2>2, <2>3, <3>1 DEF RepairInStep
  <2>5. CASE ~Keeps(r)
    <3>1. /\ pc' = "restore" /\ m'.baseline = m.baseline
          /\ m.baseline = 0 => IF Accepts(m'.outcome) THEN m'.cur = m.cand /\ m'.prev = r
                                                      ELSE m'.cur = m.base /\ m'.prev = m.baseRes
      BY <2>1, <2>5 DEF Evaluates
    <3> QED BY <2>2, <2>3, <3>1 DEF RepairInStep
  <2> QED BY <2>4, <2>5
<1>8. CASE Lands
  <2>1. m.baseline # 0
    BY <1>8 DEF Lands, BestInStep, AttemptsInStep, Current, AboveRecorded
  <2> QED BY <1>8, <2>1 DEF Lands, SameMind, SameBest, SameAim, SameVerdict, RepairInStep
<1>9. CASE Observes
  <2>1. /\ pc = "observe" /\ pc' = "item"
        /\ m'.cur = m.cur /\ m'.prev = m.prev /\ m'.baseline = m.baseline /\ m'.phase = m.phase
        /\ repair'.bundle = IF Accepts(m.outcome) THEN m.cand ELSE repair.bundle
        /\ repair'.eval = IF Accepts(m.outcome) THEN m.res ELSE repair.eval
        /\ UNCHANGED <<pend, restarts>>
    BY <1>9 DEF Observes, SameMind, SameBest, SameAim
  <2>2. m.phase = "bootstrap" /\ AimsAt(m.base, m.baseRes)
    BY <2>1 DEF RepairInStep
  <2>3. m.baseline = 0 => IF Accepts(m.outcome) THEN m.cur = m.cand /\ m.prev = m.res
                                                ELSE m.cur = m.base /\ m.prev = m.baseRes
    BY <2>1, <2>2 DEF RepairInStep
  <2>4. m.baseline = 0 => AimsAt(m.cur, m.prev)'
    BY <2>1, <2>2, <2>3
  <2> QED BY <2>1, <2>2, <2>4 DEF RepairInStep
<1>10. CASE Records
  BY <1>10 DEF Records, SameMind, SameBest, SameAim, RepairInStep
<1>11. CASE Saves
  <2>1. pc = "workflow" => pend.phase # "EVAL"
    BY DEF AttemptsInStep, NoPend
  <2> QED BY <1>11, <2>1 DEF Saves, SameMind, SameBest, SameAim, RepairInStep
<1>12. CASE Stops
  BY <1>12 DEF Stops, RepairInStep
<1>13. CASE Resumes
  <2>1. m'.baseline = 0 /\ repair.bundle # 0 => m'.cur = repair.bundle /\ m'.prev = repair.eval
    <3>1. Increasing
      BY DEF AttemptsInStep, Increasing
    <3> QED BY <1>13, <3>1, ResumedIs DEF Resumes
  <2>2. restarts \in Nat /\ restarts' = restarts + 1 /\ pc' = "preflight" /\ pc = "down"
        /\ UNCHANGED <<pend, repair>>
    BY <1>13, FilesTyped DEF Resumes
  <2>3. restarts' <= 1 => pend = NoPend
    BY <2>2 DEF RepairInStep
  <2>4. m'.phase = "none"
    BY <1>13 DEF Resumes, Resumed, NoMemory
  <2> QED BY <2>1, <2>2, <2>3, <2>4 DEF RepairInStep, NoPend
<1> QED BY <1>1, <1>2, <1>3, <1>4, <1>5, <1>6, <1>7, <1>8, <1>9, <1>10, <1>11, <1>12, <1>13
        DEF Steps

\* A kept candidate that is not recorded is measured again by a later process,
\* and kept or discarded.
LEMMA BestFileStep ==
  ASSUME RunType, AttemptsInStep, CandidatesInStep, BestInStep, RepairInStep, BestFileInStep,
         Steps
  PROVE  BestFileInStep'
<1> USE DEF Settling, InLoop
<1>0. /\ SameTraj => SameRounds
      /\ SameRounds => traj'.rounds = traj.rounds /\ traj'.best = traj.best
                       /\ EvaluationRound' = EvaluationRound
  BY DEF SameTraj, SameRounds, EvaluationRound
<1>r. restarts' = restarts => (FirstProcess' <=> FirstProcess)
  BY DEF FirstProcess
<1>a. SameRounds /\ best' = best /\ (FirstProcess' => FirstProcess) /\ AsRecorded => AsRecorded'
  BY <1>0 DEF AsRecorded, HoldsBest
<1>l. SameRounds /\ best' = best /\ pend' = pend /\ dir' = dir /\ Landed /\ Late' => Landed'
  BY <1>0 DEF Landed, Current
<1>f. pc # "down" /\ ~(pc \in Settling /\ m.dec \in Kept) /\ Landed /\ restarts' = restarts
        => Late'
  BY <1>r DEF Landed, Late
<1>1. CASE Quiet \/ Observes
  <2>1. /\ SameRounds /\ best' = best /\ pend' = pend /\ dir' = dir /\ m'.dec = m.dec
        /\ m'.res = m.res /\ restarts' = restarts
    BY <1>0, <1>1 DEF Quiet, Observes, SameMind, SameVerdict
  <2>2. (pc' \in Settling <=> pc \in Settling) /\ pc # "down"
    BY <1>1 DEF Quiet, Observes, Goes
  <2>3. Landed => Late'
    BY <1>r, <2>1, <2>2 DEF Landed, Late
  <2> QED BY <1>a, <1>l, <1>r, <2>1, <2>2, <2>3 DEF BestFileInStep
<1>2. CASE Begins
  <2>1. /\ SameRounds /\ best' = best /\ dir' = dir /\ pc' \notin Settling
        /\ pend'.round = EvaluationRound /\ pend'.attempt = NextAttempt
        /\ pend'.phase = IF Evaluating THEN "EVAL" ELSE "EDIT"
        /\ pc = "head" /\ restarts' = restarts
    BY <1>0, <1>2 DEF Begins
  <2>2. ASSUME Landed
        PROVE  Landed'
    <3>1. pend.round = EvaluationRound /\ pend.phase = "EVAL"
      BY <2>2 DEF Landed, Current
    <3>2. pend'.round = pend.round /\ pend'.attempt = pend.attempt /\ pend'.phase = "EVAL"
      BY <2>1, <3>1 DEF NextAttempt, Evaluating
    <3>3. Late'
      BY <1>f, <2>1, <2>2
    <3> QED BY <1>0, <2>1, <2>2, <3>2, <3>3 DEF Landed, Current
  <2> QED BY <1>a, <1>r, <2>1, <2>2 DEF BestFileInStep
<1>3. CASE Reuses \/ Generates
  <2>1. /\ SameRounds /\ best' = best /\ pend' = pend /\ dir' = dir /\ pc' \notin Settling
        /\ pc \in {"edit", "generate"} /\ restarts' = restarts
    BY <1>0, <1>3 DEF Reuses, Generates
  <2> QED BY <1>a, <1>l, <1>r, <1>f, <2>1 DEF BestFileInStep
<1>4. CASE BasesOn
  <2>1. SameRounds /\ best' = best /\ pc' \notin Settling /\ restarts' = restarts
    BY <1>0, <1>4 DEF BasesOn
  <2>2. ~Landed
    BY <1>4 DEF BasesOn, HasCheckpoint, Landed, AttemptsInStep
  <2> QED BY <1>a, <1>r, <2>1, <2>2 DEF BestFileInStep
<1>5. CASE Checkpoints
  <2>1. SameRounds /\ best' = best /\ pc' \notin Settling /\ restarts' = restarts
    BY <1>0, <1>5 DEF Checkpoints
  <2>2. ~Landed
    BY <1>5 DEF Checkpoints, Landed, CandidatesInStep
  <2> QED BY <1>a, <1>r, <2>1, <2>2 DEF BestFileInStep
<1>6. CASE Marks
  <2>1. /\ SameRounds /\ best' = best /\ dir' = dir /\ pc' \notin Settling
        /\ pend'.round = pend.round /\ pend'.attempt = pend.attempt /\ pend'.phase = "EVAL"
        /\ pc = "mark" /\ restarts' = restarts
    BY <1>0, <1>6 DEF Marks
  <2>2. Landed => Landed'
    BY <1>0, <1>f, <2>1 DEF Landed, Current
  <2> QED BY <1>a, <1>r, <2>1, <2>2 DEF BestFileInStep
<1>7. CASE Completes
  <2>1. SameRounds /\ best' = best /\ pc' \notin Settling /\ restarts' = restarts
    BY <1>0, <1>7 DEF Completes
  <2>2. ~Landed
    BY <1>7 DEF Completes, Landed, AttemptsInStep, CandidatesInStep, NoOp
  <2> QED BY <1>a, <1>r, <2>1, <2>2 DEF BestFileInStep
<1>8. CASE \E r \in Outcomes : Evaluates(r)
  <2>1. PICK r \in Outcomes : Evaluates(r)
    BY <1>8
  <2>2. /\ SameRounds /\ best' = best /\ pend' = pend /\ pc = "compare" /\ r \in Measured
        /\ Dir(dir.attempt, dir.base, dir.cand, r) /\ restarts' = restarts
        /\ m'.res = r
        /\ m'.dec \notin Kept /\ Valid(r) => m'.dec = "DISCARD"
    BY <1>0, <2>1 DEF Evaluates, Kept
  <2>3. Landed => Valid(r)
    BY <2>2 DEF Landed, Valid, Measured
  <2>4. Landed => Landed'
    BY <1>0, <1>f, <2>2, <2>3 DEF Landed, Current, Dir
  <2> QED BY <1>a, <1>r, <2>2, <2>4 DEF BestFileInStep
<1>9. CASE Lands
  <2>1. /\ SameRounds /\ best' = m.cand /\ pend' = pend /\ dir' = dir /\ m'.dec = m.dec
        /\ pc = "best" /\ pc' \in {"observe", "item"}
    BY <1>0, <1>9 DEF Lands, SameMind, SameVerdict
  <2>2. /\ Current /\ pend.phase = "EVAL" /\ dir.attempt = pend.attempt /\ dir.cand = m.cand
        /\ m.cand # 0 /\ m.cand # dir.base
    BY <2>1 DEF AttemptsInStep, CandidatesInStep, Unrecorded
  <2>3. m.dec \in Kept /\ Valid(dir.truth)
    BY <2>1 DEF BestInStep, Exceeds
  <2>4. Landed'
    BY <1>0, <2>1, <2>2, <2>3 DEF Landed, Current, Late
  <2> QED BY <2>1, <2>3, <2>4 DEF BestFileInStep
<1>10. CASE Records
  <2>1. /\ N \in Nat /\ DOMAIN traj.rounds = 1..N /\ DOMAIN traj'.rounds = 1..(N + 1)
        /\ \A i \in 1..N : traj'.rounds[i] = traj.rounds[i]
        /\ traj'.rounds[N + 1].attempt = m.attempt /\ traj'.rounds[N + 1].bundle = m.cand
        /\ traj'.rounds[N + 1].dec = m.dec /\ traj'.rounds[N + 1].res = m.res
        /\ pc = "round" /\ pc' = "complete" /\ traj'.best = m.bestRound /\ best' = best
        /\ restarts' = restarts
    BY <1>10 DEF Records
  <2>2. PICK k \in DOMAIN traj'.rounds : k = N + 1
    BY <2>1
  <2>3. dir.truth = m.res
    BY <2>1 DEF BestInStep
  <2>4. CASE m.dec \in Kept
    <3>1. m.bestRound = m.attempt /\ best = m.cand /\ Valid(m.res)
      BY <2>1, <2>4 DEF BestInStep, Exceeds
    <3>2. HoldsBest(k)'
      BY <2>1, <2>2, <3>1 DEF HoldsBest
    <3>3. AsRecorded'
      BY <2>2, <3>2 DEF AsRecorded
    <3> QED BY <2>1, <3>3 DEF BestFileInStep
  <2>5. CASE m.dec \notin Kept /\ (AsRecorded \/ traj.best = 0)
    <3>1. traj'.best = traj.best
      BY <2>1, <2>5 DEF BestInStep, KnowsBest
    <3>2. \A i \in DOMAIN traj.rounds :
            i \in DOMAIN traj'.rounds /\ traj'.rounds[i] = traj.rounds[i]
      BY <2>1
    <3>3. AsRecorded'
      BY <1>r, <2>1, <2>5, <3>1, <3>2 DEF AsRecorded, HoldsBest
    <3> QED BY <2>1, <3>3 DEF BestFileInStep
  <2>6. CASE m.dec \notin Kept /\ ~AsRecorded /\ traj.best # 0
    <3>1. Landed
      BY <2>6 DEF BestFileInStep
    <3>2. m.cand = best /\ Valid(m.res) /\ ~FirstProcess
      BY <2>1, <2>3, <2>6, <3>1 DEF Landed, Late, CandidatesInStep
    <3>3. m.dec = "DISCARD"
      BY <2>1, <2>6, <3>2 DEF BestFileInStep
    <3>4. traj.best < m.attempt /\ traj'.best = traj.best
      <4>1. PICK i \in DOMAIN traj.rounds : IsBest(i)
        BY <2>6 DEF BestInStep
      <4>2. AboveRecorded(m.attempt)
        BY <2>1 DEF AttemptsInStep
      <4>3. m.bestRound = traj.best
        BY <2>1, <2>6 DEF BestInStep, KnowsBest
      <4> QED BY <2>1, <4>1, <4>2, <4>3 DEF IsBest, AboveRecorded
    <3>5. HoldsBest(k)'
      <4>1. traj'.rounds[k].attempt > traj'.best
        <5>1. traj.best \in Nat /\ m.attempt \in Nat
          BY DEF RunType, Memory
        <5> QED BY <2>1, <2>2, <3>4, <5>1
      <4>2. traj'.rounds[k].bundle = best' /\ Valid(traj'.rounds[k].res)
            /\ traj'.rounds[k].dec = "DISCARD" /\ ~FirstProcess'
        BY <1>r, <2>1, <2>2, <3>2, <3>3
      <4> QED BY <4>1, <4>2 DEF HoldsBest
    <3>6. AsRecorded'
      BY <2>2, <3>5 DEF AsRecorded
    <3> QED BY <2>1, <3>6 DEF BestFileInStep
  <2> QED BY <2>4, <2>5, <2>6
<1>11. CASE Saves
  <2>1. /\ SameRounds /\ best' = best /\ pend' = pend /\ dir' = dir /\ restarts' = restarts
        /\ pc \in {"workflow", "finish"} /\ pc' \notin Settling
    BY <1>11 DEF Saves
  <2> QED BY <1>a, <1>l, <1>r, <1>f, <2>1 DEF BestFileInStep
<1>12. CASE Stops
  <2>1. /\ SameRounds /\ best' = best /\ pend' = pend /\ dir' = dir /\ restarts' = restarts
        /\ pc' = "down"
    BY <1>0, <1>12 DEF Stops
  <2>2. Late'
    BY <2>1 DEF Late
  <2> QED BY <1>a, <1>l, <1>r, <2>1, <2>2 DEF BestFileInStep
<1>13. CASE Resumes
  <2>1. /\ SameRounds /\ best' = best /\ pend' = pend /\ dir' = dir /\ pc' = "preflight"
        /\ pc = "down" /\ restarts' = restarts + 1 /\ restarts \in Nat
    BY <1>0, <1>13, FilesTyped DEF Resumes
  <2>2. FirstProcess' => FirstProcess
    BY <2>1 DEF FirstProcess
  <2>3. Landed => ~FirstProcess'
    <3>1. ASSUME Landed
          PROVE  restarts # 0
      BY <3>1 DEF Landed, RepairInStep, NoPend
    <3> QED BY <2>1, <3>1 DEF FirstProcess
  <2> QED BY <1>a, <1>l, <2>1, <2>2, <2>3 DEF BestFileInStep, Late
<1> QED BY <1>1, <1>2, <1>3, <1>4, <1>5, <1>6, <1>7, <1>8, <1>9, <1>10, <1>11, <1>12, <1>13
        DEF Steps

\* A process resumed once has the baseline of the record.
LEMMA BaselineStep ==
  ASSUME RunType, AttemptsInStep, BestInStep, BaselineKept, RepairInStep, BaselineInStep,
         MaxRestarts <= 1, Steps
  PROVE  BaselineInStep'
<1> USE DEF Settling, InLoop
<1>0. /\ SameTraj => SameRounds /\ traj'.wf.baseline = traj.wf.baseline
      /\ SameRounds => traj'.rounds = traj.rounds /\ traj'.best = traj.best
  BY DEF SameTraj, SameRounds
<1>p. \A i \in DOMAIN traj.rounds : traj.rounds[i].attempt > 0 /\ traj.rounds[i].attempt \in Nat
  BY RecordTyped DEF AttemptsInStep
<1>1. CASE /\ SameTraj /\ restarts' = restarts /\ m'.baseline = m.baseline
           /\ pc # "down" /\ pc' \notin {"down", "complete", "workflow"}
           /\ pc \notin {"complete", "workflow"}
  BY <1>0, <1>1 DEF BaselineInStep, IsBaseline
<1>2. CASE Quiet \/ Begins \/ Reuses \/ Generates \/ BasesOn \/ Checkpoints \/ Marks \/ Lands
           \/ Observes
  <2>1. SameTraj /\ restarts' = restarts /\ m'.baseline = m.baseline
    BY <1>2 DEF Quiet, Begins, Reuses, Generates, BasesOn, Checkpoints, Marks, Lands,
         Observes, SameMind, SameBest
  <2>2. /\ pc # "down" /\ pc' \notin {"down", "complete", "workflow"}
        /\ pc \notin {"complete", "workflow"}
    BY <1>2 DEF Quiet, Begins, Reuses, Generates, BasesOn, Checkpoints, Marks, Lands,
         Observes, Goes
  <2> QED BY <1>1, <2>1, <2>2
<1>3. CASE Completes
  BY <1>0, <1>3 DEF Completes, SameMind, SameBest, BaselineInStep, IsBaseline
<1>4. CASE \E r \in Outcomes : Evaluates(r)
  <2>1. PICK r \in Outcomes : Evaluates(r)
    BY <1>4
  <2>2. /\ SameTraj /\ restarts' = restarts /\ pc = "compare"
        /\ pc' \in {"baseline", "best", "restore"}
        /\ m.baseline # 0 => m'.baseline = m.baseline
    BY <2>1 DEF Evaluates
  <2>3. \A i \in DOMAIN traj.rounds : IsBaseline(i) => m.baseline # 0
    BY <1>p, <2>2 DEF BaselineInStep
  <2> QED BY <1>0, <2>2, <2>3 DEF BaselineInStep, IsBaseline
<1>5. CASE Records
  <2>1. /\ N \in Nat /\ DOMAIN traj.rounds = 1..N /\ DOMAIN traj'.rounds = 1..(N + 1)
        /\ \A i \in 1..N : traj'.rounds[i] = traj.rounds[i]
        /\ traj'.rounds[N + 1].attempt = m.attempt /\ traj'.rounds[N + 1].dec = m.dec
        /\ pc = "round" /\ pc' = "complete" /\ traj'.best = m.bestRound
        /\ traj'.wf.baseline = traj.wf.baseline /\ restarts' = restarts
        /\ m'.baseline = m.baseline
    BY <1>5 DEF Records, SameMind, SameBest
  <2>2. restarts > 0
    BY <2>1, FilesTyped DEF RepairInStep
  <2>3. m.dec = "BASELINE_KEEP" =>
          m.baseline = m.attempt /\ m.bestRound = m.attempt /\ traj.wf.baseline = 0
    BY <2>1 DEF BestInStep, Kept
  <2> SUFFICES ASSUME NEW i \in 1..(N + 1), traj'.rounds[i].dec = "BASELINE_KEEP"
               PROVE  /\ restarts > 0
                      /\ m.baseline = traj'.rounds[i].attempt
                      /\ restarts <= 1 =>
                           traj'.rounds[i].attempt =
                             IF traj.wf.baseline # 0 THEN traj.wf.baseline ELSE traj'.best
    BY <2>1 DEF BaselineInStep, IsBaseline
  <2>4. CASE i = N + 1
    BY <2>1, <2>2, <2>3, <2>4
  <2>5. CASE i \in 1..N
    BY <2>1, <2>2, <2>5 DEF BaselineInStep, IsBaseline
  <2> QED BY <2>1, <2>4, <2>5
<1>6. CASE Saves
  <2>1. /\ traj'.rounds = traj.rounds /\ traj'.wf.baseline = m.baseline /\ restarts' = restarts
        /\ m'.baseline = m.baseline /\ pc # "down"
    BY <1>0, <1>6 DEF Saves, SameMind, SameBest
  <2>2. \A i \in DOMAIN traj.rounds :
          IsBaseline(i) => m.baseline = traj.rounds[i].attempt /\ m.baseline # 0
    BY <1>p, <2>1 DEF BaselineInStep
  <2> QED BY <2>1, <2>2 DEF BaselineInStep, IsBaseline
<1>7. CASE Stops
  BY <1>0, <1>7 DEF Stops, BaselineInStep, IsBaseline
<1>8. CASE Resumes
  <2>1. /\ SameRounds /\ traj'.wf.baseline = traj.wf.baseline /\ restarts' = restarts + 1
        /\ restarts \in Nat /\ restarts <= 1 /\ pc' = "preflight"
    BY <1>0, <1>8, FilesTyped, MultiTurnAssumption DEF Resumes
  <2>2. /\ best # 0 => \A i \in DOMAIN traj.rounds :
             traj.rounds[i].attempt = traj.best => m'.bestRes = traj.rounds[i].res
        /\ m'.baseline = IF traj.wf.baseline # 0 THEN traj.wf.baseline
                         ELSE IF Valid(m'.bestRes) THEN traj.best ELSE 0
    <3>1. Increasing
      BY DEF AttemptsInStep, Increasing
    <3> QED BY <1>8, <3>1, ResumedIs DEF Resumes
  <2> SUFFICES ASSUME NEW i \in DOMAIN traj.rounds, IsBaseline(i)
               PROVE  restarts' > 1 /\ m'.baseline = traj.rounds[i].attempt
    <3>1. restarts' > 1 => restarts' > 0 /\ ~(restarts' <= 1)
      BY <2>1
    <3> QED BY <1>0, <2>1, <3>1 DEF BaselineInStep, IsBaseline
  <2>3. restarts > 0
    BY DEF BaselineInStep
  <2>4. traj.rounds[i].attempt = IF traj.wf.baseline # 0 THEN traj.wf.baseline ELSE traj.best
    BY <2>1 DEF BaselineInStep
  <2>5. CASE traj.wf.baseline # 0
    BY <2>1, <2>2, <2>3, <2>4, <2>5
  <2>6. CASE traj.wf.baseline = 0
    <3>1. traj.best = traj.rounds[i].attempt /\ best # 0
      BY <1>p, <2>4, <2>6 DEF BestInStep
    <3>2. m'.bestRes = traj.rounds[i].res /\ Valid(m'.bestRes)
      BY <2>2, <3>1 DEF BaselineKept
    <3> QED BY <2>1, <2>2, <2>3, <2>6, <3>1, <3>2
  <2> QED BY <2>5, <2>6
<1> QED BY <1>2, <1>3, <1>4, <1>5, <1>6, <1>7, <1>8 DEF Steps

-----------------------------------------------------------------------------
(* The invariants *)

LEMMA RunInit == Init => RunInv
<1> SUFFICES ASSUME Init
             PROVE  RunInv
  OBVIOUS
<1>1. RunType
  <2>1. EmptyRepair \in [bundle : Nat, eval : Results, cleared : SUBSET Errors,
                         failed : [Errors -> Nat]]
    BY DEF EmptyRepair, Results
  <2>2. NoMemory \in Memory
    BY DEF NoMemory, Memory, Results, Phases, Plans, Decisions, RepairOutcomes, Ends
  <2>3. traj \in [rounds : Seq(RoundRec), best : Nat, status : Ends \cup {"running"},
                  wf : [baseline : Nat, diag : BOOLEAN, fails : Nat, noops : Nat]]
    BY DEF Init
  <2> QED BY <2>1, <2>2, <2>3 DEF Init, RunType, NoPend, NoDir, Results, Plans, Pcs, Scaffold
<1>2. traj.rounds = <<>> /\ DOMAIN traj.rounds = {} /\ Len(traj.rounds) = 0
  BY DEF Init
<1>3. Made
  BY <1>2 DEF Init, Made, EmptyRepair, NoDir, NoMemory, Scaffold
<1>4. AttemptsInStep /\ CandidatesInStep
  BY <1>2 DEF Init, AttemptsInStep, CandidatesInStep, Current, EvaluationRound, NoPend, NoDir,
       InLoop, Settling, NoOp
<1>5. BudgetsHold /\ BudgetLeft
  <2>1. Rounds("bootstrap") = {} /\ Rounds("optimization") = {}
    BY <1>2 DEF Rounds
  <2>2. Cardinality({}) = 0
    BY FS_EmptySet
  <2>3. MaxBootstrap >= 0 /\ MaxRounds >= 0 /\ MaxTotal >= 0
    BY MultiTurnAssumption
  <2>4. BudgetsHold
    BY <1>2, <2>1, <2>2, <2>3, MultiTurnAssumption DEF BudgetsHold
  <2> QED BY <2>4 DEF Init, BudgetLeft, InLoop, Settling
<1>6. BestInStep /\ BaselineKept
  BY <1>2 DEF Init, BestInStep, BaselineKept, Settling, Pcs, NoMemory, Kept
<1>7. RepairFits /\ RepairInStep
  BY DEF Init, RepairFits, RepairInStep, EmptyRepair, NoMemory, NoPend, InLoop, Settling
<1> QED BY <1>1, <1>3, <1>4, <1>5, <1>6, <1>7 DEF RunInv

LEMMA SettledHasResult ==
  ASSUME BestInStep
  PROVE  pc \in Settling => m.res \in Outcomes
BY DEF BestInStep

\* Nothing the invariants read changes with the variables.
LEMMA RunStutter ==
  ASSUME RunInv, UNCHANGED vars
  PROVE  RunInv'
<1> USE DEF vars
<1>1. RunType' /\ Made'
  BY DEF RunInv, RunType, Made
<1>2. AttemptsInStep' /\ CandidatesInStep'
  BY DEF RunInv, AttemptsInStep, CandidatesInStep, Current, EvaluationRound, AboveRecorded,
         Unrecorded
<1>3. BudgetsHold' /\ BudgetLeft'
  BY DEF RunInv, BudgetsHold, BudgetLeft, Rounds
<1>4. BestInStep' /\ BaselineKept'
  BY DEF RunInv, BestInStep, BaselineKept, IsBaseline, IsBest, NoneBetter, KnowsBest, Exceeds
<1>5. RepairFits' /\ RepairInStep'
  BY DEF RunInv, RepairFits, RepairInStep, AimsAt, FirstProcess
<1> QED BY <1>1, <1>2, <1>3, <1>4, <1>5 DEF RunInv

LEMMA RunStep ==
  ASSUME RunInv, [Next]_vars
  PROVE  RunInv'
<1>1. CASE Next
  <2>1. /\ RunType /\ Made /\ AttemptsInStep /\ CandidatesInStep /\ BudgetsHold /\ BudgetLeft
        /\ BestInStep /\ BaselineKept /\ RepairFits /\ RepairInStep
    BY DEF RunInv
  <2>2. Steps /\ Increasing
    BY <1>1, <2>1, EveryStep DEF AttemptsInStep, Increasing
  <2>3. RunType'
    BY <1>1, <2>1, <2>2, SettledHasResult, TypeStep
  <2>4. Made' /\ AttemptsInStep' /\ CandidatesInStep'
    BY <2>1, <2>2, MadeStep, AttemptsStep, CandidatesStep
  <2>5. BudgetsHold' /\ BudgetLeft'
    BY <2>1, <2>2, BudgetsStep
  <2>6. BestInStep' /\ BaselineKept' /\ RepairFits' /\ RepairInStep'
    BY <2>1, <2>2, BestStep, BaselineKeptStep, RepairFitsStep, RepairStep
  <2> QED BY <2>3, <2>4, <2>5, <2>6 DEF RunInv
<1>2. CASE UNCHANGED vars
  BY <1>2, RunStutter
<1> QED BY <1>1, <1>2

(* The record, the files and the process's memory agree at every write,     *)
(* wherever the process dies: the attempt pending for the next round is     *)
(* above the recorded ones, its candidate is its base or new, best_round is *)
(* the best of the rounds, the process knows its result, and the repair     *)
(* base is the one the next candidate is made from.                         *)
THEOREM RunInvariant == Spec => []RunInv
<1>1. RunInv /\ [Next]_vars => RunInv'
  BY RunStep
<1> QED BY <1>1, RunInit, PTL DEF Spec

(* Neither an attempt nor a candidate is recorded twice, however often the  *)
(* process dies and is resumed.                                             *)
THEOREM RoundsDistinct == Spec => []RoundsAreDistinct
<1>1. RunInv => RoundsAreDistinct
  BY DEF RunInv, AttemptsInStep, CandidatesInStep, RoundsAreDistinct
<1> QED BY <1>1, RunInvariant, PTL

(* The rounds recorded stay within the budget of the bootstrap, that of the *)
(* optimization and the total, over every death and resume.                 *)
THEOREM BudgetsKept == Spec => []BudgetsHold
<1>1. RunInv => BudgetsHold
  BY DEF RunInv
<1> QED BY <1>1, RunInvariant, PTL

(* best_round names a recorded valid round that no other outscores, and no  *)
(* second baseline is kept: also when a candidate measures differently the  *)
(* second time.                                                             *)
THEOREM BestRoundIsMax ==
  Spec => []((traj.best # 0 => \E i \in DOMAIN traj.rounds : IsBest(i)) /\ BaselineKept)
<1>1. RunInv => (traj.best # 0 => \E i \in DOMAIN traj.rounds : IsBest(i)) /\ BaselineKept
  BY DEF RunInv, BestInStep
<1> QED BY <1>1, RunInvariant, PTL

(* The first process makes every bootstrap candidate from the base of the   *)
(* repair state, with the evidence measured on it.                          *)
THEOREM RepairIsBase == Spec => []EditsRepairBase
<1>1. RunInv => EditsRepairBase
  BY DEF RunInv, RepairInStep, EditsRepairBase, AimsAt, InLoop
<1> QED BY <1>1, RunInvariant, PTL

LEMMA RepairMoves ==
  ASSUME RunInv, Steps, repair'.bundle # repair.bundle, repair.eval # NoResult
  PROVE  LET old == repair.eval
             new == repair'.eval
         IN \/ new.rank > old.rank
            \/ new.rank = old.rank /\ repair.cleared \subseteq repair'.cleared
               /\ (repair.cleared # repair'.cleared \/ MoreCases(old, new))
<1>1. Observes
  BY DEF Steps, Quiet, Begins, Reuses, Generates, BasesOn, Checkpoints, Marks, Completes,
         Evaluates, Lands, Records, Saves, Stops, Resumes
<1>2. /\ pc = "observe" /\ Accepts(m.outcome) /\ repair'.eval = m.res
      /\ repair'.cleared = (repair.cleared \cup Cleared(m.baseRes, m.res)) \ m.res.errs
  BY <1>1 DEF Observes
<1>3. /\ m.phase = "bootstrap" /\ m.outcome = Decide(m.baseRes, m.res, repair.cleared)
      /\ AimsAt(m.base, m.baseRes)
  BY <1>2 DEF RunInv, RepairInStep, Settling
<1>4. /\ m.baseRes = repair.eval /\ repair.eval.errs \cap repair.cleared = {}
  BY <1>3 DEF RunInv, RepairFits, AimsAt
<1> DEFINE old == repair.eval
           new == m.res
<1>5. old.rank \in Int /\ new.rank \in Int
  <2>1. repair.eval \in Outcomes /\ m.res \in Outcomes
    BY <1>2, FilesTyped, SettledHasResult DEF RunInv, Results, Settling
  <2> QED BY <2>1, Scores
<1>6. Decide(old, new, repair.cleared) \in {"FRONTIER_ADVANCED", "PARTIAL_KEEP", "INITIAL_KEEP"}
  BY <1>2, <1>3, <1>4 DEF Accepts
<1>7. CASE new.rank > old.rank
  BY <1>2, <1>7
<1>8. CASE ~(new.rank > old.rank)
  <2>1. /\ ~(new.rank < old.rank) /\ Reintroduced(new, repair.cleared) = {}
        /\ Cleared(old, new) # {} \/ MoreCases(old, new)
    <3>1. CASE new.rank < old.rank \/ Reintroduced(new, repair.cleared) # {}
      <4>1. new.rank <= old.rank
        BY ONLY <1>5, <1>8
      <4>2. Decide(old, new, repair.cleared) = "REGRESSION"
        BY <1>8, <3>1, <4>1 DEF Decide
      <4> QED BY <1>6, <4>2
    <3>2. CASE ~(new.rank < old.rank \/ Reintroduced(new, repair.cleared) # {})
      BY <1>6, <1>8, <3>2 DEF Decide
    <3> QED BY <3>1, <3>2
  <2>2. new.rank = old.rank
    BY <1>5, <1>8, <2>1
  <2>3. repair'.cleared = repair.cleared \cup Cleared(old, new)
    BY <1>2, <1>4, <2>1 DEF Reintroduced, Cleared
  <2>4. Cleared(old, new) \cap repair.cleared = {}
    BY <1>4 DEF Cleared, OpenErrors
  <2> QED BY <1>2, <2>1, <2>2, <2>3, <2>4
<1> QED BY <1>7, <1>8

(* No sequence of accepted repairs comes back to an earlier base, over      *)
(* every death and resume.                                                  *)
THEOREM RepairGoesOn == Spec => RepairAdvances
<1>1. RunInv /\ [Next]_vars =>
        [repair'.bundle # repair.bundle /\ repair.eval # NoResult =>
           LET old == repair.eval
               new == repair'.eval
           IN \/ new.rank > old.rank
              \/ new.rank = old.rank /\ repair.cleared \subseteq repair'.cleared
                 /\ (repair.cleared # repair'.cleared \/ MoreCases(old, new))]_vars
  <2> SUFFICES ASSUME RunInv, Next, repair'.bundle # repair.bundle, repair.eval # NoResult
               PROVE  LET old == repair.eval
                          new == repair'.eval
                      IN \/ new.rank > old.rank
                         \/ new.rank = old.rank /\ repair.cleared \subseteq repair'.cleared
                            /\ (repair.cleared # repair'.cleared \/ MoreCases(old, new))
    OBVIOUS
  <2>1. Steps
    BY EveryStep DEF RunInv
  <2> QED BY <2>1, RepairMoves
<1> QED BY <1>1, RunInvariant, PTL DEF Spec, RepairAdvances

-----------------------------------------------------------------------------
(* What relates the files to the rounds *)

LEMMA BestFileInductive == Spec => [](RunInv /\ BestFileInStep)
<1>1. Init => BestFileInStep
  BY DEF Init, BestFileInStep, AsRecorded, Settling
<1>2. RunInv /\ BestFileInStep /\ [Next]_vars => BestFileInStep'
  <2> SUFFICES ASSUME RunInv, BestFileInStep, [Next]_vars
               PROVE  BestFileInStep'
    OBVIOUS
  <2>1. CASE Next
    <3>1. Steps
      BY <2>1, EveryStep DEF RunInv
    <3> QED BY <3>1, BestFileStep DEF RunInv
  <2>2. CASE UNCHANGED vars
    BY <2>2 DEF vars, BestFileInStep, AsRecorded, HoldsBest, Landed, Late, FirstProcess,
                Current, EvaluationRound
  <2> QED BY <2>1, <2>2
<1> QED BY <1>1, <1>2, RunInvariant, PTL DEF Spec

LEMMA BestFileImplies ==
  ASSUME RunInv, BestFileInStep
  PROVE  BestIsMax
<1> SUFFICES ASSUME pend = NoPend, traj.best # 0
             PROVE  /\ \E i \in DOMAIN traj.rounds : IsBest(i)
                    /\ \E i \in DOMAIN traj.rounds : HoldsBest(i)
  BY DEF BestIsMax
<1>1. ~Current
  <2>1. EvaluationRound > 0 /\ EvaluationRound \in Nat
    BY LengthTyped DEF RunInv
  <2> QED BY <2>1 DEF Current, NoPend
<1>2. AsRecorded
  BY <1>1 DEF BestFileInStep, Landed
<1> QED BY <1>2 DEF AsRecorded, RunInv, BestInStep

(* While no attempt is pending, best_round is the best of the recorded      *)
(* rounds, and best.json the bundle of a recorded valid round, for every    *)
(* budget and however often the process dies: of best_round in the first    *)
(* process, and in a later one of best_round or of a candidate whose first  *)
(* measurement was lost with a death and whose second one was discarded.    *)
THEOREM BestFileKept == Spec => []BestIsMax
<1>1. RunInv /\ BestFileInStep => BestIsMax
  BY BestFileImplies
<1> QED BY <1>1, BestFileInductive, PTL

LEMMA BaselineInductive ==
  ASSUME MaxRestarts <= 1
  PROVE  Spec => [](RunInv /\ BaselineInStep)
<1>1. Init => BaselineInStep
  BY DEF Init, BaselineInStep
<1>2. RunInv /\ BaselineInStep /\ [Next]_vars => BaselineInStep'
  <2> SUFFICES ASSUME RunInv, BaselineInStep, [Next]_vars
               PROVE  BaselineInStep'
    OBVIOUS
  <2>1. CASE Next
    <3>1. Steps
      BY <2>1, EveryStep DEF RunInv
    <3> QED BY <3>1, BaselineStep DEF RunInv
  <2>2. CASE UNCHANGED vars
    BY <2>2 DEF vars, BaselineInStep, IsBaseline
  <2> QED BY <2>1, <2>2
<1> QED BY <1>1, <1>2, RunInvariant, PTL DEF Spec

(* While the process is resumed at most once, the first valid round is the  *)
(* only baseline that was kept, and every later one starts with it: also    *)
(* when candidates measure differently the second time.                     *)
THEOREM BaselineStays ==
  ASSUME MaxRestarts <= 1
  PROVE  Spec => []BaselineSticks
<1>1. RunInv /\ BaselineInStep => BaselineSticks
  BY DEF RunInv, BaselineKept, BaselineInStep, IsBaseline, BaselineSticks
<1> QED BY <1>1, BaselineInductive, PTL

(* The record of a run that is resumed at most once: its rounds are distinct and  *)
(* within their budgets, the best files are what they say, and the first    *)
(* valid round is the baseline of every later one, also when candidates     *)
(* measure differently the second time.                                     *)
THEOREM RunExact ==
  ASSUME MaxRestarts <= 1
  PROVE  Spec => []RunIsExact
<1>1. RunInv => RoundsAreDistinct /\ BudgetsHold
  BY DEF RunInv, AttemptsInStep, CandidatesInStep, RoundsAreDistinct
<1>2. RunInv /\ BestFileInStep => BestIsMax
  BY BestFileImplies
<1>3. RunInv /\ BaselineInStep => BaselineSticks
  BY DEF RunInv, BaselineKept, BaselineInStep, IsBaseline, BaselineSticks
<1>4. RunInv /\ BestFileInStep /\ BaselineInStep => RunIsExact
  BY <1>1, <1>2, <1>3 DEF RunIsExact, FilesMatchRounds
<1> QED BY <1>4, BestFileInductive, BaselineInductive, PTL
=============================================================================
