-------------------------- MODULE TaskEngineProofs --------------------------
(***************************************************************************)
(* The task engine is correct for every budget, threshold, cap and number  *)
(* of plan items, and for any number of deaths.  Three parts: the types;   *)
(* the journal and recovery; and the refinement, that seen through         *)
(* recovery the scripts, hooks and deaths implement the ledger of          *)
(* TaskLedger, so that what the ledger keeps is true of the files.         *)
(*                                                                         *)
(* The journal.  An entry is written before the body of its transaction    *)
(* and dropped after the state.  Until the body lands, replay changes      *)
(* nothing; once it has landed, replay saves exactly what the commit would *)
(* have saved; once the state is saved, replay changes nothing again.  So  *)
(* JournalInv is inductive, and what replay leaves belongs together.       *)
(*                                                                         *)
(* The refinement.  Every write of a command maps to one step of the       *)
(* ledger or to none: the row of history.jsonl is the seed or the round,   *)
(* plan.md is the new plan, and everything before and after those writes   *)
(* is invisible, because the journal makes recovery see the transaction    *)
(* done from its body on.  That the step is one the ledger allows is what  *)
(* PhaseAt and InHand say of the command, and what the invariant of the    *)
(* ledger (TaskLedgerProofs) says of the files.                            *)
(***************************************************************************)
EXTENDS TaskSafety, TLAPS

LP == INSTANCE TaskLedgerProofs WITH state <- Recovered, rows <- hist

-----------------------------------------------------------------------------
(* PART 1: types.  The operators of TaskRecord *)

\* Item numbers handed out next are natural numbers.
LEMMA FirstPidNat ==
  ASSUME NEW pr \in Progress, NEW p \in Plan
  PROVE  FirstPid(pr, p) \in Nat
BY DEF FirstPid, Progress, Plan, PlanExists

\* What replaying the journal saves is a control record.
LEMMA CommittedType ==
  ASSUME NEW s \in State, NEW i \in Intent, i.kind = "round" => i.kd \in Kd
  PROVE  /\ Committed(s, i) \in State
         /\ i.kind = "round" => Committed(s, i).pending \in Kd
<1>1. CASE i.kind = "round"
  BY <1>1 DEF Committed, State, Intent
<1>2. CASE i.kind = "baseline"
  BY <1>2 DEF Committed, State, Intent
<1>3. CASE i.kind = "plan"
  BY <1>3 DEF Committed, State, Intent, Progress
<1>4. CASE i.kind = "none"
  BY <1>4 DEF Committed, State, Intent
<1> QED BY <1>1, <1>2, <1>3, <1>4 DEF Intent

LEMMA ReplayedType ==
  ASSUME NEW s \in State, NEW i \in Intent, NEW p, NEW h,
         i.kind = "round" => i.kd \in Kd
  PROVE  Replayed(s, p, h, i) \in State
BY CommittedType DEF Replayed

\* The next ACTIVE item is a natural number, 0 when there is none.
LEMMA ActiveItemNat ==
  ASSUME NEW p \in Plan PROVE ActiveItem(p) \in Nat
BY DEF ActiveItem, HasPending, Plan

\* Settling an item keeps a plan a plan.
LEMMA SettledPlanType ==
  ASSUME NEW p \in Plan, NEW d \in Decisions
  PROVE  SettledPlan(p, d) \in Plan
<1> DEFINE row == [item |-> ActiveItem(p), decision |-> d]
           q   == Append(p.settled, row)
<1>1. row \in SettledRow
  BY ActiveItemNat DEF SettledRow
<1>2. q \in Seq(SettledRow)
  <2>1. p.settled \in Seq(SettledRow)
    BY DEF Plan
  <2> HIDE DEF row
  <2> QED BY <1>1, <2>1
<1> DEFINE r == [p EXCEPT !.done = p.done + 1]
<1>3. r \in Plan
  BY DEF Plan
<1>4. SettledPlan(p, d) = [r EXCEPT !.settled = q]
  BY DEF SettledPlan
<1> HIDE DEF q, r
<1> QED BY <1>2, <1>3, <1>4 DEF Plan

\* Phases computed by the policies are phases.
LEMMA PhaseTypes ==
  ASSUME NEW s, NEW p
  PROVE  /\ NextPhase(s, p) \in Phases
         /\ ResumePhase(s, p) \in Phases
         /\ BaselinePhase(s) \in Phases
BY DEF NextPhase, ResumePhase, BaselinePhase, Phases

-----------------------------------------------------------------------------
(* Type correctness *)

\* The control points, expanded.
LEMMA PcSets ==
  /\ {"idle", "down", "open", "healed", "opened", "base_body", "base_state",
      "base_clear", "base_phase", "plan_body", "plan_state", "plan_clear",
      "eval", "git", "round_intent", "round_body", "round_state", "round_clear",
      "settle", "next_phase", "unmark", "settled", "hook_reset", "hook_phase",
      "hook_recover", "hook_clear", "post_plan", "post_task"} = Pcs
  /\ {"baseline", "plan", "pipeline", "none", "hook", "activate", "task"} = Cmds
  /\ {"KEEP", "DISCARD", "FAIL", "ok", "kernel_fail", "no_metric", "none", "fresh"} = Outs
BY DEF Pcs, RestPcs, OpenPcs, BaselinePcs, PlanPcs, RoundPcs, SettlePcs, HookPcs,
       Cmds, Scripts, Outs, SeedOutcomes, Decisions

\* The empty records have their types.
LEMMA EmptyTypes ==
  /\ NoProgress \in Progress
  /\ NoIntent \in Intent
  /\ \A p \in Phases : FreshState(p) \in State
  /\ NoPlan \in Plan
BY DEF NoProgress, Progress, NoIntent, Intent, FreshState, State, NoPlan, Plan,
       NoCommit, SettledRow

\* A phase write is a control record again.
LEMMA PhaseWrite ==
  ASSUME NEW s \in State, NEW p \in Phases
  PROVE  [s EXCEPT !.phase = p] \in State
BY DEF State

\* Journal entries built from typed parts are typed.
LEMMA BaselineEntryType ==
  ASSUME NEW b \in Int
  PROVE  /\ BaselineEntry(b) \in Intent
         /\ BaselineEntry(b).kind = "baseline"
         /\ BaselineEntry(b).target = 0
         /\ BaselineEntry(b).prog.rounds = 0
         /\ BaselineEntry(b).prog.version = 0
<1> DEFINE p1 == [NoProgress EXCEPT !.best = b]
           p2 == [p1 EXCEPT !.seedOk = (b # NoCommit)]
<1>1. p1 \in Progress /\ p1.rounds = 0 /\ p1.version = 0
  BY EmptyTypes DEF Progress, NoProgress
<1>2. p2 \in Progress /\ p2.rounds = 0 /\ p2.version = 0
  <2> HIDE DEF p1
  <2> DEFINE q == b # NoCommit
  <2>1. q \in BOOLEAN
    OBVIOUS
  <2> HIDE DEF q
  <2>2. [p1 EXCEPT !.seedOk = q] \in Progress
    BY <1>1, <2>1 DEF Progress
  <2>3. [p1 EXCEPT !.seedOk = q].rounds = 0 /\ [p1 EXCEPT !.seedOk = q].version = 0
    BY <1>1 DEF Progress
  <2> QED BY <2>2, <2>3 DEF q
<1>3. BaselineEntry(b) = [kind |-> "baseline", target |-> 0, kd |-> NoKd, prog |-> p2]
  BY DEF BaselineEntry
<1> HIDE DEF p2
<1> QED BY <1>2, <1>3 DEF Intent

LEMMA PlanEntryType ==
  ASSUME NEW v \in Nat, NEW n \in Nat
  PROVE  /\ PlanEntry(v, n) \in Intent
         /\ PlanEntry(v, n).kind = "plan"
         /\ PlanEntry(v, n).target = v
         /\ PlanEntry(v, n).prog.version = v
         /\ PlanEntry(v, n).prog.nextPid = n
<1> DEFINE p1 == [NoProgress EXCEPT !.version = v]
           p2 == [p1 EXCEPT !.nextPid = n]
<1>1. p1 \in Progress /\ p1.version = v
  BY EmptyTypes DEF Progress, NoProgress
<1>2. p2 \in Progress /\ p2.version = v /\ p2.nextPid = n
  <2> HIDE DEF p1
  <2> QED BY <1>1 DEF Progress
<1>3. PlanEntry(v, n) = [kind |-> "plan", target |-> v, kd |-> NoKd, prog |-> p2]
  BY DEF PlanEntry
<1> HIDE DEF p2
<1> QED BY <1>2, <1>3 DEF Intent

\* The progress after a round is progress again, one round further.
LEMMA RoundProgressType ==
  ASSUME NEW pr \in Progress, NEW d \in Decisions, head \in Nat
  PROVE  /\ RoundProgress(pr, d) \in Progress
         /\ RoundProgress(pr, d).rounds = pr.rounds + 1
         /\ RoundProgress(pr, d).version = pr.version
<1> DEFINE f  == CASE d = "FAIL" -> pr.fails + 1 [] d = "KEEP" -> 0 [] OTHER -> pr.fails
           b  == IF d = "KEEP" THEN head ELSE pr.best
           p1 == [pr EXCEPT !.rounds = pr.rounds + 1]
           p2 == [p1 EXCEPT !.fails = f]
           p3 == [p2 EXCEPT !.best = b]
<1>1. f \in Nat /\ b \in Int
  BY DEF Progress
<1>2. p1 \in Progress /\ p1.rounds = pr.rounds + 1 /\ p1.version = pr.version
      /\ p1.fails = pr.fails /\ p1.best = pr.best
  BY DEF Progress
<1>3. p2 \in Progress /\ p2.rounds = pr.rounds + 1 /\ p2.version = pr.version
      /\ p2.best = pr.best
  <2> HIDE DEF p1, f
  <2> QED BY <1>1, <1>2 DEF Progress
<1>4. p3 \in Progress /\ p3.rounds = pr.rounds + 1 /\ p3.version = pr.version
  <2> HIDE DEF p2, b
  <2> QED BY <1>1, <1>3 DEF Progress
<1>5. RoundProgress(pr, d) = p3
  BY DEF RoundProgress
<1> HIDE DEF p3
<1> QED BY <1>4, <1>5

LEMMA OpenType == TypeInv /\ Open => TypeInv'
<1> SUFFICES ASSUME TypeInv, Open PROVE TypeInv'
  OBVIOUS
<1>1. CASE Heal
  <2>1. st' \in State
    BY <1>1, ReplayedType DEF Heal, TypeInv, TypeOK
  <2> QED BY <1>1, <2>1, PcSets DEF Heal, TypeInv, TypeOK, Goto, git
<1>2. CASE DropIntent
  BY <1>2, PcSets, EmptyTypes DEF DropIntent, TypeInv, TypeOK, Goto, git, NoIntent
<1>3. CASE Claim
  <2>1. st' \in State
    BY <1>3, PhaseWrite DEF Claim, TypeInv, TypeOK, Phases
  <2> QED BY <1>3, <2>1, PcSets DEF Claim, TypeInv, TypeOK, Goto, Return, git
<1> QED BY <1>1, <1>2, <1>3 DEF Open

LEMMA BaselineType == TypeInv /\ Baseline => TypeInv'
<1> SUFFICES ASSUME TypeInv, Baseline PROVE TypeInv'
  OBVIOUS
<1>1. CASE BaselineDone
  <2>1. st' \in State
    BY <1>1, PhaseWrite, PhaseTypes DEF BaselineDone, TypeInv, TypeOK
  <2> QED BY <1>1, <2>1, PcSets DEF BaselineDone, TypeInv, TypeOK, Goto, Return, git, files, ctl
<1>2. CASE BaselinePending
  <2>1. st' \in State
    BY <1>2, PhaseWrite DEF BaselinePending, TypeInv, TypeOK, Phases
  <2> QED BY <1>2, <2>1, PcSets, EmptyTypes DEF BaselinePending, TypeInv, TypeOK, Return, git, NoIntent
<1>3. CASE \E o \in SeedOutcomes : BaselineIntent(o)
  <2> PICK o \in SeedOutcomes : BaselineIntent(o)
    BY <1>3
  <2> DEFINE b == IF o = "ok" THEN head ELSE NoCommit
  <2>3. b \in Int
    BY DEF TypeInv, TypeOK, NoCommit
  <2>4. intent' = BaselineEntry(b)
    BY DEF BaselineIntent
  <2> HIDE DEF b
  <2>1. intent' \in Intent /\ intent'.kind = "baseline"
    BY <2>3, <2>4, BaselineEntryType
  <2>2. o \in Outs
    BY DEF Outs
  <2> QED BY <2>1, <2>2, PcSets DEF BaselineIntent, TypeInv, TypeOK, git
<1>4. CASE BaselineBody
  <2>1. SeedRow(head) \in HistRow
    BY DEF SeedRow, HistRow, TypeInv, TypeOK
  <2>2. hist' \in Seq(HistRow)
    BY <1>4, <2>1 DEF BaselineBody, TypeInv, TypeOK
  <2> QED BY <1>4, <2>2, PcSets DEF BaselineBody, TypeInv, TypeOK, Goto, git
<1>5. CASE BaselineState
  <2>1. st' \in State
    BY <1>5, CommittedType DEF BaselineState, TypeInv, TypeOK
  <2> QED BY <1>5, <2>1, PcSets DEF BaselineState, TypeInv, TypeOK, Goto, Return, git, files, ctl
<1>6. CASE BaselineClear
  BY <1>6, PcSets, EmptyTypes DEF BaselineClear, TypeInv, TypeOK, Goto, Return, git, NoIntent
<1>7. CASE BaselineSettled
  <2>1. st' \in State
    BY <1>7, PhaseWrite, PhaseTypes DEF BaselineSettled, TypeInv, TypeOK
  <2> QED BY <1>7, <2>1, PcSets DEF BaselineSettled, TypeInv, TypeOK, Goto, Return, git, files, ctl
<1> QED BY <1>1, <1>2, <1>3, <1>4, <1>5, <1>6, <1>7 DEF Baseline

LEMMA MakePlanType == TypeInv /\ MakePlan => TypeInv'
<1> SUFFICES ASSUME TypeInv, MakePlan PROVE TypeInv'
  OBVIOUS
<1>1. CASE PlanIntent
  <2> PICK n \in PlanSizes :
         intent' = PlanEntry(st.prog.version + 1, FirstPid(st.prog, plan) + n)
    BY <1>1 DEF PlanIntent
  <2>1. n \in Nat /\ FirstPid(st.prog, plan) \in Nat /\ st.prog.version \in Nat
    BY FirstPidNat, RecordAssumption DEF RecordAssumption, TypeInv, TypeOK, State, Progress
  <2>2. /\ intent' \in Intent /\ intent'.kind = "plan"
        /\ intent'.prog.nextPid >= FirstPid(st.prog, plan)
    BY <2>1, PlanEntryType
  <2> QED BY <1>1, <2>2, PcSets DEF PlanIntent, TypeInv, TypeOK, Goto, git
<1>2. CASE PlanBody
  <2>1. FirstPid(st.prog, plan) \in Nat
    BY FirstPidNat DEF TypeInv, TypeOK, State
  <2>2. intent.prog.nextPid - FirstPid(st.prog, plan) \in Nat
    BY <1>2, <2>1 DEF PlanBody, TypeInv, TypeOK, Intent, Progress
  <2>3. plan' \in Plan
    BY <1>2, <2>1, <2>2 DEF PlanBody, RewrittenPlan, TypeInv, TypeOK, Plan, Intent
  <2> QED BY <1>2, <2>3, PcSets DEF PlanBody, TypeInv, TypeOK, Goto, git
<1>3. CASE PlanState
  <2>1. st' \in State
    BY <1>3, CommittedType DEF PlanState, TypeInv, TypeOK
  <2> QED BY <1>3, <2>1, PcSets DEF PlanState, TypeInv, TypeOK, Goto, Return, git, files, ctl
<1>4. CASE PlanClear
  BY <1>4, PcSets, EmptyTypes DEF PlanClear, TypeInv, TypeOK, Goto, git, NoIntent
<1> QED BY <1>1, <1>2, <1>3, <1>4 DEF MakePlan

LEMMA HookType == TypeInv /\ Hook => TypeInv'
<1> SUFFICES ASSUME TypeInv, Hook PROVE TypeInv'
  OBVIOUS
<1>1. CASE PostPlan
  BY <1>1, PcSets DEF PostPlan, TypeInv, TypeOK, Goto, Return, git, files, ctl
<1>2. CASE HookValidate
  BY <1>2, PcSets DEF HookValidate, TypeInv, TypeOK, Goto, Return, git, files, ctl
<1>3. CASE HookReset
  <2>1. st' \in State
    BY <1>3 DEF HookReset, TypeInv, TypeOK, State, Progress
  <2> QED BY <1>3, <2>1, PcSets DEF HookReset, TypeInv, TypeOK, Goto, Return, git, files, ctl
<1>4. CASE HookPhase
  <2>1. st' \in State
    BY <1>4, PhaseWrite DEF HookPhase, TypeInv, TypeOK, Phases
  <2> QED BY <1>4, <2>1, PcSets DEF HookPhase, TypeInv, TypeOK, Goto, Return, git, files, ctl
<1>5. CASE HookClear
  <2>1. st' \in State
    BY <1>5 DEF HookClear, TypeInv, TypeOK, State
  <2> QED BY <1>5, <2>1, PcSets DEF HookClear, TypeInv, TypeOK, Goto, Return, git, files, ctl
<1> QED BY <1>1, <1>2, <1>3, <1>4, <1>5 DEF Hook

LEMMA EvaluateType == TypeInv /\ Evaluate => TypeInv'
<1> SUFFICES ASSUME TypeInv, Evaluate PROVE TypeInv'
  OBVIOUS
<1>1. CASE PipelineStart
  BY <1>1, PcSets DEF PipelineStart, TypeInv, TypeOK, Goto, Return, git, files, ctl, State
<1>2. CASE EvalAbort
  BY <1>2, PcSets DEF EvalAbort, TypeInv, TypeOK, Goto, Return, git, files, ctl
<1>3. CASE \E d \in Decisions : EvalDecide(d)
  BY <1>3, PcSets DEF EvalDecide, Outs, TypeInv, TypeOK, Goto, Return, git, files, ctl
<1>4. CASE GitKeep
  <2>1. head' \in Nat
    BY <1>4 DEF GitKeep, TypeInv, TypeOK
  <2> QED BY <1>4, <2>1, PcSets DEF GitKeep, TypeInv, TypeOK, Goto, files
<1>5. CASE GitError
  <2>1. head' \in Nat
    BY <1>5 DEF GitError, TypeInv, TypeOK
  <2> QED BY <1>5, <2>1, PcSets DEF GitError, Decisions, TypeInv, TypeOK, files
<1>6. CASE GitRollback
  BY <1>6, PcSets DEF GitRollback, TypeInv, TypeOK, Goto, Return, git, files, ctl
<1> QED BY <1>1, <1>2, <1>3, <1>4, <1>5, <1>6 DEF Evaluate

LEMMA RecordType == TypeInv /\ Record => TypeInv'
<1> SUFFICES ASSUME TypeInv, Record PROVE TypeInv'
  OBVIOUS
<1>1. CASE RoundIntent
  <2>1. RoundProgress(st.prog, out) \in Progress
    BY <1>1, RoundProgressType DEF RoundIntent, TypeInv, TypeOK, State
  <2>2. RoundKd \in Kd
    BY <1>1, ActiveItemNat DEF RoundIntent, RoundKd, Kd, TypeInv, TypeOK, State, Progress
  <2>4. st.prog.rounds + 1 \in Nat
    BY DEF TypeInv, TypeOK, State, Progress
  <2>3. intent' \in Intent /\ intent'.kind = "round" /\ intent'.kd \in Kd
    BY <1>1, <2>1, <2>2, <2>4 DEF RoundIntent, Intent
  <2> QED BY <1>1, <2>3, PcSets DEF RoundIntent, TypeInv, TypeOK, Goto, git
<1>2. CASE RoundBody
  <2> DEFINE row == [round |-> intent.target, item |-> intent.kd.item, decision |-> out,
                     commit |-> IF out = "KEEP" THEN head ELSE NoCommit]
  <2>1. row \in HistRow
    BY <1>2 DEF RoundBody, HistRow, TypeInv, TypeOK, Intent, Kd, NoCommit
  <2>2. hist' = Append(hist, row)
    BY <1>2 DEF RoundBody
  <2> HIDE DEF row
  <2>3. hist' \in Seq(HistRow)
    BY <2>1, <2>2 DEF TypeInv, TypeOK
  <2> QED BY <1>2, <2>3, PcSets DEF RoundBody, TypeInv, TypeOK, Goto, git
<1>3. CASE RoundState
  <2>1. st' \in State /\ st'.pending \in Kd
    BY <1>3, CommittedType DEF RoundState, TypeInv, TypeOK
  <2> QED BY <1>3, <2>1, PcSets DEF RoundState, TypeInv, TypeOK, Goto, git
<1>4. CASE RoundClear
  BY <1>4, PcSets, EmptyTypes DEF RoundClear, TypeInv, TypeOK, Goto, git, NoIntent
<1> QED BY <1>1, <1>2, <1>3, <1>4 DEF Record

LEMMA SettleType == TypeInv /\ SettleIt => TypeInv'
<1> SUFFICES ASSUME TypeInv, SettleIt PROVE TypeInv'
  OBVIOUS
<1>1. CASE Settle
  <2>1. plan' \in Plan
    BY <1>1, SettledPlanType DEF Settle, TypeInv, TypeOK, Kd
  <2> QED BY <1>1, <2>1, PcSets DEF Settle, TypeInv, TypeOK, Goto, Return, git
<1>2. CASE SettlePhase
  <2>1. st' \in State
    BY <1>2, PhaseWrite, PhaseTypes DEF SettlePhase, TypeInv, TypeOK
  <2> QED BY <1>2, <2>1, PcSets DEF SettlePhase, TypeInv, TypeOK, Goto, Return, git, files, ctl
<1>3. CASE Unmark
  BY <1>3, PcSets DEF Unmark, TypeInv, TypeOK, Goto, Return, git, files, ctl
<1>4. CASE SettleClear
  <2>1. st' \in State
    BY <1>4 DEF SettleClear, TypeInv, TypeOK, State
  <2> QED BY <1>4, <2>1, PcSets DEF SettleClear, TypeInv, TypeOK, Goto, Return, git, files, ctl
<1> QED BY <1>1, <1>2, <1>3, <1>4 DEF SettleIt

\* Every step of a running command keeps the types.
LEMMA RunType == TypeInv /\ Run => TypeInv'
<1> SUFFICES ASSUME TypeInv, Run PROVE TypeInv'
  OBVIOUS
<1>1. CASE ActivateFresh
  <2>1. st' \in State
    BY <1>1, PhaseWrite DEF ActivateFresh, TypeInv, TypeOK, Phases
  <2> QED BY <1>1, <2>1, PcSets DEF ActivateFresh, TypeInv, TypeOK, Return
<1>2. CASE ActivateResume
  <2>1. st' \in State
    BY <1>2, PhaseWrite, PhaseTypes DEF ActivateResume, TypeInv, TypeOK
  <2> QED BY <1>2, <2>1, PcSets DEF ActivateResume, TypeInv, TypeOK, Return
<1>3. CASE PostTask
  <2> DEFINE a == IF DiagAction(st.prog, diag) = "READY" THEN 0
                  ELSE Attempts(st.prog) + 1
             p1 == [st.prog EXCEPT !.attempts = a]
             p2 == [p1 EXCEPT !.attFor = st.prog.version]
  <2>2. a \in Nat /\ st.prog \in Progress
    BY DEF Attempts, TypeInv, TypeOK, State, Progress
  <2>3. p2 \in Progress
    <3> HIDE DEF a
    <3>1. p1 \in Progress
      BY <2>2 DEF Progress
    <3> HIDE DEF p1
    <3> QED BY <2>2, <3>1 DEF Progress
  <2>4. st' = [st EXCEPT !.prog = p2]
    BY <1>3 DEF PostTask, TypeInv, TypeOK, State
  <2>1. st' \in State
    <3> HIDE DEF p2
    <3> QED BY <2>3, <2>4 DEF TypeInv, TypeOK, State
  <2> QED BY <1>3, <2>1, PcSets DEF PostTask, TypeInv, TypeOK, Return, git
<1> QED BY <1>1, <1>2, <1>3, OpenType, BaselineType, MakePlanType, HookType,
           EvaluateType, RecordType, SettleType DEF Run

\* What the agent starts, and deaths, keep them too.
LEMMA AgentType == TypeInv /\ (Agent \/ Kill \/ SessionCrash) => TypeInv'
<1> SUFFICES ASSUME TypeInv, Agent \/ Kill \/ SessionCrash PROVE TypeInv'
  OBVIOUS
<1>1. CASE \E c \in Scripts : Start(c)
  BY <1>1, PcSets DEF Start, Cmds, TypeInv, TypeOK, files, git
<1>2. CASE RejectPlan
  BY <1>2, PcSets DEF RejectPlan, TypeInv, TypeOK, files, git
<1>3. CASE Activate
  BY <1>3, PcSets DEF Activate, TypeInv, TypeOK, files, git
<1>4. CASE EditKernel
  BY <1>4, PcSets DEF EditKernel, TypeInv, TypeOK, files, ctl
<1>5. CASE Diagnose
  BY <1>5, PcSets DEF Diagnose, TypeInv, TypeOK, State, Progress, files, git
<1>6. CASE Kill
  BY <1>6, PcSets DEF Kill, Dies, TypeInv, TypeOK, files, git
<1>7. CASE SessionCrash
  BY <1>7, PcSets DEF SessionCrash, Dies, TypeInv, TypeOK, files, git
<1> QED BY <1>1, <1>2, <1>3, <1>4, <1>5, <1>6, <1>7 DEF Agent

LEMMA TypeInductive == TypeInv /\ [Next]_vars => TypeInv'
<1>1. ASSUME TypeInv, UNCHANGED vars PROVE TypeInv'
  BY <1>1 DEF TypeInv, TypeOK, vars
<1> QED BY <1>1, RunType, AgentType DEF Next

LEMMA InitType == Init => TypeInv
<1> SUFFICES ASSUME Init PROVE TypeInv
  OBVIOUS
<1>1. st \in State /\ plan \in Plan /\ intent \in Intent
  BY EmptyTypes DEF Init, Phases
<1>2. hist \in Seq(HistRow) /\ diag \subseteq Nat
  BY DEF Init
<1>3. head \in Nat /\ dirty \in BOOLEAN /\ marker \in BOOLEAN /\ kills \in Nat
  BY DEF Init
<1>4. pc \in Pcs /\ cmd \in Cmds /\ out \in Outs
  BY PcSets DEF Init
<1>5. intent.kind = "none" /\ pc = "idle"
  BY DEF Init, NoIntent
<1> QED BY <1>1, <1>2, <1>3, <1>4, <1>5 DEF TypeInv, TypeOK

\* Everything on disk and in a running command has its type, for all values of
\* the constants.
THEOREM TypeCorrect == Spec => []TypeInv
BY InitType, TypeInductive, PTL DEF Spec

THEOREM TypesHold == Spec => []TypeOK
<1>1. TypeInv => TypeOK
  BY DEF TypeInv
<1> QED BY <1>1, TypeCorrect, PTL
-----------------------------------------------------------------------------
(* PART 2: the journal.  Replay *)

\* Without an entry, or before the body of the transaction lands, there is
\* nothing to replay.
LEMMA ReplayNothing ==
  ASSUME NEW s, NEW p, NEW h, NEW i,
         i.kind = "none" \/ ~BodyLanded(p, h, i)
  PROVE  Replayed(s, p, h, i) = s
BY DEF Replayed, StateCaughtUp

\* A landed body is completed with what the commit itself would have saved.
LEMMA ReplayCompletes ==
  ASSUME NEW s, NEW p, NEW h, NEW i,
         BodyLanded(p, h, i), ~StateCaughtUp(s, i)
  PROVE  Replayed(s, p, h, i) = Committed(s, i)
BY DEF Replayed

\* What each commit saves.
LEMMA CommitRound ==
  ASSUME NEW s \in State, NEW i \in Intent, i.kind = "round"
  PROVE  /\ Committed(s, i).init = s.init
         /\ Committed(s, i).phase = s.phase
         /\ Committed(s, i).expPlan = s.expPlan
         /\ Committed(s, i).expRound = i.target
         /\ Committed(s, i).prog = i.prog
BY DEF Committed, State, Intent

LEMMA CommitBaseline ==
  ASSUME NEW s \in State, NEW i \in Intent, i.kind = "baseline"
  PROVE  /\ Committed(s, i).init = TRUE
         /\ Committed(s, i).phase = s.phase
         /\ Committed(s, i).expPlan = s.expPlan
         /\ Committed(s, i).expRound = 0
         /\ Committed(s, i).prog = i.prog
BY DEF Committed, State, Intent

LEMMA CommitPlan ==
  ASSUME NEW s \in State, NEW i \in Intent, i.kind = "plan"
  PROVE  /\ Committed(s, i).init = s.init
         /\ Committed(s, i).phase = s.phase
         /\ Committed(s, i).expPlan = i.target
         /\ Committed(s, i).expRound = s.expRound
         /\ Committed(s, i).prog.rounds = s.prog.rounds
         /\ Committed(s, i).prog.version = i.prog.version
BY DEF Committed, State, Progress, Intent

\* A committed state needs no replay.
LEMMA CommittedCaughtUp ==
  ASSUME NEW s \in State, NEW i \in Intent
  PROVE  StateCaughtUp(Committed(s, i), i)
<1>1. CASE i.kind = "round"
  BY <1>1, CommitRound DEF StateCaughtUp
<1>2. CASE i.kind = "baseline"
  BY <1>2, CommitBaseline DEF StateCaughtUp
<1>3. CASE i.kind = "plan"
  BY <1>3, CommitPlan DEF StateCaughtUp
<1>4. CASE i.kind = "none"
  BY <1>4 DEF StateCaughtUp
<1> QED BY <1>1, <1>2, <1>3, <1>4 DEF Intent

\* A death during recovery does no harm: replaying twice is replaying once.
LEMMA ReplayIdempotent ==
  ASSUME NEW s \in State, NEW p, NEW h, NEW i \in Intent
  PROVE  Replayed(Replayed(s, p, h, i), p, h, i) = Replayed(s, p, h, i)
BY CommittedCaughtUp DEF Replayed

LEMMA CommittedStays ==
  ASSUME NEW s \in State, NEW p, NEW h, NEW i \in Intent
  PROVE  Replayed(Committed(s, i), p, h, i) = Committed(s, i)
BY CommittedCaughtUp DEF Replayed

\* Replay never touches the phase and never takes the baseline back.
LEMMA ReplayKeeps ==
  ASSUME NEW s \in State, NEW p, NEW h, NEW i \in Intent
  PROVE  /\ Replayed(s, p, h, i).phase = s.phase
         /\ s.init => Replayed(s, p, h, i).init
<1>1. CASE i.kind = "round"
  BY <1>1, CommitRound DEF Replayed
<1>2. CASE i.kind = "baseline"
  BY <1>2, CommitBaseline DEF Replayed
<1>3. CASE i.kind = "plan"
  BY <1>3, CommitPlan DEF Replayed
<1>4. CASE i.kind = "none"
  BY <1>4, ReplayNothing
<1> QED BY <1>1, <1>2, <1>3, <1>4 DEF Intent

-----------------------------------------------------------------------------
(* Writes that leave the commit barrier alone *)

\* The fields recovery relies on.
SameBarrier(s, t) ==
  /\ t.init = s.init /\ t.phase = s.phase
  /\ t.expRound = s.expRound /\ t.expPlan = s.expPlan
  /\ t.prog.rounds = s.prog.rounds /\ t.prog.version = s.prog.version

LEMMA SameTogether ==
  ASSUME NEW s, NEW t, NEW p, NEW h, SameBarrier(s, t), Together(s, p, h)
  PROVE  Together(t, p, h)
BY DEF SameBarrier, Together

LEMMA SameReplayed ==
  ASSUME NEW s \in State, NEW t \in State, NEW p, NEW h, NEW i \in Intent,
         SameBarrier(s, t)
  PROVE  SameBarrier(Replayed(s, p, h, i), Replayed(t, p, h, i))
<1>0. StateCaughtUp(s, i) = StateCaughtUp(t, i)
  BY DEF StateCaughtUp, SameBarrier, Intent
<1>1. CASE i.kind = "round"
  BY <1>0, <1>1, CommitRound DEF Replayed, SameBarrier
<1>2. CASE i.kind = "baseline"
  BY <1>0, <1>2, CommitBaseline DEF Replayed, SameBarrier
<1>3. CASE i.kind = "plan"
  BY <1>0, <1>3, CommitPlan DEF Replayed, SameBarrier
<1>4. CASE i.kind = "none"
  BY <1>4, ReplayNothing
<1> QED BY <1>1, <1>2, <1>3, <1>4 DEF Intent

\* A phase write keeps the files together if late phases have a baseline.
LEMMA PhaseTogether ==
  ASSUME NEW s \in State, NEW f \in Phases, NEW p, NEW h, Together(s, p, h),
         f \in LatePhases => s.init
  PROVE  Together([s EXCEPT !.phase = f], p, h)
BY DEF Together, State

-----------------------------------------------------------------------------
(* The history *)

\* The last row of a gapless history carries the number of rounds (-1 if none).
LEMMA LastOfGapless ==
  ASSUME NEW h \in Seq(HistRow), \A i \in DOMAIN h : h[i].round = i - 1
  PROVE  LastRound(h) = Len(h) - 1
<1>1. CASE Len(h) = 0
  BY <1>1 DEF LastRound
<1>2. CASE Len(h) # 0
  <2>1. Len(h) \in DOMAIN h
    BY <1>2
  <2> QED BY <1>2, <2>1 DEF LastRound
<1> QED BY <1>1, <1>2

\* The row after the last keeps the history gapless.
LEMMA AppendNext ==
  ASSUME NEW h \in Seq(HistRow), \A i \in DOMAIN h : h[i].round = i - 1,
         NEW row \in HistRow, row.round = Len(h)
  PROVE  /\ \A i \in DOMAIN Append(h, row) : Append(h, row)[i].round = i - 1
         /\ Len(Append(h, row)) = Len(h) + 1
         /\ Append(h, row) # <<>>
         /\ LastRound(Append(h, row)) = Len(h)
<1> DEFINE g == Append(h, row)
<1>1. g \in Seq(HistRow) /\ Len(g) = Len(h) + 1
  OBVIOUS
<1>2. ASSUME NEW i \in DOMAIN g PROVE g[i].round = i - 1
  <2>1. CASE i \in DOMAIN h
    BY <2>1
  <2>2. CASE i = Len(h) + 1
    BY <2>2
  <2> QED BY <2>1, <2>2
<1>3. g # <<>>
  <2>1. Len(h) + 1 # 0 /\ Len(<<>>) = 0
    OBVIOUS
  <2> HIDE DEF g
  <2> QED BY <1>1, <2>1
<1>4. LastRound(g) = Len(g) - 1
  <2> HIDE DEF g
  <2> QED BY <1>1, <1>2, LastOfGapless
<1> QED BY <1>1, <1>2, <1>3, <1>4

LEMMA AppendStep ==
  ASSUME hist \in Seq(HistRow), Gapless,
         NEW row \in HistRow, row.round = Len(hist), hist' = Append(hist, row)
  PROVE  /\ Gapless' /\ Len(hist') = Len(hist) + 1
         /\ hist' # <<>> /\ LastRound(hist') = Len(hist)
BY AppendNext DEF Gapless

-----------------------------------------------------------------------------
(* Steps that write no file, and steps taken while the journal is empty *)

\* Nothing to recover while no entry is in the journal.
LEMMA QuietRecovered == intent.kind = "none" => Recovered = st
BY ReplayNothing DEF Recovered

\* A step that writes none of the four files leaves recovery as it was.
LEMMA FilesStay ==
  ASSUME JournalInv, UNCHANGED files
  PROVE  /\ Gapless'
         /\ Together(Recovered, plan, hist)'
         /\ Recovered' = Recovered
<1>1. st' = st /\ plan' = plan /\ hist' = hist /\ intent' = intent
  BY DEF files
<1>2. Recovered' = Recovered
  BY <1>1 DEF Recovered
<1> QED BY <1>1, <1>2 DEF JournalInv, Gapless

\* A step that ends with an empty journal owes only the control record it left.
LEMMA QuietStep ==
  ASSUME intent'.kind = "none", Together(st', plan', hist')
  PROVE  Together(Recovered, plan, hist)' /\ Recovered' = st'
<1>1. Recovered' = st'
  BY ReplayNothing DEF Recovered
<1> QED BY <1>1

-----------------------------------------------------------------------------
(* Every step keeps the journal *)

\* Opening a task replays the journal, drops it, and claims.
LEMMA OpenJournal == TypeInv /\ JournalInv /\ Open => JournalInv'
<1> SUFFICES ASSUME TypeInv, JournalInv, Open PROVE JournalInv'
  OBVIOUS
<1> USE DEF TypeInv, TypeOK, JournalInv
<1>1. CASE Heal
  <2>1. st' = Recovered /\ plan' = plan /\ hist' = hist /\ intent' = intent
        /\ pc' = "healed" /\ cmd' = cmd
    BY <1>1 DEF Heal, Recovered, Goto
  <2>2. Recovered' = st'
    <3>1. Recovered' = Replayed(Replayed(st, plan, hist, intent), plan, hist, intent)
      BY <2>1 DEF Recovered
    <3> QED BY <2>1, <3>1, ReplayIdempotent DEF Recovered
  <2>3. st'.phase = st.phase /\ (st.init => st'.init)
    BY <2>1, ReplayKeeps DEF Recovered
  <2>4. Gapless' /\ Together(Recovered, plan, hist)'
    BY <2>1, <2>2 DEF Gapless
  <2>5. NeedsBaseline'
    BY <1>1, <2>1, <2>3 DEF Heal, NeedsBaseline, PlanPcs, RoundPcs, SettlePcs, HookPcs
  <2>6. InStep'
    BY <2>1, <2>2 DEF InStep, QuietPcs, SettlePcs, HookPcs
  <2> QED BY <2>4, <2>5, <2>6
<1>2. CASE DropIntent
  <2>1. st' = st /\ plan' = plan /\ hist' = hist /\ intent'.kind = "none"
        /\ pc' = "open" /\ cmd' = cmd /\ Recovered = st
    BY <1>2 DEF DropIntent, NoIntent, Goto, InStep
  <2>2. Gapless' /\ Together(Recovered, plan, hist)'
    BY <2>1, QuietStep DEF Gapless
  <2>3. NeedsBaseline'
    BY <2>1 DEF NeedsBaseline, PlanPcs, RoundPcs, SettlePcs, HookPcs
  <2>4. InStep'
    BY <2>1 DEF InStep, QuietPcs, SettlePcs, HookPcs
  <2> QED BY <2>2, <2>3, <2>4
<1>3. CASE Claim
  <2>1. plan' = plan /\ hist' = hist /\ intent' = intent /\ intent.kind = "none"
    BY <1>3 DEF Claim
  <2>2. /\ st' = st \/ st' = [st EXCEPT !.phase = "INIT"]
        /\ (pc' = "opened" /\ cmd' = cmd) \/ (pc' = "idle" /\ cmd' = "none")
    BY <1>3 DEF Claim, Goto, Return
  <2>3. Together(st, plan, hist)
    BY <2>1, QuietRecovered
  <2>4. Together(st', plan', hist')
    <3>1. "INIT" \in Phases /\ "INIT" \notin LatePhases
      BY DEF Phases, LatePhases
    <3>2. Together([st EXCEPT !.phase = "INIT"], plan, hist)
      BY <2>3, <3>1, PhaseTogether
    <3> QED BY <2>1, <2>2, <2>3, <3>2
  <2>5. Gapless' /\ Together(Recovered, plan, hist)'
    BY <2>1, <2>4, QuietStep DEF Gapless
  <2>6. st'.init = st.init /\ (st'.phase = st.phase \/ st'.phase = "INIT")
    BY <2>2 DEF State
  <2>7. NeedsBaseline'
    BY <2>2, <2>6 DEF NeedsBaseline, LatePhases, PlanPcs, RoundPcs, SettlePcs, HookPcs
  <2>8. InStep'
    BY <2>1, <2>2 DEF InStep, QuietPcs, SettlePcs, HookPcs
  <2> QED BY <2>5, <2>7, <2>8
<1> QED BY <1>1, <1>2, <1>3 DEF Open

\* A phase write while the journal is empty.
LEMMA PhaseStep ==
  ASSUME TypeInv, JournalInv, intent.kind = "none", intent'.kind = "none",
         plan' = plan, hist' = hist,
         NEW f \in Phases, st' = [st EXCEPT !.phase = f], f \in LatePhases => st.init
  PROVE  /\ Gapless' /\ Together(Recovered, plan, hist)'
         /\ st'.phase = f /\ st'.init = st.init
<1>1. Together(st, plan, hist)
  BY QuietRecovered DEF JournalInv
<1>2. Together(st', plan', hist')
  BY <1>1, PhaseTogether DEF TypeInv, TypeOK
<1>3. st'.phase = f /\ st'.init = st.init
  BY DEF TypeInv, TypeOK, State
<1> QED BY <1>2, <1>3, QuietStep DEF JournalInv, Gapless

\* A command that returns leaves nothing behind but a baseline for late phases.
LEMMA ReturnStep ==
  ASSUME Return \/ (pc' = "down" /\ cmd' = "none"), st'.phase \in LatePhases => st'.init
  PROVE  NeedsBaseline' /\ InStep'
<1>1. NeedsBaseline'
  BY DEF Return, NeedsBaseline, PlanPcs, RoundPcs, SettlePcs, HookPcs
<1>2. InStep'
  BY DEF Return, InStep, QuietPcs, SettlePcs, HookPcs
<1> QED BY <1>1, <1>2

\* The baseline: nothing, or the first row and the state together.
LEMMA BaselineJournal == TypeInv /\ JournalInv /\ Baseline => JournalInv'
<1> SUFFICES ASSUME TypeInv, JournalInv, Baseline PROVE JournalInv'
  OBVIOUS
<1> USE DEF TypeInv, TypeOK, JournalInv
<1>a. ASSUME pc = "opened" PROVE intent.kind = "none" /\ Together(st, plan, hist)
  BY <1>a, QuietRecovered DEF InStep, QuietPcs
<1>1. CASE BaselineDone
  <2>1. plan' = plan /\ hist' = hist /\ intent' = intent /\ Return /\ intent.kind = "none"
    BY <1>1, <1>a DEF BaselineDone
  <2>2. CASE st.init /\ HasSeedRow(hist)
    <3>1. st' = [st EXCEPT !.phase = "PLAN"] /\ "PLAN" \in Phases /\ st.init
      BY <1>1, <2>2 DEF BaselineDone, BaselinePhase, Phases
    <3>2. Gapless' /\ Together(Recovered, plan, hist)' /\ st'.init
      BY <2>1, <3>1, PhaseStep
    <3> QED BY <2>1, <3>2, ReturnStep
  <2>3. CASE ~(st.init /\ HasSeedRow(hist))
    <3>1. st' = st
      BY <1>1, <2>3 DEF BaselineDone
    <3>2. Gapless' /\ Together(Recovered, plan, hist)'
      BY <2>1, <3>1, FilesStay DEF files
    <3> QED BY <2>1, <3>1, <3>2, ReturnStep DEF NeedsBaseline
  <2> QED BY <2>2, <2>3
<1>2. CASE BaselinePending
  <2>1. plan' = plan /\ hist' = hist /\ intent'.kind = "none" /\ intent.kind = "none" /\ Return
    BY <1>2, <1>a DEF BaselinePending, BaselineProceeds, NoIntent
  <2>2. st' = [st EXCEPT !.phase = "BASELINE"] /\ "BASELINE" \in Phases \ LatePhases
    BY <1>2 DEF BaselinePending, Phases, LatePhases
  <2>3. Gapless' /\ Together(Recovered, plan, hist)' /\ st'.phase \notin LatePhases
    BY <2>1, <2>2, PhaseStep
  <2> QED BY <2>1, <2>3, ReturnStep
<1>3. CASE \E o \in SeedOutcomes : BaselineIntent(o)
  <2> PICK o \in SeedOutcomes : BaselineIntent(o)
    BY <1>3
  <2> DEFINE b == IF o = "ok" THEN head ELSE NoCommit
  <2>1. b \in Int
    BY DEF NoCommit
  <2>2. intent' = BaselineEntry(b)
    BY DEF BaselineIntent
  <2> HIDE DEF b
  <2>3. /\ intent'.kind = "baseline" /\ intent'.prog.rounds = 0
        /\ intent'.prog.version = 0
    BY <2>1, <2>2, BaselineEntryType
  <2>4. st' = st /\ plan' = plan /\ hist' = hist /\ pc' = "base_body" /\ cmd' = cmd
    BY DEF BaselineIntent
  <2>5. ~st.init /\ hist = <<>> /\ Together(st, plan, hist)
    BY <1>a DEF BaselineIntent, BaselineProceeds, Together
  <2>6. ~BodyLanded(plan', hist', intent')
    BY <2>3, <2>4, <2>5 DEF BodyLanded, LastRound
  <2>7. Recovered' = st'
    BY <2>6, ReplayNothing DEF Recovered
  <2>8. Gapless' /\ Together(Recovered, plan, hist)'
    BY <2>4, <2>5, <2>7 DEF Gapless
  <2>9. NeedsBaseline'
    BY <2>4 DEF NeedsBaseline, PlanPcs, RoundPcs, SettlePcs, HookPcs
  <2>10. InStep'
    BY <2>3, <2>4, <2>5 DEF InStep, QuietPcs, SettlePcs, HookPcs
  <2> QED BY <2>8, <2>9, <2>10
<1>4. CASE BaselineBody
  <2>1. /\ st' = st /\ plan' = plan /\ intent' = intent
        /\ pc' = "base_state" /\ cmd' = cmd
    BY <1>4 DEF BaselineBody, Goto
  <2>2. /\ intent.kind = "baseline" /\ ~st.init /\ hist = <<>>
        /\ intent.prog.rounds = 0 /\ intent.prog.version = 0
    BY <1>4 DEF BaselineBody, InStep
  <2>3. ~BodyLanded(plan, hist, intent)
    BY <2>2 DEF BodyLanded, LastRound
  <2>4. Recovered = st
    BY <2>3, ReplayNothing DEF Recovered
  <2>5. st.expPlan = plan.v /\ plan.v = 0 /\ ~(st.phase \in LatePhases)
    BY <2>2, <2>4 DEF Together
  <2>6. SeedRow(head) \in HistRow /\ SeedRow(head).round = Len(hist)
    BY <2>2 DEF SeedRow, HistRow
  <2>7. hist' = Append(hist, SeedRow(head))
    BY <1>4, <2>2 DEF BaselineBody, HasSeedRow
  <2>8. Gapless' /\ Len(hist') = 1 /\ hist' # <<>> /\ LastRound(hist') = 0
    <3>1. /\ Gapless' /\ Len(hist') = Len(hist) + 1
          /\ hist' # <<>> /\ LastRound(hist') = Len(hist)
      BY <2>6, <2>7, AppendStep
    <3> QED BY <2>2, <3>1
  <2>9. Recovered' = Committed(st, intent)
    BY <2>1, <2>2, <2>8, ReplayCompletes DEF Recovered, BodyLanded, StateCaughtUp
  <2>10. Together(Recovered, plan, hist)'
    <3>1. /\ Recovered'.init = TRUE /\ Recovered'.phase = st.phase
          /\ Recovered'.expPlan = st.expPlan /\ Recovered'.expRound = 0
          /\ Recovered'.prog = intent.prog
      BY <2>2, <2>9, CommitBaseline
    <3> QED BY <2>1, <2>2, <2>5, <2>8, <3>1 DEF Together
  <2>11. NeedsBaseline'
    BY <2>1 DEF NeedsBaseline, PlanPcs, RoundPcs, SettlePcs, HookPcs
  <2>12. InStep'
    BY <2>1, <2>2, <2>8 DEF InStep, QuietPcs, SettlePcs, HookPcs
  <2> QED BY <2>8, <2>10, <2>11, <2>12
<1>5. CASE BaselineState
  <2>1. /\ st' = Committed(st, intent) /\ plan' = plan /\ hist' = hist
        /\ intent' = intent /\ pc' = "base_clear" /\ cmd' = cmd
    BY <1>5 DEF BaselineState, Goto
  <2>2. intent.kind = "baseline" /\ LastRound(hist) = 0 /\ ~st.init
    BY <1>5 DEF BaselineState, InStep
  <2>3. Recovered = st'
    BY <2>1, <2>2, ReplayCompletes DEF Recovered, BodyLanded, StateCaughtUp
  <2>4. Recovered' = st'
    BY <2>1, CommittedStays DEF Recovered
  <2>5. Gapless' /\ Together(Recovered, plan, hist)' /\ st'.init
    BY <2>1, <2>2, <2>3, <2>4, CommitBaseline DEF Gapless
  <2>6. NeedsBaseline'
    BY <1>5, <2>1, <2>5 DEF BaselineState, NeedsBaseline, PlanPcs, RoundPcs, SettlePcs, HookPcs
  <2>7. InStep'
    BY <2>1, <2>4 DEF InStep, QuietPcs, SettlePcs, HookPcs
  <2> QED BY <2>5, <2>6, <2>7
<1>6. CASE BaselineClear
  <2>1. /\ st' = st /\ plan' = plan /\ hist' = hist /\ intent'.kind = "none"
        /\ Return \/ (pc' = "base_phase" /\ cmd' = cmd)
    BY <1>6 DEF BaselineClear, NoIntent, Goto
  <2>2. Together(st, plan, hist)
    BY <1>6 DEF BaselineClear, InStep
  <2>3. Gapless' /\ Together(Recovered, plan, hist)'
    BY <2>1, <2>2, QuietStep DEF Gapless
  <2>4. CASE Return
    BY <2>1, <2>3, <2>4, ReturnStep DEF NeedsBaseline
  <2>5. CASE pc' = "base_phase" /\ cmd' = cmd
    <3>1. NeedsBaseline'
      BY <2>1, <2>5 DEF NeedsBaseline, PlanPcs, RoundPcs, SettlePcs, HookPcs
    <3>2. InStep'
      BY <2>1, <2>5 DEF InStep, QuietPcs, SettlePcs, HookPcs
    <3> QED BY <2>3, <3>1, <3>2
  <2> QED BY <2>1, <2>4, <2>5
<1>7. CASE BaselineSettled
  <2>1. /\ plan' = plan /\ hist' = hist /\ intent' = intent /\ Return
        /\ st' = [st EXCEPT !.phase = BaselinePhase(st)]
    BY <1>7 DEF BaselineSettled
  <2>2. intent.kind = "none"
    BY <1>7 DEF BaselineSettled, InStep, QuietPcs
  <2>3. BaselinePhase(st) \in Phases /\ (BaselinePhase(st) \in LatePhases => st.init)
    BY DEF BaselinePhase, Phases, LatePhases
  <2>4. /\ Gapless' /\ Together(Recovered, plan, hist)'
        /\ st'.phase = BaselinePhase(st) /\ st'.init = st.init
    BY <2>1, <2>2, <2>3, PhaseStep
  <2> QED BY <2>1, <2>3, <2>4, ReturnStep
<1> QED BY <1>1, <1>2, <1>3, <1>4, <1>5, <1>6, <1>7 DEF Baseline

\* A plan: plan.md and the state together, under the next version.
LEMMA MakePlanJournal == TypeInv /\ JournalInv /\ MakePlan => JournalInv'
<1> SUFFICES ASSUME TypeInv, JournalInv, MakePlan PROVE JournalInv'
  OBVIOUS
<1> USE DEF TypeInv, TypeOK, JournalInv
<1>1. CASE PlanIntent
  <2> PICK n \in PlanSizes :
         intent' = PlanEntry(st.prog.version + 1, FirstPid(st.prog, plan) + n)
    BY <1>1 DEF PlanIntent
  <2>1. n \in Nat /\ FirstPid(st.prog, plan) \in Nat /\ st.prog.version \in Nat
    BY FirstPidNat, RecordAssumption DEF RecordAssumption, State, Progress
  <2>2. /\ intent'.kind = "plan" /\ intent'.target = st.prog.version + 1
        /\ intent'.prog.version = st.prog.version + 1
    <3>1. st.prog.version + 1 \in Nat /\ FirstPid(st.prog, plan) + n \in Nat
      BY <2>1
    <3> QED BY <3>1, PlanEntryType
  <2>3. /\ st' = st /\ plan' = plan /\ hist' = hist
        /\ pc' = "plan_body" /\ cmd' = cmd /\ cmd = "plan" /\ pc = "opened"
    BY <1>1 DEF PlanIntent, Goto
  <2>4. Together(st, plan, hist) /\ st.init
    BY <2>3, QuietRecovered DEF InStep, QuietPcs, NeedsBaseline
  <2>5. st.prog.version = plan.v /\ st.expPlan = plan.v
    BY <2>4 DEF Together
  <2>6. ~BodyLanded(plan', hist', intent')
    BY <2>1, <2>2, <2>3, <2>5 DEF BodyLanded
  <2>7. Recovered' = st'
    BY <2>6, ReplayNothing DEF Recovered
  <2>8. Gapless' /\ Together(Recovered, plan, hist)'
    BY <2>3, <2>4, <2>7 DEF Gapless
  <2>9. NeedsBaseline'
    BY <2>3, <2>4 DEF NeedsBaseline, PlanPcs, RoundPcs, SettlePcs, HookPcs
  <2>10. InStep'
    BY <2>2, <2>3, <2>5 DEF InStep, QuietPcs, SettlePcs, HookPcs
  <2> QED BY <2>8, <2>9, <2>10
<1>2. CASE PlanBody
  <2>1. /\ st' = st /\ hist' = hist /\ intent' = intent
        /\ pc' = "plan_state" /\ cmd' = cmd /\ plan'.v = intent.target
    BY <1>2 DEF PlanBody, Goto, RewrittenPlan
  <2>2. /\ intent.kind = "plan" /\ intent.target = plan.v + 1
        /\ intent.prog.version = intent.target /\ st.expPlan = plan.v
        /\ st.init /\ cmd = "plan"
    BY <1>2 DEF PlanBody, InStep, NeedsBaseline, PlanPcs
  <2>3. plan.v \in Nat
    BY DEF Plan
  <2>4. ~BodyLanded(plan, hist, intent)
    BY <2>2, <2>3 DEF BodyLanded
  <2>5. Recovered = st /\ Together(st, plan, hist)
    BY <2>4, ReplayNothing DEF Recovered
  <2>6. BodyLanded(plan', hist', intent') /\ ~StateCaughtUp(st', intent')
    BY <2>1, <2>2, <2>3 DEF BodyLanded, StateCaughtUp, PlanExists
  <2>7. Recovered' = Committed(st, intent)
    BY <2>1, <2>6, ReplayCompletes DEF Recovered
  <2>8. /\ Recovered'.init = st.init /\ Recovered'.phase = st.phase
        /\ Recovered'.expPlan = intent.target /\ Recovered'.expRound = st.expRound
        /\ Recovered'.prog.rounds = st.prog.rounds
        /\ Recovered'.prog.version = intent.target
    BY <2>2, <2>7, CommitPlan
  <2>9. Together(Recovered, plan, hist)'
    <3>1. /\ hist # <<>> /\ st.expRound = Len(hist) - 1
          /\ st.prog.rounds = Len(hist) - 1
      BY <2>2, <2>5 DEF Together
    <3> QED BY <2>1, <2>2, <2>8, <3>1 DEF Together
  <2>10. Gapless' /\ NeedsBaseline'
    BY <2>1, <2>2 DEF Gapless, NeedsBaseline, PlanPcs, RoundPcs, SettlePcs, HookPcs
  <2>11. InStep'
    BY <2>1, <2>2, <2>3 DEF InStep, QuietPcs, SettlePcs, HookPcs
  <2> QED BY <2>9, <2>10, <2>11
<1>3. CASE PlanState
  <2>1. st.init /\ cmd = "plan"
    BY <1>3 DEF PlanState, NeedsBaseline, PlanPcs
  <2>2. /\ st' = Committed(st, intent) /\ plan' = plan /\ hist' = hist
        /\ intent' = intent /\ pc' = "plan_clear" /\ cmd' = cmd
    BY <1>3, <2>1 DEF PlanState, Goto
  <2>3. /\ intent.kind = "plan" /\ plan.v = intent.target
        /\ intent.target > 0 /\ st.expPlan # intent.target
    BY <1>3 DEF PlanState, InStep
  <2>4. BodyLanded(plan, hist, intent) /\ ~StateCaughtUp(st, intent)
    BY <2>3 DEF BodyLanded, StateCaughtUp, PlanExists, Intent
  <2>5. Recovered = st'
    BY <2>2, <2>4, ReplayCompletes DEF Recovered
  <2>6. Recovered' = st'
    BY <2>2, CommittedStays DEF Recovered
  <2>7. Gapless' /\ Together(Recovered, plan, hist)' /\ st'.init
    BY <2>1, <2>2, <2>3, <2>5, <2>6, CommitPlan DEF Gapless
  <2>8. NeedsBaseline'
    BY <2>1, <2>2, <2>7 DEF NeedsBaseline, PlanPcs, RoundPcs, SettlePcs, HookPcs
  <2>9. InStep'
    BY <2>2, <2>6 DEF InStep, QuietPcs, SettlePcs, HookPcs
  <2> QED BY <2>7, <2>8, <2>9
<1>4. CASE PlanClear
  <2>1. /\ st' = st /\ plan' = plan /\ hist' = hist /\ intent'.kind = "none"
        /\ pc' = "post_plan" /\ cmd' = cmd /\ Recovered = st
    BY <1>4 DEF PlanClear, NoIntent, Goto, InStep
  <2>2. st.init /\ cmd = "plan"
    BY <1>4 DEF PlanClear, NeedsBaseline, PlanPcs
  <2>3. Gapless' /\ Together(Recovered, plan, hist)'
    BY <2>1, QuietStep DEF Gapless
  <2>4. NeedsBaseline'
    BY <2>1, <2>2 DEF NeedsBaseline, PlanPcs, RoundPcs, SettlePcs, HookPcs
  <2>5. InStep'
    BY <2>1 DEF InStep, QuietPcs, SettlePcs, HookPcs
  <2> QED BY <2>3, <2>4, <2>5
<1> QED BY <1>1, <1>2, <1>3, <1>4 DEF MakePlan

\* A round: the history row and the state together, one after the last.
LEMMA RecordJournal == TypeInv /\ JournalInv /\ Record => JournalInv'
<1> SUFFICES ASSUME TypeInv, JournalInv, Record PROVE JournalInv'
  OBVIOUS
<1> USE DEF TypeInv, TypeOK, JournalInv
<1>a. LastRound(hist) = Len(hist) - 1 /\ Len(hist) \in Nat
  BY LastOfGapless DEF Gapless
<1>1. CASE RoundIntent
  <2>1. /\ st' = st /\ plan' = plan /\ hist' = hist
        /\ pc' = "round_body" /\ cmd' = cmd
    BY <1>1 DEF RoundIntent, Goto
  <2>2. st.init /\ Together(st, plan, hist)
    BY <1>1, QuietRecovered DEF RoundIntent, InStep, QuietPcs, NeedsBaseline, RoundPcs
  <2>3. /\ st.expRound = Len(hist) - 1 /\ st.prog.rounds = Len(hist) - 1
        /\ st.prog.version = plan.v
    BY <2>2 DEF Together
  <2>4. /\ RoundProgress(st.prog, out).rounds = st.prog.rounds + 1
        /\ RoundProgress(st.prog, out).version = st.prog.version
    BY <1>1, RoundProgressType DEF RoundIntent, State
  <2>5. /\ intent'.kind = "round" /\ intent'.target = Len(hist)
        /\ intent'.prog.rounds = Len(hist) /\ intent'.prog.version = plan.v
    BY <1>1, <1>a, <2>3, <2>4 DEF RoundIntent
  <2>6. ~BodyLanded(plan', hist', intent')
    BY <1>a, <2>1, <2>5 DEF BodyLanded
  <2>7. Recovered' = st'
    BY <2>6, ReplayNothing DEF Recovered
  <2>8. Gapless' /\ Together(Recovered, plan, hist)'
    BY <2>1, <2>2, <2>7 DEF Gapless
  <2>9. NeedsBaseline'
    BY <1>1, <2>1, <2>2 DEF RoundIntent, NeedsBaseline, PlanPcs, RoundPcs, SettlePcs, HookPcs
  <2>10. InStep'
    BY <1>a, <2>1, <2>3, <2>5 DEF InStep, QuietPcs, SettlePcs, HookPcs
  <2> QED BY <2>8, <2>9, <2>10
<1>2. CASE RoundBody
  <2>1. /\ st' = st /\ plan' = plan /\ intent' = intent
        /\ pc' = "round_state" /\ cmd' = cmd
    BY <1>2 DEF RoundBody, Goto
  <2>2. /\ intent.kind = "round" /\ intent.target = Len(hist)
        /\ intent.prog.rounds = intent.target /\ intent.prog.version = plan.v
        /\ st.expRound # intent.target /\ st.init
    BY <1>2 DEF RoundBody, InStep, NeedsBaseline, RoundPcs
  <2>3. ~BodyLanded(plan, hist, intent)
    BY <1>a, <2>2 DEF BodyLanded
  <2>4. Recovered = st /\ Together(st, plan, hist)
    BY <2>3, ReplayNothing DEF Recovered
  <2> DEFINE row == [round |-> intent.target, item |-> intent.kd.item, decision |-> out,
                     commit |-> IF out = "KEEP" THEN head ELSE NoCommit]
  <2>5. row \in HistRow /\ row.round = Len(hist)
    BY <1>2, <2>2 DEF RoundBody, HistRow, Intent, Kd, NoCommit
  <2>6. hist' = Append(hist, row)
    BY <1>2 DEF RoundBody
  <2> HIDE DEF row
  <2>7. /\ Gapless' /\ Len(hist') = Len(hist) + 1
        /\ hist' # <<>> /\ LastRound(hist') = Len(hist)
    BY <2>5, <2>6, AppendStep
  <2>8. BodyLanded(plan', hist', intent') /\ ~StateCaughtUp(st', intent')
    BY <2>1, <2>2, <2>7 DEF BodyLanded, StateCaughtUp
  <2>9. Recovered' = Committed(st, intent)
    BY <2>1, <2>8, ReplayCompletes DEF Recovered
  <2>10. /\ Recovered'.init = st.init /\ Recovered'.phase = st.phase
         /\ Recovered'.expPlan = st.expPlan /\ Recovered'.expRound = intent.target
         /\ Recovered'.prog = intent.prog
    BY <2>2, <2>9, CommitRound
  <2>11. Together(Recovered, plan, hist)'
    BY <1>a, <2>1, <2>2, <2>4, <2>7, <2>10 DEF Together
  <2>12. NeedsBaseline'
    BY <1>2, <2>1, <2>2 DEF RoundBody, NeedsBaseline, PlanPcs, RoundPcs, SettlePcs, HookPcs
  <2>13. InStep'
    BY <2>1, <2>2, <2>7 DEF InStep, QuietPcs, SettlePcs, HookPcs
  <2> QED BY <2>7, <2>11, <2>12, <2>13
<1>3. CASE RoundState
  <2>1. /\ st' = Committed(st, intent) /\ plan' = plan /\ hist' = hist
        /\ intent' = intent /\ pc' = "round_clear" /\ cmd' = cmd
    BY <1>3 DEF RoundState, Goto
  <2>2. /\ intent.kind = "round" /\ LastRound(hist) = intent.target
        /\ st.expRound # intent.target /\ st.init
    BY <1>3 DEF RoundState, InStep, NeedsBaseline, RoundPcs
  <2>3. BodyLanded(plan, hist, intent) /\ ~StateCaughtUp(st, intent)
    BY <2>2 DEF BodyLanded, StateCaughtUp
  <2>4. Recovered = st'
    BY <2>1, <2>3, ReplayCompletes DEF Recovered
  <2>5. Recovered' = st'
    BY <2>1, CommittedStays DEF Recovered
  <2>6. Gapless' /\ Together(Recovered, plan, hist)' /\ st'.init
    BY <2>1, <2>2, <2>4, <2>5, CommitRound DEF Gapless
  <2>7. NeedsBaseline'
    BY <1>3, <2>1, <2>6 DEF RoundState, NeedsBaseline, PlanPcs, RoundPcs, SettlePcs, HookPcs
  <2>8. InStep'
    BY <2>1, <2>5 DEF InStep, QuietPcs, SettlePcs, HookPcs
  <2> QED BY <2>6, <2>7, <2>8
<1>4. CASE RoundClear
  <2>1. /\ st' = st /\ plan' = plan /\ hist' = hist /\ intent'.kind = "none"
        /\ pc' = "settle" /\ cmd' = cmd /\ Recovered = st
    BY <1>4 DEF RoundClear, NoIntent, Goto, InStep
  <2>2. Gapless' /\ Together(Recovered, plan, hist)'
    BY <2>1, QuietStep DEF Gapless
  <2>3. NeedsBaseline'
    BY <1>4, <2>1 DEF RoundClear, NeedsBaseline, PlanPcs, RoundPcs, SettlePcs, HookPcs
  <2>4. InStep'
    BY <2>1 DEF InStep, QuietPcs, SettlePcs, HookPcs
  <2> QED BY <2>2, <2>3, <2>4
<1> QED BY <1>1, <1>2, <1>3, <1>4 DEF Record

\* A step inside a command that runs on a committed baseline, with the journal
\* empty before and after.
LEMMA QuietGoto ==
  ASSUME NEW f \in QuietPcs, pc' = f, cmd' = cmd, intent'.kind = "none",
         st'.init, NeedsBaseline
  PROVE  NeedsBaseline' /\ InStep'
<1>1. pc' \notin PlanPcs \cup {"post_plan"}
  BY DEF QuietPcs, SettlePcs, HookPcs, PlanPcs
<1>2. NeedsBaseline'
  BY <1>1 DEF NeedsBaseline
<1>3. InStep'
  BY DEF InStep, QuietPcs, SettlePcs, HookPcs
<1> QED BY <1>2, <1>3

\* A write of a field recovery does not rely on, while the journal is empty.
LEMMA FieldStep ==
  ASSUME TypeInv, JournalInv, intent.kind = "none", intent' = intent,
         plan' = plan, hist' = hist, SameBarrier(st, st')
  PROVE  /\ Gapless' /\ Together(Recovered, plan, hist)'
         /\ st'.init = st.init /\ st'.phase = st.phase
<1>1. Together(st, plan, hist)
  BY QuietRecovered DEF JournalInv
<1>2. Together(st', plan', hist')
  BY <1>1, SameTogether
<1> QED BY <1>2, QuietStep DEF JournalInv, Gapless, SameBarrier

\* The hook of create_plan.py writes no artifact.
LEMMA HookJournal == TypeInv /\ JournalInv /\ Hook => JournalInv'
<1> SUFFICES ASSUME TypeInv, JournalInv, Hook PROVE JournalInv'
  OBVIOUS
<1> USE DEF TypeInv, TypeOK, JournalInv
<1>1. CASE PostPlan
  <2>1. /\ UNCHANGED files /\ st' = st /\ pc' = "open" /\ cmd' = "hook" /\ st.init
    BY <1>1 DEF PostPlan, files, NeedsBaseline
  <2>2. Gapless' /\ Together(Recovered, plan, hist)'
    BY <2>1, FilesStay
  <2>3. NeedsBaseline'
    BY <2>1 DEF NeedsBaseline, PlanPcs, RoundPcs, SettlePcs, HookPcs
  <2>4. InStep'
    BY <2>1 DEF InStep, QuietPcs, SettlePcs, HookPcs
  <2> QED BY <2>2, <2>3, <2>4
<1>2. CASE HookValidate
  <2>1. /\ UNCHANGED files /\ st' = st /\ intent' = intent /\ st.init
        /\ intent.kind = "none"
    BY <1>2 DEF HookValidate, files, NeedsBaseline, InStep, QuietPcs
  <2>2. Gapless' /\ Together(Recovered, plan, hist)'
    BY <2>1, FilesStay
  <2>3. Return \/ (pc' \in HookPcs /\ cmd' = cmd)
    BY <1>2 DEF HookValidate, Goto, HookPcs
  <2>4. CASE Return
    BY <2>1, <2>2, <2>4, ReturnStep
  <2>5. CASE pc' \in HookPcs /\ cmd' = cmd
    BY <2>1, <2>2, <2>5, QuietGoto DEF QuietPcs
  <2> QED BY <2>3, <2>4, <2>5
<1>3. CASE HookReset
  <2>1. /\ plan' = plan /\ hist' = hist /\ intent' = intent /\ intent.kind = "none"
        /\ st.init /\ pc' = "hook_phase" /\ cmd' = cmd
    BY <1>3 DEF HookReset, Goto, NeedsBaseline, HookPcs, InStep, QuietPcs
  <2>2. SameBarrier(st, st')
    BY <1>3 DEF HookReset, SameBarrier, State, Progress
  <2>3. Gapless' /\ Together(Recovered, plan, hist)' /\ st'.init
    BY <2>1, <2>2, FieldStep
  <2> QED BY <2>1, <2>3, QuietGoto DEF QuietPcs, HookPcs
<1>4. CASE HookPhase
  <2>1. /\ plan' = plan /\ hist' = hist /\ intent' = intent /\ intent.kind = "none"
        /\ st.init
        /\ Return \/ (pc' = "hook_clear" /\ cmd' = cmd)
    BY <1>4 DEF HookPhase, Goto, NeedsBaseline, HookPcs, InStep, QuietPcs
  <2>2. st' = [st EXCEPT !.phase = "EDIT"] /\ "EDIT" \in Phases
    BY <1>4 DEF HookPhase, Phases
  <2>3. Gapless' /\ Together(Recovered, plan, hist)' /\ st'.init
    BY <2>1, <2>2, PhaseStep
  <2>4. CASE Return
    BY <2>3, <2>4, ReturnStep
  <2>5. CASE pc' = "hook_clear" /\ cmd' = cmd
    BY <2>1, <2>3, <2>5, QuietGoto DEF QuietPcs, HookPcs
  <2> QED BY <2>1, <2>4, <2>5
<1>5. CASE HookClear
  <2>1. /\ plan' = plan /\ hist' = hist /\ intent' = intent /\ intent.kind = "none"
        /\ st.init /\ Return
    BY <1>5 DEF HookClear, NeedsBaseline, HookPcs, InStep, QuietPcs
  <2>2. SameBarrier(st, st')
    BY <1>5 DEF HookClear, SameBarrier, State
  <2>3. Gapless' /\ Together(Recovered, plan, hist)' /\ st'.init
    BY <2>1, <2>2, FieldStep
  <2> QED BY <2>1, <2>3, ReturnStep
<1> QED BY <1>1, <1>2, <1>3, <1>4, <1>5 DEF Hook

\* An evaluation and its git commands write none of the four files.
LEMMA EvaluateJournal == TypeInv /\ JournalInv /\ Evaluate => JournalInv'
<1> SUFFICES ASSUME TypeInv, JournalInv, Evaluate PROVE JournalInv'
  OBVIOUS
<1>1. UNCHANGED files
  BY DEF Evaluate, PipelineStart, EvalAbort, EvalDecide, GitKeep, GitError, GitRollback
<1>2. Gapless' /\ Together(Recovered, plan, hist)'
  BY <1>1, FilesStay
<1>3. st.init /\ intent.kind = "none"
  BY DEF Evaluate, PipelineStart, EvalAbort, EvalDecide, GitKeep, GitError, GitRollback,
         JournalInv, NeedsBaseline, InStep, QuietPcs, RoundPcs
<1>4. Return \/ (pc' \in QuietPcs /\ cmd' = cmd)
  BY DEF Evaluate, PipelineStart, EvalAbort, EvalDecide, GitKeep, GitError, GitRollback,
         Goto, QuietPcs, SettlePcs
<1>5. st'.init /\ intent'.kind = "none"
  BY <1>1, <1>3 DEF files
<1>6. NeedsBaseline' /\ InStep'
  BY <1>4, <1>5, ReturnStep, QuietGoto DEF JournalInv
<1> QED BY <1>2, <1>6 DEF JournalInv

\* A settlement checks off an item, moves the phase, forgets the round.
LEMMA SettleJournal == TypeInv /\ JournalInv /\ SettleIt => JournalInv'
<1> SUFFICES ASSUME TypeInv, JournalInv, SettleIt PROVE JournalInv'
  OBVIOUS
<1> USE DEF TypeInv, TypeOK, JournalInv
<1>a. st.init /\ intent.kind = "none" /\ Together(st, plan, hist)
  BY QuietRecovered DEF SettleIt, Settle, SettlePhase, Unmark, SettleClear, SettlePcs,
     NeedsBaseline, InStep, QuietPcs
<1>1. CASE Settle
  <2>1. /\ st' = st /\ hist' = hist /\ intent' = intent
        /\ Return \/ (pc' = "next_phase" /\ cmd' = cmd)
    BY <1>1 DEF Settle, Goto
  <2>2. plan'.v = plan.v
    BY <1>1 DEF Settle, SettledPlan, Plan
  <2>3. Together(st', plan', hist')
    BY <1>a, <2>1, <2>2 DEF Together
  <2>4. Gapless' /\ Together(Recovered, plan, hist)'
    BY <1>a, <2>1, <2>3, QuietStep DEF Gapless
  <2>5. NeedsBaseline' /\ InStep'
    BY <1>a, <2>1, ReturnStep, QuietGoto DEF QuietPcs, SettlePcs
  <2> QED BY <2>4, <2>5
<1>2. CASE SettlePhase
  <2>1. /\ plan' = plan /\ hist' = hist /\ intent' = intent
        /\ pc' = "unmark" /\ cmd' = cmd
        /\ st' = [st EXCEPT !.phase = NextPhase(st, plan)]
        /\ NextPhase(st, plan) \in Phases
    BY <1>2, PhaseTypes DEF SettlePhase, Goto
  <2>2. Gapless' /\ Together(Recovered, plan, hist)' /\ st'.init
    BY <1>a, <2>1, PhaseStep
  <2>3. NeedsBaseline' /\ InStep'
    BY <1>a, <2>1, <2>2, QuietGoto DEF QuietPcs, SettlePcs
  <2> QED BY <2>2, <2>3
<1>3. CASE Unmark
  <2>1. UNCHANGED files /\ pc' = "settled" /\ cmd' = cmd
    BY <1>3 DEF Unmark, Goto
  <2>2. Gapless' /\ Together(Recovered, plan, hist)'
    BY <2>1, FilesStay
  <2>3. NeedsBaseline' /\ InStep'
    BY <1>a, <2>1, QuietGoto DEF QuietPcs, SettlePcs, files
  <2> QED BY <2>2, <2>3
<1>4. CASE SettleClear
  <2>1. plan' = plan /\ hist' = hist /\ intent' = intent /\ Return
    BY <1>4 DEF SettleClear
  <2>2. SameBarrier(st, st')
    BY <1>4 DEF SettleClear, SameBarrier, State
  <2>3. Gapless' /\ Together(Recovered, plan, hist)' /\ st'.init
    BY <1>a, <2>1, <2>2, FieldStep
  <2> QED BY <2>1, <2>3, ReturnStep
<1> QED BY <1>1, <1>2, <1>3, <1>4 DEF SettleIt

\* Activation only writes the phase.
LEMMA ActivateJournal ==
  TypeInv /\ JournalInv /\ (ActivateFresh \/ ActivateResume) => JournalInv'
<1> SUFFICES ASSUME TypeInv, JournalInv, ActivateFresh \/ ActivateResume
             PROVE JournalInv'
  OBVIOUS
<1> USE DEF TypeInv, TypeOK, JournalInv
<1>1. /\ plan' = plan /\ hist' = hist /\ intent' = intent /\ intent.kind = "none"
      /\ Return
  BY DEF ActivateFresh, ActivateResume, InStep, QuietPcs
<1>2. CASE ActivateFresh
  <2>1. st' = [st EXCEPT !.phase = "BASELINE"] /\ "BASELINE" \in Phases \ LatePhases
    BY <1>2 DEF ActivateFresh, Phases, LatePhases
  <2>2. Gapless' /\ Together(Recovered, plan, hist)' /\ st'.phase \notin LatePhases
    BY <1>1, <2>1, PhaseStep
  <2> QED BY <1>1, <2>2, ReturnStep
<1>3. CASE ActivateResume /\ st.phase \in {"PLAN", "REPLAN"}
  <2>1. /\ st' = [st EXCEPT !.phase = ResumePhase(st, plan)]
        /\ ResumePhase(st, plan) \in Phases /\ st.init
    BY <1>3, PhaseTypes DEF ActivateResume, NeedsBaseline, LatePhases
  <2>2. Gapless' /\ Together(Recovered, plan, hist)' /\ st'.init
    BY <1>1, <2>1, PhaseStep
  <2> QED BY <1>1, <2>2, ReturnStep
<1>4. CASE ActivateResume /\ st.phase \notin {"PLAN", "REPLAN"}
  <2>1. st' = st
    BY <1>4 DEF ActivateResume
  <2>2. Gapless' /\ Together(Recovered, plan, hist)'
    BY <1>1, <2>1, FilesStay DEF files
  <2> QED BY <1>1, <2>1, <2>2, ReturnStep DEF NeedsBaseline
<1> QED BY <1>2, <1>3, <1>4

\* The attempt counter may be written while an entry waits for its replay.
LEMMA PostTaskJournal == TypeInv /\ JournalInv /\ PostTask => JournalInv'
<1> SUFFICES ASSUME TypeInv, JournalInv, PostTask PROVE JournalInv'
  OBVIOUS
<1>1. plan' = plan /\ hist' = hist /\ intent' = intent /\ Return
  BY DEF PostTask
<1>2. st \in State /\ st' \in State /\ intent \in Intent
  BY RunType DEF Run, TypeInv, TypeOK
<1>3. SameBarrier(st, st')
  BY DEF PostTask, SameBarrier, TypeInv, TypeOK, State, Progress
<1>4. SameBarrier(Recovered, Recovered')
  BY <1>1, <1>2, <1>3, SameReplayed DEF Recovered
<1>5. Together(Recovered, plan, hist)'
  BY <1>1, <1>4, SameTogether DEF JournalInv
<1>6. Gapless' /\ (st'.phase \in LatePhases => st'.init)
  BY <1>1, <1>3 DEF JournalInv, Gapless, NeedsBaseline, SameBarrier
<1> QED BY <1>1, <1>5, <1>6, ReturnStep DEF JournalInv

\* Starting a command needs a phase that allows it, and writes no file.
LEMMA AgentJournal == TypeInv /\ JournalInv /\ Agent => JournalInv'
<1> SUFFICES ASSUME TypeInv, JournalInv, Agent PROVE JournalInv'
  OBVIOUS
<1>1. UNCHANGED files /\ st' = st
  BY DEF Agent, Start, RejectPlan, Activate, EditKernel, Diagnose, files
<1>2. Gapless' /\ Together(Recovered, plan, hist)'
  BY <1>1, FilesStay
<1>3. ASSUME NEW c \in {"plan", "pipeline"}, MayRun(c, st, diag) PROVE st.init
  <2>1. st.phase \in LatePhases
    BY <1>3 DEF MayRun, PhaseAllows, LatePhases
  <2> QED BY <2>1 DEF JournalInv, NeedsBaseline
<1>4. pc' \in {"open", "post_plan", "post_task", "idle"}
  BY DEF Agent, Start, RejectPlan, Activate, EditKernel, Diagnose, ctl
<1>5. InStep'
  BY <1>4 DEF InStep, QuietPcs, SettlePcs, HookPcs
<1>6. NeedsBaseline'
  <2>1. cmd' \in {"plan", "pipeline", "hook"} => st.init
    BY <1>3 DEF Agent, Start, RejectPlan, Activate, EditKernel, Diagnose, ctl,
                Scripts, JournalInv, NeedsBaseline
  <2>2. pc' = "post_plan" => cmd' = "plan"
    BY DEF Agent, Start, RejectPlan, Activate, EditKernel, Diagnose, ctl
  <2> QED BY <1>1, <1>4, <2>1, <2>2
          DEF JournalInv, NeedsBaseline, PlanPcs, RoundPcs, SettlePcs, HookPcs
<1> QED BY <1>2, <1>5, <1>6 DEF JournalInv

\* Deaths write no file: this is all recovery needs of them.
LEMMA DeathJournal == TypeInv /\ JournalInv /\ (Kill \/ SessionCrash) => JournalInv'
<1> SUFFICES ASSUME TypeInv, JournalInv, Kill \/ SessionCrash PROVE JournalInv'
  OBVIOUS
<1>1. UNCHANGED files /\ st' = st
  BY DEF Kill, SessionCrash, files
<1>2. Gapless' /\ Together(Recovered, plan, hist)'
  BY <1>1, FilesStay
<1>3. \/ pc' \in {"idle", "down"} /\ cmd' = "none"
      \/ pc' = "post_plan" /\ cmd' = "plan" /\ cmd = "plan"
  BY DEF Kill, SessionCrash
<1>4. InStep'
  BY <1>3 DEF InStep, QuietPcs, SettlePcs, HookPcs
<1>5. NeedsBaseline'
  BY <1>1, <1>3 DEF JournalInv, NeedsBaseline, PlanPcs, RoundPcs, SettlePcs, HookPcs
<1> QED BY <1>2, <1>4, <1>5 DEF JournalInv

-----------------------------------------------------------------------------
(* The theorems *)

Inv == TypeInv /\ JournalInv

LEMMA InitInv == Init => Inv
<1> SUFFICES ASSUME Init PROVE Inv
  OBVIOUS
<1>1. intent.kind = "none" /\ hist = <<>> /\ pc = "idle" /\ cmd = "none"
  BY DEF Init, NoIntent
<1>2. Recovered = st
  BY <1>1, QuietRecovered
<1>3. Gapless
  BY <1>1 DEF Gapless
<1>4. Together(st, plan, hist) /\ st.phase \notin LatePhases
  BY <1>1 DEF Init, Together, FreshState, NoProgress, NoPlan, LatePhases
<1>5. NeedsBaseline /\ InStep
  BY <1>1, <1>4 DEF NeedsBaseline, InStep, QuietPcs, PlanPcs, RoundPcs, SettlePcs, HookPcs
<1> QED BY <1>2, <1>3, <1>4, <1>5, InitType DEF Inv, JournalInv

LEMMA NextInv == Inv /\ [Next]_vars => Inv'
<1> SUFFICES ASSUME TypeInv, JournalInv, [Next]_vars PROVE Inv'
  BY DEF Inv
<1>1. TypeInv'
  BY TypeInductive
<1>2. CASE Run
  BY <1>1, <1>2, OpenJournal, BaselineJournal, MakePlanJournal, HookJournal,
     ActivateJournal, EvaluateJournal, RecordJournal, SettleJournal, PostTaskJournal
     DEF Run, Inv
<1>3. CASE Agent
  BY <1>1, <1>3, AgentJournal DEF Inv
<1>4. CASE Kill \/ SessionCrash
  BY <1>1, <1>4, DeathJournal DEF Inv
<1>5. CASE UNCHANGED vars
  <2>1. UNCHANGED files /\ st' = st /\ pc' = pc /\ cmd' = cmd /\ intent' = intent
        /\ hist' = hist /\ plan' = plan
    BY <1>5 DEF vars, files
  <2>2. Gapless' /\ Together(Recovered, plan, hist)' /\ Recovered' = Recovered
    BY <2>1, FilesStay
  <2>3. NeedsBaseline' /\ InStep'
    BY <2>1, <2>2 DEF JournalInv, NeedsBaseline, InStep
  <2> QED BY <1>1, <2>2, <2>3 DEF Inv, JournalInv
<1> QED BY <1>2, <1>3, <1>4, <1>5 DEF Next

\* The journal covers every point of every transaction, whatever dies where
\* and however often.
THEOREM JournalCorrect == Spec => []JournalInv
<1>1. Inv => JournalInv
  BY DEF Inv
<1> QED BY <1>1, InitInv, NextInv, PTL DEF Spec

\* Task.__enter__ never refuses a task only its own scripts wrote.
THEOREM RecoveryNeverRefuses == Spec => []Recoverable
<1>1. Inv => Recoverable
  <2> SUFFICES ASSUME TypeInv, JournalInv PROVE Recoverable
    BY DEF Inv
  <2>1. LastRound(hist) = Len(hist) - 1
    BY LastOfGapless DEF TypeInv, TypeOK, JournalInv, Gapless
  <2>2. Together(Recovered, plan, hist)
    BY DEF JournalInv
  <2>3. hist = <<>> => LastRound(hist) = -1
    BY DEF LastRound
  <2> QED BY <2>1, <2>2, <2>3 DEF Recoverable, Consistent, Together
<1> QED BY <1>1, InitInv, NextInv, PTL DEF Spec

\* No death loses a round, repeats one or leaves a gap in the numbers.
THEOREM RoundsAreExact == Spec => []RoundsMatchHistory
<1>1. Inv => RoundsMatchHistory
  BY DEF Inv, JournalInv, Gapless, Together, RoundsMatchHistory
<1> QED BY <1>1, InitInv, NextInv, PTL DEF Spec
-----------------------------------------------------------------------------
(* PART 3: the refinement.  The words of the ledger are those of the engine *)

LEMMA SameWords ==
  /\ LP!State = State /\ LP!Plan = Plan /\ LP!HistRow = HistRow
  /\ LP!Phases = Phases /\ LP!Decisions = Decisions
  /\ LP!NoKd = NoKd /\ LP!NoPlan = NoPlan /\ LP!NoProgress = NoProgress
  /\ LP!NoCommit = NoCommit
BY DEF LP!State, State, LP!Plan, Plan, LP!HistRow, HistRow, LP!Phases, Phases,
       LP!Decisions, Decisions, LP!NoKd, NoKd, LP!NoPlan, NoPlan,
       LP!NoProgress, NoProgress, LP!NoCommit, NoCommit, LP!Progress, Progress,
       LP!Kd, Kd, LP!SettledRow, SettledRow

LEMMA SamePlanWords ==
  ASSUME NEW p, NEW pr
  PROVE  /\ LP!PlanExists(p) <=> PlanExists(p)
         /\ LP!HasPending(p) <=> HasPending(p)
         /\ LP!ActiveItem(p) = ActiveItem(p)
         /\ LP!FirstPid(pr, p) = FirstPid(pr, p)
BY DEF LP!PlanExists, PlanExists, LP!HasPending, HasPending, LP!ActiveItem, ActiveItem,
       LP!FirstPid, FirstPid

\* What the ledger keeps, in the words of the engine.
LEMMA LedgerSays ==
  ASSUME LP!LedgerInv
  PROVE  /\ Recovered.pending # NoKd =>
              /\ hist # <<>> /\ Recovered.pending.item > 0
              /\ hist[Len(hist)].round = Recovered.pending.round
              /\ hist[Len(hist)].item = Recovered.pending.item
              /\ hist[Len(hist)].decision = Recovered.pending.decision
         /\ plan.done <= plan.n
         /\ plan.first + plan.n <= FirstPid(Recovered.prog, plan)
         /\ plan.n > 0 => PlanExists(plan)
         /\ \A i \in DOMAIN hist : hist[i].item < FirstPid(Recovered.prog, plan)
         /\ \A i \in DOMAIN plan.settled : plan.settled[i].item < plan.first + plan.done
         /\ Recovered.phase \in {"NONE", "INIT", "BASELINE"} => ~PlanExists(plan)
         /\ Recovered.phase \notin {"EDIT", "FINISH"} => Recovered.prog.rounds < MaxRounds
         /\ Recovered.phase = "PLAN" /\ Recovered.prog.seedOk /\ PlanExists(plan)
              => HasPending(plan)
         /\ Recovered.phase = "EDIT" /\ Recovered.pending = NoKd => HasPending(plan)
         /\ Recovered.phase \notin {"NONE", "INIT", "BASELINE"} => Recovered.init
         /\ Recovered.init => hist # <<>>
         /\ ~Recovered.init => /\ hist = <<>> /\ plan = NoPlan
                               /\ Recovered.prog = NoProgress
                               /\ Recovered.pending = NoKd /\ Recovered.expRound = 0
BY SameWords, SamePlanWords
   DEF LP!LedgerInv, LP!OwesLastRow, LP!NumbersUsed, LP!PhaseFits, LP!NothingYet

\* Files of the right types are a ledger of the right types.
LEMMA LedgerTyped == TypeInv => LP!LedgerType /\ Recovered \in State
BY SameWords, ReplayedType DEF TypeInv, TypeOK, LP!LedgerType, Recovered

-----------------------------------------------------------------------------
(* The steps of the ledger, in the words of the engine *)

\* A step of the ledger or a stutter.
Maps == [LP!LNext]_(LP!lvars)

LEMMA MapsStutter ==
  ASSUME Recovered' = Recovered, plan' = plan, hist' = hist, head' = head
  PROVE  Maps
BY DEF Maps, LP!lvars

LEMMA MapsKernel ==
  ASSUME Recovered' = Recovered, plan' = plan, hist' = hist, head' = head + 1
  PROVE  Maps
BY DEF Maps, LP!LNext, LP!CommitKernel

\* The phase graph.
Edge(p, f) ==
  \/ p = "NONE" /\ f \in {"INIT", "BASELINE"}
  \/ p = "INIT" /\ f \in {"BASELINE", "PLAN"}
  \/ p = "BASELINE" /\ f = "PLAN"
  \/ p = "REPLAN" /\ f \in {"PLAN", "EDIT"}
  \/ p \in {"PLAN", "DIAGNOSE"} /\ f = "EDIT"
  \/ p = "EDIT" /\ f \in {"DIAGNOSE", "REPLAN", "FINISH"}

LEMMA MapsAdvance ==
  ASSUME Recovered \in State, NEW f \in Phases,
         Recovered' = [Recovered EXCEPT !.phase = f],
         plan' = plan, hist' = hist, head' = head,
         f # Recovered.phase =>
           /\ Edge(Recovered.phase, f)
           /\ f = "FINISH" <=> Recovered.prog.rounds >= MaxRounds
           /\ f = "EDIT" => HasPending(plan)
           /\ f = "PLAN" => ~PlanExists(plan) \/ ~Recovered.prog.seedOk
           /\ f \in Phases \ {"NONE", "INIT", "BASELINE"} => Recovered.init
  PROVE  Maps
<1>1. CASE f = Recovered.phase
  <2>1. Recovered' = Recovered
    BY <1>1 DEF State
  <2> QED BY <2>1, MapsStutter
<1>2. CASE f # Recovered.phase
  <2>1. Recovered'.phase = f
    BY DEF State
  <2>2. \E m \in LP!Moves : m[1] = Recovered.phase /\ m[2] = f
    <3>1. <<Recovered.phase, f>> \in LP!Moves
      BY <1>2 DEF Edge, LP!Moves
    <3> DEFINE m == <<Recovered.phase, f>>
    <3>2. m[1] = Recovered.phase /\ m[2] = f
      OBVIOUS
    <3> HIDE DEF m
    <3> QED BY <3>1, <3>2 DEF m
  <2>3. LP!Advance
    BY <1>2, <2>1, <2>2, SameWords, SamePlanWords DEF LP!Advance
  <2> QED BY <2>3 DEF Maps, LP!LNext
<1> QED BY <1>1, <1>2

LEMMA MapsForget ==
  ASSUME Recovered \in State, Recovered' = [Recovered EXCEPT !.pending = NoKd],
         plan' = plan, hist' = hist, head' = head,
         Recovered.phase = "EDIT" => HasPending(plan)
  PROVE  Maps
<1>1. CASE Recovered.pending = NoKd
  <2>1. Recovered' = Recovered
    BY <1>1 DEF State
  <2> QED BY <2>1, MapsStutter
<1>2. CASE Recovered.pending # NoKd
  BY <1>2, SameWords, SamePlanWords DEF Maps, LP!LNext, LP!Forget
<1> QED BY <1>1, <1>2

LEMMA MapsReset ==
  ASSUME Recovered' = [Recovered EXCEPT !.prog.fails = 0], Recovered.phase = "DIAGNOSE",
         plan' = plan, hist' = hist, head' = head
  PROVE  Maps
BY DEF Maps, LP!LNext, LP!ResetFailures

LEMMA MapsCount ==
  ASSUME NEW a \in 0 .. DiagCap,
         NEW v \in {Recovered.prog.version - 1, Recovered.prog.version},
         Recovered' = [Recovered EXCEPT !.prog.attempts = a, !.prog.attFor = v],
         Recovered.phase = "DIAGNOSE", plan' = plan, hist' = hist, head' = head
  PROVE  Maps
BY DEF Maps, LP!LNext, LP!CountAttempt

LEMMA MapsPlan ==
  ASSUME st \in State, plan \in Plan, Recovered = st, st.init,
         st.phase \in {"PLAN", "DIAGNOSE", "REPLAN", "EDIT"},
         intent.kind = "plan", intent.target = plan.v + 1,
         intent.prog.version = intent.target,
         NEW n \in PlanSizes, intent.prog.nextPid = FirstPid(st.prog, plan) + n,
         Recovered' = Committed(st, intent),
         plan' = RewrittenPlan(plan.v + 1, FirstPid(st.prog, plan), n, plan),
         hist' = hist, head' = head
  PROVE  Maps
<1> DEFINE first == FirstPid(st.prog, plan)
<1>1. first = LP!FirstPid(Recovered.prog, plan)
  BY SamePlanWords
<1>2. LP!RewrittenPlan(plan.v + 1, first, n, plan) = RewrittenPlan(plan.v + 1, first, n, plan)
  BY DEF LP!RewrittenPlan, RewrittenPlan
<1>3. Committed(st, intent) = [st EXCEPT !.prog.version = plan.v + 1,
                                         !.prog.nextPid = first + n,
                                         !.expPlan = plan.v + 1]
  BY DEF Committed
<1> HIDE DEF first
<1>4. LP!NewPlan
  BY <1>1, <1>2, <1>3 DEF LP!NewPlan, first
<1> QED BY <1>4 DEF Maps, LP!LNext

LEMMA MapsSeed ==
  ASSUME st \in State, Recovered = st, ~st.init, hist = <<>>, head \in Nat,
         st.prog = NoProgress, st.expRound = 0,
         NEW ok \in BOOLEAN, intent = BaselineEntry(IF ok THEN head ELSE NoCommit),
         Recovered' = Committed(st, intent), plan' = plan, head' = head,
         hist' = Append(hist, SeedRow(head))
  PROVE  Maps
<1> DEFINE b  == IF ok THEN head ELSE NoCommit
           q1 == [NoProgress EXCEPT !.best = b, !.seedOk = (b # NoCommit)]
           q2 == [NoProgress EXCEPT !.seedOk = ok, !.best = b]
           t  == [st EXCEPT !.init = TRUE, !.prog.seedOk = ok, !.prog.best = b]
<1>1. b \in Int /\ (b # NoCommit <=> ok)
  BY DEF NoCommit
<1>2. q1 = q2
  <2>1. (b # NoCommit) = ok
    BY <1>1
  <2>2. q1 = [NoProgress EXCEPT !.best = b, !.seedOk = ok]
    BY <2>1
  <2> HIDE DEF b, q1
  <2> QED BY <2>2 DEF NoProgress
<1>3. intent.kind = "baseline" /\ intent.prog = q1
  BY DEF BaselineEntry
<1>4. Committed(st, intent) = [st EXCEPT !.prog = q2, !.init = TRUE, !.expRound = 0]
  BY <1>2, <1>3 DEF Committed
<1>5. [st EXCEPT !.prog = q2, !.init = TRUE, !.expRound = 0] = t
  <2> HIDE DEF b
  <2> QED BY DEF State
<1>6. hist' = <<LP!SeedRow(head)>>
  <2>1. LP!SeedRow(head) = SeedRow(head)
    BY DEF LP!SeedRow, SeedRow
  <2> DEFINE row == SeedRow(head)
  <2> HIDE DEF row
  <2>2. Append(<<>>, row) = <<row>>
    OBVIOUS
  <2> QED BY <2>1, <2>2 DEF row
<1>7. LP!Seed
  <2>1. Recovered' = t
    BY <1>4, <1>5
  <2> QED BY <1>6, <2>1, SameWords DEF LP!Seed
<1> QED BY <1>7 DEF Maps, LP!LNext

LEMMA MapsRound ==
  ASSUME st \in State, plan \in Plan, hist \in Seq(HistRow), head \in Nat,
         Recovered = st, st.init, st.pending = NoKd, st.phase = "EDIT", HasPending(plan),
         out \in Decisions, st.prog.rounds + 1 = Len(hist),
         intent.kind = "round", intent.target = Len(hist),
         intent.prog = RoundProgress(st.prog, out), intent.kd = RoundKd,
         Recovered' = Committed(st, intent), plan' = plan, head' = head,
         hist' = Append(hist, [round |-> intent.target, item |-> intent.kd.item,
                               decision |-> out,
                               commit |-> IF out = "KEEP" THEN head ELSE NoCommit])
  PROVE  Maps
<1> DEFINE r  == Len(hist)
           kd == [item |-> ActiveItem(plan), decision |-> out, round |-> r]
           b  == IF out = "KEEP" THEN head ELSE st.prog.best
           f  == CASE out = "FAIL" -> st.prog.fails + 1
                   [] out = "KEEP" -> 0
                   [] OTHER        -> st.prog.fails
           t  == [st EXCEPT
                   !.prog.rounds = r, !.expRound = r, !.pending = kd,
                   !.prog.best = IF out = "KEEP" THEN head ELSE @,
                   !.prog.fails = CASE out = "FAIL" -> @ + 1
                                    [] out = "KEEP" -> 0
                                    [] OTHER        -> @]
           p1 == [st.prog EXCEPT !.rounds = r]
           p2 == [p1 EXCEPT !.best = b]
           p3 == [p2 EXCEPT !.fails = f]
           s1 == [st EXCEPT !.expRound = r]
           s2 == [s1 EXCEPT !.pending = kd]
<1>1. intent.kd = kd
  BY DEF RoundKd
<1>2. intent.prog = p3
  <2>1. p1 \in Progress
    <3>1. st.prog \in Progress /\ r \in Nat
      BY DEF State
    <3> HIDE DEF r
    <3> QED BY <3>1 DEF Progress
  <2>2. [[p1 EXCEPT !.fails = f] EXCEPT !.best = b] = p3
    <3> HIDE DEF f, b, p1
    <3> QED BY <2>1 DEF Progress
  <2>3. RoundProgress(st.prog, out) = [[p1 EXCEPT !.fails = f] EXCEPT !.best = b]
    BY DEF RoundProgress, State, Progress
  <2> QED BY <2>2, <2>3
<1>3. Recovered' = [s2 EXCEPT !.prog = p3]
  <2>1. Recovered' = [st EXCEPT !.prog = p3, !.pending = kd, !.expRound = r]
    BY <1>1, <1>2 DEF Committed
  <2> HIDE DEF p3, kd
  <2> QED BY <2>1 DEF State
<1>4. t = [s2 EXCEPT !.prog = p3]
  BY DEF State, Progress
<1>5. LP!Round
  <2> DEFINE Body(d) ==
        LET r_ == Len(hist)
            kd_ == [item |-> LP!ActiveItem(plan), decision |-> d, round |-> r_]
        IN  /\ hist' = Append(hist, [round |-> r_, item |-> kd_.item, decision |-> d,
                                     commit |-> IF d = "KEEP" THEN head ELSE LP!NoCommit])
            /\ Recovered' = [Recovered EXCEPT
                 !.prog.rounds = r_, !.expRound = r_, !.pending = kd_,
                 !.prog.best = IF d = "KEEP" THEN head ELSE @,
                 !.prog.fails = CASE d = "FAIL" -> @ + 1
                                  [] d = "KEEP" -> 0
                                  [] OTHER      -> @]
  <2>1. Body(out)
    <3>1. Recovered' = t
      BY <1>3, <1>4
    <3>2. hist' = Append(hist, [round |-> r, item |-> kd.item, decision |-> out,
                                commit |-> IF out = "KEEP" THEN head ELSE NoCommit])
      BY <1>1
    <3>3. LP!ActiveItem(plan) = ActiveItem(plan) /\ LP!NoCommit = NoCommit
      BY SameWords, SamePlanWords
    <3> QED BY <3>1, <3>2, <3>3
  <2>2. \E d \in LP!Decisions : Body(d)
    <3> HIDE DEF Body
    <3> QED BY <2>1, SameWords
  <2>3. /\ Recovered.init /\ Recovered.pending = LP!NoKd
        /\ Recovered.phase = "EDIT" /\ LP!HasPending(plan)
    BY SameWords, SamePlanWords
  <2> QED BY <2>2, <2>3 DEF LP!Round
<1> QED BY <1>5 DEF Maps, LP!LNext

LEMMA MapsSettle ==
  ASSUME Recovered.pending # NoKd, HasPending(plan), Recovered.phase = "EDIT",
         Recovered.pending.item = ActiveItem(plan),
         ~IsSettled(plan, ActiveItem(plan)),
         hist[Len(hist)].decision = Recovered.pending.decision,
         plan' = SettledPlan(plan, Recovered.pending.decision),
         Recovered' = Recovered, hist' = hist, head' = head
  PROVE  Maps
<1>1. ASSUME NEW d PROVE LP!SettledPlan(plan, d) = SettledPlan(plan, d)
  BY SamePlanWords DEF LP!SettledPlan, SettledPlan
<1>2. LP!IsSettled(plan, ActiveItem(plan)) <=> IsSettled(plan, ActiveItem(plan))
  BY DEF LP!IsSettled, IsSettled
<1>3. LP!SettleItem
  BY <1>1, <1>2, SameWords, SamePlanWords DEF LP!SettleItem
<1> QED BY <1>3 DEF Maps, LP!LNext

-----------------------------------------------------------------------------
(* Every step of the engine maps to a step of the ledger *)

\* The invariant of the steps.
RInv == TypeInv /\ JournalInv /\ PhaseAt /\ InHand /\ LP!LedgerInv

\* What a step owes.
Owed == Maps /\ PhaseAt' /\ InHand'

\* With the journal empty, what the ledger keeps is true of state.json itself.
LEMMA QuietFacts ==
  ASSUME RInv, pc \in QuietPcs
  PROVE  intent.kind = "none" /\ Recovered = st /\ st \in State
BY QuietRecovered DEF RInv, JournalInv, InStep, TypeInv, TypeOK

\* The entry of a plan that has not landed is that of the next version.
NextVersion ==
  intent.kind = "plan" /\ st.expPlan # intent.target => st.prog.version + 1 = intent.target

\* Places where a command holds nothing.
LEMMA HandsEmpty ==
  ASSUME pc' \notin HookPcs \cup {"unmark", "settled", "eval", "git", "round_intent",
                                 "round_body", "base_body", "plan_body"},
         NextVersion'
  PROVE  InHand'
BY DEF InHand, NextVersion

LEMMA FilesKept ==
  ASSUME RInv, UNCHANGED files
  PROVE  /\ Recovered' = Recovered /\ plan' = plan /\ hist' = hist /\ st' = st
         /\ intent' = intent /\ NextVersion'
BY FilesStay DEF RInv, files, NextVersion, InHand

\* What the agent starts is what the phase allows.
LEMMA AgentSteps == RInv /\ Agent => Owed
<1> SUFFICES ASSUME RInv, Agent PROVE Owed
  OBVIOUS
<1>1. UNCHANGED files /\ head' = head
  BY DEF Agent, Start, RejectPlan, Activate, EditKernel, Diagnose, git
<1>2. Maps
  BY <1>1, FilesKept, MapsStutter
<1>3. st' = st /\ NextVersion'
  BY <1>1, FilesKept
<1>4. CASE \E c \in Scripts : Start(c)
  <2>1. PICK c \in Scripts : Start(c)
    BY <1>4
  <2>2. PhaseAt'
    BY <1>3, <2>1 DEF Start, MayRun, PhaseAllows, Scripts, PhaseAt, BaselinePcs, HookPcs, RoundPcs
  <2>3. InHand'
    BY <1>3, <2>1, HandsEmpty DEF Start, HookPcs
  <2> QED BY <1>2, <2>2, <2>3 DEF Owed
<1>5. CASE RejectPlan
  <2>1. PhaseAt'
    BY <1>3, <1>5 DEF RejectPlan, MayRun, PhaseAllows, PhaseAt, BaselinePcs, HookPcs, RoundPcs
  <2>2. InHand'
    BY <1>3, <1>5, HandsEmpty DEF RejectPlan, HookPcs
  <2> QED BY <1>2, <2>1, <2>2 DEF Owed
<1>6. CASE Activate
  <2>1. PhaseAt'
    BY <1>3, <1>6 DEF Activate, PhaseAt, BaselinePcs, HookPcs, RoundPcs
  <2>2. InHand'
    BY <1>3, <1>6, HandsEmpty DEF Activate, HookPcs
  <2> QED BY <1>2, <2>1, <2>2 DEF Owed
<1>7. CASE EditKernel
  <2>1. PhaseAt'
    BY <1>3, <1>7 DEF EditKernel, ctl, RInv, PhaseAt
  <2>2. InHand'
    BY <1>3, <1>7, HandsEmpty DEF EditKernel, ctl, HookPcs
  <2> QED BY <1>2, <2>1, <2>2 DEF Owed
<1>8. CASE Diagnose
  <2>1. PhaseAt'
    <3>1. Attempts(st.prog) < DiagCap
      <4>1. Attempts(st.prog) \in Nat /\ DiagCap \in Nat
        BY RecordAssumption DEF RecordAssumption, RInv, TypeInv, TypeOK, State, Progress, Attempts
      <4> QED BY <1>8, <4>1 DEF Diagnose, DiagAction
    <3> QED BY <1>3, <1>8, <3>1 DEF Diagnose, PhaseAt, BaselinePcs, HookPcs, RoundPcs
  <2>2. InHand'
    BY <1>3, <1>8, HandsEmpty DEF Diagnose, HookPcs
  <2> QED BY <1>2, <2>1, <2>2 DEF Owed
<1> QED BY <1>4, <1>5, <1>6, <1>7, <1>8 DEF Agent

\* A death changes no file, and what runs next finds the phase as it was.
LEMMA DeathSteps == RInv /\ (Kill \/ SessionCrash) => Owed
<1> SUFFICES ASSUME RInv, Kill \/ SessionCrash PROVE Owed
  OBVIOUS
<1>1. UNCHANGED files /\ head' = head
  BY DEF Kill, SessionCrash, git
<1>2. Maps /\ st' = st /\ NextVersion'
  BY <1>1, FilesKept, MapsStutter
<1>3. /\ \/ pc' \in {"idle", "down"} /\ cmd' = "none"
         \/ pc' = "post_plan" /\ cmd' = "plan" /\ cmd = "plan"
      /\ out' = "none"
  BY DEF Kill, SessionCrash
<1>4. PhaseAt'
  BY <1>2, <1>3 DEF RInv, PhaseAt, BaselinePcs, HookPcs, RoundPcs
<1>5. InHand'
  BY <1>2, <1>3, HandsEmpty DEF HookPcs
<1> QED BY <1>2, <1>4, <1>5 DEF Owed

\* Opening a task shows the ledger nothing but the claim of a new one.
LEMMA OpenSteps == RInv /\ Open => Owed
<1> SUFFICES ASSUME RInv, Open PROVE Owed
  OBVIOUS
<1> USE DEF RInv, TypeInv, TypeOK
<1>1. CASE Heal
  <2>1. /\ st' = Recovered /\ plan' = plan /\ hist' = hist /\ intent' = intent
        /\ head' = head /\ pc' = "healed" /\ cmd' = cmd /\ out' = out /\ diag' = diag
        /\ pc = "open"
    BY <1>1 DEF Heal, Recovered, Goto, git
  <2>2. Recovered' = Recovered
    <3>1. Recovered' = Replayed(Replayed(st, plan, hist, intent), plan, hist, intent)
      BY <2>1 DEF Recovered
    <3> QED BY <2>1, <3>1, ReplayIdempotent DEF Recovered
  <2>3. st'.phase = st.phase
    BY <2>1, ReplayKeeps DEF Recovered
  <2>4. PhaseAt'
    BY <2>1, <2>3 DEF PhaseAt, BaselinePcs, HookPcs, RoundPcs
  <2>5. NextVersion'
    <3>1. CASE Recovered = st
      BY <2>1, <3>1 DEF InHand, NextVersion
    <3>2. CASE Recovered = Committed(st, intent)
      BY <2>1, <3>2, CommitPlan DEF NextVersion
    <3> QED BY <3>1, <3>2 DEF Recovered, Replayed
  <2>6. InHand'
    BY <2>1, <2>5, HandsEmpty DEF HookPcs
  <2> QED BY <2>1, <2>2, <2>4, <2>6, MapsStutter DEF Owed
<1>2. CASE DropIntent
  <2>1. /\ st' = st /\ plan' = plan /\ hist' = hist /\ intent'.kind = "none"
        /\ head' = head /\ pc' = "open" /\ cmd' = cmd /\ out' = out /\ diag' = diag
        /\ pc = "healed" /\ Recovered = st
    BY <1>2 DEF DropIntent, NoIntent, Goto, git, JournalInv, InStep
  <2>2. Recovered' = Recovered
    BY <2>1, ReplayNothing DEF Recovered
  <2>3. PhaseAt'
    BY <2>1 DEF PhaseAt, BaselinePcs, HookPcs, RoundPcs
  <2>4. InHand'
    BY <2>1, HandsEmpty DEF HookPcs, NextVersion
  <2> QED BY <2>1, <2>2, <2>3, <2>4, MapsStutter DEF Owed
<1>3. CASE Claim
  <2>1. /\ plan' = plan /\ hist' = hist /\ intent' = intent /\ intent.kind = "none"
        /\ head' = head /\ diag' = diag /\ pc = "open"
    BY <1>3 DEF Claim, git
  <2>2. Recovered = st /\ Recovered' = st'
    BY <2>1, QuietRecovered, ReplayNothing DEF Recovered
  <2>3. \/ st' = [st EXCEPT !.phase = "INIT"] /\ st.phase = "NONE"
           /\ pc' = "opened" /\ cmd' = cmd /\ out' = out
        \/ st' = st /\ st.phase # "NONE" /\ pc' = "opened" /\ cmd' = cmd /\ out' = out
        \/ st' = st /\ pc' = "idle" /\ cmd' = "none" /\ out' = "none"
    BY <1>3 DEF Claim, Goto, Return
  <2>4. CASE st' = [st EXCEPT !.phase = "INIT"] /\ st.phase = "NONE"
             /\ pc' = "opened" /\ cmd' = cmd /\ out' = out
    <3>1. Maps
      <4>1. st.prog.rounds < MaxRounds
        BY <2>2, <2>4, LedgerSays
      <4>2. ~(st.prog.rounds >= MaxRounds)
        BY <4>1, RecordAssumption DEF RecordAssumption, State, Progress
      <4> QED BY <2>1, <2>2, <2>4, <4>2, MapsAdvance DEF Edge, Phases
    <3>2. st'.phase = "INIT"
      BY <2>4 DEF State
    <3>3. PhaseAt'
      BY <2>1, <2>4, <3>2 DEF PhaseAt, BaselinePcs, HookPcs, RoundPcs
    <3>4. InHand'
      BY <2>1, <2>4, HandsEmpty DEF HookPcs, NextVersion
    <3> QED BY <3>1, <3>3, <3>4 DEF Owed
  <2>5. CASE st' = st /\ st.phase # "NONE" /\ pc' = "opened" /\ cmd' = cmd /\ out' = out
    <3>1. PhaseAt'
      BY <2>1, <2>5 DEF PhaseAt, BaselinePcs, HookPcs, RoundPcs
    <3>2. InHand'
      BY <2>1, <2>5, HandsEmpty DEF HookPcs, NextVersion
    <3> QED BY <2>1, <2>2, <2>5, <3>1, <3>2, MapsStutter DEF Owed
  <2>6. CASE st' = st /\ pc' = "idle" /\ cmd' = "none" /\ out' = "none"
    <3>1. PhaseAt'
      BY <2>6 DEF PhaseAt, BaselinePcs, HookPcs, RoundPcs
    <3>2. InHand'
      BY <2>1, <2>6, HandsEmpty DEF HookPcs, NextVersion
    <3> QED BY <2>1, <2>2, <2>6, <3>1, <3>2, MapsStutter DEF Owed
  <2> QED BY <2>3, <2>4, <2>5, <2>6
<1> QED BY <1>1, <1>2, <1>3 DEF Open

\* A phase write that ends a command, while the journal is empty.
LEMMA PhaseReturns ==
  ASSUME RInv, pc \in QuietPcs, Return, intent'.kind = "none", plan' = plan, hist' = hist,
         head' = head, NEW f \in Phases, st' = [st EXCEPT !.phase = f],
         f # st.phase =>
           /\ Edge(st.phase, f)
           /\ f = "FINISH" <=> st.prog.rounds >= MaxRounds
           /\ f = "EDIT" => HasPending(plan)
           /\ f = "PLAN" => ~PlanExists(plan) \/ ~st.prog.seedOk
           /\ f \in Phases \ {"NONE", "INIT", "BASELINE"} => st.init
  PROVE  Owed
<1>1. Recovered = st /\ st \in State /\ Recovered' = st'
  BY QuietFacts, ReplayNothing DEF Recovered
<1>2. Maps
  BY <1>1, MapsAdvance
<1>3. PhaseAt'
  BY DEF Return, PhaseAt, BaselinePcs, HookPcs, RoundPcs
<1>4. InHand'
  BY HandsEmpty DEF Return, HookPcs, NextVersion
<1> QED BY <1>2, <1>3, <1>4 DEF Owed

\* The rounds left in the phases that lead to a plan.
LEMMA RoundsLeft ==
  ASSUME RInv, Recovered = st, st.phase \notin {"EDIT", "FINISH"}
  PROVE  ~(st.prog.rounds >= MaxRounds)
<1>1. st.prog.rounds < MaxRounds
  BY LedgerSays DEF RInv
<1>2. st.prog.rounds \in Nat /\ MaxRounds \in Nat
  BY RecordAssumption DEF RecordAssumption, RInv, TypeInv, TypeOK, State, Progress
<1> QED BY <1>1, <1>2

\* The ledger sees of a baseline its first row and the way to PLAN.
LEMMA BaselineSteps == RInv /\ Baseline => Owed
<1> SUFFICES ASSUME RInv, Baseline PROVE Owed
  OBVIOUS
<1> USE DEF RInv, TypeInv, TypeOK
<1>1. CASE BaselineDone
  <2>1. /\ plan' = plan /\ hist' = hist /\ intent' = intent /\ Return /\ head' = head
        /\ pc = "opened" /\ cmd = "baseline"
    BY <1>1 DEF BaselineDone, git
  <2>2. pc \in QuietPcs /\ intent'.kind = "none" /\ Recovered = st
    BY <2>1, QuietFacts DEF QuietPcs
  <2>3. st.phase \in {"INIT", "BASELINE"}
    BY <2>1 DEF PhaseAt
  <2>4. ~(st.prog.rounds >= MaxRounds) /\ ~PlanExists(plan)
    BY <2>2, <2>3, LedgerSays, RoundsLeft
  <2>5. CASE st.init /\ HasSeedRow(hist)
    <3>1. st' = [st EXCEPT !.phase = "PLAN"] /\ "PLAN" \in Phases
      BY <1>1, <2>5 DEF BaselineDone, BaselinePhase, Phases
    <3> QED BY <2>1, <2>2, <2>3, <2>4, <2>5, <3>1, PhaseReturns DEF Edge
  <2>6. CASE ~(st.init /\ HasSeedRow(hist))
    <3>1. st' = [st EXCEPT !.phase = st.phase] /\ st.phase \in Phases
      BY <1>1, <2>6 DEF BaselineDone, State
    <3> QED BY <2>1, <2>2, <3>1, PhaseReturns
  <2> QED BY <2>5, <2>6
<1>2. CASE BaselinePending
  <2>1. /\ plan' = plan /\ hist' = hist /\ intent'.kind = "none" /\ Return /\ head' = head
        /\ pc = "opened" /\ cmd = "baseline" /\ st' = [st EXCEPT !.phase = "BASELINE"]
    BY <1>2 DEF BaselinePending, BaselineProceeds, NoIntent, git
  <2>2. pc \in QuietPcs /\ Recovered = st
    BY <2>1, QuietFacts DEF QuietPcs
  <2>3. st.phase \in {"INIT", "BASELINE"} /\ "BASELINE" \in Phases
    BY <2>1 DEF PhaseAt, Phases
  <2>4. ~(st.prog.rounds >= MaxRounds)
    BY <2>2, <2>3, RoundsLeft
  <2> QED BY <2>1, <2>2, <2>3, <2>4, PhaseReturns DEF Edge
<1>3. CASE \E o \in SeedOutcomes : BaselineIntent(o)
  <2> PICK o \in SeedOutcomes : BaselineIntent(o)
    BY <1>3
  <2>1. /\ st' = st /\ plan' = plan /\ hist' = hist /\ head' = head /\ diag' = diag
        /\ pc' = "base_body" /\ cmd' = cmd /\ out' = o
        /\ pc = "opened" /\ cmd = "baseline" /\ ~st.init
        /\ intent' = BaselineEntry(IF o = "ok" THEN head ELSE NoCommit)
    BY DEF BaselineIntent, BaselineProceeds, git
  <2>2. Recovered = st /\ intent'.kind = "baseline"
    BY <2>1, QuietFacts DEF QuietPcs, BaselineEntry
  <2>3. hist = <<>>
    BY <2>1, <2>2, LedgerSays
  <2>4. Recovered' = st'
    <3>1. ~BodyLanded(plan', hist', intent')
      BY <2>1, <2>2, <2>3 DEF BodyLanded, LastRound
    <3> QED BY <3>1, ReplayNothing DEF Recovered
  <2>5. PhaseAt'
    BY <2>1 DEF PhaseAt, BaselinePcs, HookPcs, RoundPcs
  <2>6. InHand'
    BY <2>1, <2>2 DEF InHand, HookPcs
  <2> QED BY <2>1, <2>2, <2>4, <2>5, <2>6, MapsStutter DEF Owed
<1>4. CASE BaselineBody
  <2>1. /\ st' = st /\ plan' = plan /\ intent' = intent /\ head' = head /\ diag' = diag
        /\ pc' = "base_state" /\ cmd' = cmd /\ out' = out /\ pc = "base_body"
    BY <1>4 DEF BaselineBody, Goto, git
  <2>2. intent.kind = "baseline" /\ ~st.init /\ hist = <<>>
    BY <2>1 DEF JournalInv, InStep
  <2>3. Recovered = st
    <3>1. ~BodyLanded(plan, hist, intent)
      BY <2>2 DEF BodyLanded, LastRound
    <3> QED BY <3>1, ReplayNothing DEF Recovered
  <2>4. hist' = Append(hist, SeedRow(head))
    BY <1>4, <2>2 DEF BaselineBody, HasSeedRow
  <2>5. LastRound(hist') = 0
    <3>1. SeedRow(head) \in HistRow /\ SeedRow(head).round = 0
      BY DEF SeedRow, HistRow
    <3>2. SeedRow(head).round = Len(hist)
      BY <2>2, <3>1
    <3>3. LastRound(hist') = Len(hist)
      BY <2>4, <3>1, <3>2, AppendStep DEF JournalInv
    <3> QED BY <2>2, <3>3
  <2>6. Recovered' = Committed(st, intent)
    BY <2>1, <2>2, <2>5, ReplayCompletes DEF Recovered, BodyLanded, StateCaughtUp
  <2>7. st.prog = NoProgress /\ st.expRound = 0
    BY <2>2, <2>3, LedgerSays
  <2> DEFINE ok == out = "ok"
  <2>8. intent = BaselineEntry(IF ok THEN head ELSE NoCommit) /\ ok \in BOOLEAN
    BY <2>1 DEF InHand
  <2>9. Maps
    <3> HIDE DEF ok
    <3> QED BY <2>1, <2>2, <2>3, <2>4, <2>6, <2>7, <2>8, MapsSeed
  <2>10. PhaseAt'
    BY <2>1 DEF PhaseAt, BaselinePcs, HookPcs, RoundPcs
  <2>11. InHand'
    BY <2>1, <2>2, HandsEmpty DEF HookPcs, NextVersion
  <2> QED BY <2>9, <2>10, <2>11 DEF Owed
<1>5. CASE BaselineState
  <2>1. /\ st' = Committed(st, intent) /\ plan' = plan /\ hist' = hist /\ head' = head
        /\ intent' = intent /\ pc' = "base_clear" /\ cmd' = cmd /\ out' = out
        /\ diag' = diag /\ pc = "base_state"
    BY <1>5 DEF BaselineState, Goto, git
  <2>2. intent.kind = "baseline" /\ LastRound(hist) = 0 /\ ~st.init
    BY <2>1 DEF JournalInv, InStep
  <2>3. Recovered = st' /\ Recovered' = st'
    BY <2>1, <2>2, ReplayCompletes, CommittedStays DEF Recovered, BodyLanded, StateCaughtUp
  <2>4. st'.phase = st.phase
    BY <2>1, <2>2, CommitBaseline
  <2>5. PhaseAt'
    BY <2>1, <2>4 DEF PhaseAt, BaselinePcs, HookPcs, RoundPcs
  <2>6. InHand'
    BY <2>1, <2>2, HandsEmpty DEF HookPcs, NextVersion
  <2> QED BY <2>1, <2>3, <2>5, <2>6, MapsStutter DEF Owed
<1>6. CASE BaselineClear
  <2>1. /\ st' = st /\ plan' = plan /\ hist' = hist /\ head' = head /\ diag' = diag
        /\ intent'.kind = "none" /\ pc = "base_clear" /\ Recovered = st
        /\ Return \/ (pc' = "base_phase" /\ cmd' = cmd /\ out' = out)
    BY <1>6 DEF BaselineClear, NoIntent, Goto, git, JournalInv, InStep
  <2>2. Recovered' = st'
    BY <2>1, ReplayNothing DEF Recovered
  <2>3. PhaseAt'
    BY <2>1 DEF Return, PhaseAt, BaselinePcs, HookPcs, RoundPcs
  <2>4. InHand'
    BY <2>1, HandsEmpty DEF Return, HookPcs, NextVersion
  <2> QED BY <2>1, <2>2, <2>3, <2>4, MapsStutter DEF Owed
<1>7. CASE BaselineSettled
  <2>1. /\ plan' = plan /\ hist' = hist /\ intent' = intent /\ Return /\ head' = head
        /\ pc = "base_phase" /\ st' = [st EXCEPT !.phase = BaselinePhase(st)]
    BY <1>7 DEF BaselineSettled, git
  <2>2. pc \in QuietPcs /\ intent'.kind = "none" /\ Recovered = st
    BY <2>1, QuietFacts DEF QuietPcs
  <2>3. st.phase \in {"INIT", "BASELINE"}
    BY <2>1 DEF PhaseAt, BaselinePcs
  <2>4. ~(st.prog.rounds >= MaxRounds) /\ ~PlanExists(plan)
    BY <2>2, <2>3, LedgerSays, RoundsLeft
  <2>5. /\ BaselinePhase(st) \in {"PLAN", "BASELINE"} /\ BaselinePhase(st) \in Phases
        /\ BaselinePhase(st) = "PLAN" => st.init
    BY DEF BaselinePhase, Phases
  <2> QED BY <2>1, <2>2, <2>3, <2>4, <2>5, PhaseReturns DEF Edge
<1> QED BY <1>1, <1>2, <1>3, <1>4, <1>5, <1>6, <1>7 DEF Baseline

\* The ledger sees of a plan the rewritten plan.md.
LEMMA MakePlanSteps == RInv /\ MakePlan => Owed
<1> SUFFICES ASSUME RInv, MakePlan PROVE Owed
  OBVIOUS
<1> USE DEF RInv, TypeInv, TypeOK
<1>1. CASE PlanIntent
  <2>1. PICK n \in PlanSizes :
          intent' = PlanEntry(st.prog.version + 1, FirstPid(st.prog, plan) + n)
    BY <1>1 DEF PlanIntent
  <2>2. /\ st' = st /\ plan' = plan /\ hist' = hist /\ head' = head /\ diag' = diag
        /\ pc' = "plan_body" /\ cmd' = cmd /\ out' = out
        /\ pc = "opened" /\ cmd = "plan"
    BY <1>1 DEF PlanIntent, Goto, git
  <2>3. Recovered = st
    BY <2>2, QuietFacts DEF QuietPcs
  <2>4. /\ intent'.kind = "plan" /\ intent'.target = st.prog.version + 1
        /\ intent'.prog.nextPid = FirstPid(st.prog, plan) + n
    <3>1. st.prog.version + 1 \in Nat /\ FirstPid(st.prog, plan) + n \in Nat
      BY FirstPidNat, RecordAssumption DEF RecordAssumption, State, Progress
    <3> QED BY <2>1, <3>1, PlanEntryType
  <2>5. Recovered' = st'
    <3>1. plan.v = st.prog.version /\ st.prog.version \in Nat
      BY <2>3 DEF JournalInv, Together, State, Progress
    <3>2. ~BodyLanded(plan', hist', intent')
      BY <2>2, <2>4, <3>1 DEF BodyLanded
    <3> QED BY <3>2, ReplayNothing DEF Recovered
  <2>6. PhaseAt'
    BY <2>2 DEF PhaseAt, BaselinePcs, HookPcs, RoundPcs
  <2>7. InHand'
    BY <2>2, <2>4 DEF InHand, HookPcs
  <2> QED BY <2>2, <2>3, <2>5, <2>6, <2>7, MapsStutter DEF Owed
<1>2. CASE PlanBody
  <2>1. /\ st' = st /\ hist' = hist /\ intent' = intent /\ head' = head /\ diag' = diag
        /\ pc' = "plan_state" /\ cmd' = cmd /\ out' = out /\ pc = "plan_body"
    BY <1>2 DEF PlanBody, Goto, git
  <2>2. /\ intent.kind = "plan" /\ intent.target = plan.v + 1
        /\ intent.prog.version = intent.target /\ st.expPlan = plan.v
        /\ st.init /\ cmd = "plan" /\ plan.v \in Nat
    BY <2>1 DEF JournalInv, InStep, NeedsBaseline, PlanPcs, Plan
  <2>3. Recovered = st
    <3>1. ~BodyLanded(plan, hist, intent)
      BY <2>2 DEF BodyLanded
    <3> QED BY <3>1, ReplayNothing DEF Recovered
  <2>4. PICK n \in PlanSizes : intent.prog.nextPid = FirstPid(st.prog, plan) + n
    BY <2>1 DEF InHand
  <2>5. plan' = RewrittenPlan(plan.v + 1, FirstPid(st.prog, plan), n, plan)
    <3> DEFINE first == FirstPid(st.prog, plan)
    <3>1. first \in Nat /\ n \in Nat
      BY FirstPidNat, RecordAssumption DEF RecordAssumption, State
    <3>2. plan' = RewrittenPlan(intent.target, first, intent.prog.nextPid - first, plan)
      BY <1>2 DEF PlanBody
    <3>3. intent.prog.nextPid = first + n
      BY <2>4
    <3> HIDE DEF first
    <3>4. intent.prog.nextPid - first = n
      BY <3>1, <3>3
    <3>5. plan' = RewrittenPlan(plan.v + 1, first, n, plan)
      BY <2>2, <3>2, <3>4
    <3> QED BY <3>5 DEF first
  <2>6. Recovered' = Committed(st, intent)
    <3>1. plan'.v = intent.target
      BY <2>2, <2>5 DEF RewrittenPlan
    <3>2. BodyLanded(plan', hist', intent') /\ ~StateCaughtUp(st', intent')
      BY <2>1, <2>2, <3>1 DEF BodyLanded, StateCaughtUp, PlanExists
    <3> QED BY <2>1, <3>2, ReplayCompletes DEF Recovered
  <2>7. st.phase \in {"PLAN", "DIAGNOSE", "REPLAN", "EDIT"}
    BY <2>2 DEF PhaseAt
  <2>8. Maps
    BY <2>1, <2>2, <2>3, <2>4, <2>5, <2>6, <2>7, MapsPlan
  <2>9. PhaseAt'
    BY <2>1 DEF PhaseAt, BaselinePcs, HookPcs, RoundPcs
  <2>10. InHand'
    BY <2>1, HandsEmpty DEF HookPcs, NextVersion, InHand
  <2> QED BY <2>8, <2>9, <2>10 DEF Owed
<1>3. CASE PlanState
  <2>1. /\ st.init /\ intent.kind = "plan" /\ plan.v = intent.target
        /\ intent.target > 0 /\ st.expPlan # intent.target
    BY <1>3 DEF PlanState, JournalInv, InStep, NeedsBaseline, PlanPcs
  <2>2. /\ st' = Committed(st, intent) /\ plan' = plan /\ hist' = hist /\ head' = head
        /\ intent' = intent /\ pc' = "plan_clear" /\ cmd' = cmd /\ out' = out /\ diag' = diag
        /\ pc = "plan_state"
    BY <1>3, <2>1 DEF PlanState, Goto, git
  <2>3. BodyLanded(plan, hist, intent) /\ ~StateCaughtUp(st, intent)
    BY <2>1 DEF BodyLanded, StateCaughtUp, PlanExists, Intent
  <2>4. Recovered = st' /\ Recovered' = st'
    BY <2>2, <2>3, ReplayCompletes, CommittedStays DEF Recovered
  <2>5. st'.phase = st.phase /\ st'.expPlan = intent.target
    BY <2>1, <2>2, CommitPlan
  <2>6. PhaseAt'
    BY <2>2, <2>5 DEF PhaseAt, BaselinePcs, HookPcs, RoundPcs
  <2>7. InHand'
    BY <2>2, <2>5, HandsEmpty DEF HookPcs, NextVersion
  <2> QED BY <2>2, <2>4, <2>6, <2>7, MapsStutter DEF Owed
<1>4. CASE PlanClear
  <2>1. /\ st' = st /\ plan' = plan /\ hist' = hist /\ head' = head /\ diag' = diag
        /\ intent'.kind = "none" /\ pc' = "post_plan" /\ cmd' = cmd /\ out' = out
        /\ pc = "plan_clear" /\ Recovered = st
    BY <1>4 DEF PlanClear, NoIntent, Goto, git, JournalInv, InStep
  <2>2. Recovered' = st'
    BY <2>1, ReplayNothing DEF Recovered
  <2>3. PhaseAt'
    BY <2>1 DEF PhaseAt, BaselinePcs, HookPcs, RoundPcs
  <2>4. InHand'
    BY <2>1, HandsEmpty DEF HookPcs, NextVersion
  <2> QED BY <2>1, <2>2, <2>3, <2>4, MapsStutter DEF Owed
<1> QED BY <1>1, <1>2, <1>3, <1>4 DEF MakePlan

\* The ledger sees of the hook of create_plan.py the new failure streak, EDIT
\* and the round given up.
LEMMA HookSteps == RInv /\ Hook => Owed
<1> SUFFICES ASSUME RInv, Hook PROVE Owed
  OBVIOUS
<1> USE DEF RInv, TypeInv, TypeOK
<1>1. CASE PostPlan
  <2>1. UNCHANGED files /\ head' = head /\ pc = "post_plan"
        /\ pc' = "open" /\ cmd' = "hook" /\ out' = "none"
    BY <1>1 DEF PostPlan, git
  <2>2. Maps /\ st' = st /\ NextVersion'
    BY <2>1, FilesKept, MapsStutter
  <2>3. st.phase \in {"PLAN", "DIAGNOSE", "REPLAN", "EDIT"}
    BY <2>1 DEF JournalInv, NeedsBaseline, PhaseAt
  <2>4. PhaseAt'
    BY <2>1, <2>2, <2>3 DEF PhaseAt, BaselinePcs, HookPcs, RoundPcs
  <2>5. InHand'
    BY <2>1, <2>2, HandsEmpty DEF HookPcs
  <2> QED BY <2>2, <2>4, <2>5 DEF Owed
<1>2. CASE HookValidate
  <2>1. UNCHANGED files /\ head' = head /\ pc = "opened" /\ cmd = "hook" /\ diag' = diag
    BY <1>2 DEF HookValidate, git
  <2>2. Maps /\ st' = st /\ plan' = plan /\ NextVersion'
    BY <2>1, FilesKept, MapsStutter
  <2>3. CASE Return
    <3>1. PhaseAt'
      BY <2>3 DEF Return, PhaseAt, BaselinePcs, HookPcs, RoundPcs
    <3>2. InHand'
      BY <2>2, <2>3, HandsEmpty DEF Return, HookPcs
    <3> QED BY <2>2, <3>1, <3>2 DEF Owed
  <2>4. CASE /\ HasPending(plan) /\ cmd' = cmd /\ out' = out
             /\ \/ pc' = "hook_reset" /\ st.phase = "DIAGNOSE"
                \/ pc' = "hook_recover" /\ st.phase = "EDIT"
                \/ pc' = "hook_phase"
    <3>1. PhaseAt'
      BY <2>1, <2>2, <2>4 DEF PhaseAt, BaselinePcs, HookPcs, RoundPcs
    <3>2. InHand'
      BY <2>1, <2>2, <2>4 DEF InHand, NextVersion, HookPcs
    <3> QED BY <2>2, <3>1, <3>2 DEF Owed
  <2> QED BY <1>2, <2>3, <2>4 DEF HookValidate, ValidPlan, Goto
<1>3. CASE HookReset
  <2>1. /\ st' = [st EXCEPT !.prog.fails = 0] /\ plan' = plan /\ hist' = hist
        /\ intent' = intent /\ head' = head /\ diag' = diag
        /\ pc' = "hook_phase" /\ cmd' = cmd /\ out' = out /\ pc = "hook_reset"
    BY <1>3 DEF HookReset, Goto, git
  <2>2. Recovered = st /\ intent'.kind = "none"
    BY <2>1, QuietFacts DEF QuietPcs, HookPcs
  <2>3. Recovered' = st' /\ st'.phase = st.phase /\ st.phase = "DIAGNOSE"
    BY <2>1, <2>2, ReplayNothing DEF Recovered, PhaseAt, State
  <2>4. Maps
    BY <2>1, <2>2, <2>3, MapsReset
  <2>5. PhaseAt'
    BY <2>1, <2>3 DEF PhaseAt, BaselinePcs, HookPcs, RoundPcs
  <2>6. InHand'
    BY <2>1, <2>2 DEF InHand, HookPcs
  <2> QED BY <2>4, <2>5, <2>6 DEF Owed
<1>4. CASE HookPhase
  <2>1. /\ st' = [st EXCEPT !.phase = "EDIT"] /\ plan' = plan /\ hist' = hist
        /\ intent' = intent /\ head' = head /\ diag' = diag
        /\ pc \in {"hook_phase", "hook_recover"}
        /\ Return \/ (pc' = "hook_clear" /\ cmd' = cmd /\ out' = out)
    BY <1>4 DEF HookPhase, Goto, git
  <2>2. Recovered = st /\ intent'.kind = "none" /\ pc \in QuietPcs
    BY <2>1, QuietFacts DEF QuietPcs, HookPcs
  <2>3. /\ cmd = "hook" /\ st.phase \in {"PLAN", "DIAGNOSE", "REPLAN", "EDIT"}
        /\ st.init /\ HasPending(plan) /\ "EDIT" \in Phases
    BY <2>1 DEF PhaseAt, HookPcs, JournalInv, NeedsBaseline, InHand, Phases
  <2>4. "EDIT" # st.phase => /\ ~(st.prog.rounds >= MaxRounds) /\ Edge(st.phase, "EDIT")
    BY <2>2, <2>3, RoundsLeft DEF Edge
  <2>5. CASE Return
    BY <2>1, <2>2, <2>3, <2>4, <2>5, PhaseReturns
  <2>6. CASE pc' = "hook_clear" /\ cmd' = cmd /\ out' = out
    <3>1. Recovered' = st' /\ st'.phase = "EDIT"
      BY <2>1, <2>2, ReplayNothing DEF Recovered, State
    <3>2. Maps
      BY <2>1, <2>2, <2>3, <2>4, <3>1, MapsAdvance
    <3>3. PhaseAt'
      BY <2>1, <2>3, <2>6, <3>1 DEF PhaseAt, BaselinePcs, HookPcs, RoundPcs
    <3>4. InHand'
      BY <2>1, <2>2, <2>3, <2>6 DEF InHand, HookPcs
    <3> QED BY <3>2, <3>3, <3>4 DEF Owed
  <2> QED BY <2>1, <2>5, <2>6
<1>5. CASE HookClear
  <2>1. /\ st' = [st EXCEPT !.pending = NoKd] /\ plan' = plan /\ hist' = hist
        /\ intent' = intent /\ head' = head /\ pc = "hook_clear" /\ Return
    BY <1>5 DEF HookClear, git
  <2>2. Recovered = st /\ intent'.kind = "none" /\ HasPending(plan)
    BY <2>1, QuietFacts DEF QuietPcs, HookPcs, InHand
  <2>3. Recovered' = st'
    BY <2>2, ReplayNothing DEF Recovered
  <2>4. Maps
    BY <2>1, <2>2, <2>3, MapsForget
  <2>5. PhaseAt'
    BY <2>1 DEF Return, PhaseAt, BaselinePcs, HookPcs, RoundPcs
  <2>6. InHand'
    BY <2>1, <2>2, HandsEmpty DEF Return, HookPcs, NextVersion
  <2> QED BY <2>4, <2>5, <2>6 DEF Owed
<1> QED BY <1>1, <1>2, <1>3, <1>4, <1>5 DEF Hook

\* The ledger sees of an evaluation at most a commit.
LEMMA EvaluateSteps == RInv /\ Evaluate => Owed
<1> SUFFICES ASSUME RInv, Evaluate PROVE Owed
  OBVIOUS
<1> USE DEF RInv, TypeInv, TypeOK
<1>1. UNCHANGED files
  BY DEF Evaluate, PipelineStart, EvalAbort, EvalDecide, GitKeep, GitError, GitRollback
<1>2. head' \in {head, head + 1}
  BY DEF Evaluate, PipelineStart, EvalAbort, EvalDecide, GitKeep, GitError, GitRollback, git
<1>3. Maps
  BY <1>1, <1>2, FilesKept, MapsStutter, MapsKernel
<1>4. cmd = "pipeline" /\ pc \in {"opened", "eval", "git"} /\ st.phase = "EDIT"
  BY DEF Evaluate, PipelineStart, EvalAbort, EvalDecide, GitKeep, GitError, GitRollback,
         PhaseAt, RoundPcs
<1>5. \/ Return
      \/ /\ cmd' = cmd
         /\ \/ pc' = "settle"
            \/ pc' \in {"eval", "git", "round_intent"} /\ st.pending = NoKd
  BY DEF Evaluate, PipelineStart, EvalAbort, EvalDecide, GitKeep, GitError, GitRollback,
         Goto, InHand
<1>6. st' = st /\ NextVersion'
  BY <1>1, FilesKept
<1>7. PhaseAt'
  BY <1>4, <1>5, <1>6 DEF Return, PhaseAt, BaselinePcs, HookPcs, RoundPcs
<1>8. InHand'
  <2>1. CASE Return \/ pc' = "settle"
    BY <1>6, <2>1, HandsEmpty DEF Return, HookPcs
  <2>2. CASE pc' \in {"eval", "git", "round_intent"} /\ st.pending = NoKd
    BY <1>6, <2>2 DEF InHand, NextVersion, HookPcs
  <2> QED BY <1>5, <2>1, <2>2
<1> QED BY <1>3, <1>7, <1>8 DEF Owed

\* The ledger sees of a round the row added to history.jsonl.
LEMMA RecordSteps == RInv /\ Record => Owed
<1> SUFFICES ASSUME RInv, Record PROVE Owed
  OBVIOUS
<1> USE DEF RInv, TypeInv, TypeOK
<1>a. LastRound(hist) = Len(hist) - 1 /\ Len(hist) \in Nat
  BY LastOfGapless DEF JournalInv, Gapless
<1>b. st.init /\ cmd = "pipeline" /\ st.phase = "EDIT"
  BY DEF Record, RoundIntent, RoundBody, RoundState, RoundClear, RoundPcs,
         JournalInv, NeedsBaseline, PhaseAt
<1>1. CASE RoundIntent
  <2>1. /\ st' = st /\ plan' = plan /\ hist' = hist /\ head' = head /\ diag' = diag
        /\ pc' = "round_body" /\ cmd' = cmd /\ out' = out /\ pc = "round_intent"
        /\ intent'.kind = "round" /\ intent'.target = st.prog.rounds + 1
        /\ intent'.prog = RoundProgress(st.prog, out) /\ intent'.kd = RoundKd
    BY <1>1 DEF RoundIntent, Goto, git
  <2>2. Recovered = st /\ st.pending = NoKd
    BY <2>1, QuietFacts DEF QuietPcs, InHand
  <2>3. Recovered' = st'
    <3>1. st.prog.rounds = Len(hist) - 1
      BY <1>b, <2>2 DEF JournalInv, Together
    <3>2. ~BodyLanded(plan', hist', intent')
      BY <1>a, <2>1, <3>1 DEF BodyLanded
    <3> QED BY <3>2, ReplayNothing DEF Recovered
  <2>4. PhaseAt'
    BY <1>b, <2>1 DEF PhaseAt, BaselinePcs, HookPcs, RoundPcs
  <2>5. InHand'
    <3>1. intent'.prog = RoundProgress(st.prog, out)'
      BY <2>1 DEF RoundProgress
    <3>2. intent'.kd = RoundKd'
      BY <2>1 DEF RoundKd
    <3> QED BY <2>1, <2>2, <3>1, <3>2 DEF InHand, HookPcs
  <2> QED BY <2>1, <2>2, <2>3, <2>4, <2>5, MapsStutter DEF Owed
<1>2. CASE RoundBody
  <2>1. /\ st' = st /\ plan' = plan /\ intent' = intent /\ head' = head /\ diag' = diag
        /\ pc' = "round_state" /\ cmd' = cmd /\ out' = out /\ pc = "round_body"
    BY <1>2 DEF RoundBody, Goto, git
  <2> DEFINE row == [round |-> intent.target, item |-> intent.kd.item, decision |-> out,
                     commit |-> IF out = "KEEP" THEN head ELSE NoCommit]
  <2>2. hist' = Append(hist, row)
    BY <1>2 DEF RoundBody
  <2>3. /\ intent.kind = "round" /\ intent.target = Len(hist)
        /\ st.expRound # intent.target
    BY <2>1 DEF JournalInv, InStep
  <2>4. /\ intent.prog = RoundProgress(st.prog, out) /\ intent.kd = RoundKd
        /\ st.pending = NoKd /\ out \in Decisions
    BY <2>1 DEF InHand
  <2>5. Recovered = st
    <3>1. ~BodyLanded(plan, hist, intent)
      BY <1>a, <2>3 DEF BodyLanded
    <3> QED BY <3>1, ReplayNothing DEF Recovered
  <2>6. st.prog.rounds + 1 = Len(hist) /\ HasPending(plan)
    <3>1. st.prog.rounds = Len(hist) - 1
      BY <1>b, <2>5 DEF JournalInv, Together
    <3>2. HasPending(plan)
      BY <1>b, <2>4, <2>5, LedgerSays
    <3> QED BY <1>a, <3>1, <3>2
  <2>7. LastRound(hist') = Len(hist)
    <3>1. row \in HistRow /\ row.round = Len(hist)
      BY <2>1, <2>3 DEF HistRow, Intent, Kd, NoCommit
    <3> HIDE DEF row
    <3> QED BY <2>2, <3>1, AppendStep DEF JournalInv
  <2>8. Recovered' = Committed(st, intent)
    <3>1. BodyLanded(plan', hist', intent') /\ ~StateCaughtUp(st', intent')
      BY <2>1, <2>3, <2>7 DEF BodyLanded, StateCaughtUp
    <3> QED BY <2>1, <3>1, ReplayCompletes DEF Recovered
  <2>9. Maps
    BY <1>b, <2>1, <2>2, <2>3, <2>4, <2>5, <2>6, <2>8, MapsRound
  <2>10. PhaseAt'
    BY <1>b, <2>1 DEF PhaseAt, BaselinePcs, HookPcs, RoundPcs
  <2>11. InHand'
    BY <2>1, <2>3, HandsEmpty DEF HookPcs, NextVersion
  <2> QED BY <2>9, <2>10, <2>11 DEF Owed
<1>3. CASE RoundState
  <2>1. /\ st' = Committed(st, intent) /\ plan' = plan /\ hist' = hist /\ head' = head
        /\ intent' = intent /\ pc' = "round_clear" /\ cmd' = cmd /\ out' = out
        /\ diag' = diag /\ pc = "round_state"
    BY <1>3 DEF RoundState, Goto, git
  <2>2. /\ intent.kind = "round" /\ LastRound(hist) = intent.target
        /\ st.expRound # intent.target
    BY <2>1 DEF JournalInv, InStep
  <2>3. Recovered = st' /\ Recovered' = st'
    <3>1. BodyLanded(plan, hist, intent) /\ ~StateCaughtUp(st, intent)
      BY <2>2 DEF BodyLanded, StateCaughtUp
    <3> QED BY <2>1, <3>1, ReplayCompletes, CommittedStays DEF Recovered
  <2>4. st'.phase = st.phase
    BY <2>1, <2>2, CommitRound
  <2>5. PhaseAt'
    BY <1>b, <2>1, <2>4 DEF PhaseAt, BaselinePcs, HookPcs, RoundPcs
  <2>6. InHand'
    BY <2>1, <2>2, HandsEmpty DEF HookPcs, NextVersion
  <2> QED BY <2>1, <2>3, <2>5, <2>6, MapsStutter DEF Owed
<1>4. CASE RoundClear
  <2>1. /\ st' = st /\ plan' = plan /\ hist' = hist /\ head' = head /\ diag' = diag
        /\ intent'.kind = "none" /\ pc' = "settle" /\ cmd' = cmd /\ out' = out
        /\ pc = "round_clear" /\ Recovered = st
    BY <1>4 DEF RoundClear, NoIntent, Goto, git, JournalInv, InStep
  <2>2. Recovered' = st'
    BY <2>1, ReplayNothing DEF Recovered
  <2>3. PhaseAt'
    BY <1>b, <2>1 DEF PhaseAt, BaselinePcs, HookPcs, RoundPcs
  <2>4. InHand'
    BY <2>1, HandsEmpty DEF HookPcs, NextVersion
  <2> QED BY <2>1, <2>2, <2>3, <2>4, MapsStutter DEF Owed
<1> QED BY <1>1, <1>2, <1>3, <1>4 DEF Record

\* The ledger sees of a settlement the item checked off, the next phase and
\* the round forgotten.
LEMMA SettleSteps == RInv /\ SettleIt => Owed
<1> SUFFICES ASSUME RInv, SettleIt PROVE Owed
  OBVIOUS
<1> USE DEF RInv, TypeInv, TypeOK
<1>a. pc \in SettlePcs /\ pc \in QuietPcs
  BY DEF SettleIt, Settle, SettlePhase, Unmark, SettleClear, SettlePcs, QuietPcs
<1>b. st.init /\ intent.kind = "none" /\ Recovered = st /\ cmd = "pipeline"
  BY <1>a, QuietFacts DEF JournalInv, NeedsBaseline, PhaseAt, SettlePcs
<1>1. CASE Settle
  <2> DEFINE r == SettleResult(plan, st.pending)
  <2>1. /\ st' = st /\ hist' = hist /\ intent' = intent /\ head' = head /\ diag' = diag
        /\ pc = "settle"
        /\ plan' = IF r = "settle" THEN SettledPlan(plan, st.pending.decision) ELSE plan
        /\ Return \/ (pc' = "next_phase" /\ cmd' = cmd /\ out' = out)
    BY <1>1 DEF Settle, Goto, git
  <2>2. st.phase = "EDIT" /\ st.pending # NoKd
    BY <1>b, <2>1 DEF PhaseAt, Kd, NoKd, Decisions
  <2>3. Recovered' = Recovered
    BY <1>b, <2>1, ReplayNothing DEF Recovered
  <2>4. Maps
    <3>1. CASE r = "settle"
      <4>1. /\ st.pending.item > 0 /\ hist[Len(hist)].decision = st.pending.decision
            /\ \A i \in DOMAIN plan.settled :
                 plan.settled[i].item < plan.first + plan.done
        BY <1>b, <2>2, LedgerSays
      <4>2. HasPending(plan) /\ ActiveItem(plan) = st.pending.item
        BY <3>1, <4>1 DEF SettleResult, ActiveItem
      <4>3. ~IsSettled(plan, ActiveItem(plan))
        BY <4>1, <4>2 DEF IsSettled, ActiveItem, Plan, SettledRow
      <4> HIDE DEF r
      <4> QED BY <1>b, <2>1, <2>2, <2>3, <3>1, <4>1, <4>2, <4>3, MapsSettle
    <3>2. CASE r # "settle"
      BY <2>1, <2>3, <3>2, MapsStutter
    <3> QED BY <3>1, <3>2
  <2> HIDE DEF r
  <2>5. PhaseAt'
    BY <1>b, <2>1, <2>2 DEF Return, PhaseAt, BaselinePcs, HookPcs, RoundPcs
  <2>6. InHand'
    BY <1>b, <2>1, HandsEmpty DEF Return, HookPcs, NextVersion
  <2> QED BY <2>4, <2>5, <2>6 DEF Owed
<1>2. CASE SettlePhase
  <2> DEFINE f == NextPhase(st, plan)
  <2>1. /\ st' = [st EXCEPT !.phase = f] /\ plan' = plan /\ hist' = hist
        /\ intent' = intent /\ head' = head /\ diag' = diag
        /\ pc' = "unmark" /\ cmd' = cmd /\ out' = out /\ pc = "next_phase"
    BY <1>2 DEF SettlePhase, Goto, git
  <2>2. st.phase = "EDIT" /\ f \in Phases
    BY <2>1, PhaseTypes DEF PhaseAt
  <2>3. /\ f \in {"FINISH", "DIAGNOSE", "EDIT", "REPLAN"}
        /\ f = "FINISH" <=> st.prog.rounds >= MaxRounds
        /\ f = "EDIT" => HasPending(plan)
    BY <1>b DEF NextPhase
  <2>4. Recovered' = st' /\ st'.phase = f
    BY <1>b, <2>1, ReplayNothing DEF Recovered, State
  <2> HIDE DEF f
  <2>5. Maps
    BY <1>b, <2>1, <2>2, <2>3, <2>4, MapsAdvance DEF Edge
  <2>6. PhaseAt'
    BY <1>b, <2>1 DEF PhaseAt, BaselinePcs, HookPcs, RoundPcs
  <2>7. InHand'
    BY <1>b, <2>1, <2>3, <2>4 DEF InHand, HookPcs
  <2> QED BY <2>5, <2>6, <2>7 DEF Owed
<1>3. CASE Unmark
  <2>1. /\ UNCHANGED files /\ head' = head /\ diag' = diag
        /\ pc' = "settled" /\ cmd' = cmd /\ out' = out /\ pc = "unmark"
    BY <1>3 DEF Unmark, Goto
  <2>2. Maps /\ st' = st /\ plan' = plan /\ NextVersion'
    BY <2>1, FilesKept, MapsStutter
  <2>3. PhaseAt'
    BY <1>b, <2>1, <2>2 DEF PhaseAt, BaselinePcs, HookPcs, RoundPcs
  <2>4. InHand'
    BY <2>1, <2>2 DEF InHand, HookPcs, NextVersion
  <2> QED BY <2>2, <2>3, <2>4 DEF Owed
<1>4. CASE SettleClear
  <2>1. /\ st' = [st EXCEPT !.pending = NoKd] /\ plan' = plan /\ hist' = hist
        /\ intent' = intent /\ head' = head /\ pc = "settled" /\ Return
    BY <1>4 DEF SettleClear, git
  <2>2. st.phase = "EDIT" => HasPending(plan)
    BY <2>1 DEF InHand
  <2>3. Recovered' = st'
    BY <1>b, <2>1, ReplayNothing DEF Recovered
  <2>4. Maps
    BY <1>b, <2>1, <2>2, <2>3, MapsForget
  <2>5. PhaseAt'
    BY <2>1 DEF Return, PhaseAt, BaselinePcs, HookPcs, RoundPcs
  <2>6. InHand'
    BY <1>b, <2>1, HandsEmpty DEF Return, HookPcs, NextVersion
  <2> QED BY <2>4, <2>5, <2>6 DEF Owed
<1> QED BY <1>1, <1>2, <1>3, <1>4 DEF SettleIt

\* The ledger sees of an activation the phase it resumes at.
LEMMA ActivateSteps == RInv /\ (ActivateFresh \/ ActivateResume) => Owed
<1> SUFFICES ASSUME RInv, ActivateFresh \/ ActivateResume PROVE Owed
  OBVIOUS
<1> USE DEF RInv, TypeInv, TypeOK
<1>1. /\ plan' = plan /\ hist' = hist /\ intent' = intent /\ head' = head /\ Return
      /\ pc = "opened" /\ cmd = "activate"
  BY DEF ActivateFresh, ActivateResume
<1>2. pc \in QuietPcs /\ intent'.kind = "none" /\ Recovered = st
  BY <1>1, QuietFacts DEF QuietPcs
<1>3. st.phase # "NONE"
  BY <1>1 DEF PhaseAt
<1>4. CASE ActivateFresh
  <2>1. st' = [st EXCEPT !.phase = "BASELINE"] /\ "BASELINE" \in Phases
    BY <1>4 DEF ActivateFresh, Phases
  <2>2. st.phase \in {"INIT", "BASELINE"}
    BY <1>3, <1>4 DEF ActivateFresh, PhaseAt
  <2>3. ~(st.prog.rounds >= MaxRounds)
    BY <1>2, <2>2, RoundsLeft
  <2> QED BY <1>1, <1>2, <2>1, <2>2, <2>3, PhaseReturns DEF Edge
<1>5. CASE ActivateResume /\ st.phase \in {"PLAN", "REPLAN"}
  <2> DEFINE f == ResumePhase(st, plan)
  <2>1. st' = [st EXCEPT !.phase = f] /\ f \in Phases
    BY <1>5, PhaseTypes DEF ActivateResume
  <2>2. st.init /\ ~(st.prog.rounds >= MaxRounds)
    BY <1>2, <1>5, RoundsLeft DEF JournalInv, NeedsBaseline, LatePhases
  <2>3. st.phase = "PLAN" /\ st.prog.seedOk /\ PlanExists(plan) => HasPending(plan)
    BY <1>2, LedgerSays
  <2>4. /\ f \in {"PLAN", "EDIT", "REPLAN"}
        /\ f = "PLAN" => ~PlanExists(plan) \/ ~st.prog.seedOk
        /\ f = "EDIT" => HasPending(plan)
        /\ f = "REPLAN" => st.phase = "REPLAN"
    BY <1>5, <2>2, <2>3 DEF ResumePhase
  <2> HIDE DEF f
  <2>5. f # st.phase => Edge(st.phase, f)
    BY <1>5, <2>4 DEF Edge
  <2> QED BY <1>1, <1>2, <2>1, <2>2, <2>4, <2>5, PhaseReturns
<1>6. CASE ActivateResume /\ st.phase \notin {"PLAN", "REPLAN"}
  <2>1. st' = [st EXCEPT !.phase = st.phase] /\ st.phase \in Phases
    BY <1>6 DEF ActivateResume, State
  <2> QED BY <1>1, <1>2, <2>1, PhaseReturns
<1> QED BY <1>4, <1>5, <1>6

\* The ledger sees of a diagnosis the attempt counted, unless an entry that
\* waits for its recovery carries the counter of its own.
LEMMA PostTaskSteps == RInv /\ PostTask => Owed
<1> SUFFICES ASSUME RInv, PostTask PROVE Owed
  OBVIOUS
<1> USE DEF RInv, TypeInv, TypeOK
<1> DEFINE a == IF DiagAction(st.prog, diag) = "READY" THEN 0 ELSE Attempts(st.prog) + 1
           v == st.prog.version
<1>1. /\ st' = [st EXCEPT !.prog.attempts = a, !.prog.attFor = v]
      /\ plan' = plan /\ hist' = hist /\ intent' = intent /\ head' = head /\ Return
      /\ pc = "post_task"
  BY DEF PostTask, git
<1>2. st.phase = "DIAGNOSE" /\ (st.prog.version \in diag \/ Attempts(st.prog) < DiagCap)
  BY <1>1 DEF PhaseAt
<1>3. a \in 0 .. DiagCap
  <2>1. Attempts(st.prog) \in Nat /\ DiagCap \in Nat
    BY RecordAssumption DEF RecordAssumption, State, Progress, Attempts
  <2> QED BY <1>2, <2>1 DEF DiagAction
<1>4. v \in Nat
  BY DEF State, Progress
<1>5. st' \in State
  BY RunType DEF Run
<1> HIDE DEF a, v
<1>6. Recovered.phase = "DIAGNOSE"
  BY <1>2, ReplayKeeps DEF Recovered
<1>7. StateCaughtUp(st', intent) <=> StateCaughtUp(st, intent)
  BY <1>1 DEF StateCaughtUp, State
<1>8. Maps
  <2>1. CASE StateCaughtUp(st, intent) \/ ~BodyLanded(plan, hist, intent)
    <3>1. Recovered = st /\ Recovered' = st'
      BY <1>1, <1>7, <2>1 DEF Recovered, Replayed
    <3> QED BY <1>1, <1>2, <1>3, <3>1, MapsCount DEF v
  <2>2. CASE ~StateCaughtUp(st, intent) /\ BodyLanded(plan, hist, intent)
    <3>1. Recovered = Committed(st, intent) /\ Recovered' = Committed(st', intent)
      BY <1>1, <1>7, <2>2, ReplayCompletes DEF Recovered
    <3>2. CASE intent.kind = "plan"
      <4>1. st.expPlan # intent.target
        BY <2>2, <3>2 DEF StateCaughtUp
      <4>2. v + 1 = intent.target /\ intent.target = plan.v
        BY <2>2, <3>2, <4>1 DEF InHand, BodyLanded, v
      <4>3. Recovered.prog.version = plan.v
        BY DEF JournalInv, Together
      <4>4. v \in {Recovered.prog.version - 1, Recovered.prog.version}
        BY <1>4, <4>2, <4>3
      <4>5. Recovered' = [Recovered EXCEPT !.prog.attempts = a, !.prog.attFor = v]
        <5> DEFINE w == intent.prog.version
                   x == intent.prog.nextPid
                   t == intent.target
        <5>1. Recovered = [st EXCEPT !.prog.version = w, !.prog.nextPid = x, !.expPlan = t]
          BY <3>1, <3>2 DEF Committed
        <5>2. Recovered' = [st' EXCEPT !.prog.version = w, !.prog.nextPid = x, !.expPlan = t]
          BY <3>1, <3>2 DEF Committed
        <5> DEFINE p  == st.prog
                   pc1 == [[p EXCEPT !.attempts = a] EXCEPT !.attFor = v]
                   pw1 == [[p EXCEPT !.version = w] EXCEPT !.nextPid = x]
                   pcw == [[pc1 EXCEPT !.version = w] EXCEPT !.nextPid = x]
                   pwc == [[pw1 EXCEPT !.attempts = a] EXCEPT !.attFor = v]
        <5> HIDE DEF w, x, t
        <5>3. pcw = pwc
          <6>1. p \in Progress
            BY DEF State
          <6> HIDE DEF p
          <6> QED BY <6>1 DEF Progress
        <5>4. st' = [st EXCEPT !.prog = pc1]
          <6> HIDE DEF p
          <6> QED BY <1>1 DEF State, p
        <5>5. Recovered = [[st EXCEPT !.prog = pw1] EXCEPT !.expPlan = t]
          <6> HIDE DEF p
          <6> QED BY <5>1 DEF State, p
        <5> HIDE DEF pc1
        <5>6. Recovered' = [[st EXCEPT !.prog = pcw] EXCEPT !.expPlan = t]
          BY <5>2, <5>4 DEF State
        <5> HIDE DEF pw1, pcw
        <5>7. [Recovered EXCEPT !.prog.attempts = a, !.prog.attFor = v]
                = [[st EXCEPT !.prog = pwc] EXCEPT !.expPlan = t]
          BY <5>5 DEF State
        <5> QED BY <5>3, <5>6, <5>7
      <4> QED BY <1>1, <1>3, <1>6, <4>4, <4>5, MapsCount
    <3>3. CASE intent.kind = "round" \/ intent.kind = "baseline"
      <4>1. Committed(st', intent) = Committed(st, intent)
        BY <1>1, <3>3 DEF Committed, State
      <4> QED BY <1>1, <3>1, <4>1, MapsStutter
    <3>4. intent.kind # "none"
      BY <2>2 DEF StateCaughtUp
    <3> QED BY <3>2, <3>3, <3>4 DEF Intent
  <2> QED BY <2>1, <2>2
<1>9. PhaseAt'
  BY <1>1 DEF Return, PhaseAt, BaselinePcs, HookPcs, RoundPcs
<1>10. InHand'
  <2>1. st'.prog.version = st.prog.version /\ st'.expPlan = st.expPlan
    BY <1>1 DEF State, Progress
  <2>2. NextVersion'
    BY <1>1, <2>1 DEF InHand, NextVersion
  <2> QED BY <1>1, <2>2, HandsEmpty DEF Return, HookPcs
<1> QED BY <1>8, <1>9, <1>10 DEF Owed

-----------------------------------------------------------------------------
(* The invariant of the steps is inductive *)

LEMMA InitR == Init => RInv
<1> SUFFICES ASSUME Init PROVE RInv
  OBVIOUS
<1>1. TypeInv /\ JournalInv
  BY InitInv DEF Inv
<1>2. Recovered = st /\ pc = "idle" /\ cmd = "none" /\ intent.kind = "none"
  BY QuietRecovered DEF Init, NoIntent
<1>3. PhaseAt
  BY <1>2 DEF PhaseAt, BaselinePcs, HookPcs, RoundPcs
<1>4. InHand
  BY <1>2 DEF InHand, HookPcs
<1>5. LP!LInit
  BY <1>2, SameWords DEF Init, LP!LInit, FreshState, LP!FreshState
<1>6. LP!LedgerInv
  BY <1>5, LP!LedgerStart, RecordAssumption DEF RecordAssumption
<1> QED BY <1>1, <1>3, <1>4, <1>6 DEF RInv

LEMMA StepMaps == RInv /\ [Next]_vars => Owed
<1> SUFFICES ASSUME RInv, [Next]_vars PROVE Owed
  OBVIOUS
<1>1. CASE Run
  BY <1>1, OpenSteps, BaselineSteps, MakePlanSteps, HookSteps, ActivateSteps,
     EvaluateSteps, RecordSteps, SettleSteps, PostTaskSteps DEF Run
<1>2. CASE Agent
  BY <1>2, AgentSteps
<1>3. CASE Kill \/ SessionCrash
  BY <1>3, DeathSteps
<1>4. CASE UNCHANGED vars
  <2>1. UNCHANGED files /\ UNCHANGED ctl /\ head' = head /\ diag' = diag
    BY <1>4 DEF vars, files, ctl
  <2>2. Maps /\ st' = st /\ plan' = plan /\ hist' = hist /\ intent' = intent
    BY <2>1, FilesKept, MapsStutter
  <2>3. PhaseAt'
    BY <2>1, <2>2 DEF RInv, PhaseAt, ctl
  <2>4. InHand'
    <3>1. RoundProgress(st.prog, out)' = RoundProgress(st.prog, out) /\ RoundKd' = RoundKd
      BY <2>1, <2>2 DEF ctl, RoundProgress, RoundKd
    <3> QED BY <2>1, <2>2, <3>1 DEF RInv, InHand, ctl
  <2> QED BY <2>2, <2>3, <2>4 DEF Owed
<1> QED BY <1>1, <1>2, <1>3, <1>4 DEF Next

LEMMA NextR == RInv /\ [Next]_vars => RInv'
<1> SUFFICES ASSUME RInv, [Next]_vars PROVE RInv'
  OBVIOUS
<1>1. TypeInv' /\ JournalInv'
  BY NextInv DEF RInv, Inv
<1>2. Maps /\ PhaseAt' /\ InHand'
  BY StepMaps DEF Owed
<1>3. LP!LedgerType /\ LP!LedgerInv
  BY LedgerTyped DEF RInv
<1>4. LP!LedgerInv'
  BY <1>2, <1>3, LP!LedgerStep, RecordAssumption DEF Maps, RecordAssumption
<1> QED BY <1>1, <1>2, <1>4 DEF RInv

-----------------------------------------------------------------------------
(* The ledger of the proofs is the ledger of the runs *)

LEMMA SameActions ==
  /\ LP!Advance <=> Ledger!Advance
  /\ LP!Seed <=> Ledger!Seed
  /\ LP!NewPlan <=> Ledger!NewPlan
  /\ LP!Round <=> Ledger!Round
  /\ LP!SettleItem <=> Ledger!SettleItem
  /\ LP!Forget <=> Ledger!Forget
  /\ LP!ResetFailures <=> Ledger!ResetFailures
  /\ LP!CountAttempt <=> Ledger!CountAttempt
  /\ LP!CommitKernel <=> Ledger!CommitKernel
<1>1. LP!Advance <=> Ledger!Advance
  BY DEF LP!Advance, Ledger!Advance, LP!Moves, Ledger!Moves, LP!HasPending,
     Ledger!HasPending, LP!PlanExists, Ledger!PlanExists, LP!Phases, Ledger!Phases
<1>2. LP!Seed <=> Ledger!Seed
  BY DEF LP!Seed, Ledger!Seed, LP!SeedRow, Ledger!SeedRow, LP!NoCommit, Ledger!NoCommit
<1>3. LP!NewPlan <=> Ledger!NewPlan
  BY DEF LP!NewPlan, Ledger!NewPlan, LP!FirstPid, Ledger!FirstPid, LP!PlanExists,
     Ledger!PlanExists, LP!RewrittenPlan, Ledger!RewrittenPlan
<1>4. LP!Round <=> Ledger!Round
  BY DEF LP!Round, Ledger!Round, LP!NoKd, Ledger!NoKd, LP!HasPending, Ledger!HasPending,
     LP!ActiveItem, Ledger!ActiveItem, LP!NoCommit, Ledger!NoCommit, LP!Decisions,
     Ledger!Decisions
<1>5. LP!SettleItem <=> Ledger!SettleItem
  BY DEF LP!SettleItem, Ledger!SettleItem, LP!NoKd, Ledger!NoKd, LP!HasPending,
     Ledger!HasPending, LP!ActiveItem, Ledger!ActiveItem, LP!IsSettled, Ledger!IsSettled,
     LP!SettledPlan, Ledger!SettledPlan
<1>6. LP!Forget <=> Ledger!Forget
  BY DEF LP!Forget, Ledger!Forget, LP!NoKd, Ledger!NoKd, LP!HasPending, Ledger!HasPending
<1>7. LP!ResetFailures <=> Ledger!ResetFailures
  BY DEF LP!ResetFailures, Ledger!ResetFailures
<1>8. LP!CountAttempt <=> Ledger!CountAttempt
  BY DEF LP!CountAttempt, Ledger!CountAttempt
<1>9. LP!CommitKernel <=> Ledger!CommitKernel
  BY DEF LP!CommitKernel, Ledger!CommitKernel
<1> QED BY <1>1, <1>2, <1>3, <1>4, <1>5, <1>6, <1>7, <1>8, <1>9

LEMMA SameInvariant == LP!LedgerInv <=> Ledger!LedgerInv
<1>1. LP!OwesLastRow <=> Ledger!OwesLastRow
  BY DEF LP!OwesLastRow, Ledger!OwesLastRow, LP!NoKd, Ledger!NoKd
<1>2. LP!BestKept <=> Ledger!BestKept
  BY DEF LP!BestKept, Ledger!BestKept, LP!NoCommit, Ledger!NoCommit
<1>3. LP!NumbersUsed <=> Ledger!NumbersUsed
  BY DEF LP!NumbersUsed, Ledger!NumbersUsed, LP!FirstPid, Ledger!FirstPid,
     LP!PlanExists, Ledger!PlanExists
<1>4. LP!TableTrue <=> Ledger!TableTrue
  BY DEF LP!TableTrue, Ledger!TableTrue
<1>5. LP!PhaseFits <=> Ledger!PhaseFits
  BY DEF LP!PhaseFits, Ledger!PhaseFits, LP!PlanExists, Ledger!PlanExists,
     LP!HasPending, Ledger!HasPending, LP!NoKd, Ledger!NoKd
<1>6. LP!NothingYet <=> Ledger!NothingYet
  BY DEF LP!NothingYet, Ledger!NothingYet, LP!NoPlan, Ledger!NoPlan,
     LP!NoProgress, Ledger!NoProgress, LP!NoCommit, Ledger!NoCommit, LP!NoKd, Ledger!NoKd
<1> QED BY <1>1, <1>2, <1>3, <1>4, <1>5, <1>6 DEF LP!LedgerInv, Ledger!LedgerInv

-----------------------------------------------------------------------------
(* The theorems *)

\* Whatever dies where, recovery shows a ledger whose entries land whole.
THEOREM ImplementsLedger == Spec => LedgerSpec
<1>1. Init => Ledger!LInit
  <2> SUFFICES ASSUME Init PROVE Ledger!LInit
    OBVIOUS
  <2>1. Recovered = st
    BY QuietRecovered DEF Init, NoIntent
  <2> QED BY <2>1 DEF Init, Ledger!LInit, FreshState, Ledger!FreshState, NoPlan,
                      Ledger!NoPlan, NoProgress, Ledger!NoProgress, NoKd, Ledger!NoKd,
                      NoCommit, Ledger!NoCommit
<1>2. Maps => [Ledger!LNext]_(Ledger!lvars)
  <2>1. LP!LNext => Ledger!LNext
    BY SameActions DEF LP!LNext, Ledger!LNext
  <2> QED BY <2>1 DEF Maps, LP!lvars, Ledger!lvars
<1>3. RInv /\ [Next]_vars => [Ledger!LNext]_(Ledger!lvars)
  BY <1>2, StepMaps DEF Owed
<1> QED BY <1>1, <1>3, InitR, NextR, PTL DEF Spec, LedgerSpec, Ledger!LSpec

\* The whole inductive invariant of the task.
THEOREM StepsAreSafe == Spec => []StepInv
<1>1. RInv => StepInv
  BY SameInvariant DEF RInv, StepInv
<1> QED BY <1>1, InitR, NextR, PTL DEF Spec

\* What recovery settles is the last round recorded: its item, its decision.
THEOREM PendingIsLast == Spec => []PendingIsLastRound
<1>1. RInv => PendingIsLastRound
  BY LedgerSays DEF RInv, PendingIsLastRound
<1> QED BY <1>1, InitR, NextR, PTL DEF Spec

\* However often a settlement is replayed, the table says what the history
\* says, once per item.
THEOREM SettledAgrees == Spec => []SettledAgreesWithHistory
<1>1. RInv => SettledAgreesWithHistory
  BY DEF RInv, LP!LedgerInv, LP!TableTrue, SettledAgreesWithHistory
<1> QED BY <1>1, InitR, NextR, PTL DEF Spec

\* Demoted, rolled back or replayed: the best commit is that of the last round
\* kept.
THEOREM BestIsKept == Spec => []BestIsLastKeep
<1>1. RInv => BestIsLastKeep
  BY SameWords DEF RInv, LP!LedgerInv, LP!BestKept, BestIsLastKeep
<1> QED BY <1>1, InitR, NextR, PTL DEF Spec

\* The item numbers of a new plan were never used, in any plan, row or table.
THEOREM NumbersAreFresh == Spec => PidsAreFresh
<1> DEFINE Fresh ==
      plan'.v # plan.v =>
        /\ plan'.first >= plan.first + plan.n
        /\ \A i \in DOMAIN hist : hist[i].item < plan'.first
        /\ \A i \in DOMAIN plan.settled : plan.settled[i].item < plan'.first
<1>1. RInv /\ [Next]_vars => Fresh
  <2> SUFFICES ASSUME RInv, Maps, plan'.v # plan.v
               PROVE  /\ plan'.first >= plan.first + plan.n
                      /\ \A i \in DOMAIN hist : hist[i].item < plan'.first
                      /\ \A i \in DOMAIN plan.settled : plan.settled[i].item < plan'.first
    BY StepMaps DEF Owed
  <2> DEFINE first == FirstPid(Recovered.prog, plan)
  <2>1. plan \in Plan /\ Recovered \in State
    BY LedgerTyped DEF RInv, TypeInv, TypeOK
  <2>2. LP!NewPlan
    <3>1. LP!SettleItem => plan'.v = plan.v
      BY <2>1 DEF LP!SettleItem, LP!SettledPlan, Plan
    <3>2. ~UNCHANGED LP!lvars
      BY DEF LP!lvars
    <3> QED BY <3>1, <3>2 DEF Maps, LP!LNext, LP!Advance, LP!Seed, LP!Round, LP!Forget,
                              LP!ResetFailures, LP!CountAttempt, LP!CommitKernel
  <2>3. plan'.first = first
    BY <2>2, SamePlanWords DEF LP!NewPlan, LP!RewrittenPlan
  <2>4. /\ plan.done <= plan.n /\ plan.first + plan.n <= first
        /\ \A i \in DOMAIN hist : hist[i].item < first
        /\ \A i \in DOMAIN plan.settled : plan.settled[i].item < plan.first + plan.done
    BY LedgerSays DEF RInv
  <2>5. /\ first \in Nat /\ plan.first \in Nat /\ plan.n \in Nat /\ plan.done \in Nat
        /\ \A i \in DOMAIN plan.settled : plan.settled[i].item \in Nat
    <3>1. first \in Nat
      BY <2>1, FirstPidNat DEF State
    <3>2. plan.settled \in Seq(SettledRow)
      BY <2>1 DEF Plan
    <3>3. \A i \in DOMAIN plan.settled : plan.settled[i] \in SettledRow
      BY <3>2
    <3> QED BY <2>1, <3>1, <3>3 DEF Plan, SettledRow
  <2> HIDE DEF first
  <2> QED BY <2>3, <2>4, <2>5
<1> HIDE DEF Fresh
<1>2. Fresh => [plan'.v # plan.v =>
       /\ plan'.first >= plan.first + plan.n
       /\ \A i \in DOMAIN hist : hist[i].item < plan'.first
       /\ \A i \in DOMAIN plan.settled : plan.settled[i].item < plan'.first]_vars
  BY DEF Fresh
<1> QED BY <1>1, <1>2, InitR, NextR, PTL DEF Spec, PidsAreFresh
=============================================================================
