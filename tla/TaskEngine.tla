----------------------------- MODULE TaskEngine -----------------------------
(***************************************************************************)
(* One autoresearch task driven by one agent session.                      *)
(*                                                                         *)
(* The agent runs the engine scripts (baseline.py, create_plan.py,         *)
(* pipeline.py) one at a time; Claude Code's hooks gate them before and    *)
(* advance the phase after.  Every script commits its transaction as a     *)
(* series of separate file writes, and every one of these writes is an     *)
(* action of its own here: the script (Kill) or the whole session          *)
(* (SessionCrash) can die between any two of them, and the next script,    *)
(* hook or activation opens the task again, replaying the journal.         *)
(*                                                                         *)
(* Not modelled here: ownership and heartbeats (a single session), metric  *)
(* values, the content of plans and reports.                               *)
(***************************************************************************)
EXTENDS TaskRecord, FiniteSets

CONSTANTS
  MaxPlans,     \* bound: plan versions the agent creates
  MaxKills      \* bound: script and session deaths

ASSUME BoundAssumption == MaxPlans \in Nat /\ MaxKills \in Nat

VARIABLES
  st,       \* state.json
  plan,     \* plan.md
  hist,     \* history.jsonl
  intent,   \* intent.json
  diag,     \* plan versions whose diagnose_v<N>.md validates
  head,     \* number of kernel commits on top of the scaffold commit (0)
  dirty,    \* the editable files differ from HEAD
  marker,   \* .edit_started exists
  pc,       \* the next write of the running command
  cmd,      \* the running command
  out,      \* what the running evaluation came to
  kills     \* deaths so far

files == <<st, plan, hist, intent>>
git   == <<head, dirty, marker>>
ctl   == <<pc, cmd, out>>
vars  == <<st, plan, hist, intent, diag, head, dirty, marker, pc, cmd, out, kills>>

Scripts == {"baseline", "plan", "pipeline"}
Cmds    == Scripts \cup {"none", "hook", "activate", "task"}
SeedOutcomes == {"ok", "kernel_fail", "no_metric"}
Outs    == Decisions \cup SeedOutcomes \cup {"none", "fresh"}

\* Where a script, hook or activation can be between two of its writes.
OpenPcs     == {"open", "healed", "opened"}
BaselinePcs == {"base_body", "base_state", "base_clear", "base_phase"}
PlanPcs     == {"plan_body", "plan_state", "plan_clear"}
RoundPcs    == {"git", "round_intent", "round_body", "round_state", "round_clear"}
SettlePcs   == {"settle", "next_phase", "unmark", "settled"}
HookPcs     == {"hook_reset", "hook_phase", "hook_recover", "hook_clear"}
RestPcs     == {"idle", "down"}
Pcs == RestPcs \cup OpenPcs \cup BaselinePcs \cup PlanPcs \cup {"eval"}
         \cup RoundPcs \cup SettlePcs \cup HookPcs \cup {"post_plan", "post_task"}

Init ==
  /\ st = FreshState("NONE")
  /\ plan = NoPlan /\ hist = <<>> /\ intent = NoIntent
  /\ diag = {} /\ head = 0 /\ dirty = FALSE /\ marker = FALSE
  /\ pc = "idle" /\ cmd = "none" /\ out = "none"
  /\ kills = 0

\* Control moves on to p within the same command.
Goto(p) == pc' = p /\ UNCHANGED <<cmd, out>>

\* The command is over; the session waits for the agent.
Return == pc' = "idle" /\ cmd' = "none" /\ out' = "none"

-----------------------------------------------------------------------------
(* Opening a task: Task.__enter__ *)

Start(c) ==
  /\ pc = "idle" /\ c \in Scripts
  /\ MayRun(c, st, diag)
  /\ c = "plan" => plan.v < MaxPlans
  /\ pc' = "open" /\ cmd' = c /\ out' = "none"
  /\ UNCHANGED <<files, git, diag, kills>>

\* create_plan.py rejects its XML before it opens the task and exits with 1;
\* the PostToolUse hook still runs, as main relies on after a failed baseline.
RejectPlan ==
  /\ pc = "idle" /\ MayRun("plan", st, diag)
  /\ pc' = "post_plan" /\ cmd' = "plan" /\ out' = "none"
  /\ UNCHANGED <<files, git, diag, kills>>

\* export AR_TASK_DIR=...: has_state is read before the task is opened.
Activate ==
  /\ pc \in RestPcs
  /\ pc' = "open" /\ cmd' = "activate"
  /\ out' = IF st.phase = "NONE" THEN "fresh" ELSE "none"
  /\ UNCHANGED <<files, git, diag, kills>>

\* PostToolUse(Bash) after create_plan.py.
PostPlan ==
  /\ pc = "post_plan"
  /\ pc' = "open" /\ cmd' = "hook" /\ out' = "none"
  /\ UNCHANGED <<files, git, diag, kills>>

\* replay_intent, its save_state half.
Heal ==
  /\ pc = "open" /\ intent.kind # "none"
  /\ st' = Replayed(st, plan, hist, intent)
  /\ Goto("healed")
  /\ UNCHANGED <<plan, hist, intent, git, diag, kills>>

\* replay_intent, its clear_intent half.
DropIntent ==
  /\ pc = "healed"
  /\ intent' = NoIntent
  /\ Goto("open")
  /\ UNCHANGED <<st, plan, hist, git, diag, kills>>

\* The consistency gate, then the claim, which creates state.json at INIT.
Claim ==
  /\ pc = "open" /\ intent.kind = "none"
  /\ IF Consistent(st, plan, hist)
       THEN /\ st' = IF st.phase = "NONE" THEN [st EXCEPT !.phase = "INIT"] ELSE st
            /\ Goto("opened")
       ELSE UNCHANGED st /\ Return
  /\ UNCHANGED <<plan, hist, intent, git, diag, kills>>

-----------------------------------------------------------------------------
(* baseline.py *)

\* ALREADY_DONE only advances the phase; ORPHAN_SEED and MISSING_SEED refuse.
BaselineDone ==
  /\ pc = "opened" /\ cmd = "baseline"
  /\ st.init \/ HasSeedRow(hist)
  /\ st' = IF st.init /\ HasSeedRow(hist)
             THEN [st EXCEPT !.phase = BaselinePhase(st)] ELSE st
  /\ Return
  /\ UNCHANGED <<plan, hist, intent, git, diag, kills>>

BaselineProceeds ==
  pc = "opened" /\ cmd = "baseline" /\ ~st.init /\ ~HasSeedRow(hist)

\* No valid reference latency: nothing is committed, the task waits.
BaselinePending ==
  /\ BaselineProceeds
  /\ st' = [st EXCEPT !.phase = "BASELINE"]
  /\ intent' = NoIntent
  /\ Return
  /\ UNCHANGED <<plan, hist, git, diag, kills>>

BaselineIntent(o) ==
  /\ BaselineProceeds /\ o \in SeedOutcomes
  /\ intent' = BaselineEntry(IF o = "ok" THEN head ELSE NoCommit)
  /\ pc' = "base_body" /\ out' = o /\ UNCHANGED cmd
  /\ UNCHANGED <<st, plan, hist, git, diag, kills>>

BaselineBody ==
  /\ pc = "base_body"
  /\ hist' = IF HasSeedRow(hist) THEN hist ELSE Append(hist, SeedRow(head))
  /\ Goto("base_state")
  /\ UNCHANGED <<st, plan, intent, git, diag, kills>>

BaselineState ==
  /\ pc = "base_state"
  /\ st' = Committed(st, intent)
  /\ Goto("base_clear")
  /\ UNCHANGED <<plan, hist, intent, git, diag, kills>>

\* An OK outcome without a metric returns here and leaves the phase alone.
BaselineClear ==
  /\ pc = "base_clear"
  /\ intent' = NoIntent
  /\ IF out = "no_metric" THEN Return ELSE Goto("base_phase")
  /\ UNCHANGED <<st, plan, hist, git, diag, kills>>

BaselineSettled ==
  /\ pc = "base_phase"
  /\ st' = [st EXCEPT !.phase = BaselinePhase(st)]
  /\ Return
  /\ UNCHANGED <<plan, hist, intent, git, diag, kills>>

-----------------------------------------------------------------------------
(* create_plan.py: Task.commit_plan *)

PlanIntent ==
  /\ pc = "opened" /\ cmd = "plan"
  /\ \E n \in PlanSizes :
       intent' = PlanEntry(st.prog.version + 1, FirstPid(st.prog, plan) + n)
  /\ Goto("plan_body")
  /\ UNCHANGED <<st, plan, hist, git, diag, kills>>

\* Pending items of the old plan are dropped, settled rows carried forward.
PlanBody ==
  /\ pc = "plan_body"
  /\ LET first == FirstPid(st.prog, plan)
     IN  plan' = RewrittenPlan(intent.target, first, intent.prog.nextPid - first, plan)
  /\ Goto("plan_state")
  /\ UNCHANGED <<st, hist, intent, git, diag, kills>>

PlanState ==
  /\ pc = "plan_state"
  /\ st' = IF st.init THEN Committed(st, intent) ELSE st
  /\ Goto("plan_clear")
  /\ UNCHANGED <<plan, hist, intent, git, diag, kills>>

PlanClear ==
  /\ pc = "plan_clear"
  /\ intent' = NoIntent
  /\ Goto("post_plan")
  /\ UNCHANGED <<st, plan, hist, git, diag, kills>>

-----------------------------------------------------------------------------
(* The PostToolUse hook of create_plan.py: _handle_post_create_plan *)

\* Faulty variant: the abandoned round is never forgotten.
HookValidateKeepsPending ==
  /\ pc = "opened" /\ cmd = "hook"
  /\ IF (st.phase = "EDIT" /\ st.pending = NoKd) \/ ~ValidPlan(plan)
       THEN Return
       ELSE Goto(IF st.phase = "DIAGNOSE" THEN "hook_reset" ELSE "hook_phase")
  /\ UNCHANGED <<files, git, diag, kills>>

\* It looks at the plan on disk, never at how create_plan.py ended.
HookValidate ==
  /\ pc = "opened" /\ cmd = "hook"
  /\ IF (st.phase = "EDIT" /\ st.pending = NoKd) \/ ~ValidPlan(plan)
       THEN Return
       ELSE Goto(CASE st.phase = "DIAGNOSE" -> "hook_reset"
                   [] st.phase = "EDIT"     -> "hook_recover"
                   [] OTHER                 -> "hook_phase")
  /\ UNCHANGED <<files, git, diag, kills>>

HookReset ==
  /\ pc = "hook_reset"
  /\ st' = [st EXCEPT !.prog.fails = 0]
  /\ Goto("hook_phase")
  /\ UNCHANGED <<plan, hist, intent, git, diag, kills>>

HookPhase ==
  /\ pc \in {"hook_phase", "hook_recover"}
  /\ st' = [st EXCEPT !.phase = "EDIT"]
  /\ IF pc = "hook_recover" THEN Goto("hook_clear") ELSE Return
  /\ UNCHANGED <<plan, hist, intent, git, diag, kills>>

HookClear ==
  /\ pc = "hook_clear"
  /\ st' = [st EXCEPT !.pending = NoKd]
  /\ Return
  /\ UNCHANGED <<plan, hist, intent, git, diag, kills>>

-----------------------------------------------------------------------------
(* Activation: _handle_activation *)

ActivateFresh ==
  /\ pc = "opened" /\ cmd = "activate" /\ out = "fresh"
  /\ marker' = (marker /\ dirty)
  /\ st' = [st EXCEPT !.phase = "BASELINE"]
  /\ Return
  /\ UNCHANGED <<plan, hist, intent, head, dirty, diag, kills>>

\* Only PLAN and REPLAN are recomputed from the files.
ActivateResume ==
  /\ pc = "opened" /\ cmd = "activate" /\ out # "fresh"
  /\ marker' = (marker /\ dirty)
  /\ st' = IF st.phase \in {"PLAN", "REPLAN"}
             THEN [st EXCEPT !.phase = ResumePhase(st, plan)] ELSE st
  /\ Return
  /\ UNCHANGED <<plan, hist, intent, head, dirty, diag, kills>>

-----------------------------------------------------------------------------
(* EDIT: the kernel edit and pipeline.py *)

\* guard_edit: a dirty tree without the marker blocks; the marker is set first,
\* and the edit itself may fail or change nothing.
EditKernel ==
  /\ pc = "idle" /\ st.phase = "EDIT"
  /\ marker \/ ~dirty
  /\ marker' = TRUE /\ dirty' \in {dirty, TRUE}
  /\ UNCHANGED <<files, head, diag, ctl, kills>>

\* Faulty variant: a new evaluation starts over an unsettled round.
PipelineStartAnew ==
  /\ pc = "opened" /\ cmd = "pipeline"
  /\ Goto("eval")
  /\ UNCHANGED <<files, git, diag, kills>>

\* A pending settle is finished first, without a new evaluation.
PipelineStart ==
  /\ pc = "opened" /\ cmd = "pipeline"
  /\ Goto(IF st.pending # NoKd THEN "settle" ELSE "eval")
  /\ UNCHANGED <<files, git, diag, kills>>

\* quick_check failed, run_eval raised or the infrastructure failed.
EvalAbort ==
  /\ pc = "eval"
  /\ dirty' = FALSE /\ marker' = FALSE
  /\ Return
  /\ UNCHANGED <<files, head, diag, kills>>

\* record_round's decision; the first correct kernel is always kept.
EvalDecide(d) ==
  /\ pc = "eval"
  /\ d = "DISCARD" => st.prog.best # NoCommit
  /\ out' = d /\ pc' = "git" /\ UNCHANGED cmd
  /\ UNCHANGED <<files, git, diag, kills>>

\* KEEP is committed (a clean tree is a no-op commit of HEAD) ...
GitKeep ==
  /\ pc = "git" /\ out = "KEEP"
  /\ head' = IF dirty THEN head + 1 ELSE head
  /\ dirty' = FALSE
  /\ Goto("round_intent")
  /\ UNCHANGED <<files, marker, diag, kills>>

\* Faulty variant: the failed commit is not given one of the decisions.
GitErrorUnclassified ==
  /\ pc = "git" /\ out = "KEEP"
  /\ head' \in IF dirty THEN {head, head + 1} ELSE {head}
  /\ dirty' = FALSE
  /\ out' = "ERROR" /\ pc' = "round_intent" /\ UNCHANGED cmd
  /\ UNCHANGED <<files, marker, diag, kills>>

\* ... or demoted to FAIL when the commit reports an error, which a timeout
\* after the commit landed does too.
GitError ==
  /\ pc = "git" /\ out = "KEEP"
  /\ head' \in IF dirty THEN {head, head + 1} ELSE {head}
  /\ dirty' = FALSE
  /\ out' = "FAIL" /\ pc' = "round_intent" /\ UNCHANGED cmd
  /\ UNCHANGED <<files, marker, diag, kills>>

\* Everything else is rolled back to HEAD.
GitRollback ==
  /\ pc = "git" /\ out # "KEEP"
  /\ dirty' = FALSE
  /\ Goto("round_intent")
  /\ UNCHANGED <<files, head, marker, diag, kills>>

\* Faulty variant: every correct kernel becomes the best one.
RoundProgressAnyCorrect(pr, d) ==
  [pr EXCEPT !.rounds = @ + 1,
             !.fails  = IF d = "FAIL" THEN @ + 1 ELSE 0,
             !.best   = IF d # "FAIL" THEN head ELSE @]

\* reduce_round_progress
RoundProgress(pr, d) ==
  [pr EXCEPT !.rounds = @ + 1,
             !.fails  = CASE d = "FAIL" -> @ + 1
                          [] d = "KEEP" -> 0
                          [] OTHER      -> @,
             !.best   = IF d = "KEEP" THEN head ELSE @]

\* Faulty variant: the payload carries the counter before this round.
RoundKdStale == [item |-> ActiveItem(plan), decision |-> out,
                 round |-> st.prog.rounds]

RoundKd == [item |-> ActiveItem(plan), decision |-> out,
            round |-> st.prog.rounds + 1]

RoundIntent ==
  /\ pc = "round_intent"
  /\ intent' = [kind |-> "round", target |-> st.prog.rounds + 1,
                prog |-> RoundProgress(st.prog, out), kd |-> RoundKd]
  /\ Goto("round_body")
  /\ UNCHANGED <<st, plan, hist, git, diag, kills>>

RoundBody ==
  /\ pc = "round_body"
  /\ hist' = Append(hist, [round |-> intent.target, item |-> intent.kd.item,
                           decision |-> out,
                           commit |-> IF out = "KEEP" THEN head ELSE NoCommit])
  /\ Goto("round_state")
  /\ UNCHANGED <<st, plan, intent, git, diag, kills>>

RoundState ==
  /\ pc = "round_state"
  /\ st' = Committed(st, intent)
  /\ Goto("round_clear")
  /\ UNCHANGED <<plan, hist, intent, git, diag, kills>>

RoundClear ==
  /\ pc = "round_clear"
  /\ intent' = NoIntent
  /\ Goto("settle")
  /\ UNCHANGED <<st, plan, hist, git, diag, kills>>

-----------------------------------------------------------------------------
(* Task.settle_round *)

\* A failed settle keeps pending_settle and returns to the agent.
Settle ==
  /\ pc = "settle"
  /\ LET r == SettleResult(plan, st.pending)
     IN  /\ plan' = IF r = "settle" THEN SettledPlan(plan, st.pending.decision)
                    ELSE plan
         /\ IF r = "failed" THEN Return ELSE Goto("next_phase")
  /\ UNCHANGED <<st, hist, intent, git, diag, kills>>

SettlePhase ==
  /\ pc = "next_phase"
  /\ st' = [st EXCEPT !.phase = NextPhase(st, plan)]
  /\ Goto("unmark")
  /\ UNCHANGED <<plan, hist, intent, git, diag, kills>>

Unmark ==
  /\ pc = "unmark"
  /\ marker' = FALSE
  /\ Goto("settled")
  /\ UNCHANGED <<files, head, dirty, diag, kills>>

SettleClear ==
  /\ pc = "settled"
  /\ st' = [st EXCEPT !.pending = NoKd]
  /\ Return
  /\ UNCHANGED <<plan, hist, intent, git, diag, kills>>

-----------------------------------------------------------------------------
(* DIAGNOSE: the ar-diagnosis subagent, gated by guard_task *)

Diagnose ==
  /\ pc = "idle" /\ st.phase = "DIAGNOSE"
  /\ DiagAction(st.prog, diag) = "NEED_DIAGNOSIS"
  /\ diag' \in {diag, diag \cup {st.prog.version}}
  /\ pc' = "post_task" /\ cmd' = "task" /\ out' = "none"
  /\ UNCHANGED <<files, git, kills>>

\* post_task: a missing artifact counts as an attempt.
PostTask ==
  /\ pc = "post_task"
  /\ st' = [st EXCEPT
       !.prog.attempts = IF DiagAction(st.prog, diag) = "READY" THEN 0
                         ELSE Attempts(st.prog) + 1,
       !.prog.attFor = st.prog.version]
  /\ Return
  /\ UNCHANGED <<plan, hist, intent, git, diag, kills>>

-----------------------------------------------------------------------------
(* Deaths *)

Dies == kills < MaxKills /\ kills' = kills + 1

\* The running script or hook is killed; the session lives on, and the hook of
\* a killed create_plan.py may still run.
Kill ==
  /\ Dies /\ pc \notin RestPcs
  /\ \/ pc' = "idle" /\ cmd' = "none"
     \/ pc' = "post_plan" /\ cmd' = "plan" /\ cmd = "plan"
  /\ out' = "none"
  /\ UNCHANGED <<files, git, diag>>

\* The session dies with whatever it runs; someone activates the task again.
SessionCrash ==
  /\ Dies /\ pc # "down"
  /\ pc' = "down" /\ cmd' = "none" /\ out' = "none"
  /\ UNCHANGED <<files, git, diag>>

-----------------------------------------------------------------------------
Open     == Heal \/ DropIntent \/ Claim
Baseline == \/ BaselineDone \/ BaselinePending
            \/ \E o \in SeedOutcomes : BaselineIntent(o)
            \/ BaselineBody \/ BaselineState \/ BaselineClear \/ BaselineSettled
MakePlan == PlanIntent \/ PlanBody \/ PlanState \/ PlanClear
Hook     == PostPlan \/ HookValidate \/ HookReset \/ HookPhase \/ HookClear
Evaluate == \/ PipelineStart \/ EvalAbort \/ \E d \in Decisions : EvalDecide(d)
            \/ GitKeep \/ GitError \/ GitRollback
Record   == RoundIntent \/ RoundBody \/ RoundState \/ RoundClear
SettleIt == Settle \/ SettlePhase \/ Unmark \/ SettleClear

\* Everything a running command does by itself.
Run == \/ Open \/ Baseline \/ MakePlan \/ Hook \/ ActivateFresh \/ ActivateResume
       \/ Evaluate \/ Record \/ SettleIt \/ PostTask

\* Everything the agent decides to do.
Agent == \/ \E c \in Scripts : Start(c)
         \/ RejectPlan \/ Activate \/ EditKernel \/ Diagnose

Next == Run \/ Agent \/ Kill \/ SessionCrash

Spec == Init /\ [][Next]_vars
=============================================================================
