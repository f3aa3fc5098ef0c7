----------------------------- MODULE TaskSafety -----------------------------
(***************************************************************************)
(* What must be true of a task whatever dies where.                        *)
(***************************************************************************)
EXTENDS TaskEngine

\* The state the next opener of the task works with.
Recovered == Replayed(st, plan, hist, intent)

\* Types of everything on disk and of the running command.
TypeOK ==
  /\ st \in State
  /\ plan \in Plan
  /\ hist \in Seq(HistRow)
  /\ intent \in Intent
  /\ diag \subseteq Nat
  /\ head \in Nat
  /\ dirty \in BOOLEAN /\ marker \in BOOLEAN
  /\ pc \in Pcs /\ cmd \in Cmds /\ out \in Outs
  /\ kills \in Nat

\* The consistency gate of Task.__enter__ never refuses a task that only its
\* own scripts wrote: wherever a process dies, replaying the journal brings
\* state.json, plan.md and history.jsonl back together.
Recoverable == Consistent(Recovered, plan, hist)

\* Rounds are neither lost nor repeated: once recovered, the counter, the
\* commit barrier and the rows of history.jsonl agree, and rows are gapless.
RoundsMatchHistory ==
  /\ \A i \in DOMAIN hist : hist[i].round = i - 1
  /\ Recovered.init <=> hist # <<>>
  /\ Recovered.init => /\ Recovered.prog.rounds = Len(hist) - 1
                       /\ Recovered.expRound = Len(hist) - 1

\* A pending settle is always the last recorded round, so that replaying it
\* credits the right item with the right decision.
PendingIsLastRound ==
  Recovered.pending # NoKd =>
    LET kd == Recovered.pending
        row == hist[Len(hist)]
    IN  hist # <<>> /\ kd.round = row.round /\ kd.item = row.item
          /\ kd.decision = row.decision

\* The Settled History table tells what history.jsonl tells, and no item is
\* settled twice however often a settlement is replayed.
SettledAgreesWithHistory ==
  /\ \A i \in DOMAIN plan.settled : \E j \in DOMAIN hist :
       /\ hist[j].item = plan.settled[i].item
       /\ hist[j].decision = plan.settled[i].decision
  /\ \A i, j \in DOMAIN plan.settled :
       plan.settled[i].item = plan.settled[j].item => i = j

\* best_commit is the commit of the last kept round (of the seed if there is
\* none), whatever was rolled back, demoted or replayed since.
BestIsLastKeep ==
  LET kept == {i \in DOMAIN hist : hist[i].decision = "KEEP"}
  IN  Recovered.init =>
        IF kept = {}
          THEN Recovered.prog.best
                 = IF Recovered.prog.seedOk THEN hist[1].commit ELSE NoCommit
          ELSE \E i \in kept : /\ \A j \in kept : j <= i
                               /\ Recovered.prog.best = hist[i].commit

\* A plan item number never comes back: not in a later plan, not in the table.
PidsAreFresh ==
  [][plan'.v # plan.v =>
       /\ plan'.first >= plan.first + plan.n
       /\ \A i \in DOMAIN hist : hist[i].item < plan'.first
       /\ \A i \in DOMAIN plan.settled : plan.settled[i].item < plan'.first]_vars

-----------------------------------------------------------------------------
(* Why recovery works: the inductive strengthening. *)

\* What a command holds in hand between two of its writes has the right type.
TypeInv ==
  /\ TypeOK
  /\ intent.kind = "round" => intent.kd \in Kd
  /\ pc \in {"git", "round_intent", "round_body"} => out \in Decisions
  /\ pc = "plan_body" => intent.prog.nextPid >= FirstPid(st.prog, plan)
  /\ pc \in {"round_body", "round_state"} => intent.kind = "round"
  /\ pc \in {"round_clear", "settle"} => st.pending \in Kd

\* Phases only a task with a committed baseline is in.
LatePhases == {"PLAN", "EDIT", "DIAGNOSE", "REPLAN", "FINISH"}

\* Where no transaction is under way: the journal has been replayed and dropped.
QuietPcs == {"opened", "base_phase", "eval", "git", "round_intent"}
              \cup SettlePcs \cup HookPcs

\* A control record, a plan and a history that belong together.
Together(s, p, h) ==
  /\ s.init <=> h # <<>>
  /\ s.expRound = IF s.init THEN Len(h) - 1 ELSE 0
  /\ s.prog.rounds = s.expRound
  /\ s.expPlan = p.v /\ s.prog.version = p.v
  /\ s.init \/ p.v = 0
  /\ s.phase \in LatePhases => s.init

\* One row per round, in order, none missing.
Gapless == \A i \in DOMAIN hist : hist[i].round = i - 1

\* A baseline must be committed for most of what runs.
NeedsBaseline ==
  /\ st.phase \in LatePhases => st.init
  /\ cmd \in {"plan", "pipeline", "hook"} => st.init
  /\ pc \in PlanPcs \cup {"post_plan"} => cmd = "plan"
  /\ pc \in PlanPcs \cup RoundPcs \cup {"eval"} \cup SettlePcs \cup HookPcs => st.init

\* What the running command has written so far is what its place in the
\* transaction says.
InStep ==
  /\ pc \in QuietPcs => intent.kind = "none"
  /\ pc \in {"healed", "base_clear", "plan_clear", "round_clear"} => Recovered = st
  /\ pc = "base_body" => /\ intent.kind = "baseline" /\ ~st.init /\ hist = <<>>
                         /\ intent.prog.rounds = 0 /\ intent.prog.version = 0
  /\ pc = "base_state" => intent.kind = "baseline" /\ LastRound(hist) = 0 /\ ~st.init
  /\ pc = "plan_body" => /\ intent.kind = "plan" /\ intent.target = plan.v + 1
                         /\ intent.prog.version = intent.target
                         /\ st.expPlan = plan.v
  /\ pc = "plan_state" => /\ intent.kind = "plan" /\ plan.v = intent.target
                          /\ intent.target > 0 /\ st.expPlan # intent.target
  /\ pc = "round_body" => /\ intent.kind = "round" /\ intent.target = Len(hist)
                          /\ intent.prog.rounds = intent.target
                          /\ intent.prog.version = plan.v
                          /\ st.expRound # intent.target
  /\ pc = "round_state" => /\ intent.kind = "round" /\ LastRound(hist) = intent.target
                           /\ st.expRound # intent.target

\* The journal covers every point of every transaction: replaying it gives
\* files that belong together.
JournalInv ==
  /\ Gapless
  /\ Together(Recovered, plan, hist)
  /\ NeedsBaseline
  /\ InStep

-----------------------------------------------------------------------------
(* The journal makes multi-file commits atomic. *)

Ledger == INSTANCE TaskLedger WITH state <- Recovered, rows <- hist

\* What a command may rely on at each of its places.
PhaseAt ==
  /\ cmd = "baseline" => st.phase \in {"NONE", "INIT", "BASELINE"}
  /\ pc = "opened" => st.phase # "NONE"
  /\ pc \in BaselinePcs => st.phase \in {"INIT", "BASELINE"}
  /\ cmd = "activate" /\ out = "fresh" => st.phase \in {"NONE", "INIT", "BASELINE"}
  /\ cmd \in {"plan", "hook"} => st.phase \in {"PLAN", "DIAGNOSE", "REPLAN", "EDIT"}
  /\ pc = "hook_reset" => st.phase = "DIAGNOSE"
  /\ pc = "hook_recover" => st.phase = "EDIT"
  /\ cmd = "pipeline" /\ pc \notin {"unmark", "settled"} => st.phase = "EDIT"
  /\ pc \in {"eval", "settle", "next_phase", "unmark", "settled"} \cup RoundPcs => cmd = "pipeline"
  /\ pc \in HookPcs => cmd = "hook"
  /\ pc \in BaselinePcs => cmd = "baseline"
  /\ pc = "post_task" => /\ st.phase = "DIAGNOSE"
                         /\ (st.prog.version \in diag \/ Attempts(st.prog) < DiagCap)

\* What a command holds in hand is what its next write needs.
InHand ==
  /\ pc \in HookPcs => HasPending(plan)
  /\ pc \in {"unmark", "settled"} /\ st.phase = "EDIT" => HasPending(plan)
  /\ pc \in {"eval", "git", "round_intent", "round_body"} => st.pending = NoKd
  /\ pc = "round_body" => /\ intent.prog = RoundProgress(st.prog, out)
                         /\ intent.kd = RoundKd
  /\ pc = "base_body" => intent = BaselineEntry(IF out = "ok" THEN head ELSE NoCommit)
  /\ pc = "plan_body" => \E n \in PlanSizes :
       intent.prog.nextPid = FirstPid(st.prog, plan) + n
  /\ intent.kind = "plan" /\ st.expPlan # intent.target =>
       st.prog.version + 1 = intent.target

\* Seen through recovery, the scripts implement the ledger of TaskLedger.
LedgerSpec == Ledger!LSpec

\* The inductive invariant behind it.
StepInv == JournalInv /\ PhaseAt /\ InHand /\ Ledger!LedgerInv
=============================================================================
