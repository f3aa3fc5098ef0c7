-------------------------- MODULE MultiTurnSafety ---------------------------
(***************************************************************************)
(* What the multi-turn runner promises of its files and of a resumed run.  *)
(***************************************************************************)
EXTENDS MultiTurn

(* No candidate and no attempt number is recorded twice, whatever write a   *)
(* death separates from the next: begin_pending goes on with an attempt     *)
(* only as long as its round is not recorded.                               *)
RoundsAreDistinct ==
    \A i, j \in DOMAIN traj.rounds :
       i < j => /\ traj.rounds[i].attempt < traj.rounds[j].attempt
                /\ traj.rounds[i].bundle # traj.rounds[j].bundle

(* The recorded rounds stay within each budget and their sum within the     *)
(* total, also over deaths and resumes (README: the bootstrap budget bounds *)
(* the candidates before the baseline, max-rounds those after it).          *)
BudgetsHold ==
    /\ Cardinality(Rounds("bootstrap")) <= MaxBootstrap
    /\ Cardinality(Rounds("optimization")) <= MaxRounds
    /\ Len(traj.rounds) <= MaxTotal

(* best_round is a valid round, and none recorded scored more.              *)
NoneBetter(score) ==
    \A j \in DOMAIN traj.rounds :
       Valid(traj.rounds[j].res) => traj.rounds[j].res.score <= score
IsBest(i) ==
    /\ traj.rounds[i].attempt = traj.best /\ Valid(traj.rounds[i].res)
    /\ NoneBetter(traj.rounds[i].res.score)

(* No process has been killed or paused so far.                             *)
FirstProcess == restarts <= 1

(* The round whose bundle best.json holds: best_round, or else one after it *)
(* that a resumed process measured again and discarded: its first           *)
(* measurement had written best.json and the process died before the round. *)
HoldsBest(i) ==
    /\ traj.rounds[i].bundle = best /\ Valid(traj.rounds[i].res)
    /\ \/ traj.rounds[i].attempt = traj.best
       \/ /\ ~FirstProcess /\ traj.rounds[i].dec = "DISCARD"
          /\ traj.rounds[i].attempt > traj.best

(* When no attempt is pending, no recorded round scored more than           *)
(* best_round, and best.json is the bundle of a recorded round that         *)
(* compiled and passed every case: of best_round itself, but for a          *)
(* candidate a death separated from its record and a second measurement     *)
(* found no better (the scores of two measurements are independent here).   *)
BestIsMax ==
    pend = NoPend /\ traj.best # 0 =>
       /\ \E i \in DOMAIN traj.rounds : IsBest(i)
       /\ \E i \in DOMAIN traj.rounds : HoldsBest(i)

(* The sticky baseline: the first valid result is the baseline of every     *)
(* later round, and no second one is kept.                                  *)
BaselineSticks ==
    \A i \in DOMAIN traj.rounds : traj.rounds[i].dec = "BASELINE_KEEP" =>
       /\ \A j \in DOMAIN traj.rounds : traj.rounds[j].dec = "BASELINE_KEEP" => i = j
       /\ pc \in {"head", "edit", "generate", "compare"} =>
            m.baseline = traj.rounds[i].attempt

(* Both files.  A second resume can break the other one (see the README).   *)
FilesMatchRounds == BestIsMax /\ BaselineSticks

(* The record of a run, over deaths and resumes: its rounds are distinct    *)
(* and within their budgets, and the files are what the rounds say.         *)
RunIsExact == RoundsAreDistinct /\ BudgetsHold /\ FilesMatchRounds

(* In the bootstrap loop of one process the next candidate is made from the *)
(* repair base, with the evidence measured on it (repair_state.py:163).     *)
(* After a death between observe and save_round it is not: the candidate is *)
(* evaluated against itself.                                                *)
EditsRepairBase ==
    FirstProcess /\ pc = "generate" /\ m.phase = "bootstrap" /\ repair.bundle # 0 =>
       m.base = repair.bundle /\ m.baseRes = repair.eval

(* The repair base never goes back: each one reaches a later stage, or adds *)
(* to the diagnostics cleared, or clears nothing back and passes strictly   *)
(* more cases, so no sequence of accepted repairs returns to an earlier one.*)
RepairAdvances ==
    [][repair'.bundle # repair.bundle /\ repair.eval # NoResult =>
         LET old == repair.eval
             new == repair'.eval
         IN \/ new.rank > old.rank
            \/ new.rank = old.rank /\ repair.cleared \subseteq repair'.cleared
               /\ (repair.cleared # repair'.cleared \/ MoreCases(old, new))]_vars

(* Every run ends: budgets, the no-op streak and the pauses bound the loop. *)
RunEnds == []<>(pc = "down")

-----------------------------------------------------------------------------
(* Why: the inductive strengthening.                                        *)

InLoop   == {"plan", "adopt", "planned", "edit", "generate", "checkpoint", "mark", "compare"}
Settling == {"baseline", "best", "restore", "observe", "item", "round"}
NoOp     == {"noop-plan", "noop-pend"}
Pcs == InLoop \cup Settling \cup NoOp \cup
       {"down", "preflight", "head", "noop-workflow", "complete", "workflow",
        "unlink", "finish", "status"}
Phases == {"none", "bootstrap", "optimization"}
Plans == {"none", "pending", "settled"}
Results == Outcomes \cup {NoResult}
Kept == {"BASELINE_KEEP", "KEEP"}
Decisions == Kept \cup {"none", "PARTIAL_KEEP", "DISCARD", "FAIL"}
RepairOutcomes == {"none", "INITIAL_KEEP", "FRONTIER_ADVANCED", "PARTIAL_KEEP",
                   "REGRESSION", "UNCLASSIFIED", "NO_PROGRESS"}
Ends == {"none", "paused", "blocked", "completed"}

RoundRec == [attempt : Nat, bundle : Nat, phase : Phases, dec : Decisions,
             res : Outcomes]
Memory == [cur : Nat, prev : Results, best : Nat, bestRes : Results, bestRound : Nat,
           baseline : Nat, phase : Phases, plan : Plans, diag : BOOLEAN, attempt : Nat,
           base : Nat, baseRes : Results, cand : Nat, res : Results, dec : Decisions,
           outcome : RepairOutcomes, stop : Ends]

RunType ==
    /\ traj \in [rounds : Seq(RoundRec), best : Nat, status : Ends \cup {"running"},
                 wf : [baseline : Nat, diag : BOOLEAN, fails : Nat, noops : Nat]]
    /\ pend \in [round : Nat, attempt : Nat, phase : {"none", "EDIT", "EVAL"}]
    /\ plan \in Plans /\ best \in Nat /\ base0 \in Nat
    /\ repair \in [bundle : Nat, eval : Results, cleared : SUBSET Errors,
                   failed : [Errors -> Nat]]
    /\ orch \in Nat
    /\ dir \in [attempt : Nat, base : Nat, cand : Nat, truth : Results]
    /\ work \in Nat /\ m \in Memory /\ pc \in Pcs /\ gens \in Nat \ {0}
    /\ faults \in Nat /\ restarts \in Nat

(* Bundles are numbers of candidates made so far.                           *)
Made ==
    /\ \A i \in DOMAIN traj.rounds : traj.rounds[i].bundle <= gens
    /\ best <= gens /\ repair.bundle <= gens /\ work <= gens
    /\ dir.base <= gens /\ dir.cand <= gens
    /\ m.cur <= gens /\ m.best <= gens /\ m.base <= gens /\ m.cand <= gens

(* A pending attempt of the current evaluation round is above every         *)
(* recorded one, and the attempt in hand is the pending one.                *)
AboveRecorded(a) == a > 0 /\ \A i \in DOMAIN traj.rounds : traj.rounds[i].attempt < a
Current == pend.round = EvaluationRound

AttemptsInStep ==
    /\ \A i \in DOMAIN traj.rounds : traj.rounds[i].attempt > 0
    /\ \A i, j \in DOMAIN traj.rounds :
         i < j => traj.rounds[i].attempt < traj.rounds[j].attempt
    /\ pend.round <= EvaluationRound
    /\ Current => AboveRecorded(pend.attempt)
    /\ pc \in InLoop \cup Settling \cup NoOp => Current /\ pend.attempt = m.attempt
    /\ pc \in Settling \cup {"compare"} => pend.phase = "EVAL"
    /\ pc = "complete" => ~Current
    /\ pc \in {"workflow", "unlink", "noop-workflow"} => pend = NoPend

(* The candidate of an attempt that is not recorded is its base or new.     *)
Unrecorded(b) == b # 0 /\ \A i \in DOMAIN traj.rounds : traj.rounds[i].bundle # b

CandidatesInStep ==
    /\ \A i, j \in DOMAIN traj.rounds :
         i < j => traj.rounds[i].bundle # traj.rounds[j].bundle
    /\ AboveRecorded(dir.attempt) /\ dir.cand # 0 =>
         dir.cand = dir.base \/ Unrecorded(dir.cand)
    /\ pc \in {"generate", "checkpoint", "mark", "compare"} \cup Settling =>
         dir.attempt = m.attempt /\ dir.base = m.base
    /\ pc \in {"generate", "checkpoint"} => dir.cand = 0
    /\ pc \in {"checkpoint", "mark", "compare"} => m.cand = m.base \/ Unrecorded(m.cand)
    /\ pc \in {"mark", "compare"} \cup Settling => dir.cand = m.cand
    /\ pc \in Settling => m.cand # m.base /\ Unrecorded(m.cand)
    /\ pc \in NoOp => dir.cand = dir.base

(* A round is only begun while its budget lasts.                            *)
BudgetLeft ==
    pc \in InLoop \cup Settling =>
       /\ m.phase \in {"bootstrap", "optimization"}
       /\ Len(traj.rounds) < MaxTotal
       /\ m.phase = "bootstrap" => Cardinality(Rounds("bootstrap")) < MaxBootstrap
       /\ m.phase = "optimization" => Cardinality(Rounds("optimization")) < MaxRounds

(* The process knows the result of best_round.                              *)
KnowsBest ==
    /\ m.bestRound = traj.best
    /\ m.baseline = 0 <=> traj.best = 0
    /\ traj.best = 0 => ~Valid(m.bestRes)
    /\ \A i \in DOMAIN traj.rounds :
         traj.rounds[i].attempt = traj.best => m.bestRes = traj.rounds[i].res

Exceeds(r) ==
    /\ Valid(r)
    /\ \A j \in DOMAIN traj.rounds :
         Valid(traj.rounds[j].res) => traj.rounds[j].res.score < r.score

BestInStep ==
    /\ IF traj.best = 0 THEN \A i \in DOMAIN traj.rounds : ~Valid(traj.rounds[i].res)
                        ELSE \E i \in DOMAIN traj.rounds : IsBest(i)
    /\ traj.best # 0 => best # 0
    /\ traj.best = 0 => traj.wf.baseline = 0
    /\ pc \in Pcs \ (Settling \cup {"down", "status"}) => KnowsBest
    /\ pc \in Settling =>
         /\ m.res \in Outcomes /\ dir.truth = m.res
         /\ m.dec \in Kept =>
              /\ m.bestRound = m.attempt /\ m.bestRes = m.res /\ Exceeds(m.res)
              /\ IF m.dec = "BASELINE_KEEP" THEN traj.best = 0 /\ m.baseline = m.attempt
                                            ELSE traj.best # 0 /\ m.baseline # 0
         /\ m.dec \notin Kept =>
              /\ KnowsBest
              /\ Valid(m.res) => traj.best # 0 /\ m.res.score <= m.bestRes.score
    /\ pc = "baseline" => m.dec = "BASELINE_KEEP"
    /\ pc = "best" => m.dec \in Kept
    /\ pc = "restore" => m.dec \notin Kept
    /\ m.dec \in Kept /\ pc \in {"observe", "item", "round"} => best = m.cand

(* best.json is that of a recorded round, but for a candidate that was kept  *)
(* and not recorded: its checkpoint is pending and will be measured again,  *)
(* by a later process.                                                      *)
AsRecorded == traj.best # 0 => \E i \in DOMAIN traj.rounds : HoldsBest(i)
Late == pc = "down" \/ ~FirstProcess \/ (pc \in Settling /\ m.dec \in Kept)
Landed ==
    /\ Current /\ pend.phase = "EVAL" /\ dir.attempt = pend.attempt
    /\ dir.cand = best /\ dir.cand # 0 /\ dir.cand # dir.base
    /\ Valid(dir.truth) /\ Late

BestFileInStep ==
    /\ AsRecorded \/ Landed
    /\ pc \in Settling /\ m.dec \notin Kept /\ Valid(m.res) => m.dec = "DISCARD"

(* The baseline of a process is the round that was kept as one; a process   *)
(* that is the first one has also written it.                               *)
IsBaseline(i) == traj.rounds[i].dec = "BASELINE_KEEP"

BaselineKept ==
    /\ \A i \in DOMAIN traj.rounds : IsBaseline(i) => Valid(traj.rounds[i].res)
    /\ \A i, j \in DOMAIN traj.rounds : IsBaseline(i) /\ IsBaseline(j) => i = j

BaselineInStep ==
    \A i \in DOMAIN traj.rounds : IsBaseline(i) =>
       /\ restarts > 0
       /\ pc # "down" => m.baseline = traj.rounds[i].attempt
       /\ restarts <= 1 =>
            /\ traj.rounds[i].attempt =
                 IF traj.wf.baseline # 0 THEN traj.wf.baseline ELSE traj.best
            /\ pc \notin {"down", "complete", "workflow"} => traj.wf.baseline # 0

(* The next repair is aimed at the repair state's base and evidence.        *)
RepairFits ==
    /\ repair.bundle = 0 <=> repair.eval = NoResult
    /\ repair.eval # NoResult => repair.eval.errs \cap repair.cleared = {}
AimsAt(bundle, res) ==
    repair.bundle # 0 => res = repair.eval /\ (FirstProcess => bundle = repair.bundle)

RepairInStep ==
    /\ m.baseline = 0 /\ pc \notin {"down", "status", "restore", "observe"} => AimsAt(m.cur, m.prev)
    /\ pc \in InLoop => (m.phase = "bootstrap" <=> m.baseline = 0)
    /\ pc \in Settling /\ m.phase = "optimization" => m.baseline # 0
    /\ pc \in {"baseline", "observe"} => m.phase = "bootstrap"
    /\ m.phase = "bootstrap" /\ pc \in InLoop \cup (Settling \ {"item", "round"}) =>
         AimsAt(m.base, m.baseRes)
    /\ m.phase = "bootstrap" /\ pc \in Settling \ {"item", "round"} =>
         /\ m.outcome = Decide(m.baseRes, m.res, repair.cleared)
         /\ m.baseline = 0 =>
              IF Accepts(m.outcome) THEN m.cur = m.cand /\ m.prev = m.res
                                    ELSE m.cur = m.base /\ m.prev = m.baseRes
    /\ FirstProcess /\ pc \in {"preflight", "head"} \cup (InLoop \ {"compare"}) =>
         pend.phase # "EVAL"
    /\ restarts = 0 => pend = NoPend /\ pc = "down"

RunInv ==
    /\ RunType /\ Made /\ AttemptsInStep /\ CandidatesInStep /\ BudgetsHold /\ BudgetLeft
    /\ BestInStep /\ BaselineKept /\ RepairFits /\ RepairInStep
=============================================================================
