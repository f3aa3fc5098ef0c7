----------------------------- MODULE TaskRecord -----------------------------
(***************************************************************************)
(* The durable data of one autoresearch task and the pure functions of it. *)
(*                                                                         *)
(* A task directory holds four files that matter to the control flow:      *)
(*   state.json     the single control record (phase, progress, pending    *)
(*                  settle, expected artifact versions), saved atomically; *)
(*   plan.md        the current plan and the Settled History table;        *)
(*   history.jsonl  one row per evaluated round, append-only;              *)
(*   intent.json    the write-ahead journal of the transaction in flight.  *)
(* Metrics, descriptions, rationale texts and timestamps are left out: the *)
(* outcome of an evaluation is one of its classes.                         *)
(***************************************************************************)
EXTENDS Integers, Sequences

CONSTANTS
  MaxRounds,      \* task.yaml: max_rounds, the round budget
  FailThreshold,  \* defaults.consecutive_fail_threshold
  DiagCap,        \* defaults.diagnose_max_attempts
  PlanSizes       \* the numbers of items create_plan may be given

ASSUME RecordAssumption ==
  /\ MaxRounds \in Nat \ {0}
  /\ FailThreshold \in Nat \ {0}
  /\ DiagCap \in Nat \ {0}
  /\ PlanSizes \subseteq {n \in Nat : n >= 3}

-----------------------------------------------------------------------------
(* state.json *)

\* "NONE" stands for a task without state.json; every reader maps it to INIT.
Phases == {"NONE", "INIT", "BASELINE", "PLAN", "EDIT", "DIAGNOSE", "REPLAN",
           "FINISH"}

Decisions == {"KEEP", "DISCARD", "FAIL"}

\* No commit is known to be the best one ("seed_profile_failed").
NoCommit == -1

\* kd_json, the payload of state.pending_settle; item 0 is "no ACTIVE item".
Kd == [item : Nat, decision : Decisions, round : Nat]
NoKd == [item |-> 0, decision |-> "NONE", round |-> 0]

\* The Progress fields the control flow reads. attFor is the plan version the
\* attempt counter belongs to, -1 for None.
Progress == [rounds : Nat, fails : Nat, best : Int, seedOk : BOOLEAN,
             version : Nat, nextPid : Nat, attempts : Nat, attFor : Int]

NoProgress == [rounds |-> 0, fails |-> 0, best |-> NoCommit, seedOk |-> FALSE,
               version |-> 0, nextPid |-> 0, attempts |-> 0, attFor |-> -1]

State == [phase : Phases, init : BOOLEAN, prog : Progress,
          pending : Kd \cup {NoKd}, expPlan : Nat, expRound : Nat]

FreshState(p) == [phase |-> p, init |-> FALSE, prog |-> NoProgress,
                  pending |-> NoKd, expPlan |-> 0, expRound |-> 0]

-----------------------------------------------------------------------------
(* plan.md: items first..first+n-1, of which the first `done` are settled. *)

SettledRow == [item : Nat, decision : Decisions]

Plan == [v : Nat, first : Nat, n : Nat, done : Nat, settled : Seq(SettledRow)]

NoPlan == [v |-> 0, first |-> 0, n |-> 0, done |-> 0, settled |-> <<>>]

PlanExists(p) == p.v # 0
HasPending(p) == p.done < p.n
ActiveItem(p) == IF HasPending(p) THEN p.first + p.done ELSE 0

\* Faulty variant: one item too many is asked for.
ValidPlanOffByOne(p) == PlanExists(p) /\ p.n > 3 /\ HasPending(p)

\* validate_plan on a machine-written plan: three rows, one of them ACTIVE.
ValidPlan(p) == PlanExists(p) /\ p.n >= 3 /\ HasPending(p)

\* Faulty variant: every plan numbers its items from 1.
FirstPidFromOne(pr, p) == 1

\* The persisted counter when there is one, else one above what plan.md shows.
FirstPid(pr, p) ==
  IF pr.nextPid # 0 THEN pr.nextPid
  ELSE IF PlanExists(p) THEN p.first + p.n ELSE 1

\* A rebuilt plan.md carries the Settled History table forward.
RewrittenPlan(version, first, n, p) ==
  [v |-> version, first |-> first, n |-> n, done |-> 0, settled |-> p.settled]

\* settle_active: the ACTIVE item is checked off, the next pending one becomes
\* ACTIVE and a row is appended to the table.
SettledPlan(p, decision) ==
  [p EXCEPT !.done = @ + 1,
            !.settled = Append(@, [item |-> ActiveItem(p),
                                   decision |-> decision])]

IsSettled(p, item) == \E i \in DOMAIN p.settled : p.settled[i].item = item

\* Faulty variant: whichever item is ACTIVE is taken for the round's item.
SettleResultAnyItem(p, kd) ==
  IF PlanExists(p) /\ HasPending(p) THEN "settle" ELSE "failed"

\* _run_settle: what settling kd against p comes to.
SettleResult(p, kd) ==
  IF ~PlanExists(p) THEN "failed"
  ELSE IF kd.item # 0 /\ ActiveItem(p) # kd.item
       THEN IF IsSettled(p, kd.item) THEN "already" ELSE "failed"
       ELSE IF HasPending(p) THEN "settle" ELSE "failed"

-----------------------------------------------------------------------------
(* history.jsonl *)

HistRow == [round : Nat, item : Nat, decision : Decisions \cup {"SEED"},
            commit : Int]

SeedRow(commit) ==
  [round |-> 0, item |-> 0, decision |-> "SEED", commit |-> commit]

HasSeedRow(h) == Len(h) > 0 /\ h[1].round = 0 /\ h[1].decision = "SEED"

\* -1 is the None of an empty history.
LastRound(h) == IF Len(h) = 0 THEN -1 ELSE h[Len(h)].round

-----------------------------------------------------------------------------
(* intent.json *)

Intent == [kind : {"none", "baseline", "round", "plan"}, target : Nat,
           prog : Progress, kd : Kd \cup {NoKd}]

NoIntent == [kind |-> "none", target |-> 0, prog |-> NoProgress, kd |-> NoKd]

\* The entry of a baseline; `best` is NoCommit when the seed kernel failed.
BaselineEntry(best) ==
  [kind |-> "baseline", target |-> 0, kd |-> NoKd,
   prog |-> [NoProgress EXCEPT !.best = best, !.seedOk = (best # NoCommit)]]

\* The entry of a plan carries two of the progress fields.
PlanEntry(version, nextPid) ==
  [kind |-> "plan", target |-> version, kd |-> NoKd,
   prog |-> [NoProgress EXCEPT !.version = version, !.nextPid = nextPid]]

\* Faulty variant: only rounds and baselines are journaled.
BodyLandedNoPlan(p, h, i) ==
  CASE i.kind = "round"    -> LastRound(h) = i.target
    [] i.kind = "baseline" -> LastRound(h) = 0
    [] OTHER               -> FALSE

BodyLanded(p, h, i) ==
  CASE i.kind = "round"    -> LastRound(h) = i.target
    [] i.kind = "baseline" -> LastRound(h) = 0
    [] i.kind = "plan"     -> PlanExists(p) /\ p.v = i.target
    [] OTHER               -> FALSE

StateCaughtUp(s, i) ==
  CASE i.kind = "round"    -> s.expRound = i.target
    [] i.kind = "baseline" -> s.init /\ s.expRound = 0
    [] i.kind = "plan"     -> s.expPlan = i.target
    [] OTHER               -> TRUE

\* Faulty variant: a rebuilt round keeps the old progress fields.
CommittedNoProgress(s, i) ==
  CASE i.kind = "round"    -> [s EXCEPT !.pending = i.kd, !.expRound = i.target]
    [] i.kind = "baseline" -> [s EXCEPT !.prog = i.prog, !.init = TRUE,
                                        !.expRound = 0]
    [] i.kind = "plan"     -> [s EXCEPT !.prog.version = i.prog.version,
                                        !.prog.nextPid = i.prog.nextPid,
                                        !.expPlan = i.target]
    [] OTHER               -> s

\* The state each commit (and each rebuild from the journal) saves.
Committed(s, i) ==
  CASE i.kind = "round"    -> [s EXCEPT !.prog = i.prog, !.pending = i.kd,
                                        !.expRound = i.target]
    [] i.kind = "baseline" -> [s EXCEPT !.prog = i.prog, !.init = TRUE,
                                        !.expRound = 0]
    [] i.kind = "plan"     -> [s EXCEPT !.prog.version = i.prog.version,
                                        !.prog.nextPid = i.prog.nextPid,
                                        !.expPlan = i.target]
    [] OTHER               -> s

\* replay_intent: "cleared", "rebuilt" or "discarded". The journal itself is
\* removed by a later, separate write.
Replayed(s, p, h, i) ==
  IF ~StateCaughtUp(s, i) /\ BodyLanded(p, h, i) THEN Committed(s, i) ELSE s

\* check_state_consistency: the artifacts against the commit barrier.
Consistent(s, p, h) ==
  s.phase # "NONE" =>
    /\ PlanExists(p) => p.v = s.expPlan
    /\ LastRound(h) # -1 => LastRound(h) = s.expRound

-----------------------------------------------------------------------------
(* Phase policy *)

NextPhase(s, p) ==
  IF ~s.init \/ s.prog.rounds >= MaxRounds THEN "FINISH"
  ELSE IF s.prog.fails >= FailThreshold THEN "DIAGNOSE"
  ELSE IF HasPending(p) THEN "EDIT" ELSE "REPLAN"

ResumePhase(s, p) ==
  IF ~s.init THEN "BASELINE"
  ELSE IF s.prog.rounds >= MaxRounds THEN "FINISH"
  ELSE IF ~s.prog.seedOk \/ ~PlanExists(p) THEN "PLAN"
  ELSE IF HasPending(p) THEN "EDIT" ELSE "REPLAN"

\* on_baseline_settled: a committed baseline goes on to PLAN.
BaselinePhase(s) == IF s.init THEN "PLAN" ELSE "BASELINE"

\* diagnose_state: attempts of another plan version do not count.
Attempts(pr) == IF pr.attFor = pr.version THEN pr.attempts ELSE 0

DiagAction(pr, artifacts) ==
  IF pr.version \in artifacts THEN "READY"
  ELSE IF Attempts(pr) >= DiagCap THEN "MANUAL_FALLBACK" ELSE "NEED_DIAGNOSIS"

\* The phase table of guard_bash.
PhaseAllows(script, phase) ==
  CASE script = "baseline" -> phase = "BASELINE"
    [] script = "pipeline" -> phase = "EDIT"
    [] script = "plan"     -> phase \in {"PLAN", "DIAGNOSE", "REPLAN"}
    [] OTHER               -> FALSE

\* What guard_bash lays over it: the artifact gate of DIAGNOSE and the recovery
\* path of EDIT.  Before state.json exists no hook gates anything and scaffold
\* itself runs baseline.py.
MayRun(script, s, artifacts) ==
  \/ /\ PhaseAllows(script, s.phase)
     /\ (script = "plan" /\ s.phase = "DIAGNOSE")
          => DiagAction(s.prog, artifacts) # "NEED_DIAGNOSIS"
  \/ script = "plan" /\ s.phase = "EDIT" /\ s.pending # NoKd
  \/ script = "baseline" /\ s.phase = "NONE"
=============================================================================
