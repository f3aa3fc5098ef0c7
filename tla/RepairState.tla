---------------------------- MODULE RepairState -----------------------------
(***************************************************************************)
(* ascendc_multi_turn/repair_state.py: when the bootstrap loop takes an     *)
(* evaluated candidate as the base of the next repair.  A result is what    *)
(* the evaluator measured: the stage it reached, the diagnostics it left    *)
(* open, whether these were parsed from the log or are the placeholder of  *)
(* the stage, the cases it passed, and its score.                           *)
(***************************************************************************)
EXTENDS Integers, FiniteSets, FiniteSetsExt

CONSTANTS
    Errors,      \* diagnostic ids
    Cases,       \* benchmark cases and profiles
    Symbol,      \* the symbol each diagnostic names
    MaxScore,
    NoResult     \* Python's None

ASSUME RepairAssumption ==
    /\ IsFiniteSet(Errors)
    /\ MaxScore \in Nat
    /\ NoResult \notin [rank : 0 .. 4, errs : SUBSET Errors, direct : BOOLEAN,
                        cases : SUBSET Cases, score : 0 .. MaxScore]

(* The stages of _stage_rank that the decisions tell apart: 0 validation,   *)
(* 1 build, 2 neither, 3 compiled, 4 correct.                               *)
Result == [rank : 0 .. 4, errs : SUBSET Errors, direct : BOOLEAN,
           cases : SUBSET Cases, score : 0 .. MaxScore]

Compiled(r) == r.rank >= 3
Valid(r) == r # NoResult /\ r.rank = 4 /\ r.errs = {} /\ r.score > 0
Better(r, best) == Valid(r) /\ (~Valid(best) \/ r.score > best.score)

OpenErrors(r) == IF r = NoResult THEN {} ELSE r.errs
Cleared(base, r) == OpenErrors(base) \ r.errs
Reintroduced(r, cleared) == r.errs \cap cleared
MoreCases(base, r) == base.cases \subseteq r.cases /\ base.cases # r.cases
Parsed(r) == r.direct /\ r.errs # {}

(* Faulty variant: diagnostics cleared before may come back.                *)
DecideForgetful(base, r, cleared) ==
    CASE base = NoResult -> "INITIAL_KEEP"
      [] base # NoResult /\ r.rank > base.rank -> "FRONTIER_ADVANCED"
      [] base # NoResult /\ r.rank < base.rank -> "REGRESSION"
      [] OTHER -> IF Cleared(base, r) # {} \/ MoreCases(base, r)
                    THEN "PARTIAL_KEEP" ELSE "NO_PROGRESS"

(* RepairStateManager.decide: the first condition that holds names the      *)
(* outcome.                                                                 *)
Decide(base, r, cleared) ==
    CASE base = NoResult -> "INITIAL_KEEP"
      [] base # NoResult /\ r.rank > base.rank -> "FRONTIER_ADVANCED"
      [] base # NoResult /\ r.rank <= base.rank
         /\ (r.rank < base.rank \/ Reintroduced(r, cleared) # {}) -> "REGRESSION"
      [] OTHER ->
           IF Compiled(r) /\ (Cleared(base, r) # {} \/ MoreCases(base, r))
             THEN "PARTIAL_KEEP"
           ELSE IF base.rank \in {0, 1} /\ Parsed(base) /\ Parsed(r)
                   /\ Cleared(base, r) # {}
             THEN "PARTIAL_KEEP"
           ELSE IF base.rank \in {0, 1} /\ Parsed(base) /\ ~Parsed(r)
             THEN "UNCLASSIFIED" ELSE "NO_PROGRESS"

Accepts(outcome) == outcome \in {"INITIAL_KEEP", "FRONTIER_ADVANCED", "PARTIAL_KEEP"}

(* The state file: the accepted attempt's bundle and evaluation, the        *)
(* diagnostics cleared on the way to it, and the rejected attempts counted  *)
(* under each diagnostic they were aimed at.                                *)
EmptyRepair == [bundle |-> 0, eval |-> NoResult, cleared |-> {},
                failed |-> [e \in Errors |-> 0]]

Targets(base, r) == IF OpenErrors(base) # {} THEN OpenErrors(base) ELSE r.errs

(* observe: an accepted attempt replaces the base, a rejected one is        *)
(* remembered under its targets.                                            *)
Observe(st, base, r, bundle, outcome) ==
    IF Accepts(outcome)
    THEN [st EXCEPT !.bundle = bundle, !.eval = r,
                    !.cleared = (@ \cup Cleared(base, r)) \ r.errs]
    ELSE [st EXCEPT !.failed = [e \in Errors |->
                                  @[e] + IF e \in Targets(base, r) THEN 1 ELSE 0]]

(* escalation_for: the rejected attempts remembered for the diagnostics of  *)
(* a result, or, for one that has none of its own, for those that name the  *)
(* same symbol.                                                             *)
RejectedFor(failed, e) ==
    IF failed[e] > 0 THEN failed[e]
    ELSE MapThenSumSet(LAMBDA x : failed[x], {x \in Errors : Symbol[x] = Symbol[e]})
Escalates(st, r) ==
    MapThenSumSet(LAMBDA e : RejectedFor(st.failed, e), OpenErrors(r)) >= 2
=============================================================================
