----------------------------- MODULE Evaluation -----------------------------
(***************************************************************************)
(* One evaluation after another of a task's kernel: the request            *)
(* (task_config/eval_request.py), the two subprocess passes and their      *)
(* sidecar files (utils/eval_runner.py, engine/eval_kernel.py), the        *)
(* verdict (task_config/eval_assemble.py) and the baseline anchor it may   *)
(* move (utils/baseline_anchor.py, workflow/progress_reducer.py).          *)
(*                                                                         *)
(* A time is the number of the evaluation that measured it, 0 is "none";   *)
(* a list of per-case times is that number when every case has a finite    *)
(* one.  A torn or missing sidecar is NoFile.                              *)
(***************************************************************************)
EXTENDS Naturals, FiniteSets

CONSTANTS MaxCases,   \* bound: input cases of a reference
          MaxEvals,   \* bound: evaluations of one task
          MaxDeaths   \* bound: killed pipelines

VARIABLES
  cases,     \* the number of input cases the reference really has
  host,      \* what this host knows of it: task.yaml's eval.num_cases (0: unset), can it import the reference
  anchor,    \* baseline_metric, baseline_per_shape_us, baseline_fingerprint
  pc,        \* where local_eval is
  eval,      \* the number of the current evaluation
  request,   \* the EvalRequest: case count and sticky override
  refFile, kernelFile,   \* .eval_result_ref.json and .eval_result_kernel.json
  base,      \* ref_payload["profile_base"] as read
  result,    \* the EvalResult and the verdict it was assembled from
  orphans,   \* passes of killed pipelines that may still write
  deaths

vars == <<cases, host, anchor, pc, eval, request, refFile, kernelFile, base,
          result, orphans, deaths>>

Cases == 1..cases
Kinds == {"ok", "ref_crash", "kernel_fault"}   \* a kernel crashes, misses, or cannot be compared
Faults == {"import_ref", "import_kernel", "verify_crash"}

NoFile == [by |-> 0]
NoAnchor == [metric |-> 0, shapes |-> 0, count |-> 0]

-----------------------------------------------------------------------------
(* The passes: what a subprocess that lives to its end writes.             *)

\* run_profile_ref_only and _aggregate_per_shape: a case that crashes is
\* infinite and does not count in the mean; a reference that does not load
\* leaves no profile_base block.
RefPayloads(n) == {[by |-> n, timed |-> t] : t \in SUBSET Cases}

\* run_verify over the cases; the blame of the reference overrides the
\* kernel's, whichever case comes first.
Blame(kind) ==
  IF \E c \in Cases : kind[c] = "ref_crash" THEN "ref"
  ELSE IF \E c \in Cases : kind[c] # "ok" THEN "kernel"
  ELSE "none"

Verified(n, kind, profiled, timed) ==
  [by |-> n, fault |-> "none", kind |-> kind, correct |-> Blame(kind) = "none",
   source |-> Blame(kind), profiled |-> profiled, timed |-> timed]

\* A fault outside the loop over the cases: the reference does not import or
\* resolve, the kernel does not import (no timing either), run_verify raises.
Faulted(n, fault, profiled, timed) ==
  [by |-> n, fault |-> fault, kind |-> [c \in {} |-> "ok"], correct |-> FALSE,
   source |-> IF fault = "import_ref" THEN "ref" ELSE "kernel",
   profiled |-> profiled /\ fault = "verify_crash",
   timed |-> IF fault = "verify_crash" THEN timed ELSE {}]

\* run_profile_paired times case by case and may lose any of them; it may also
\* raise as a whole, and then there is no profile_gen block.
Profiles == {<<FALSE, {}>>} \cup {<<TRUE, timed>> : timed \in SUBSET Cases}

\* main of eval_kernel.py with phases verify and profile_gen.
KernelPayloads(n) ==
  {Verified(n, k, p[1], p[2]) : k \in [Cases -> Kinds], p \in Profiles}
    \cup {Faulted(n, f, p[1], p[2]) : f \in Faults, p \in Profiles}

-----------------------------------------------------------------------------
(* The request.                                                            *)

\* count_ref_cases: the declared count, else the probe, else the count of the
\* stored fingerprint, else 1.
CountRefCases ==
  CASE host.declared > 0 -> host.declared
    [] host.declared = 0 /\ host.probes -> cases
    [] OTHER -> IF anchor.count > 0 THEN anchor.count ELSE 1

\* override_base_from_progress: the stored anchor, if its count is the
\* request's.
Override(n) ==
  IF anchor.metric # 0 /\ anchor.count = n
  THEN [metric |-> anchor.metric, shapes |-> anchor.shapes]
  ELSE [metric |-> 0, shapes |-> 0]

\* (Faulty variant: the sidecars of the previous evaluation are left.)
BeginKeepsSidecars ==
  /\ pc = "idle" /\ eval < MaxEvals
  /\ eval' = eval + 1
  /\ request' = [count |-> CountRefCases, sticky |-> Override(CountRefCases)]
  /\ base' = NoFile /\ result' = NoFile
  /\ pc' = IF request'.sticky.metric # 0 THEN "kernel" ELSE "ref"
  /\ UNCHANGED <<cases, host, anchor, refFile, kernelFile, orphans, deaths>>

\* build_eval_request, then local_eval up to its first pass: both sidecars are
\* removed, a sticky baseline skips the pass of the reference.
Begin ==
  /\ pc = "idle" /\ eval < MaxEvals
  /\ eval' = eval + 1
  /\ request' = [count |-> CountRefCases, sticky |-> Override(CountRefCases)]
  /\ refFile' = NoFile /\ kernelFile' = NoFile
  /\ base' = NoFile /\ result' = NoFile
  /\ pc' = IF request'.sticky.metric # 0 THEN "kernel" ELSE "ref"
  /\ UNCHANGED <<cases, host, anchor, orphans, deaths>>

\* A pass ends: its subprocess wrote its sidecar, or was killed, timed out or
\* died before it could.
RefPass ==
  /\ pc = "ref"
  /\ refFile' \in {refFile} \cup RefPayloads(eval)
  /\ pc' = "read_ref"
  /\ UNCHANGED <<cases, host, anchor, eval, request, kernelFile, base, result, orphans, deaths>>

ReadRef ==
  /\ pc = "read_ref"
  /\ base' = refFile
  /\ pc' = "kernel"
  /\ UNCHANGED <<cases, host, anchor, eval, request, refFile, kernelFile, result, orphans, deaths>>

KernelPass ==
  /\ pc = "kernel"
  /\ kernelFile' \in {kernelFile} \cup KernelPayloads(eval)
  /\ pc' = "read_kernel"
  /\ UNCHANGED <<cases, host, anchor, eval, request, refFile, base, result, orphans, deaths>>

-----------------------------------------------------------------------------
(* The verdict.                                                            *)

\* assemble_eval_result's classification of a kernel sidecar.
Outcome(v) ==
  IF v = NoFile THEN "kernel_fail"
  ELSE IF v.source = "ref" THEN "infra_fail"
  ELSE IF v.correct /\ v.profiled /\ v.timed = Cases THEN "ok"
  ELSE "kernel_fail"

\* ref_latency_us: the sticky override or the mean of what the pass timed.
RefLatency(b) ==
  IF request.sticky.metric # 0 THEN request.sticky.metric
  ELSE IF b # NoFile /\ b.timed # {} THEN b.by ELSE 0

\* The base times of the cases: the override's, or the pass's if all finite.
BaseShapes(b) ==
  IF request.sticky.metric # 0 THEN request.sticky.shapes
  ELSE IF b # NoFile /\ b.timed = Cases THEN b.by ELSE 0

\* _assemble_response and assemble_eval_result; num_cases and the base times
\* are only there beside a profile_gen block.
Assemble ==
  /\ pc = "read_kernel"
  /\ LET v == kernelFile
         profiled == v # NoFile /\ v.profiled
     IN result' = [by |-> eval, verdict |-> v, outcome |-> Outcome(v),
                   ref |-> RefLatency(base),
                   count |-> IF profiled THEN cases ELSE 0,
                   shapes |-> IF profiled THEN BaseShapes(base) ELSE 0]
  /\ pc' = "settle"
  /\ UNCHANGED <<cases, host, anchor, eval, request, refFile, kernelFile, base, orphans, deaths>>

-----------------------------------------------------------------------------
(* The anchor.                                                             *)

\* current_fingerprint: a missing count reads as 1.
Fingerprint(r) == IF r.count = 0 THEN 1 ELSE r.count

\* resolve_baseline_init_anchor and refresh_round_anchor agree: an anchor of
\* the same count stays, and so does one that nothing fresh can replace.
FreshAnchor(r) == [metric |-> r.ref, shapes |-> r.shapes, count |-> Fingerprint(r)]

RefreshAnchor(r) ==
  IF \/ r.ref = 0
     \/ anchor.metric # 0 /\ anchor.count = Fingerprint(r)
  THEN anchor ELSE FreshAnchor(r)

\* run_baseline_init commits nothing without a ref latency; a round with an
\* infra failure is rolled back and not recorded (pipeline.py).
Settle ==
  /\ pc = "settle"
  /\ anchor' = IF anchor.metric # 0 /\ result.outcome = "infra_fail"
               THEN anchor ELSE RefreshAnchor(result)
  /\ pc' = "idle"
  /\ UNCHANGED <<cases, host, eval, request, refFile, kernelFile, base, result, orphans, deaths>>

-----------------------------------------------------------------------------
(* Deaths: the pass runs in a session of its own and outlives the pipeline. *)

Die ==
  /\ pc # "idle" /\ deaths < MaxDeaths
  /\ deaths' = deaths + 1
  /\ orphans' = orphans \cup ({[pass |-> pc, by |-> eval]} \cap
                              [pass : {"ref", "kernel"}, by : Nat])
  /\ base' = NoFile /\ result' = NoFile   \* both only in memory
  /\ pc' = "idle"
  /\ UNCHANGED <<cases, host, anchor, eval, request, refFile, kernelFile>>

OrphanWrites(o) ==
  /\ IF o.pass = "ref"
     THEN refFile' \in RefPayloads(o.by) /\ UNCHANGED kernelFile
     ELSE kernelFile' \in KernelPayloads(o.by) /\ UNCHANGED refFile
  /\ orphans' = orphans \ {o}
  /\ UNCHANGED <<cases, host, anchor, pc, eval, request, base, result, deaths>>

Init ==
  /\ cases \in 1..MaxCases
  /\ host \in [declared : 0..MaxCases, probes : BOOLEAN]
  /\ anchor = NoAnchor
  /\ pc = "idle" /\ eval = 0
  /\ request = [count |-> 1, sticky |-> [metric |-> 0, shapes |-> 0]]
  /\ refFile = NoFile /\ kernelFile = NoFile /\ base = NoFile /\ result = NoFile
  /\ orphans = {} /\ deaths = 0

Next ==
  \/ Begin \/ RefPass \/ ReadRef \/ KernelPass \/ Assemble \/ Settle \/ Die
  \/ \E o \in orphans : OrphanWrites(o)

Spec == Init /\ [][Next]_vars

-----------------------------------------------------------------------------
(* What an evaluation promises.                                            *)

\* "ok" means that every case of the evaluated kernel matched and was timed,
\* by this evaluation's own pass unless a pipeline was killed; an evaluation
\* is the operator's to fix exactly when the reference failed, in whichever
\* case and whatever the kernel did there (eval_assemble.py:95).
VerdictIsTrue ==
  result # NoFile =>
    LET v == result.verdict IN
    /\ result.outcome = "ok" =>
         /\ v.by = result.by \/ deaths > 0
         /\ v.kind = [c \in Cases |-> "ok"] /\ v.timed = Cases
    /\ result.outcome = "infra_fail" <=>
         /\ v # NoFile
         /\ v.fault = "import_ref" \/ \E c \in DOMAIN v.kind : v.kind[c] = "ref_crash"

\* Claim (eval_request.py:57): a known case count does not collapse to 1.
CountNeverCollapses == [][anchor.count > 1 => anchor'.count # 1]_vars

\* What the kernel's pass does, dying included, takes nothing from the ref
\* pass that ended before it: once the reference was timed there is an anchor
\* (eval_runner.py:5).
RefSurvivesKernel ==
  /\ result # NoFile /\ base # NoFile /\ base.timed # {} => result.ref = base.by
  /\ pc = "idle" /\ result # NoFile /\ result.ref # 0 => anchor.metric # 0

\* The three fields of the anchor are of one measurement: the times of the
\* cases, if kept, are those behind the mean, and there are `count` of them
\* (baseline_anchor.py:152).
AnchorIsWhole ==
  /\ anchor.shapes # 0 => anchor.shapes = anchor.metric /\ anchor.count = cases
  /\ anchor.metric = 0 <=> anchor.count = 0
=============================================================================
