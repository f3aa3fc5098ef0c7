-------------------------- MODULE AscendEvaluator --------------------------
(***************************************************************************)
(* One evaluation of an AscendC candidate by the multi-turn runner:        *)
(* LocalAscendEvaluator.evaluate (ascendc_multi_turn/evaluator.py) with    *)
(* the processes it starts, utils/verification_ascendc.py once per         *)
(* correctness profile and ascendc_multi_turn/benchmark.py at the end.     *)
(* The processes talk through files of the round's directory only, so a    *)
(* report may be older than the process the evaluator has just waited for: *)
(* a runner that died comes back to the same directory with the same       *)
(* candidate.                                                              *)
(*                                                                         *)
(* A case is its index; world.truth says what the candidate does with it.  *)
(* The candidate is deterministic: what varies are faults of the machine.  *)
(***************************************************************************)
EXTENDS Integers, Sequences, FiniteSets, SequencesExt

CONSTANTS
  Groups,    \* numbers of input groups model.py may have
  Listed,    \* numbers of lines its case file may have (0: no file)
  Facts,     \* what a line may say: [dtype, broadcast, numel]
  MaxEvals,  \* bound on evaluations in one round directory
  MaxFaults  \* bound on faults of the machine

VARIABLES
  world,  \* what is evaluated: truth, profiles of the case file, listed, groups
  at,     \* where the evaluator is
  acc,    \* the profile it is at, and what it has accumulated over them
  disk,   \* correctness_<profile>.json, by profile
  perf,   \* performance.json
  result, \* the EvalResult
  evals, faults,
  hit     \* history: the cases a fault of the machine fell into

vars == <<world, at, acc, disk, perf, result, evals, faults, hit>>

None == -1
Final == {"passed", "failed"}
Nothing == [status |-> "absent", measured |-> {}]
NoReport == [results |-> <<>>, passed |-> {}, failedAt |-> None]

(***************************************************************************)
(* The profiles (case_profiles.py).                                        *)
(***************************************************************************)
Precedes(s, t) ==
  \E i \in 1..Len(s) : s[i] < t[i] /\ \A j \in 1..(i - 1) : s[j] = t[j]

Least(S, key) == CHOOSE c \in S : \A d \in S \ {c} : Precedes(key[c], key[d])

Flag(b) == IF b THEN 1 ELSE 0
Gap(m, n) == IF m < n THEN n - m ELSE m - n
Tail32(f) == f.numel % 32 # 0

ProfileSets(table) ==
  LET all == DOMAIN table
      Simple == [c \in all |-> <<table[c].dtype, Flag(table[c].broadcast),
                                 Flag(table[c].numel < 32), Gap(table[c].numel, 128), c>>]
      canonical == Least(all, Simple)
      Size == [c \in all |-> <<table[c].numel, c>>]
      Plain == [c \in all |-> <<Flag(table[c].broadcast), table[c].numel, c>>]
      alike == {c \in all : table[c].dtype = table[canonical].dtype}
      Signature(c) == <<table[c].broadcast, Tail32(table[c])>>
      shape == {canonical} \cup {Least({d \in alike : Signature(d) = Signature(c)}, Size) : c \in alike}
      dtype == shape \cup {Least({d \in all : table[d].dtype = table[c].dtype}, Plain) : c \in all}
  IN << [name |-> "smoke", cases |-> {canonical}], [name |-> "shape", cases |-> shape],
        [name |-> "dtype", cases |-> dtype], [name |-> "full", cases |-> all] >>

\* A profile with the cases of its predecessor is dropped, except "full", the
\* fourth; the others keep their places.
FullOnly == [i \in {4} |-> [name |-> "full", cases |-> {}]]

Profiles(table) ==
  IF DOMAIN table = {} THEN FullOnly
  ELSE LET raw == ProfileSets(table)
           kept == {i \in 1..4 : i \in {1, 4} \/ raw[i].cases # raw[i - 1].cases}
       IN [i \in kept |-> raw[i]]

AllCases(w) == 0..(w.groups - 1)

\* No indices on the command line means every group of model.py.
Selected(w, p) == IF p.cases = {} THEN AllCases(w) ELSE p.cases

(***************************************************************************)
(* The report of one verification (verification_ascendc.py), persisted     *)
(* after every step.                                                       *)
(***************************************************************************)
Profile == world.profiles[acc.k]
Report == disk[Profile.name]
Running == IF at = "case" /\ Last(Report.results).status \notin Final
           THEN Last(Report.results).index ELSE None

BeginCase(report, c) ==
  [report EXCEPT !.results = Append(@, [index |-> c, status |-> "started"]), !.failedAt = c]

SetStatus(report, status) == [report EXCEPT !.results[Len(report.results)].status = status]

EndCase(report, c, ok) ==
  [SetStatus(report, IF ok THEN "passed" ELSE "failed") EXCEPT
     !.passed = IF ok THEN @ \cup {c} ELSE @,
     !.failedAt = IF ok THEN @ ELSE c]

\* The last case alone decides.
AllOkLast(report) == Last(report.results).status = "passed"

AllOk(report) == \A i \in 1..Len(report.results) : report.results[i].status = "passed"

Concluded(report) == IF AllOk(report) THEN [report EXCEPT !.failedAt = None] ELSE report

\* An exception marks only a case that had not got past its reference.
Excepted(report) ==
  IF report.results # <<>> /\ Last(report.results).status = "started"
  THEN SetStatus(report, "error") ELSE report

(***************************************************************************)
(* Results (evaluator.py: _failure and the two EvalResult of evaluate).    *)
(***************************************************************************)
Kind(rc) == IF rc \in {124, 126, 127} THEN "infrastructure" ELSE "candidate"

NoResult == [stage |-> "none", compiled |-> FALSE, correct |-> FALSE, scored |-> FALSE,
             kind |-> "candidate", failedAt |-> None, passed |-> {}, results |-> <<>>,
             mark |-> "none", running |-> None]

Early(stage, rc) == [NoResult EXCEPT !.stage = stage, !.kind = Kind(rc),
                                     !.compiled = stage = "correctness_profile"]

Fresh == [k |-> 0, passed |-> {}, results |-> <<>>]
Ahead == {k \in DOMAIN world.profiles : k > acc.k}

\* The evaluator reads the report of a verification that ended with `rc`,
\* whoever wrote it; `mark` is the kind of message its log ends with.
Collect(rc, mark, report, running) ==
  LET passed == acc.passed \cup report.passed
      results == acc.results \o report.results
  IN IF rc # 0
     THEN /\ result' = [NoResult EXCEPT
               !.stage = "correctness", !.compiled = TRUE, !.kind = Kind(rc),
               !.failedAt = report.failedAt, !.passed = passed, !.results = results,
               !.mark = mark, !.running = running]
          /\ at' = "done" /\ UNCHANGED acc
     ELSE /\ acc' = [acc EXCEPT !.passed = passed, !.results = results]
          /\ at' = IF Ahead = {} THEN "benchmark" ELSE "verify"
          /\ UNCHANGED result

MeasuresWhatPassed(report) == report.measured # {} /\ report.measured = acc.passed

\* performance.json decides; the exit code of the benchmark does not.
Score(rc, report) ==
  /\ result' = [NoResult EXCEPT
       !.stage = IF report.status = "ok" /\ MeasuresWhatPassed(report) THEN "none" ELSE "performance",
       !.scored = report.status = "ok" /\ MeasuresWhatPassed(report),
       !.kind = IF report.status = "absent" THEN Kind(rc) ELSE "candidate",
       !.compiled = TRUE, !.correct = TRUE, !.passed = acc.passed, !.results = acc.results]
  /\ at' = "done"

(***************************************************************************)
(* Steps of the evaluator before the first verification.                   *)
(***************************************************************************)
Reject(stage, rc) == result' = Early(stage, rc) /\ at' = "done"

Precheck ==
  /\ at = "start"
  /\ \/ \E stage \in {"bundle_validation", "ascendc_source_validation", "correctness_profile"} :
          Reject(stage, 1)
     \/ \E rc \in {1, 124, 127} : Reject("ascendc_build", rc)
     \/ at' = "verify" /\ UNCHANGED result
  /\ UNCHANGED <<world, acc, disk, perf, evals, faults, hit>>

(***************************************************************************)
(* Steps of a verification.                                                *)
(***************************************************************************)
Persist(report) == disk' = [disk EXCEPT ![Profile.name] = report]

Launch ==
  /\ at = "verify" /\ at' = "load"
  /\ \E k \in Ahead : (\A j \in Ahead : k <= j) /\ acc' = [acc EXCEPT !.k = k]
  /\ UNCHANGED <<world, disk, perf, result, evals, faults, hit>>

OutOfRange == ~(Selected(world, Profile) \subseteq AllCases(world))

\* The modules do not load, or the case file lists more than model.py has.
LoadFails ==
  /\ at = "load"
  /\ OutOfRange \/ faults < MaxFaults
  /\ faults' = IF OutOfRange THEN faults ELSE faults + 1
  /\ Persist(NoReport)
  /\ \E mark \in {"load", "none"} : Collect(1, mark, NoReport, None)
  /\ UNCHANGED <<world, perf, evals, hit>>

\* The cases to come; they are taken in ascending order.
Due(report) ==
  Selected(world, Profile) \ {report.results[i].index : i \in 1..Len(report.results)}

NextCase ==
  /\ (at = "load" /\ ~OutOfRange) \/ (at = "case" /\ Running = None)
  /\ LET report == IF at = "load" THEN NoReport ELSE Report
     IN \E c \in Due(report) :
          /\ \A d \in Due(report) : c <= d
          /\ Persist(BeginCase(report, c))
  /\ at' = "case"
  /\ UNCHANGED <<world, acc, perf, result, evals, faults, hit>>

Advances == { <<"started", "reference_passed">>, <<"reference_passed", "candidate_started">> }

Advance ==
  /\ at = "case" /\ Running # None
  /\ LET status == Last(Report.results).status IN
     \/ \E step \in Advances : status = step[1] /\ Persist(SetStatus(Report, step[2]))
     \/ /\ status = "candidate_started" /\ world.truth[Running] \in {"ok", "wrong"}
        /\ Persist(SetStatus(Report, "candidate_returned"))
     \/ /\ status = "candidate_returned"
        /\ Persist(EndCase(Report, Running, world.truth[Running] = "ok"))
  /\ UNCHANGED <<world, at, acc, perf, result, evals, faults, hit>>

\* ModelNew raises, or kills its process.
CandidateFails ==
  /\ at = "case" /\ Running # None /\ Last(Report.results).status = "candidate_started"
  /\ \/ /\ world.truth[Running] = "raise"
        /\ Persist(Excepted(Report))
        /\ \E mark \in {"device", "load", "none"} : Collect(1, mark, Excepted(Report), Running)
     \/ /\ world.truth[Running] = "die"
        /\ UNCHANGED disk
        /\ Collect(-11, "signal", Report, Running)
  /\ UNCHANGED <<world, perf, evals, faults, hit>>

\* The reference, the device or the comparison raises.
MachineRaises ==
  /\ at = "case" /\ Running # None /\ Last(Report.results).status \in {"started", "candidate_returned"}
  /\ faults < MaxFaults /\ faults' = faults + 1
  /\ hit' = hit \cup {Running}
  /\ Persist(Excepted(Report))
  /\ Collect(1, "none", Excepted(Report), Running)
  /\ UNCHANGED <<world, perf, evals>>

\* subprocess.run gives up and kills the verification; what the file holds is read.
VerificationTimesOut ==
  /\ at \in {"load", "case"}
  /\ faults < MaxFaults /\ faults' = faults + 1
  /\ hit' = hit \cup ({Running} \ {None})
  /\ Collect(124, "none", Report, Running)
  /\ UNCHANGED <<world, disk, perf, evals>>

VerificationEnds ==
  /\ at = "case" /\ Running = None /\ Due(Report) = {}
  /\ Persist(Concluded(Report))
  /\ Collect(IF AllOk(Report) THEN 0 ELSE 1, "none", Concluded(Report), None)
  /\ UNCHANGED <<world, perf, evals, faults, hit>>

(***************************************************************************)
(* Steps of the benchmark: timing of every group, then the supplementary   *)
(* profile of the slowest ones, which rewrites a report that is complete.  *)
(***************************************************************************)
Stopping == {c \in AllCases(world) : world.truth[c] \in {"raise", "die"}}
FirstStop == CHOOSE c \in Stopping : \A d \in Stopping : c <= d

Timing ==
  /\ at = "benchmark"
  /\ IF Stopping = {}
     THEN /\ perf' = [status |-> "ok", measured |-> AllCases(world)]
          /\ at' = "profiling" /\ UNCHANGED result
     ELSE IF world.truth[FirstStop] = "raise"
     THEN perf' = [status |-> "error", measured |-> {}] /\ Score(1, perf')
     ELSE UNCHANGED perf /\ Score(-11, perf)
  /\ UNCHANGED <<world, acc, disk, evals, faults, hit>>

BenchmarkEnds ==
  /\ \/ at = "profiling" /\ Score(0, perf) /\ UNCHANGED <<perf, faults>>
     \/ /\ faults < MaxFaults /\ faults' = faults + 1
        /\ \/ at \in {"benchmark", "profiling"} /\ \E rc \in {124, -9} : Score(rc, perf) /\ UNCHANGED perf
           \/ at = "benchmark" /\ perf' = [status |-> "error", measured |-> {}] /\ Score(1, perf')
  /\ UNCHANGED <<world, acc, disk, evals, hit>>

\* The runner dies and its next life evaluates the candidate of the same round.
RunnerDies ==
  /\ at # "done" /\ evals < MaxEvals
  /\ evals' = evals + 1 /\ at' = "start" /\ acc' = Fresh
  /\ hit' = hit \cup ({Running} \ {None})
  /\ UNCHANGED <<world, disk, perf, result, faults>>

(***************************************************************************)
(* What later rounds are told (diagnostics.py).                            *)
(***************************************************************************)
\* The case the failure evidence names.
ShownIndexed(r) ==
  {r.results[i] : i \in {j \in 1..Len(r.results) : r.results[j].index = r.failedAt}}

\* compact_evaluation: the first case that is neither passed nor between two
\* harmless steps; the last one when there is no such case.
Shown(r) ==
  LET open == {i \in 1..Len(r.results) :
                 r.results[i].status \notin {"passed", "reference_passed", "candidate_returned"}}
  IN IF open # {} THEN {r.results[i] : i \in {k \in open : \A j \in open : k <= j}}
     ELSE IF ~r.correct /\ r.results # <<>> THEN {Last(r.results)} ELSE {}

Validations == {"bundle_validation", "ascendc_source_validation"}
HasStatus(r, S) == \E i \in 1..Len(r.results) : r.results[i].status \in S

Compared(r) == HasStatus(r, Final)

\* The message of the log before what the reports of all profiles say.
LoadedByLog(r) ==
  IF ~r.compiled THEN "not_reached"
  ELSE IF r.mark = "load" THEN "fail"
  ELSE IF r.correct \/ r.results # <<>> THEN "pass" ELSE "unknown"

Loaded(r) ==
  IF ~r.compiled THEN "not_reached"
  ELSE IF r.correct \/ Compared(r) THEN "pass"
  ELSE IF r.mark = "load" THEN "fail"
  ELSE IF r.mark = "signal" THEN IF r.results # <<>> THEN "pass" ELSE "unknown"
  ELSE IF r.mark = "device" \/ r.results # <<>> THEN "pass" ELSE "unknown"

Executed(r) ==
  IF ~r.compiled THEN "not_reached"
  ELSE IF r.correct \/ Compared(r) THEN "pass"
  ELSE IF r.mark = "load" THEN "not_reached"
  ELSE IF r.mark = "signal" THEN "unknown"
  ELSE IF r.mark = "device" THEN "fail"
  ELSE IF HasStatus(r, Final \cup {"candidate_started", "candidate_returned"}) THEN "pass" ELSE "unknown"

Correct(r) ==
  IF r.correct THEN "pass"
  ELSE IF ~r.compiled \/ r.mark \in {"load", "signal", "device"} THEN "not_reached"
  ELSE IF Compared(r) THEN "fail" ELSE "unknown"

\* evaluation_gates, in the order of the evaluation.
Gates(r) ==
  LET compared == IF Correct(r) \in {"pass", "fail"} THEN "pass" ELSE Correct(r)
  IN << IF r.stage \in Validations THEN "fail" ELSE "pass",
        IF r.compiled THEN "pass" ELSE IF r.stage \in Validations THEN "not_reached" ELSE "fail",
        Loaded(r),
        IF Executed(r) \in {"pass", "fail"} THEN "pass" ELSE Executed(r),
        compared,
        IF r.correct THEN "pass" ELSE IF compared = "not_reached" THEN "not_reached" ELSE "fail",
        IF r.correct /\ r.scored THEN "pass" ELSE IF r.correct THEN "fail" ELSE "not_reached" >>

(***************************************************************************)
(* The specification.                                                      *)
(***************************************************************************)
Init ==
  /\ \E g \in Groups, l \in Listed :
       world \in [truth : [0..(g - 1) -> {"ok", "wrong", "raise", "die"}],
                  profiles : {Profiles(table) : table \in [0..(l - 1) -> Facts]},
                  listed : {l}, groups : {g}]
  /\ at = "start" /\ acc = Fresh
  /\ disk = [p \in {"smoke", "shape", "dtype", "full"} |-> NoReport] /\ perf = Nothing
  /\ result = NoResult /\ evals = 1 /\ faults = 0 /\ hit = {}

Next ==
  \/ Precheck \/ Launch
  \/ LoadFails \/ NextCase \/ Advance \/ CandidateFails \/ MachineRaises
  \/ VerificationTimesOut \/ VerificationEnds
  \/ Timing \/ BenchmarkEnds
  \/ RunnerDies

Spec == Init /\ [][Next]_vars

(***************************************************************************)
(* Properties.                                                             *)
(***************************************************************************)
\* A result called correct is one of a candidate that computes every listed
\* case rightly, each of them reported as passed; one with a score is right
\* on every input group of model.py, listed or not, and was timed on exactly
\* those (evaluator.py:385-467, 546).  Reports of an earlier evaluation in
\* the same directory, partial profiles and a benchmark that dies after the
\* timing must not get in the way.
AcceptedIsWhole ==
  at = "done" =>
    /\ result.correct =>
         LET due == IF world.listed = 0 THEN AllCases(world) ELSE 0..(world.listed - 1)
         IN result.passed = due /\ \A c \in due : world.truth[c] = "ok"
    /\ result.scored =>
         /\ \A c \in AllCases(world) : world.truth[c] = "ok"
         /\ perf.measured = AllCases(world) /\ result.passed = AllCases(world)

\* The case shown to the next round as failed or incomplete did fail, or a
\* fault of the machine fell into it; one that passed is shown only when no
\* reported case was left open or failed (diagnostics.py:680-694).
ShownCaseFailed ==
  at = "done" => \A item \in Shown(result) :
    IF item.status = "passed"
    THEN ~HasStatus(result, {"started", "candidate_started", "failed", "error"})
    ELSE world.truth[item.index] # "ok" \/ item.index \in hit

\* The gates of a result are passed in their order: none is reported passed
\* after one that is not (diagnostics.py:547-571).
GatesAreOrdered ==
  at = "done" => \A i, j \in 1..7 : i < j /\ Gates(result)[j] = "pass" => Gates(result)[i] = "pass"

\* A verification that ended inside a case, by a signal, a timeout or an
\* exception, is blamed on that case (verification_ascendc.py:628 persists
\* the index before the case runs; evaluator.py:439).
DeathIsLocated ==
  at = "done" /\ result.running # None => result.failedAt = result.running
=============================================================================
