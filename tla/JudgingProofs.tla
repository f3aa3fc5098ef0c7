--------------------------- MODULE JudgingProofs ----------------------------
(***************************************************************************)
(* What is accepted is right and what is blamed did fail: the parts of     *)
(* judging that are state machines, for every number of cases, groups,     *)
(* evaluations, answers and faults.                                        *)
(*                                                                         *)
(* The parts share no variable, so a step of one is a stutter of the       *)
(* others; each has an inductive invariant of its own, which holds while   *)
(* `part` names it.                                                        *)
(***************************************************************************)
EXTENDS MCJudging, FiniteSetTheorems, SequenceTheorems, WellFoundedInduction, TLAPS

-----------------------------------------------------------------------------
(* An evaluation of the task engine *)

\* What a kernel sidecar says.  The blame of the reference overrides the
\* kernel's, and "correct" means every case.
LEMMA KernelPayloadFacts ==
  ASSUME NEW n, NEW v \in Round!KernelPayloads(n)
  PROVE  /\ v.by = n
         /\ v.source = "ref" <=>
              v.fault = "import_ref" \/ \E c \in DOMAIN v.kind : v.kind[c] = "ref_crash"
         /\ v.correct => v.kind = [c \in Round!Cases |-> "ok"]
<1>1. CASE \E k \in [Round!Cases -> Round!Kinds], p \in Round!Profiles :
             v = Round!Verified(n, k, p[1], p[2])
  <2>1. PICK k \in [Round!Cases -> Round!Kinds], p \in Round!Profiles :
               v = Round!Verified(n, k, p[1], p[2])
    BY <1>1
  <2>2. /\ v.by = n /\ v.fault = "none" /\ v.kind = k
        /\ v.correct = (Round!Blame(k) = "none") /\ v.source = Round!Blame(k)
    BY <2>1 DEF Round!Verified
  <2>3. Round!Blame(k) = "ref" <=> \E c \in Round!Cases : k[c] = "ref_crash"
    BY DEF Round!Blame
  <2>4. Round!Blame(k) = "none" => \A c \in Round!Cases : k[c] = "ok"
    BY DEF Round!Blame
  <2> QED BY <2>2, <2>3, <2>4
<1>2. CASE \E f \in Round!Faults, p \in Round!Profiles :
             v = Round!Faulted(n, f, p[1], p[2])
  <2>1. PICK f \in Round!Faults, p \in Round!Profiles :
               v = Round!Faulted(n, f, p[1], p[2])
    BY <1>2
  <2>2. /\ v.by = n /\ v.fault = f /\ v.kind = [c \in {} |-> "ok"] /\ ~v.correct
        /\ v.source = IF f = "import_ref" THEN "ref" ELSE "kernel"
    BY <2>1 DEF Round!Faulted
  <2> QED BY <2>2
<1> QED BY <1>1, <1>2 DEF Round!KernelPayloads

\* A file is missing, or was written by a pass of this evaluation, or by an
\* earlier one whose pipeline was killed.
By(n) == n \in 1..eval /\ (n = eval \/ deaths > 0)

FilesAreOwn ==
  /\ kernelFile # Round!NoFile => \E n : By(n) /\ kernelFile \in Round!KernelPayloads(n)
  /\ refFile # Round!NoFile => \E n \in 1..eval : refFile \in Round!RefPayloads(n)
  /\ base # Round!NoFile => \E n \in 1..eval : base \in Round!RefPayloads(n)
  /\ \A o \in orphans : o.by \in 1..eval /\ deaths > 0

RoundTypes ==
  /\ cases \in Nat \ {0} /\ eval \in Nat /\ deaths \in Nat
  /\ pc # "idle" => eval > 0
  /\ anchor \in [metric : Nat, shapes : Nat, count : Nat]
  /\ request.sticky \in [metric : Nat, shapes : Nat]

\* A request carries a stored anchor, whose parts belong together, or none, and
\* only then is the reference timed.
RequestFits ==
  /\ request.sticky.shapes # 0 => request.sticky.shapes = request.sticky.metric
  /\ pc \in {"ref", "read_ref"} \/ base # Round!NoFile => request.sticky.metric = 0

\* A result is there from its assembly to the next evaluation.
ResultInStep ==
  /\ pc \in {"ref", "read_ref", "kernel", "read_kernel"} => result = Round!NoFile
  /\ pc = "settle" => result # Round!NoFile

\* Its times of the cases are those behind its latency.
ResultFits ==
  /\ ResultInStep
  /\ result # Round!NoFile =>
       /\ result.ref \in Nat /\ result.count \in {0, cases} /\ result.shapes \in Nat
       /\ result.shapes # 0 => result.shapes = result.ref /\ result.count = cases

RoundInv ==
  /\ RoundTypes /\ FilesAreOwn /\ RequestFits /\ ResultFits
  /\ Round!VerdictIsTrue /\ Round!RefSurvivesKernel /\ Round!AnchorIsWhole

\* No record of a pass, and no result, is the missing file.
LEMMA WrittenIsSomething ==
  ASSUME RoundInv, NEW v,
         \/ \E n \in 1..eval : v \in Round!RefPayloads(n)
         \/ \E n \in 1..eval : v \in Round!KernelPayloads(n)
  PROVE  v.by \in 1..eval /\ v # Round!NoFile
<1>1. v.by \in 1..eval
  BY KernelPayloadFacts DEF Round!RefPayloads
<1>2. Round!NoFile.by = 0
  BY DEF Round!NoFile
<1> QED BY <1>1, <1>2 DEF RoundInv, RoundTypes

LEMMA SamePayloads ==
  ASSUME UNCHANGED cases, NEW n
  PROVE  /\ Round!RefPayloads(n)' = Round!RefPayloads(n)
         /\ Round!KernelPayloads(n)' = Round!KernelPayloads(n)
BY DEF Round!RefPayloads, Round!KernelPayloads, Round!Verified, Round!Faulted, Round!Cases,
       Round!Blame, Round!Profiles, Round!Kinds, Round!Faults

LEMMA RoundInit ==
  ASSUME JudgingAssumption
  PROVE  Round!Init => RoundInv
<1> SUFFICES ASSUME Round!Init PROVE RoundInv
  OBVIOUS
<1> USE DEF Round!Init
<1>1. RoundTypes
  BY DEF RoundTypes, Round!NoAnchor, JudgingAssumption
<1>2. FilesAreOwn /\ ResultFits /\ Round!VerdictIsTrue
  BY DEF FilesAreOwn, ResultFits, ResultInStep, Round!VerdictIsTrue
<1>3. RequestFits /\ Round!RefSurvivesKernel /\ Round!AnchorIsWhole
  BY DEF RequestFits, Round!RefSurvivesKernel, Round!AnchorIsWhole, Round!NoAnchor
<1> QED BY <1>1, <1>2, <1>3 DEF RoundInv

LEMMA RoundStep == RoundInv /\ [Round!Next]_roundVars => RoundInv'
<1> SUFFICES ASSUME RoundInv, [Round!Next]_roundVars
             PROVE  RoundInv'
  OBVIOUS
<1> USE DEF RoundInv
<1>1. ASSUME Round!Begin PROVE RoundInv'
  <2>1. /\ eval' = eval + 1 /\ refFile' = Round!NoFile /\ kernelFile' = Round!NoFile
        /\ base' = Round!NoFile /\ result' = Round!NoFile
        /\ request'.sticky = Round!Override(Round!CountRefCases)
        /\ pc' = (IF request'.sticky.metric # 0 THEN "kernel" ELSE "ref")
        /\ UNCHANGED <<cases, anchor, orphans, deaths>>
    BY <1>1 DEF Round!Begin
  <2>2. /\ request'.sticky \in [metric : Nat, shapes : Nat]
        /\ request'.sticky.shapes # 0 => request'.sticky.shapes = request'.sticky.metric
    BY <2>1 DEF Round!Override, Round!AnchorIsWhole, RoundTypes
  <2>3. RoundTypes'
    BY <2>1, <2>2 DEF RoundTypes
  <2>4. RequestFits'
    BY <2>1, <2>2 DEF RequestFits
  <2>5. FilesAreOwn'
    BY <2>1 DEF FilesAreOwn, RoundTypes
  <2>6. ResultFits' /\ Round!VerdictIsTrue' /\ Round!RefSurvivesKernel' /\ Round!AnchorIsWhole'
    BY <2>1 DEF ResultFits, ResultInStep, Round!VerdictIsTrue, Round!RefSurvivesKernel, Round!AnchorIsWhole
  <2> QED BY <2>3, <2>4, <2>5, <2>6
<1>2. ASSUME Round!RefPass PROVE RoundInv'
  <2>1. /\ pc = "ref" /\ pc' = "read_ref" /\ refFile' \in {refFile} \cup Round!RefPayloads(eval)
        /\ UNCHANGED <<cases, host, anchor, eval, request, kernelFile, base, result,
                       orphans, deaths>>
    BY <1>2 DEF Round!RefPass
  <2>2. eval \in 1..eval
    BY <2>1 DEF RoundTypes
  <2>3. FilesAreOwn'
    BY <2>1, <2>2, SamePayloads DEF FilesAreOwn, By
  <2>4. RoundTypes' /\ RequestFits' /\ ResultFits' /\ Round!VerdictIsTrue'
        /\ Round!RefSurvivesKernel' /\ Round!AnchorIsWhole'
    BY <2>1 DEF RoundTypes, RequestFits, ResultFits, ResultInStep, Round!VerdictIsTrue,
                Round!RefSurvivesKernel, Round!AnchorIsWhole, Round!Cases
  <2> QED BY <2>3, <2>4
<1>3. ASSUME Round!ReadRef PROVE RoundInv'
  <2>1. /\ pc = "read_ref" /\ pc' = "kernel" /\ base' = refFile
        /\ UNCHANGED <<cases, host, anchor, eval, request, refFile, kernelFile, result,
                       orphans, deaths>>
    BY <1>3 DEF Round!ReadRef
  <2>2. result = Round!NoFile
    BY <2>1 DEF ResultFits, ResultInStep
  <2>3. FilesAreOwn'
    BY <2>1, SamePayloads DEF FilesAreOwn, By
  <2>4. RoundTypes' /\ RequestFits' /\ ResultFits' /\ Round!VerdictIsTrue'
        /\ Round!RefSurvivesKernel' /\ Round!AnchorIsWhole'
    BY <2>1, <2>2 DEF RoundTypes, RequestFits, ResultFits, ResultInStep, Round!VerdictIsTrue,
                Round!RefSurvivesKernel, Round!AnchorIsWhole, Round!Cases
  <2> QED BY <2>3, <2>4
<1>4. ASSUME Round!KernelPass PROVE RoundInv'
  <2>1. /\ pc = "kernel" /\ pc' = "read_kernel"
        /\ kernelFile' \in {kernelFile} \cup Round!KernelPayloads(eval)
        /\ UNCHANGED <<cases, host, anchor, eval, request, refFile, base, result,
                       orphans, deaths>>
    BY <1>4 DEF Round!KernelPass
  <2>2. By(eval)
    BY <2>1 DEF RoundTypes, By
  <2>3. FilesAreOwn'
    BY <2>1, <2>2, SamePayloads DEF FilesAreOwn, By
  <2>4. RoundTypes' /\ RequestFits' /\ ResultFits' /\ Round!VerdictIsTrue'
        /\ Round!RefSurvivesKernel' /\ Round!AnchorIsWhole'
    BY <2>1 DEF RoundTypes, RequestFits, ResultFits, ResultInStep, Round!VerdictIsTrue,
                Round!RefSurvivesKernel, Round!AnchorIsWhole, Round!Cases
  <2> QED BY <2>3, <2>4
<1>5. ASSUME Round!Assemble PROVE RoundInv'
  <2> DEFINE v == kernelFile
             profiled == v # Round!NoFile /\ v.profiled
  <2>1. /\ pc = "read_kernel" /\ pc' = "settle"
        /\ result' = [by |-> eval, verdict |-> v, outcome |-> Round!Outcome(v),
                      ref |-> Round!RefLatency(base),
                      count |-> IF profiled THEN cases ELSE 0,
                      shapes |-> IF profiled THEN Round!BaseShapes(base) ELSE 0]
        /\ UNCHANGED <<cases, host, anchor, eval, request, refFile, kernelFile, base,
                       orphans, deaths>>
    BY <1>5 DEF Round!Assemble
  <2>2. FilesAreOwn'
    BY <2>1, SamePayloads DEF FilesAreOwn, By
  <2>3. RoundTypes' /\ RequestFits' /\ Round!AnchorIsWhole'
    BY <2>1 DEF RoundTypes, RequestFits, Round!AnchorIsWhole
  <2>4. ASSUME base # Round!NoFile
        PROVE  /\ base.by \in Nat /\ base.timed \in SUBSET Round!Cases
               /\ request.sticky.metric = 0
    BY <2>4 DEF FilesAreOwn, RequestFits, RoundTypes, Round!RefPayloads
  <2>5. /\ Round!RefLatency(base) \in Nat /\ Round!BaseShapes(base) \in Nat
        /\ Round!BaseShapes(base) # 0 => Round!BaseShapes(base) = Round!RefLatency(base)
    <3>1. Round!Cases # {}
      BY DEF Round!Cases, RoundTypes
    <3> QED BY <2>4, <3>1 DEF Round!RefLatency, Round!BaseShapes, RoundTypes, RequestFits
  <2>6. ResultFits'
    <3>1. result'.by # Round!NoFile.by
      BY <2>1 DEF RoundTypes, Round!NoFile
    <3>2. /\ result'.ref = Round!RefLatency(base) /\ result'.count \in {0, cases}
          /\ result'.shapes \in {0, Round!BaseShapes(base)}
          /\ result'.shapes # 0 => result'.count = cases
      BY <2>1
    <3>3. result' # Round!NoFile /\ pc' = "settle" /\ cases' = cases
      BY <2>1, <3>1
    <3> QED BY <2>5, <3>2, <3>3 DEF ResultFits, ResultInStep, Round!NoFile
  <2>7. Round!RefSurvivesKernel'
    BY <2>1, <2>4 DEF Round!RefSurvivesKernel, Round!RefLatency
  <2>8. ASSUME v # Round!NoFile
        PROVE  /\ v.by = eval \/ deaths > 0
               /\ v.source = "ref" <=>
                    v.fault = "import_ref" \/ \E c \in DOMAIN v.kind : v.kind[c] = "ref_crash"
               /\ v.correct => v.kind = [c \in Round!Cases |-> "ok"]
    <3>1. PICK n : By(n) /\ v \in Round!KernelPayloads(n)
      BY <2>8 DEF FilesAreOwn
    <3> QED BY <3>1, KernelPayloadFacts DEF By
  <2>9. Round!VerdictIsTrue'
    <3>1. /\ Round!Outcome(v) = "ok" =>
               v # Round!NoFile /\ v.source # "ref" /\ v.correct /\ v.timed = Round!Cases
          /\ Round!Outcome(v) = "infra_fail" <=> v # Round!NoFile /\ v.source = "ref"
      BY DEF Round!Outcome
    <3>2. /\ result'.verdict = v /\ result'.by = eval /\ result'.outcome = Round!Outcome(v)
      BY <2>1
    <3> HIDE DEF v
    <3> QED BY <2>1, <2>8, <3>1, <3>2 DEF Round!VerdictIsTrue, Round!Cases
  <2> QED BY <2>2, <2>3, <2>6, <2>7, <2>9
<1>6. ASSUME Round!Settle PROVE RoundInv'
  <2>1. /\ pc = "settle" /\ pc' = "idle"
        /\ anchor' = (IF anchor.metric # 0 /\ result.outcome = "infra_fail"
                      THEN anchor ELSE Round!RefreshAnchor(result))
        /\ UNCHANGED <<cases, host, eval, request, refFile, kernelFile, base, result,
                       orphans, deaths>>
    BY <1>6 DEF Round!Settle
  <2>2. result # Round!NoFile
    BY <2>1 DEF ResultFits, ResultInStep
  <2>3. /\ anchor' \in [metric : Nat, shapes : Nat, count : Nat]
        /\ Round!AnchorIsWhole'
        /\ result.ref # 0 => anchor'.metric # 0
    BY <2>1, <2>2 DEF Round!RefreshAnchor, Round!FreshAnchor, Round!Fingerprint, RoundTypes,
       ResultFits, ResultInStep, Round!AnchorIsWhole
  <2>4. FilesAreOwn'
    BY <2>1, SamePayloads DEF FilesAreOwn, By
  <2>5. RoundTypes' /\ RequestFits' /\ ResultFits' /\ Round!VerdictIsTrue'
        /\ Round!RefSurvivesKernel'
    BY <2>1, <2>3 DEF RoundTypes, RequestFits, ResultFits, ResultInStep, Round!VerdictIsTrue,
                Round!RefSurvivesKernel, Round!Cases
  <2> QED BY <2>3, <2>4, <2>5
<1>7. ASSUME Round!Die PROVE RoundInv'
  <2>1. /\ pc # "idle" /\ pc' = "idle" /\ deaths' = deaths + 1
        /\ \A o \in orphans' : o \in orphans \/ o.by = eval
        /\ base' = Round!NoFile /\ result' = Round!NoFile
        /\ UNCHANGED <<cases, host, anchor, eval, request, refFile, kernelFile>>
    BY <1>7 DEF Round!Die
  <2>2. FilesAreOwn'
    BY <2>1, SamePayloads DEF FilesAreOwn, By, RoundTypes
  <2>3. RoundTypes' /\ RequestFits' /\ ResultFits' /\ Round!VerdictIsTrue'
        /\ Round!RefSurvivesKernel' /\ Round!AnchorIsWhole'
    BY <2>1 DEF RoundTypes, RequestFits, ResultFits, ResultInStep, Round!VerdictIsTrue,
                Round!RefSurvivesKernel, Round!AnchorIsWhole, Round!Cases
  <2> QED BY <2>2, <2>3
<1>8. ASSUME NEW o \in orphans, Round!OrphanWrites(o) PROVE RoundInv'
  <2>1. /\ \/ refFile' \in Round!RefPayloads(o.by) /\ UNCHANGED kernelFile
           \/ kernelFile' \in Round!KernelPayloads(o.by) /\ UNCHANGED refFile
        /\ orphans' \subseteq orphans
        /\ UNCHANGED <<cases, host, anchor, pc, eval, request, base, result, deaths>>
    BY <1>8 DEF Round!OrphanWrites
  <2>2. o.by \in 1..eval /\ By(o.by)
    BY DEF FilesAreOwn, By
  <2>3. FilesAreOwn'
    BY <2>1, <2>2, SamePayloads DEF FilesAreOwn, By
  <2>4. RoundTypes' /\ RequestFits' /\ ResultFits' /\ Round!VerdictIsTrue'
        /\ Round!RefSurvivesKernel' /\ Round!AnchorIsWhole'
    BY <2>1 DEF RoundTypes, RequestFits, ResultFits, ResultInStep, Round!VerdictIsTrue,
                Round!RefSurvivesKernel, Round!AnchorIsWhole, Round!Cases
  <2> QED BY <2>3, <2>4
<1>9. CASE UNCHANGED roundVars
  <2>1. UNCHANGED <<cases, host, anchor, pc, eval, request, refFile, kernelFile, base,
                    result, orphans, deaths>>
    BY <1>9 DEF roundVars
  <2>2. FilesAreOwn'
    BY <2>1, SamePayloads DEF FilesAreOwn, By
  <2> QED BY <2>1, <2>2 DEF RoundTypes, RequestFits, ResultFits, ResultInStep, Round!VerdictIsTrue,
             Round!RefSurvivesKernel, Round!AnchorIsWhole, Round!Cases
<1> QED BY <1>1, <1>2, <1>3, <1>4, <1>5, <1>6, <1>7, <1>8, <1>9 DEF Round!Next

\* An evaluation is "ok" only when every case of the kernel matched and was
\* timed, by its own pass unless a pipeline was killed, and is blamed on the host
\* exactly when the reference failed; a kernel pass takes nothing from the ref
\* pass before it, and the fields of a stored anchor are of one measurement
\* (eval_assemble.py:95, eval_runner.py:5, baseline_anchor.py:152).  The parked
\* variables of the other parts are no concern of this one.
THEOREM EvaluationsAreTrue == Spec => []EvaluationIsTrue
<1> DEFINE I == part = "round" => RoundInv
<1>1. Init => I
  BY JudgingAssumption, RoundInit DEF Init
<1>2. I /\ [Next]_vars => I'
  <2> SUFFICES ASSUME RoundInv, [Next]_vars, part = "round" PROVE [Round!Next]_roundVars
    BY RoundStep DEF Next, vars
  <2> QED BY DEF Next, vars, JudgeKernel, JudgeAgent, kernelVars
<1>3. I => EvaluationIsTrue
  BY DEF RoundInv, EvaluationIsTrue
<1> QED BY <1>1, <1>2, <1>3, PTL DEF Spec

-----------------------------------------------------------------------------
(* The generation of a candidate *)

Files == Contents \cup {Answer!Marker, Answer!Stable}

\* The sources of a project, with the fixed files of the scaffold.
Bundles == {b \in [Logic \cup Fixed -> Files] : \A p \in Fixed : b[p] = Answer!Stable}
Marked(b) == \E p \in Logic \cup Fixed : b[p].code = 0
Ready == {b \in Bundles : ~Marked(b)}

AnswerTypes ==
  /\ tree \in Bundles /\ from \in Bundles
  /\ kept \in Ready \cup {Answer!NoBundle} /\ cand \in Ready \cup {Answer!NoBundle}
  /\ count.kills \in Nat
  /\ Answer!Scaffold \in whole

Restoring(next) == step = "restore" /\ then = next

\* What the directory holds at each step, and what is to come of it.
DirectoryInStep ==
  /\ step \in {"call", "restore", "checkpoint", "compare", "down"}
  /\ step = "restore" => target \in Bundles /\ then \in {"checkpoint", "compare", "call", "down"}
  /\ step = "call" => tree = from /\ cand = Answer!NoBundle
  /\ step = "checkpoint" => tree = target /\ target \in Ready /\ cand = Answer!NoBundle
  /\ step = "compare" => tree = cand /\ cand \in Ready
  /\ Restoring("checkpoint") =>
       /\ target \in Ready /\ cand = Answer!NoBundle
       /\ \A p \in Logic : tree[p] \in {from[p], target[p]}
  /\ Restoring("compare") => target = cand /\ cand \in Ready
  /\ Restoring("call") => target = from /\ cand = Answer!NoBundle
  /\ Restoring("down") => target = from /\ (cand = Answer!NoBundle => tree = from)

\* The base was once completely in the directory, or has a marker left that asks
\* for an answer of every file.  Before the first candidate is kept it is the
\* scaffold, until a death leaves something else.
BaseIsKnown ==
  /\ from \in whole \/ Marked(from)
  /\ cand # Answer!NoBundle => cand \in whole
  /\ kept # Answer!NoBundle => from = kept
  /\ kept = Answer!NoBundle /\ count.kills = 0 => from = Answer!Scaffold
  /\ step = "checkpoint" \/ (Restoring("checkpoint") /\ tree = target) => target \in whole

\* A directory that will be taken as it is found is known in the same sense.
FoundIsKnown ==
  kept = Answer!NoBundle /\ cand = Answer!NoBundle =>
    /\ step = "down" => tree \in whole \/ Marked(tree)
    /\ count.kills = 0 /\ (step = "down" \/ Restoring("call")) => tree = from

DirectoryInv == AnswerTypes /\ DirectoryInStep
KnownInv == BaseIsKnown /\ FoundIsKnown /\ Answer!NeverMixed

LEMMA MarkedIsMarker ==
  ASSUME NEW b \in Bundles
  PROVE  /\ Answer!HasMarker(b) <=> Marked(b)
         /\ Answer!ValidateInitialBundle(b) <=> ~Marked(b)
BY DEF Bundles, Marked, Answer!HasMarker, Answer!ValidateInitialBundle

\* Every logic file of the scaffold has its marker.
LEMMA ScaffoldMarked ==
  ASSUME JudgingAssumption
  PROVE  /\ Answer!Scaffold \in Bundles
         /\ \A p \in Logic : Answer!Scaffold[p].code = 0
         /\ Marked(Answer!Scaffold)
BY DEF JudgingAssumption, Answer!Scaffold, Answer!Marker, Answer!Stable, Bundles, Files, Marked

LEMMA NoBundleIsNone ==
  ASSUME JudgingAssumption
  PROVE  Answer!NoBundle \notin Bundles
<1>1. DOMAIN Answer!NoBundle = {}
  BY DEF Answer!NoBundle
<1>2. \A b \in Bundles : DOMAIN b = Logic \cup Fixed
  BY DEF Bundles
<1> QED BY <1>1, <1>2 DEF JudgingAssumption

LEMMA AnswerInit ==
  ASSUME JudgingAssumption
  PROVE  Answer!Init => DirectoryInv /\ KnownInv
<1> SUFFICES ASSUME Answer!Init PROVE DirectoryInv /\ KnownInv
  OBVIOUS
<1> USE ScaffoldMarked, NoBundleIsNone DEF Answer!Init
<1>1. AnswerTypes
  BY DEF AnswerTypes
<1>2. DirectoryInStep
  BY DEF DirectoryInStep, Restoring
<1>3. BaseIsKnown /\ FoundIsKnown /\ Answer!NeverMixed
  BY DEF BaseIsKnown, FoundIsKnown, Restoring, Answer!NeverMixed
<1> QED BY <1>1, <1>2, <1>3 DEF DirectoryInv, KnownInv

\* An accepted answer makes the base a complete project: it deletes nothing, and
\* what it does not write stays.
LEMMA MergedIsReady ==
  ASSUME JudgingAssumption, NEW b \in Bundles, NEW a \in Answer!Answers, Answer!Accepted(b, a)
  PROVE  /\ Answer!Merged(b, a) \in Ready
         /\ DOMAIN a.files \subseteq Logic
         /\ \A p \in Logic : p \in DOMAIN a.files \/ Answer!Merged(b, a)[p] = b[p]
         /\ Marked(b) => DOMAIN a.files = Logic
<1> DEFINE m == Answer!Merged(b, a)
<1>1. /\ DOMAIN a.files \subseteq Logic
      /\ Answer!ValidateInitialBundle(m)
      /\ Marked(b) => DOMAIN a.files = Logic
  BY MarkedIsMarker DEF Answer!Accepted, Answer!ParseFileBundle, Answer!ValidateLogicBundle
<1>2. a.files \in [DOMAIN a.files -> Contents]
  BY DEF Answer!Answers
<1>3. DOMAIN b = Logic \cup Fixed
  BY DEF Bundles
<1>4. /\ DOMAIN m = Logic \cup Fixed
      /\ m = [p \in (DOMAIN b \ a.delete) \cup DOMAIN a.files |->
                IF p \in DOMAIN a.files THEN a.files[p] ELSE b[p]]
  BY <1>1 DEF Answer!ValidateInitialBundle, Answer!Merged
<1>5. \A p \in Logic \cup Fixed :
        m[p] = IF p \in DOMAIN a.files THEN a.files[p] ELSE b[p]
  BY <1>4
<1>6. m \in [Logic \cup Fixed -> Files]
  <2>1. \A p \in Logic \cup Fixed : m[p] \in Files
    BY <1>2, <1>5 DEF Files, Bundles
  <2> QED BY <1>4, <2>1
<1>7. \A p \in Fixed : m[p] = Answer!Stable
  BY <1>1, <1>5 DEF Bundles, JudgingAssumption
<1>8. m \in Bundles
  BY <1>6, <1>7 DEF Bundles
<1> QED BY <1>1, <1>5, <1>8, MarkedIsMarker DEF Ready

\* Each kind of step; a bundle is restored file by file.
LEMMA DirectoryStep ==
  ASSUME JudgingAssumption
  PROVE  DirectoryInv /\ [Answer!Next]_answerVars => DirectoryInv'
<1> SUFFICES ASSUME DirectoryInv, [Answer!Next]_answerVars
             PROVE  DirectoryInv'
  OBVIOUS
<1> USE NoBundleIsNone DEF DirectoryInv
<1>1. CASE Answer!TransportFails \/ Answer!AnswerLost \/ Answer!AnswerTruncated
  <2>1. /\ step = "call" /\ step' \in {"call", "down"}
        /\ UNCHANGED <<tree, kept, from, cand, target, then, whole, count>>
    BY <1>1 DEF Answer!TransportFails, Answer!AnswerLost, Answer!AnswerTruncated, Answer!Pause
  <2> QED BY <2>1 DEF AnswerTypes, DirectoryInStep, Restoring
<1>2. CASE Answer!AnswerMerged
  <2>1. PICK a \in Answer!Answers :
          /\ Answer!Accepted(from, a)
          /\ target' = Answer!Merged(from, a) /\ then' = "checkpoint" /\ step' = "restore"
    BY <1>2 DEF Answer!AnswerMerged, Answer!Restore
  <2>2. /\ step = "call" /\ count' = [count EXCEPT !.answers = @ + 1]
        /\ UNCHANGED <<tree, kept, from, cand, whole>>
    BY <1>2 DEF Answer!AnswerMerged
  <2>3. target' \in Ready
    BY <2>1, MergedIsReady DEF AnswerTypes
  <2> QED BY <2>1, <2>2, <2>3 DEF AnswerTypes, DirectoryInStep, Restoring, Ready
<1>3. CASE Answer!AnswerRejected
  <2>1. /\ step = "call" /\ target' = from /\ then' = "down" /\ step' = "restore"
        /\ UNCHANGED <<tree, kept, from, cand, whole, count>>
    BY <1>3 DEF Answer!AnswerRejected, Answer!Restore
  <2> QED BY <2>1 DEF AnswerTypes, DirectoryInStep, Restoring
<1>4. CASE Answer!WriteFile
  <2>1. PICK p \in DOMAIN target : tree[p] # target[p] /\ tree' = [tree EXCEPT ![p] = target[p]]
    BY <1>4 DEF Answer!WriteFile
  <2>2. /\ step = "restore" /\ Answer!Scaffold \in whole'
        /\ UNCHANGED <<kept, from, cand, target, then, step, count>>
    BY <1>4 DEF Answer!WriteFile, AnswerTypes
  <2>3. target \in Bundles /\ p \in Logic \cup Fixed
    BY <2>1, <2>2 DEF DirectoryInStep, Bundles
  <2>4. tree' \in Bundles
    BY <2>1, <2>3 DEF AnswerTypes, Bundles
  <2>5. Restoring("checkpoint") => \A q \in Logic : tree'[q] \in {from[q], target[q]}
    BY <2>1, <2>3 DEF AnswerTypes, DirectoryInStep, Bundles
  <2>6. Restoring("down") => tree # from
    BY <2>1, <2>2 DEF DirectoryInStep
  <2> QED BY <2>2, <2>4, <2>5, <2>6 DEF AnswerTypes, DirectoryInStep, Restoring
<1>5. CASE Answer!Restored
  <2>1. /\ step = "restore" /\ tree = target /\ step' = then
        /\ UNCHANGED <<tree, kept, from, cand, target, then, whole, count>>
    BY <1>5 DEF Answer!Restored
  <2> QED BY <2>1 DEF AnswerTypes, DirectoryInStep, Restoring
<1>6. CASE Answer!Checkpoint
  <2>1. /\ step = "checkpoint" /\ cand' = tree /\ step' = "compare"
        /\ UNCHANGED <<tree, kept, from, target, then, whole, count>>
    BY <1>6 DEF Answer!Checkpoint
  <2> QED BY <2>1 DEF AnswerTypes, DirectoryInStep, Restoring
<1>7. CASE Answer!NoOp \/ Answer!RollBack
  <2>1. /\ step = "compare" /\ target' = from /\ then' = "call" /\ step' = "restore"
        /\ cand' = Answer!NoBundle
        /\ UNCHANGED <<tree, kept, from, whole, count>>
    BY <1>7 DEF Answer!NoOp, Answer!RollBack, Answer!Evaluates, Answer!Restore
  <2> QED BY <2>1 DEF AnswerTypes, DirectoryInStep, Restoring
<1>8. CASE Answer!Keep
  <2>1. /\ step = "compare" /\ kept' = cand /\ from' = cand /\ cand' = Answer!NoBundle
        /\ step' = "call" /\ UNCHANGED <<tree, target, then, whole, count>>
    BY <1>8 DEF Answer!Keep, Answer!Evaluates
  <2> QED BY <2>1 DEF AnswerTypes, DirectoryInStep, Restoring, Ready
<1>9. CASE Answer!EvaluatorFails
  <2>1. /\ step = "compare" /\ target' = from /\ then' = "down" /\ step' = "restore"
        /\ UNCHANGED <<tree, kept, from, cand, whole, count>>
    BY <1>9 DEF Answer!EvaluatorFails, Answer!Evaluates, Answer!Restore
  <2>2. cand # Answer!NoBundle
    BY <2>1 DEF DirectoryInStep, Ready
  <2> QED BY <2>1, <2>2 DEF AnswerTypes, DirectoryInStep, Restoring
<1>10. CASE Answer!Die
  <2>1. /\ step' = "down" /\ count'.kills \in Nat
        /\ UNCHANGED <<tree, kept, from, cand, target, then, whole>>
    BY <1>10 DEF Answer!Die, AnswerTypes
  <2> QED BY <2>1 DEF AnswerTypes, DirectoryInStep, Restoring
<1>11. CASE Answer!Resume
  <2>1. /\ step = "down" /\ step' = "restore" /\ count'.kills = count.kills
        /\ UNCHANGED <<tree, kept, cand, whole>>
        /\ IF cand # Answer!NoBundle
           THEN target' = cand /\ then' = "compare" /\ from' = from
           ELSE /\ target' = Answer!ResumeBase /\ then' = "call"
                /\ from' = Answer!ResumeBase
    BY <1>11 DEF Answer!Resume, Answer!Restore
  <2>2. Answer!ResumeBase \in Bundles
    BY DEF Answer!ResumeBase, AnswerTypes, Ready
  <2> QED BY <2>1, <2>2 DEF AnswerTypes, DirectoryInStep, Restoring, Ready
<1>12. CASE UNCHANGED answerVars
  BY <1>12 DEF answerVars, AnswerTypes, DirectoryInStep, Restoring
<1> QED BY <1>1, <1>2, <1>3, <1>4, <1>5, <1>6, <1>7, <1>8, <1>9, <1>10, <1>11, <1>12
        DEF Answer!Next

\* Before a candidate was kept and without a death, the base is the scaffold, and
\* no answer that is accepted leaves its code as it is.
LEMMA FirstCandidateDiffers ==
  ASSUME JudgingAssumption, DirectoryInv, KnownInv, step = "compare",
         kept = Answer!NoBundle, count.kills = 0
  PROVE  Answer!SemanticBundleHash(cand) # Answer!SemanticBundleHash(from)
<1>1. from = Answer!Scaffold /\ cand \in Ready
  BY DEF KnownInv, BaseIsKnown, DirectoryInv, DirectoryInStep
<1>2. PICK p \in Logic : TRUE
  BY DEF JudgingAssumption
<1>3. /\ Answer!SemanticBundleHash(cand)[p] = cand[p].code
      /\ Answer!SemanticBundleHash(from)[p] = from[p].code
  BY <1>1, ScaffoldMarked DEF Answer!SemanticBundleHash, Ready, Bundles
<1>4. cand[p].code # from[p].code
  BY <1>1, ScaffoldMarked DEF Ready, Marked
<1> QED BY <1>3, <1>4

\* A death while the first candidate is written leaves a marker, or all of it.
LEMMA TornIsKnown ==
  ASSUME JudgingAssumption, DirectoryInv, KnownInv, Restoring("checkpoint"),
         kept = Answer!NoBundle, count.kills = 0
  PROVE  tree \in whole \/ Marked(tree)
<1> SUFFICES ASSUME ~Marked(tree) PROVE tree \in whole
  OBVIOUS
<1>1. from = Answer!Scaffold
  BY DEF KnownInv, BaseIsKnown
<1>2. /\ tree \in Bundles /\ target \in Bundles
      /\ \A p \in Logic : tree[p] \in {from[p], target[p]}
  BY DEF DirectoryInv, AnswerTypes, DirectoryInStep, Ready
<1>3. \A p \in Logic : tree[p] = target[p]
  BY <1>1, <1>2, ScaffoldMarked DEF Marked
<1>4. tree = target
  BY <1>2, <1>3 DEF Bundles
<1> QED BY <1>4 DEF KnownInv, BaseIsKnown

\* The inductive step, over one death anywhere.
LEMMA KnownStep ==
  ASSUME JudgingAssumption, MaxKills <= 1
  PROVE  DirectoryInv /\ KnownInv /\ [Answer!Next]_answerVars => KnownInv'
<1> SUFFICES ASSUME DirectoryInv, KnownInv, [Answer!Next]_answerVars
             PROVE  KnownInv'
  OBVIOUS
<1> USE NoBundleIsNone
<1>1. CASE Answer!TransportFails \/ Answer!AnswerLost \/ Answer!AnswerTruncated
  <2>1. /\ step = "call" /\ step' \in {"call", "down"}
        /\ UNCHANGED <<tree, kept, from, cand, target, then, wrote, whole, count>>
    BY <1>1 DEF Answer!TransportFails, Answer!AnswerLost, Answer!AnswerTruncated, Answer!Pause
  <2>2. tree = from
    BY <2>1 DEF DirectoryInv, DirectoryInStep
  <2> QED BY <2>1, <2>2 DEF KnownInv, BaseIsKnown, FoundIsKnown, Answer!NeverMixed, Restoring, Marked
<1>2. CASE Answer!AnswerMerged
  <2>1. PICK a \in Answer!Answers :
          /\ Answer!Accepted(from, a) /\ wrote' = DOMAIN a.files
          /\ target' = Answer!Merged(from, a) /\ then' = "checkpoint" /\ step' = "restore"
    BY <1>2 DEF Answer!AnswerMerged, Answer!Restore
  <2>2. /\ step = "call" /\ count'.kills = count.kills
        /\ UNCHANGED <<tree, kept, from, cand, whole>>
    BY <1>2 DEF Answer!AnswerMerged, DirectoryInv, AnswerTypes
  <2>3. from \in Bundles /\ tree = from /\ cand = Answer!NoBundle
    BY <2>2 DEF DirectoryInv, AnswerTypes, DirectoryInStep
  <2>4. /\ target' \in Ready
        /\ \A p \in Logic : p \in wrote' \/ target'[p] = from[p]
        /\ Marked(from) => wrote' = Logic
    BY <2>1, <2>3, MergedIsReady
  <2>5. Answer!NeverMixed'
    <3>1. CASE from \in whole
      BY <2>2, <2>4, <3>1 DEF Answer!NeverMixed
    <3>2. CASE Marked(from)
      <4>1. Logic \ wrote' = {} /\ Answer!Scaffold \in whole'
        BY <2>2, <2>4, <3>2 DEF DirectoryInv, AnswerTypes
      <4> QED BY <4>1 DEF Answer!NeverMixed
    <3> QED BY <3>1, <3>2 DEF KnownInv, BaseIsKnown
  <2>6. tree' = target' => target' \in whole'
    BY <2>2, <2>3, <2>4 DEF KnownInv, BaseIsKnown, Ready
  <2>7. BaseIsKnown'
    BY <2>1, <2>2, <2>6 DEF KnownInv, BaseIsKnown, Restoring, Marked
  <2>8. FoundIsKnown'
    BY <2>1 DEF FoundIsKnown, Restoring
  <2> QED BY <2>5, <2>7, <2>8 DEF KnownInv
<1>3. CASE Answer!AnswerRejected
  <2>1. /\ step = "call" /\ then' = "down" /\ step' = "restore"
        /\ UNCHANGED <<tree, kept, from, cand, wrote, whole, count>>
    BY <1>3 DEF Answer!AnswerRejected, Answer!Restore
  <2> QED BY <2>1 DEF KnownInv, BaseIsKnown, FoundIsKnown, Answer!NeverMixed, Restoring, Marked
<1>4. CASE Answer!WriteFile
  <2>1. /\ step = "restore" /\ tree # target
        /\ whole \subseteq whole'
        /\ tree' = target /\ then = "checkpoint" => target \in whole'
        /\ UNCHANGED <<kept, from, cand, target, then, step, wrote, count>>
    BY <1>4 DEF Answer!WriteFile
  <2>2. BaseIsKnown'
    BY <2>1 DEF KnownInv, BaseIsKnown, Restoring, Marked
  <2>3. Restoring("call") => target = from
    BY <2>1 DEF DirectoryInv, DirectoryInStep
  <2>4. FoundIsKnown'
    BY <2>1, <2>3 DEF KnownInv, FoundIsKnown, Restoring
  <2>5. Answer!NeverMixed'
    BY <2>1 DEF KnownInv, Answer!NeverMixed
  <2> QED BY <2>2, <2>4, <2>5 DEF KnownInv
<1>5. CASE Answer!Restored
  <2>1. /\ step = "restore" /\ tree = target /\ step' = then
        /\ UNCHANGED <<tree, kept, from, cand, target, then, wrote, whole, count>>
    BY <1>5 DEF Answer!Restored
  <2>2. /\ then \in {"checkpoint", "compare", "call", "down"}
        /\ then = "down" => tree = from
    BY <2>1 DEF DirectoryInv, DirectoryInStep, Restoring
  <2>3. BaseIsKnown'
    BY <2>1, <2>2 DEF KnownInv, BaseIsKnown, Restoring, Marked
  <2>4. FoundIsKnown'
    BY <2>1, <2>2 DEF KnownInv, BaseIsKnown, FoundIsKnown, Restoring, Marked
  <2>5. Answer!NeverMixed'
    BY <2>1, <2>2 DEF Answer!NeverMixed
  <2> QED BY <2>3, <2>4, <2>5 DEF KnownInv
<1>6. CASE Answer!Checkpoint
  <2>1. /\ step = "checkpoint" /\ cand' = tree /\ step' = "compare"
        /\ UNCHANGED <<tree, kept, from, target, then, wrote, whole, count>>
    BY <1>6 DEF Answer!Checkpoint
  <2>2. tree \in whole /\ tree # Answer!NoBundle
    BY <2>1 DEF DirectoryInv, DirectoryInStep, AnswerTypes, KnownInv, BaseIsKnown
  <2> QED BY <2>1, <2>2 DEF KnownInv, BaseIsKnown, FoundIsKnown, Answer!NeverMixed, Restoring, Marked
<1>7. CASE Answer!NoOp \/ Answer!RollBack
  <2>1. /\ step = "compare" /\ target' = from /\ then' = "call" /\ step' = "restore"
        /\ cand' = Answer!NoBundle
        /\ UNCHANGED <<tree, kept, from, wrote, whole, count>>
    BY <1>7 DEF Answer!NoOp, Answer!RollBack, Answer!Evaluates, Answer!Restore
  <2>2. kept # Answer!NoBundle \/ count.kills # 0
    BY <1>7, <2>1, FirstCandidateDiffers DEF Answer!NoOp, Answer!RollBack
  <2> QED BY <2>1, <2>2 DEF KnownInv, BaseIsKnown, FoundIsKnown, Answer!NeverMixed, Restoring, Marked
<1>8. CASE Answer!Keep
  <2>1. /\ step = "compare" /\ kept' = cand /\ from' = cand /\ cand' = Answer!NoBundle
        /\ step' = "call" /\ UNCHANGED <<tree, target, then, wrote, whole, count>>
    BY <1>8 DEF Answer!Keep, Answer!Evaluates
  <2>2. cand \in whole /\ cand # Answer!NoBundle
    BY <2>1 DEF DirectoryInv, DirectoryInStep, Ready, KnownInv, BaseIsKnown
  <2> QED BY <2>1, <2>2 DEF KnownInv, BaseIsKnown, FoundIsKnown, Answer!NeverMixed, Restoring, Marked
<1>9. CASE Answer!EvaluatorFails
  <2>1. /\ step = "compare" /\ then' = "down" /\ step' = "restore"
        /\ UNCHANGED <<tree, kept, from, cand, wrote, whole, count>>
    BY <1>9 DEF Answer!EvaluatorFails, Answer!Evaluates, Answer!Restore
  <2> QED BY <2>1 DEF KnownInv, BaseIsKnown, FoundIsKnown, Answer!NeverMixed, Restoring, Marked
<1>10. CASE Answer!Die
  <2>1. /\ step # "down" /\ step' = "down" /\ count.kills = 0 /\ count'.kills = 1
        /\ UNCHANGED <<tree, kept, from, cand, target, then, wrote, whole>>
    BY <1>10 DEF Answer!Die, DirectoryInv, AnswerTypes, JudgingAssumption
  <2>2. BaseIsKnown'
    BY <2>1 DEF KnownInv, BaseIsKnown, Restoring, Marked
  <2>3. ASSUME kept = Answer!NoBundle, cand = Answer!NoBundle
        PROVE  tree \in whole \/ Marked(tree)
    <3>1. CASE step \in {"call", "compare"}
      BY <2>3, <3>1 DEF DirectoryInv, DirectoryInStep, Ready, KnownInv, BaseIsKnown
    <3>2. CASE step = "checkpoint"
      BY <3>2 DEF DirectoryInv, DirectoryInStep, KnownInv, BaseIsKnown
    <3>3. CASE Restoring("checkpoint")
      BY <2>1, <2>3, <3>3, TornIsKnown
    <3>4. CASE Restoring("compare")
      BY <2>3, <3>4 DEF DirectoryInv, DirectoryInStep, Ready
    <3>5. CASE Restoring("call") \/ Restoring("down")
      BY <2>1, <2>3, <3>5 DEF DirectoryInv, DirectoryInStep, KnownInv, BaseIsKnown, FoundIsKnown
    <3> QED BY <2>1, <3>1, <3>2, <3>3, <3>4, <3>5 DEF DirectoryInv, DirectoryInStep, Restoring
  <2>4. FoundIsKnown'
    BY <2>1, <2>3 DEF FoundIsKnown, Marked
  <2>5. Answer!NeverMixed'
    BY <2>1 DEF Answer!NeverMixed
  <2> QED BY <2>2, <2>4, <2>5 DEF KnownInv
<1>11. CASE Answer!Resume
  <2>1. /\ step = "down" /\ step' = "restore" /\ count'.kills = count.kills
        /\ UNCHANGED <<tree, kept, cand, wrote, whole>>
        /\ IF cand # Answer!NoBundle
           THEN target' = cand /\ then' = "compare" /\ from' = from
           ELSE /\ target' = Answer!ResumeBase /\ then' = "call"
                /\ from' = Answer!ResumeBase
    BY <1>11 DEF Answer!Resume, Answer!Restore, DirectoryInv, AnswerTypes
  <2>2. ASSUME cand = Answer!NoBundle
        PROVE  /\ from' \in whole \/ Marked(from')
               /\ kept # Answer!NoBundle => from' = kept
               /\ kept = Answer!NoBundle =>
                    from' = tree /\ (count.kills = 0 => from' = Answer!Scaffold)
    BY <2>1, <2>2 DEF KnownInv, BaseIsKnown, FoundIsKnown, Answer!ResumeBase
  <2>3. BaseIsKnown'
    BY <2>1, <2>2 DEF KnownInv, BaseIsKnown, Restoring, Marked
  <2>4. FoundIsKnown'
    BY <2>1, <2>2 DEF FoundIsKnown, Restoring
  <2>5. Answer!NeverMixed'
    BY <2>1 DEF Answer!NeverMixed
  <2> QED BY <2>3, <2>4, <2>5 DEF KnownInv
<1>12. CASE UNCHANGED answerVars
  BY <1>12 DEF answerVars, KnownInv, BaseIsKnown, FoundIsKnown, Answer!NeverMixed, Restoring, Marked
<1> QED BY <1>1, <1>2, <1>3, <1>4, <1>5, <1>6, <1>7, <1>8, <1>9, <1>10, <1>11, <1>12
        DEF Answer!Next

\* What is compared with its base and evaluated is always a complete project
\* without markers and with the scaffold's fixed files, and it is what the task
\* directory holds, whatever was answered before and whenever the process died
\* (runner.py _prepare_candidate, bundle.py restore_bundle).
THEOREM JudgedCandidatesAreWhole ==
  Spec => [](part = "answer" => Answer!JudgedIsWhole)
<1> DEFINE I == part = "answer" => DirectoryInv
<1>1. Init => I
  BY JudgingAssumption, AnswerInit DEF Init
<1>2. I /\ [Next]_vars => I'
  <2> SUFFICES ASSUME DirectoryInv, [Next]_vars, part = "answer" PROVE [Answer!Next]_answerVars
    BY JudgingAssumption, DirectoryStep DEF Next, vars
  <2> QED BY DEF Next, vars, JudgeKernel, JudgeAgent, agentVars
<1>3. I => (part = "answer" => Answer!JudgedIsWhole)
  <2>1. \A p \in Fixed : Answer!Scaffold[p] = Answer!Stable
    BY JudgingAssumption DEF JudgingAssumption, Answer!Scaffold
  <2> QED BY <2>1, MarkedIsMarker DEF DirectoryInv, DirectoryInStep, Ready, Bundles, Answer!JudgedIsWhole
<1> QED BY <1>1, <1>2, <1>3, PTL DEF Spec

\* Over at most one death, nothing that is written to the directory as a
\* candidate mixes two bundles: what the answer did not write comes from one
\* bundle that was once completely there (bundle.py:157, runner.py:1140).  The
\* bound on the deaths is the code's, not the proof's: two of them before the
\* first candidate is kept can leave a directory that was never whole.
THEOREM CandidatesAreWhole ==
  ASSUME MaxKills <= 1
  PROVE  Spec => []CandidateIsWhole
<1> DEFINE I == part = "answer" => DirectoryInv /\ KnownInv
<1>1. Init => I
  BY JudgingAssumption, AnswerInit DEF Init
<1>2. I /\ [Next]_vars => I'
  <2> SUFFICES ASSUME DirectoryInv, KnownInv, [Next]_vars, part = "answer"
               PROVE  [Answer!Next]_answerVars
    BY JudgingAssumption, DirectoryStep, KnownStep DEF Next, vars
  <2> QED BY DEF Next, vars, JudgeKernel, JudgeAgent, agentVars
<1>3. I => (part = "answer" => Answer!NeverMixed)
  BY DEF KnownInv
<1>4. Spec => [](part = "answer" => Answer!NeverMixed)
  BY <1>1, <1>2, <1>3, PTL DEF Spec
<1>5. (part = "answer" => Answer!JudgedIsWhole) /\ (part = "answer" => Answer!NeverMixed)
        => CandidateIsWhole
  BY DEF CandidateIsWhole
<1> QED BY JudgedCandidatesAreWhole, <1>4, <1>5, PTL

-----------------------------------------------------------------------------
(* The profiles of a case file *)

LEMMA NatMin ==
  ASSUME NEW T \in SUBSET Nat, T # {}
  PROVE  \E m \in T : \A n \in T : m <= n
<1>1. PICK m \in T : \A n \in T : ~(<<n, m>> \in OpToRel(<, Nat))
  BY NatLessThanWellFounded, WFMin, Zenon
<1>2. \A n \in T : ~(n < m)
  BY <1>1 DEF OpToRel
<1> QED BY <1>2

\* The cases whose i-th component is least.
Best(R, key, i) == {c \in R : \A d \in R : key[c][i] <= key[d][i]}

LEMMA BestIsThere ==
  ASSUME NEW R, R # {}, NEW key, NEW i, \A c \in R : key[c][i] \in Nat
  PROVE  /\ Best(R, key, i) \subseteq R /\ Best(R, key, i) # {}
         /\ \A c \in Best(R, key, i), d \in R :
              key[c][i] < key[d][i] \/ (key[c][i] = key[d][i] /\ d \in Best(R, key, i))
<1> DEFINE T == {key[c][i] : c \in R}
<1>1. PICK m \in T : \A n \in T : m <= n
  <2>1. T \in SUBSET Nat /\ T # {}
    OBVIOUS
  <2> QED BY <2>1, NatMin
<1>2. PICK c \in R : m = key[c][i]
  OBVIOUS
<1>3. c \in Best(R, key, i)
  BY <1>1, <1>2 DEF Best
<1> QED BY <1>3 DEF Best

\* The least case by its key, a tuple that ends with the case itself, exists.
LEMMA LeastIsThere ==
  ASSUME NEW S, S # {}, NEW key, NEW n \in {2, 3, 5},
         \A c \in S : Len(key[c]) = n /\ key[c][n] = c,
         \A c \in S : \A i \in 1..n : key[c][i] \in Nat
  PROVE  Turn!Least(S, key) \in S
<1> DEFINE R1 == Best(S, key, 1)
           R2 == Best(R1, key, 2)
           R3 == IF n < 3 THEN R2 ELSE Best(R2, key, 3)
           R4 == IF n < 5 THEN R3 ELSE Best(R3, key, 4)
           R5 == IF n < 5 THEN R4 ELSE Best(R4, key, 5)
<1>0. /\ \A c \in S : key[c][1] \in Nat
      /\ \A c \in S : key[c][2] \in Nat
      /\ n >= 3 => \A c \in S : key[c][3] \in Nat
      /\ n = 5 => (\A c \in S : key[c][4] \in Nat) /\ (\A c \in S : key[c][5] \in Nat)
  <2>1. 1 \in 1..n /\ 2 \in 1..n /\ (n >= 3 => 3 \in 1..n) /\ (n = 5 => 4 \in 1..n /\ 5 \in 1..n)
    OBVIOUS
  <2> QED BY <2>1
<1>1. R1 \subseteq S /\ R1 # {} /\ \A c \in R1, d \in S :
        key[c][1] < key[d][1] \/ (key[c][1] = key[d][1] /\ d \in R1)
  BY <1>0, BestIsThere
<1> HIDE DEF R1
<1>2. R2 \subseteq R1 /\ R2 # {} /\ \A c \in R2, d \in R1 :
        key[c][2] < key[d][2] \/ (key[c][2] = key[d][2] /\ d \in R2)
  BY <1>0, <1>1, BestIsThere
<1> HIDE DEF R2
<1>3. R3 \subseteq R2 /\ R3 # {} /\ (n >= 3 => \A c \in R3, d \in R2 :
        key[c][3] < key[d][3] \/ (key[c][3] = key[d][3] /\ d \in R3))
  BY <1>0, <1>1, <1>2, BestIsThere
<1> HIDE DEF R3
<1>4. R4 \subseteq R3 /\ R4 # {} /\ (n = 5 => \A c \in R4, d \in R3 :
        key[c][4] < key[d][4] \/ (key[c][4] = key[d][4] /\ d \in R4))
  BY <1>0, <1>1, <1>2, <1>3, BestIsThere
<1> HIDE DEF R4
<1>5. R5 \subseteq R4 /\ R5 # {} /\ (n = 5 => \A c \in R5, d \in R4 :
        key[c][5] < key[d][5] \/ (key[c][5] = key[d][5] /\ d \in R5))
  BY <1>0, <1>1, <1>2, <1>3, <1>4, BestIsThere
<1> HIDE DEF R5
<1>6. PICK c \in R5 : TRUE
  BY <1>5
<1>7. c \in S /\ c \in R4 /\ c \in R3 /\ c \in R2 /\ c \in R1
  BY <1>1, <1>2, <1>3, <1>4, <1>5
<1>8. ASSUME NEW d \in S \ {c}
      PROVE  Turn!Precedes(key[c], key[d])
  <2>1. /\ Len(key[c]) = n /\ key[c][n] # key[d][n]
        /\ \A i \in 1..n : key[c][i] \in Nat /\ key[d][i] \in Nat
    BY <1>7, <1>8
  <2>2. SUFFICES \E i \in 1..n : key[c][i] < key[d][i] /\ \A j \in 1..(i - 1) : key[c][j] = key[d][j]
    BY <2>1 DEF Turn!Precedes
  <2>3. CASE key[c][1] < key[d][1]
    <3>1. 1 \in 1..n /\ \A j \in 1..(1 - 1) : key[c][j] = key[d][j]
      OBVIOUS
    <3> QED BY <2>3, <3>1
  <2>4. CASE d \in R1 /\ key[c][1] = key[d][1] /\ key[c][2] < key[d][2]
    <3>1. 2 \in 1..n /\ \A j \in 1..(2 - 1) : key[c][j] = key[d][j]
      BY <2>4
    <3> QED BY <2>4, <3>1
  <2>5. CASE n >= 3 /\ d \in R2 /\ key[c][1] = key[d][1] /\ key[c][2] = key[d][2] /\ key[c][3] < key[d][3]
    <3>1. 3 \in 1..n /\ \A j \in 1..(3 - 1) : j = 1 \/ j = 2
      BY <2>5
    <3> QED BY <2>5, <3>1
  <2>6. CASE /\ n = 5 /\ d \in R3 /\ key[c][1] = key[d][1] /\ key[c][2] = key[d][2]
             /\ key[c][3] = key[d][3] /\ key[c][4] < key[d][4]
    <3>1. 4 \in 1..n /\ \A j \in 1..(4 - 1) : j = 1 \/ j = 2 \/ j = 3
      BY <2>6
    <3> QED BY <2>6, <3>1
  <2>7. CASE /\ n = 5 /\ d \in R4 /\ key[c][1] = key[d][1] /\ key[c][2] = key[d][2]
             /\ key[c][3] = key[d][3] /\ key[c][4] = key[d][4] /\ key[c][5] < key[d][5]
    <3>1. 5 \in 1..n /\ \A j \in 1..(5 - 1) : j = 1 \/ j = 2 \/ j = 3 \/ j = 4
      BY <2>7
    <3> QED BY <2>7, <3>1
  <2>8. key[c][1] < key[d][1] \/ (d \in R1 /\ key[c][1] = key[d][1])
    BY <1>1, <1>7, <1>8
  <2>9. d \in R1 => key[c][2] < key[d][2] \/ (d \in R2 /\ key[c][2] = key[d][2])
    BY <1>2, <1>7
  <2>10. d \in R2 /\ n >= 3 => key[c][3] < key[d][3] \/ (d \in R3 /\ key[c][3] = key[d][3])
    BY <1>3, <1>7
  <2>11. d \in R3 /\ n = 5 => key[c][4] < key[d][4] \/ (d \in R4 /\ key[c][4] = key[d][4])
    BY <1>4, <1>7
  <2>12. d \in R4 /\ n = 5 => key[c][5] < key[d][5] \/ key[c][5] = key[d][5]
    BY <1>5, <1>6
  <2> QED BY <2>1, <2>3, <2>4, <2>5, <2>6, <2>7, <2>8, <2>9, <2>10, <2>11, <2>12
<1> QED BY <1>7, <1>8 DEF Turn!Least

LEMMA LeastOfTwo ==
  ASSUME NEW S, S # {}, NEW key,
         \A c \in S : Len(key[c]) = 2 /\ key[c][2] = c,
         \A c \in S : \A i \in 1..2 : key[c][i] \in Nat
  PROVE  Turn!Least(S, key) \in S
<1>1. 2 \in {2, 3, 5}
  OBVIOUS
<1> QED BY <1>1, LeastIsThere

LEMMA LeastOfThree ==
  ASSUME NEW S, S # {}, NEW key,
         \A c \in S : Len(key[c]) = 3 /\ key[c][3] = c,
         \A c \in S : \A i \in 1..3 : key[c][i] \in Nat
  PROVE  Turn!Least(S, key) \in S
<1>1. 3 \in {2, 3, 5}
  OBVIOUS
<1> QED BY <1>1, LeastIsThere

LEMMA LeastOfFive ==
  ASSUME NEW S, S # {}, NEW key,
         \A c \in S : Len(key[c]) = 5 /\ key[c][5] = c,
         \A c \in S : \A i \in 1..5 : key[c][i] \in Nat
  PROVE  Turn!Least(S, key) \in S
<1>1. 5 \in {2, 3, 5}
  OBVIOUS
<1> QED BY <1>1, LeastIsThere

Names == {"smoke", "shape", "dtype", "full"}

\* Each profile is of listed cases, at least one, and "full" is of them all.
ProfilesFit(profiles, listed) ==
  /\ DOMAIN profiles \subseteq 1..4 /\ 4 \in DOMAIN profiles
  /\ \A k \in DOMAIN profiles :
       /\ profiles[k].name \in Names /\ profiles[k].cases \subseteq 0..(listed - 1)
       /\ listed # 0 => profiles[k].cases # {}
  /\ profiles[4].cases = 0..(listed - 1)

LEMMA ProfilesOfTable ==
  ASSUME JudgingAssumption, NEW l \in Nat, NEW table \in [0..(l - 1) -> Facts]
  PROVE  ProfilesFit(Turn!Profiles(table), l)
<1>1. CASE l = 0
  <2>1. DOMAIN table = {} /\ 0..(l - 1) = {}
    BY <1>1
  <2>2. Turn!Profiles(table) = Turn!FullOnly
    BY <2>1 DEF Turn!Profiles
  <2>3. /\ DOMAIN Turn!FullOnly = {4}
        /\ Turn!FullOnly[4] = [name |-> "full", cases |-> {}]
    BY DEF Turn!FullOnly
  <2>4. {} = 0..(l - 1)
    BY <1>1
  <2> HIDE DEF Turn!FullOnly
  <2>5. \A k \in DOMAIN Turn!FullOnly :
          Turn!FullOnly[k].name = "full" /\ Turn!FullOnly[k].cases = {}
    <3>1. \A k \in DOMAIN Turn!FullOnly : k = 4
      BY <2>3
    <3>2. Turn!FullOnly[4].name = "full" /\ Turn!FullOnly[4].cases = {}
      BY <2>3
    <3> QED BY <3>1, <3>2
  <2>6. DOMAIN Turn!FullOnly \subseteq 1..4 /\ 4 \in DOMAIN Turn!FullOnly
    BY <2>3
  <2>7. ProfilesFit(Turn!FullOnly, l)
    BY <1>1, <2>3, <2>4, <2>5, <2>6 DEF ProfilesFit, Names
  <2> QED BY <2>2, <2>7
<1>2. CASE l # 0
  <2> DEFINE all == DOMAIN table
             Simple == [c \in all |-> <<table[c].dtype, Turn!Flag(table[c].broadcast),
                          Turn!Flag(table[c].numel < 32), Turn!Gap(table[c].numel, 128), c>>]
             canonical == Turn!Least(all, Simple)
             Size == [c \in all |-> <<table[c].numel, c>>]
             Plain == [c \in all |-> <<Turn!Flag(table[c].broadcast), table[c].numel, c>>]
             alike == {c \in all : table[c].dtype = table[canonical].dtype}
             Signature(c) == <<table[c].broadcast, Turn!Tail32(table[c])>>
             shape == {canonical} \cup {Turn!Least({d \in alike : Signature(d) = Signature(c)}, Size) : c \in alike}
             dtype == shape \cup {Turn!Least({d \in all : table[d].dtype = table[c].dtype}, Plain) : c \in all}
             raw == << [name |-> "smoke", cases |-> {canonical}], [name |-> "shape", cases |-> shape],
                       [name |-> "dtype", cases |-> dtype], [name |-> "full", cases |-> all] >>
  <2>1. all = 0..(l - 1) /\ all # {} /\ all \subseteq Nat
    <3>1. DOMAIN table = 0..(l - 1)
      OBVIOUS
    <3>2. 0 \in 0..(l - 1) /\ 0..(l - 1) \subseteq Nat
      BY <1>2
    <3>3. all = 0..(l - 1)
      BY <3>1, Zenon
    <3> HIDE DEF all
    <3> QED BY <3>2, <3>3
  <2>2. \A c \in all : table[c].dtype \in Nat /\ table[c].numel \in Nat
    BY DEF JudgingAssumption
  <2> HIDE DEF all
  <2>3. \A c \in all : /\ Len(Simple[c]) = 5 /\ Simple[c][5] = c
                       /\ \A i \in 1..5 : Simple[c][i] \in Nat
    <3> TAKE c \in all
    <3>1. \A b \in BOOLEAN : Turn!Flag(b) \in Nat
      BY DEF Turn!Flag
    <3>2. Turn!Gap(table[c].numel, 128) \in Nat
      <4>1. \A m \in Nat : Turn!Gap(m, 128) \in Nat
        BY DEF Turn!Gap
      <4>2. table[c].numel \in Nat
        BY <2>2, Zenon
      <4> QED BY <4>1, <4>2, Zenon
    <3>3. /\ Turn!Flag(table[c].broadcast) \in Nat
          /\ Turn!Flag(table[c].numel < 32) \in Nat
      BY <3>1, <2>1 DEF JudgingAssumption, Turn!Flag
    <3>4. c \in Nat /\ table[c].dtype \in Nat
      BY <2>1, <2>2
    <3>5. Simple[c] = <<table[c].dtype, Turn!Flag(table[c].broadcast),
                        Turn!Flag(table[c].numel < 32), Turn!Gap(table[c].numel, 128), c>>
      OBVIOUS
    <3> HIDE DEF Simple
    <3>6. /\ Simple[c][1] \in Nat /\ Simple[c][2] \in Nat /\ Simple[c][3] \in Nat
          /\ Simple[c][4] \in Nat /\ Simple[c][5] \in Nat
      BY <3>2, <3>3, <3>4, <3>5
    <3>7. \A i \in 1..5 : i = 1 \/ i = 2 \/ i = 3 \/ i = 4 \/ i = 5
      OBVIOUS
    <3>8. Len(Simple[c]) = 5 /\ Simple[c][5] = c
      BY <3>5
    <3>9. \A i \in 1..5 : Simple[c][i] \in Nat
      BY <3>6, <3>7
    <3> QED BY <3>8, <3>9
  <2>4. canonical \in all
    <3> HIDE DEF Simple
    <3>1. all # {}
      BY <2>1
    <3>2. \A c \in all : Len(Simple[c]) = 5 /\ Simple[c][5] = c
      BY <2>3
    <3>3. \A c \in all : \A i \in 1..5 : Simple[c][i] \in Nat
      BY <2>3
    <3>4. Turn!Least(all, Simple) \in all
      BY <3>1, <3>2, <3>3, LeastOfFive, Zenon
    <3> QED BY <3>4
  <2> HIDE DEF canonical, Simple
  <2>5. \A c \in all : /\ Len(Size[c]) = 2 /\ Size[c][2] = c
                       /\ \A i \in 1..2 : Size[c][i] \in Nat
    BY <2>1, <2>2
  <2>6. \A c \in all : /\ Len(Plain[c]) = 3 /\ Plain[c][3] = c
                       /\ \A i \in 1..3 : Plain[c][i] \in Nat
    BY <2>1, <2>2 DEF Turn!Flag
  <2> HIDE DEF Size, Plain
  <2>7. ASSUME NEW S \in SUBSET all, S # {}
        PROVE  Turn!Least(S, Size) \in S /\ Turn!Least(S, Plain) \in S
    <3>1. S # {} /\ \A c \in S : c \in all
      BY <2>7
    <3>2. \A c \in S : Len(Size[c]) = 2 /\ Size[c][2] = c
      BY <2>5, <3>1, Zenon
    <3>3. \A c \in S : \A i \in 1..2 : Size[c][i] \in Nat
      BY <2>5, <3>1, Zenon
    <3>4. \A c \in S : Len(Plain[c]) = 3 /\ Plain[c][3] = c
      BY <2>6, <3>1, Zenon
    <3>5. \A c \in S : \A i \in 1..3 : Plain[c][i] \in Nat
      BY <2>6, <3>1, Zenon
    <3>6. Turn!Least(S, Size) \in S
      BY <3>1, <3>2, <3>3, LeastOfTwo, Zenon
    <3>7. Turn!Least(S, Plain) \in S
      BY <3>1, <3>4, <3>5, LeastOfThree, Zenon
    <3> QED BY <3>6, <3>7
  <2>8. shape \subseteq all
    <3>1. ASSUME NEW c \in alike
          PROVE  Turn!Least({d \in alike : Signature(d) = Signature(c)}, Size) \in all
      <4>1. {d \in alike : Signature(d) = Signature(c)} \in SUBSET all
        OBVIOUS
      <4>2. c \in {d \in alike : Signature(d) = Signature(c)}
        BY <3>1
      <4> DEFINE T == {d \in alike : Signature(d) = Signature(c)}
      <4>3. T \in SUBSET all /\ T # {}
        BY <4>1, <4>2
      <4> HIDE DEF T
      <4>4. Turn!Least(T, Size) \in all
        BY <2>7, <4>3
      <4> QED BY <4>4 DEF T
    <3> DEFINE L(c) == Turn!Least({d \in alike : Signature(d) = Signature(c)}, Size)
    <3>2. \A c \in alike : L(c) \in all
      BY <3>1
    <3> HIDE DEF alike, L
    <3>3. {canonical} \cup {L(c) : c \in alike} \subseteq all
      BY <2>4, <3>2
    <3> QED BY <3>3 DEF L
  <2>9. canonical \in shape
    OBVIOUS
  <2> HIDE DEF shape
  <2>10. dtype \subseteq all /\ canonical \in dtype
    <3>1. ASSUME NEW c \in all
          PROVE  Turn!Least({d \in all : table[d].dtype = table[c].dtype}, Plain) \in all
      <4> DEFINE T == {d \in all : table[d].dtype = table[c].dtype}
      <4>1. T \in SUBSET all /\ T # {}
        BY <3>1
      <4> HIDE DEF T
      <4>2. Turn!Least(T, Plain) \in all
        BY <2>7, <4>1
      <4> QED BY <4>2 DEF T
    <3> QED BY <2>8, <2>9, <3>1
  <2> HIDE DEF dtype
  <2>11. /\ \A k \in 1..4 : /\ raw[k].name \in Names /\ raw[k].cases \subseteq all
                            /\ raw[k].cases # {}
         /\ raw[4].cases = all
    <3>1. \A k \in 1..4 : k = 1 \/ k = 2 \/ k = 3 \/ k = 4
      OBVIOUS
    <3>2. /\ raw[1].name = "smoke" /\ raw[1].cases = {canonical}
          /\ raw[2].name = "shape" /\ raw[2].cases = shape
          /\ raw[3].name = "dtype" /\ raw[3].cases = dtype
          /\ raw[4].name = "full" /\ raw[4].cases = all
      OBVIOUS
    <3> HIDE DEF raw
    <3>3. \A k \in 1..4 : raw[k].name \in Names
      BY <3>1, <3>2 DEF Names
    <3>4. \A k \in 1..4 : raw[k].cases \subseteq all /\ raw[k].cases # {}
      BY <3>1, <3>2, <2>1, <2>4, <2>8, <2>9, <2>10
    <3> QED BY <3>2, <3>3, <3>4
  <2>12. Turn!ProfileSets(table) = raw
    BY DEF Turn!ProfileSets, all, Simple, canonical, Size, Plain, shape, dtype
  <2> HIDE DEF raw
  <2> DEFINE keeps == {i \in 1..4 : i \in {1, 4} \/ raw[i].cases # raw[i - 1].cases}
  <2>13. Turn!Profiles(table) = [i \in keeps |-> raw[i]]
    BY <2>1, <2>12 DEF Turn!Profiles, all
  <2>14. keeps \subseteq 1..4 /\ 4 \in keeps
    OBVIOUS
  <2> HIDE DEF keeps
  <2> DEFINE pr == [i \in keeps |-> raw[i]]
  <2>15. DOMAIN pr = keeps /\ \A k \in keeps : pr[k] = raw[k]
    OBVIOUS
  <2> HIDE DEF pr
  <2>16. ProfilesFit(pr, l)
    BY <2>1, <2>11, <2>14, <2>15 DEF ProfilesFit
  <2> QED BY <2>13, <2>16 DEF pr
<1> QED BY <1>1, <1>2

-----------------------------------------------------------------------------
(* The evaluation of an AscendC candidate *)

Statuses == Turn!Final \cup {"started", "reference_passed", "candidate_started",
                             "candidate_returned", "error"}
Items == [index : Turn!AllCases(world), status : Statuses]
Reports == [results : Seq(Items), passed : SUBSET Nat, failedAt : Int]

\* The cases a correct candidate has to pass.
DueCases == IF world.listed = 0 THEN Turn!AllCases(world) ELSE 0..(world.listed - 1)

\* An item that says "passed" is right; one that does not is the candidate's
\* fault or the machine's.
Right(item) == item.status = "passed" => world.truth[item.index] = "ok"
Blamed(item) ==
  item.status = "passed" \/ world.truth[item.index] # "ok" \/ item.index \in hit

Truthful(report) ==
  /\ report \in Reports
  /\ \A i \in 1..Len(report.results) : Right(report.results[i])
  /\ \A c \in Nat : c \in report.passed <=>
       \E i \in 1..Len(report.results) :
         report.results[i].index = c /\ report.results[i].status = "passed"

Settled(report) == \A i \in 1..Len(report.results) : Blamed(report.results[i])

WorldInv ==
  /\ world.groups \in Nat \ {0} /\ world.listed \in Nat
  /\ ProfilesFit(world.profiles, world.listed)

\* A report left by whomever is settled; only the running verification's is not.
DiskInv ==
  /\ disk \in [Names -> Reports]
  /\ \A p \in Names :
       /\ Truthful(disk[p])
       /\ Settled(disk[p]) \/ (at = "case" /\ p = Turn!Profile.name)

\* The report of a running verification is its own: of its cases, each but the
\* last one finished.
CaseInv ==
  at = "case" =>
    LET results == Turn!Report.results
        n == Len(Turn!Report.results)
    IN /\ n > 0 /\ Turn!Selected(world, Turn!Profile) \subseteq Turn!AllCases(world)
       /\ \A i \in 1..n : /\ results[i].index \in Turn!Selected(world, Turn!Profile)
                          /\ i < n => results[i].status \in Turn!Final
                          /\ results[i].status \in Turn!Final => Blamed(results[i])
       /\ results[n].status \notin Turn!Final => Turn!Report.failedAt = results[n].index

\* What is accumulated is of cases that are due and passed, all of them at the end.
AccInv ==
  /\ acc \in [k : Nat, passed : SUBSET DueCases, results : Seq(Items)]
  /\ at \in {"load", "case"} => acc.k \in DOMAIN world.profiles
  /\ \A c \in acc.passed : world.truth[c] = "ok"
  /\ \A i \in 1..Len(acc.results) :
       acc.results[i].status = "passed" /\ Right(acc.results[i])
  /\ at \in {"benchmark", "profiling"} => acc.passed = DueCases

PerfInv == perf.status = "ok" => perf.measured = Turn!AllCases(world)

VerdictInv ==
  at = "done" =>
    /\ verdict.results \in Seq(Items)
    /\ \A i \in 1..Len(verdict.results) : Blamed(verdict.results[i])
    /\ verdict.compiled => verdict.stage \notin Turn!Validations
    /\ verdict.correct =>
         /\ verdict.compiled /\ verdict.passed = DueCases
         /\ \A c \in DueCases : world.truth[c] = "ok"
    /\ verdict.scored =>
         verdict.correct /\ perf.status = "ok" /\ perf.measured = verdict.passed
    /\ verdict.running # Turn!None => verdict.failedAt = verdict.running

TurnInv == WorldInv /\ DiskInv /\ CaseInv /\ AccInv /\ PerfInv /\ VerdictInv

LEMMA ConcatItems ==
  ASSUME NEW S, NEW s \in Seq(S), NEW t \in Seq(S)
  PROVE  /\ s \o t \in Seq(S)
         /\ \A i \in 1..Len(s \o t) : \/ \E j \in 1..Len(s) : (s \o t)[i] = s[j]
                                      \/ \E j \in 1..Len(t) : (s \o t)[i] = t[j]
<1>1. s \o t \in Seq(S) /\ Len(s \o t) = Len(s) + Len(t)
  OBVIOUS
<1>2. ASSUME NEW i \in 1..Len(s \o t), i > Len(s)
      PROVE  i - Len(s) \in 1..Len(t) /\ (s \o t)[i] = t[i - Len(s)]
  BY <1>1, <1>2
<1>3. ASSUME NEW i \in 1..Len(s \o t), i <= Len(s)
      PROVE  i \in 1..Len(s) /\ (s \o t)[i] = s[i]
  BY <1>1, <1>3
<1>4. \A i \in 1..Len(s \o t) : i > Len(s) \/ i <= Len(s)
  BY <1>1
<1> QED BY <1>1, <1>2, <1>3, <1>4

\* The reports of a verification, step by step.
LEMMA NoReportTruthful == Truthful(Turn!NoReport) /\ Settled(Turn!NoReport)
BY DEF Turn!NoReport, Truthful, Settled, Reports, Turn!None

LEMMA BeginCaseReport ==
  ASSUME NEW d \in Reports, Truthful(d), NEW c \in Turn!AllCases(world), WorldInv
  PROVE  LET e == Turn!BeginCase(d, c) n == Len(d.results) IN
         /\ Truthful(e)
         /\ Len(e.results) = n + 1 /\ e.failedAt = c
         /\ \A i \in 1..n : e.results[i] = d.results[i]
         /\ e.results[n + 1] = [index |-> c, status |-> "started"]
<1> DEFINE e == Turn!BeginCase(d, c)
           n == Len(d.results)
           x == [index |-> c, status |-> "started"]
<1>1. /\ e = [d EXCEPT !.results = Append(d.results, x), !.failedAt = c]
      /\ e.results = Append(d.results, x) /\ e.failedAt = c /\ e.passed = d.passed
  BY DEF Turn!BeginCase, Reports
<1>2. x \in Items /\ c \in Int
  BY DEF Items, Statuses, Turn!AllCases, WorldInv
<1>3. d.results \in Seq(Items) /\ d.passed \in SUBSET Nat /\ n \in Nat
  BY DEF Reports
<1>4. /\ e.results \in Seq(Items) /\ Len(e.results) = n + 1
      /\ \A i \in 1..n : e.results[i] = d.results[i]
      /\ e.results[n + 1] = x
  BY <1>1, <1>2, <1>3
<1> HIDE DEF e
<1>5. e \in Reports
  BY <1>1, <1>2, <1>3, <1>4 DEF Reports
<1>6. \A i \in 1..(n + 1) : i \in 1..n \/ i = n + 1
  BY <1>3
<1>7. \A i \in 1..n : i \in 1..(n + 1)
  BY <1>3
<1>8. Truthful(e)
  BY <1>1, <1>4, <1>5, <1>6, <1>7 DEF Truthful, Right
<1> QED BY <1>1, <1>4, <1>8 DEF e

LEMMA SetStatusReport ==
  ASSUME NEW d \in Reports, Len(d.results) > 0, NEW s \in Statuses
  PROVE  LET e == Turn!SetStatus(d, s) n == Len(d.results) IN
         /\ e \in Reports
         /\ Len(e.results) = n /\ e.failedAt = d.failedAt /\ e.passed = d.passed
         /\ \A i \in 1..(n - 1) : e.results[i] = d.results[i]
         /\ e.results[n].index = d.results[n].index /\ e.results[n].status = s
<1> DEFINE e == Turn!SetStatus(d, s)
           n == Len(d.results)
<1>1. d.results \in Seq(Items) /\ n \in Nat /\ n \in 1..n
  BY DEF Reports
<1> DEFINE r == [d.results EXCEPT ![n] = [d.results[n] EXCEPT !.status = s]]
<1>2. e = [d EXCEPT !.results = r] /\ e.results = r /\ e.failedAt = d.failedAt /\ e.passed = d.passed
  <2>1. e = [d EXCEPT !.results = r]
    BY DEF Turn!SetStatus
  <2> HIDE DEF e, r
  <2> QED BY <2>1 DEF Reports
<1>3. d.results[n] \in Items
  BY <1>1
<1> DEFINE x == [d.results[n] EXCEPT !.status = s]
<1>4. x \in Items /\ x.index = d.results[n].index /\ x.status = s
  BY <1>3 DEF Items
<1> HIDE DEF e
<1>5. /\ e.results \in Seq(Items) /\ Len(e.results) = n
      /\ \A i \in 1..(n - 1) : e.results[i] = d.results[i]
      /\ e.results[n] = x
  <2>1. r = [d.results EXCEPT ![n] = x]
    OBVIOUS
  <2> HIDE DEF x, r
  <2> QED BY <1>1, <1>2, <1>4, <2>1
<1> HIDE DEF x, r
<1>6. e \in Reports
  BY <1>2, <1>5 DEF Reports
<1> QED BY <1>2, <1>4, <1>5, <1>6 DEF e

\* A report of the same cases of which the last one may have another status.
Restated(d, e) ==
  LET n == Len(d.results) IN
  /\ e \in Reports /\ Len(e.results) = n
  /\ \A i \in 1..(n - 1) : e.results[i] = d.results[i]
  /\ e.results[n].index = d.results[n].index

LEMMA ItemFacts ==
  ASSUME NEW d \in Reports, NEW i \in 1..Len(d.results), WorldInv
  PROVE  /\ d.results[i] \in Items
         /\ d.results[i].index \in Turn!AllCases(world) /\ d.results[i].status \in Statuses
         /\ d.results[i].index \in Nat
<1>1. d.results[i] \in Items
  BY DEF Reports
<1> QED BY <1>1 DEF Items, Turn!AllCases, WorldInv

LEMMA RestatedTruthful ==
  ASSUME NEW d, Truthful(d), Len(d.results) > 0, NEW s \in Statuses, s # "passed",
         d.results[Len(d.results)].status # "passed", WorldInv
  PROVE  LET e == Turn!SetStatus(d, s) IN
         /\ Restated(d, e) /\ Truthful(e)
         /\ e.results[Len(d.results)].status = s /\ e.failedAt = d.failedAt
<1> DEFINE e == Turn!SetStatus(d, s)
           n == Len(d.results)
<1>1. d \in Reports
  BY DEF Truthful
<1>2. n \in Nat /\ n \in 1..n /\ \A i \in 1..n : i = n \/ i \in 1..(n - 1)
  BY <1>1 DEF Reports
<1>3. /\ e \in Reports
      /\ Len(e.results) = n /\ e.failedAt = d.failedAt /\ e.passed = d.passed
      /\ \A i \in 1..(n - 1) : e.results[i] = d.results[i]
      /\ e.results[n].index = d.results[n].index /\ e.results[n].status = s
  BY <1>1, SetStatusReport
<1> HIDE DEF e
<1>4. \A i \in 1..n : Right(e.results[i])
  BY <1>2, <1>3 DEF Truthful, Right
<1>5. \A i \in 1..n : e.results[i].status = "passed" <=> d.results[i].status = "passed"
  BY <1>2, <1>3
<1>6. \A i \in 1..n : e.results[i].index = d.results[i].index
  BY <1>2, <1>3
<1>7. Truthful(e)
  BY <1>3, <1>4, <1>5, <1>6 DEF Truthful
<1> QED BY <1>3, <1>7 DEF e, Restated

LEMMA EndCaseReport ==
  ASSUME NEW d, Truthful(d), Len(d.results) > 0, NEW c \in Turn!AllCases(world), NEW ok \in BOOLEAN,
         ok <=> world.truth[c] = "ok",
         d.results[Len(d.results)].status # "passed", d.results[Len(d.results)].index = c, WorldInv
  PROVE  LET e == Turn!EndCase(d, c, ok) IN
         /\ Restated(d, e) /\ Truthful(e)
         /\ e.results[Len(d.results)].status = IF ok THEN "passed" ELSE "failed"
<1> DEFINE s == IF ok THEN "passed" ELSE "failed"
           f == Turn!SetStatus(d, s)
           e == Turn!EndCase(d, c, ok)
           n == Len(d.results)
<1>1. d \in Reports /\ s \in Statuses /\ c \in Nat
  BY DEF Truthful, Statuses, Turn!Final, Turn!AllCases, WorldInv
<1>2. n \in Nat /\ n \in 1..n /\ \A i \in 1..n : i = n \/ i \in 1..(n - 1)
  BY <1>1 DEF Reports
<1>3. /\ f \in Reports
      /\ Len(f.results) = n /\ f.failedAt = d.failedAt /\ f.passed = d.passed
      /\ \A i \in 1..(n - 1) : f.results[i] = d.results[i]
      /\ f.results[n].index = d.results[n].index /\ f.results[n].status = s
  BY <1>1, SetStatusReport
<1>4. e = [f EXCEPT !.passed = IF ok THEN @ \cup {c} ELSE @, !.failedAt = IF ok THEN @ ELSE c]
  BY DEF Turn!EndCase
<1> HIDE DEF e, f
<1>5. /\ e.results = f.results
      /\ e.passed = IF ok THEN d.passed \cup {c} ELSE d.passed
      /\ e \in Reports
  <2> DEFINE q == IF ok THEN f.passed \cup {c} ELSE f.passed
             a == IF ok THEN f.failedAt ELSE c
  <2>1. q \in SUBSET Nat /\ a \in Int
    BY <1>1, <1>3 DEF Reports
  <2>2. e = [f EXCEPT !.passed = q, !.failedAt = a]
    BY <1>4
  <2>3. q = IF ok THEN d.passed \cup {c} ELSE d.passed
    BY <1>3
  <2> HIDE DEF q, a
  <2>4. e.results = f.results /\ e.passed = q /\ e \in Reports
    BY <1>3, <2>1, <2>2 DEF Reports
  <2> QED BY <2>3, <2>4
<1>6. \A i \in 1..n : Right(e.results[i])
  BY <1>2, <1>3, <1>5 DEF Truthful, Right
<1>7. ASSUME NEW x \in Nat
      PROVE  x \in e.passed <=>
               \E i \in 1..n : e.results[i].index = x /\ e.results[i].status = "passed"
  <2>1. x \in d.passed <=>
          \E i \in 1..(n - 1) : d.results[i].index = x /\ d.results[i].status = "passed"
    <3>1. x \in d.passed <=>
            \E i \in 1..n : d.results[i].index = x /\ d.results[i].status = "passed"
      BY <1>7 DEF Truthful
    <3>2. \A i \in 1..(n - 1) : i \in 1..n
      BY <1>2
    <3> QED BY <1>2, <3>1, <3>2
  <2>2. \A i \in 1..(n - 1) : i \in 1..n
    BY <1>2
  <2>3. x \in d.passed <=>
          \E i \in 1..(n - 1) : e.results[i].index = x /\ e.results[i].status = "passed"
    BY <2>1, <1>3, <1>5
  <2>4. (e.results[n].index = x /\ e.results[n].status = "passed") <=> (ok /\ x = c)
    BY <1>3, <1>5
  <2> QED BY <1>2, <1>5, <2>2, <2>3, <2>4
<1>8. Truthful(e)
  BY <1>3, <1>5, <1>6, <1>7 DEF Truthful
<1> QED BY <1>3, <1>5, <1>8 DEF e, Restated

\* An exception leaves a case that is not "passed", where there is one open.
LEMMA ExceptedReport ==
  ASSUME NEW d, Truthful(d), Len(d.results) > 0,
         d.results[Len(d.results)].status # "passed", WorldInv
  PROVE  LET e == Turn!Excepted(d) IN
         /\ Restated(d, e) /\ Truthful(e) /\ e.failedAt = d.failedAt
         /\ e.results[Len(d.results)].status # "passed"
<1>1. d \in Reports /\ d.results \in Seq(Items)
  BY DEF Truthful, Reports
<1>2. CASE Turn!Excepted(d) = d
  BY <1>1, <1>2 DEF Restated
<1>3. CASE Turn!Excepted(d) = Turn!SetStatus(d, "error")
  <2>1. "error" \in Statuses
    BY DEF Statuses
  <2> QED BY <1>3, <2>1, RestatedTruthful
<1> QED BY <1>2, <1>3 DEF Turn!Excepted

\* A verification that ends in another way than with 0 ends the evaluation.
LEMMA CollectFails ==
  ASSUME TurnInv, NEW rc, rc # 0, NEW mark, NEW d, NEW running,
         Turn!Collect(rc, mark, d, running), UNCHANGED world,
         Truthful(d), hit \subseteq hit',
         \A i \in 1..Len(d.results) :
           \/ d.results[i].status = "passed"
           \/ world.truth[d.results[i].index] # "ok" \/ d.results[i].index \in hit',
         running # Turn!None => d.failedAt = running
  PROVE  VerdictInv' /\ at' = "done" /\ UNCHANGED acc
<1>1. /\ verdict'.results = acc.results \o d.results
      /\ verdict'.stage = "correctness" /\ ~verdict'.correct /\ ~verdict'.scored
      /\ verdict'.running = running /\ verdict'.failedAt = d.failedAt
      /\ at' = "done" /\ UNCHANGED acc
  BY DEF Turn!Collect, Turn!NoResult
<1>2. acc.results \in Seq(Items) /\ d.results \in Seq(Items)
  BY DEF TurnInv, AccInv, Truthful, Reports
<1>3. Items' = Items
  BY DEF Items, Turn!AllCases
<1>4. verdict'.results \in Seq(Items)'
  BY <1>1, <1>2, <1>3, ConcatItems
<1>5. ASSUME NEW i \in 1..Len(verdict'.results)
      PROVE  Blamed(verdict.results[i])'
  <2>1. CASE \E j \in 1..Len(acc.results) : verdict'.results[i] = acc.results[j]
    BY <2>1 DEF TurnInv, AccInv, Blamed
  <2>2. CASE \E j \in 1..Len(d.results) : verdict'.results[i] = d.results[j]
    BY <2>2 DEF Blamed
  <2> DEFINE u == acc.results
             v == d.results
  <2>3. u \in Seq(Items) /\ v \in Seq(Items)
    BY <1>2
  <2>4. verdict'.results = u \o v
    BY <1>1
  <2>5. (\E j \in 1..Len(u) : verdict'.results[i] = u[j])
          \/ (\E j \in 1..Len(v) : verdict'.results[i] = v[j])
    <3> HIDE DEF u, v
    <3>1. \A k \in 1..Len(u \o v) :
            \/ \E j \in 1..Len(u) : (u \o v)[k] = u[j]
            \/ \E j \in 1..Len(v) : (u \o v)[k] = v[j]
      BY <2>3, ConcatItems
    <3> QED BY <2>4, <3>1
  <2> QED BY <2>1, <2>2, <2>5
<1>6. ~(verdict'.stage \in Turn!Validations)
  BY <1>1 DEF Turn!Validations
<1> QED BY <1>1, <1>4, <1>5, <1>6 DEF VerdictInv

\* One that ends with 0 adds what it passed, and after "full" that is all.
LEMMA CollectPasses ==
  ASSUME TurnInv, NEW d, Truthful(d), Turn!Collect(0, "none", d, Turn!None),
         at = "case", UNCHANGED world,
         \A i \in 1..Len(d.results) : d.results[i].status = "passed",
         d.passed = Turn!Selected(world, Turn!Profile)
  PROVE  AccInv' /\ at' \in {"verify", "benchmark"}
<1> DEFINE ends == Turn!Ahead = {}
<1>1. /\ acc' = [acc EXCEPT !.passed = acc.passed \cup d.passed, !.results = acc.results \o d.results]
      /\ at' = IF ends THEN "benchmark" ELSE "verify"
  BY DEF Turn!Collect
<1>2. /\ acc \in [k : Nat, passed : SUBSET DueCases, results : Seq(Items)]
      /\ acc.k \in DOMAIN world.profiles /\ ProfilesFit(world.profiles, world.listed)
  BY DEF TurnInv, AccInv, WorldInv
<1>3. Turn!Selected(world, Turn!Profile) \subseteq DueCases
  BY <1>2 DEF Turn!Selected, Turn!Profile, ProfilesFit, DueCases
<1>4. ends => acc.k = 4
  BY <1>2 DEF Turn!Ahead, ProfilesFit
<1>5. acc.k = 4 => Turn!Selected(world, Turn!Profile) = DueCases
  <2> SUFFICES ASSUME acc.k = 4 PROVE Turn!Selected(world, Turn!Profile) = DueCases
    OBVIOUS
  <2>1. Turn!Profile.cases = 0..(world.listed - 1)
    BY <1>2 DEF Turn!Profile, ProfilesFit
  <2>2. world.listed = 0 <=> 0..(world.listed - 1) = {}
    <3>1. world.listed # 0 => 0 \in 0..(world.listed - 1)
      BY DEF TurnInv, WorldInv
    <3>2. world.listed = 0 => 0..(world.listed - 1) = {}
      OBVIOUS
    <3> QED BY <3>1, <3>2
  <2> QED BY <2>1, <2>2 DEF Turn!Selected, DueCases
<1> HIDE DEF ends
<1>6. d.results \in Seq(Items)
  BY DEF Truthful, Reports
<1>7. acc.results \o d.results \in Seq(Items)
  BY <1>2, <1>6, ConcatItems
<1>8. /\ acc' \in [k : Nat, passed : SUBSET DueCases, results : Seq(Items)]
      /\ acc'.passed = acc.passed \cup d.passed /\ acc'.results = acc.results \o d.results
  BY <1>1, <1>2, <1>3, <1>7
<1>9. Items' = Items /\ DueCases' = DueCases
  BY DEF Items, DueCases, Turn!AllCases
<1>10. \A c \in acc'.passed : world.truth[c] = "ok"
  <2>1. ASSUME NEW c \in d.passed
        PROVE  world.truth[c] = "ok"
    <3>1. c \in Nat
      BY DEF Truthful, Reports
    <3>2. PICK i \in 1..Len(d.results) : d.results[i].index = c /\ d.results[i].status = "passed"
      BY <3>1 DEF Truthful
    <3> QED BY <3>2 DEF Truthful, Right
  <2> QED BY <1>8, <2>1 DEF TurnInv, AccInv
<1>11. ASSUME NEW i \in 1..Len(acc'.results)
       PROVE  acc'.results[i].status = "passed" /\ Right(acc.results[i])'
  <2>1. CASE \E j \in 1..Len(acc.results) : acc'.results[i] = acc.results[j]
    BY <2>1 DEF TurnInv, AccInv, Right
  <2>2. CASE \E j \in 1..Len(d.results) : acc'.results[i] = d.results[j]
    BY <2>2 DEF Truthful, Right
  <2> QED BY <1>2, <1>6, <1>8, <2>1, <2>2, ConcatItems
<1>12. at' = "benchmark" => acc'.passed = DueCases
  BY <1>1, <1>2, <1>4, <1>5, <1>8
<1> QED BY <1>1, <1>8, <1>9, <1>10, <1>11, <1>12 DEF AccInv

LEMMA SameWorld ==
  ASSUME UNCHANGED world
  PROVE  /\ Items' = Items /\ Reports' = Reports /\ DueCases' = DueCases
         /\ Turn!AllCases(world)' = Turn!AllCases(world)
         /\ WorldInv' <=> WorldInv
BY DEF Items, Reports, DueCases, Turn!AllCases, WorldInv

\* What the report is about, and the case that runs.
LEMMA ReportFacts ==
  ASSUME TurnInv, at \in {"load", "case"}
  PROVE  /\ acc.k \in DOMAIN world.profiles /\ Turn!Profile.name \in Names
         /\ Turn!Report \in Reports /\ Truthful(Turn!Report)
<1>1. acc.k \in DOMAIN world.profiles /\ Turn!Profile.name \in Names
  BY DEF TurnInv, AccInv, WorldInv, ProfilesFit, Turn!Profile
<1> QED BY <1>1 DEF TurnInv, DiskInv, Turn!Report

LEMMA RunningFacts ==
  ASSUME TurnInv, at = "case"
  PROVE  LET n == Len(Turn!Report.results)
             last == Turn!Report.results[n]
         IN /\ n \in Nat /\ n > 0 /\ Turn!Last(Turn!Report.results) = last
            /\ last.index \in Turn!AllCases(world) /\ last.status \in Statuses
            /\ Turn!Running = IF last.status \notin Turn!Final THEN last.index ELSE Turn!None
            /\ last.index # Turn!None
            /\ Turn!Running # Turn!None => Turn!Report.failedAt = Turn!Running
<1> DEFINE d == Turn!Report
           n == Len(d.results)
           last == d.results[n]
<1>1. d \in Reports /\ WorldInv
  BY ReportFacts DEF TurnInv
<1>2. n \in Nat /\ n > 0 /\ (last.status \notin Turn!Final => d.failedAt = last.index)
  BY <1>1 DEF TurnInv, CaseInv, Reports
<1>3. n \in 1..n
  BY <1>2
<1>4. /\ last.index \in Turn!AllCases(world) /\ last.status \in Statuses
      /\ last.index \in Nat
  BY <1>1, <1>3, ItemFacts
<1>5. last.index # Turn!None
  BY <1>4 DEF Turn!None
<1>6. Turn!Last(d.results) = last
  BY DEF Turn!Last
<1>7. Turn!Running = IF last.status \notin Turn!Final THEN last.index ELSE Turn!None
  BY <1>6 DEF Turn!Running
<1> QED BY <1>2, <1>4, <1>5, <1>6, <1>7

\* The items of the running report are settled once the case that runs is.
LEMMA RunningSettles ==
  ASSUME TurnInv, at = "case", UNCHANGED world, hit \subseteq hit',
         Turn!Running # Turn!None => world.truth[Turn!Running] # "ok" \/ Turn!Running \in hit'
  PROVE  \A i \in 1..Len(Turn!Report.results) :
           \/ Turn!Report.results[i].status = "passed"
           \/ world.truth[Turn!Report.results[i].index] # "ok"
           \/ Turn!Report.results[i].index \in hit'
<1> DEFINE d == Turn!Report
           n == Len(d.results)
<1> SUFFICES ASSUME NEW i \in 1..n
             PROVE  d.results[i].status = "passed" \/ world.truth[d.results[i].index] # "ok"
                      \/ d.results[i].index \in hit'
  OBVIOUS
<1>1. CASE d.results[i].status \in Turn!Final
  BY <1>1 DEF TurnInv, CaseInv, Blamed
<1>2. CASE d.results[i].status \notin Turn!Final
  <2>1. i = n
    BY <1>2, RunningFacts DEF TurnInv, CaseInv
  <2>2. Turn!Running = d.results[i].index /\ Turn!Running # Turn!None
    BY <1>2, <2>1, RunningFacts
  <2> QED BY <2>2
<1> QED BY <1>1, <1>2

\* The directory of reports, when none is written and when one is.
LEMMA DiskKept ==
  ASSUME TurnInv, UNCHANGED <<world, disk>>, hit \subseteq hit',
         at = "case" =>
           \A i \in 1..Len(Turn!Report.results) :
             \/ Turn!Report.results[i].status = "passed"
             \/ world.truth[Turn!Report.results[i].index] # "ok"
             \/ Turn!Report.results[i].index \in hit'
  PROVE  DiskInv'
<1>1. disk' \in [Names -> Reports']
  BY SameWorld DEF TurnInv, DiskInv
<1>2. ASSUME NEW p \in Names
      PROVE  Truthful(disk[p])' /\ Settled(disk[p])'
  <2>1. Truthful(disk[p])'
    BY SameWorld DEF TurnInv, DiskInv, Truthful, Right
  <2>2. CASE Settled(disk[p])
    BY <2>1, <2>2 DEF Settled, Blamed
  <2>3. CASE at = "case" /\ p = Turn!Profile.name
    BY <2>1, <2>3 DEF Settled, Blamed, Turn!Report
  <2> QED BY <2>1, <2>2, <2>3 DEF TurnInv, DiskInv
<1> QED BY <1>1, <1>2 DEF DiskInv

LEMMA DiskWritten ==
  ASSUME TurnInv, UNCHANGED world, hit \subseteq hit', Turn!Profile.name \in Names,
         NEW d, Truthful(d), Turn!Persist(d),
         \/ at' = "case" /\ UNCHANGED acc
         \/ \A i \in 1..Len(d.results) : \/ d.results[i].status = "passed"
                                         \/ world.truth[d.results[i].index] # "ok"
                                         \/ d.results[i].index \in hit'
  PROVE  DiskInv'
<1>0. PICK q \in Names : q = Turn!Profile.name
  OBVIOUS
<1>1. disk' = [disk EXCEPT ![q] = d] /\ d \in Reports /\ disk \in [Names -> Reports]
  BY <1>0 DEF Turn!Persist, Truthful, TurnInv, DiskInv
<1>2. disk' \in [Names -> Reports'] /\ disk'[q] = d /\ \A p \in Names \ {q} : disk'[p] = disk[p]
  BY <1>1, SameWorld
<1>3. ASSUME NEW p \in Names, p # q
      PROVE  Truthful(disk[p])' /\ Settled(disk[p])'
  <2>1. Truthful(disk[p]) /\ Settled(disk[p])
    BY <1>0, <1>3 DEF TurnInv, DiskInv
  <2>2. disk'[p] = disk[p]
    BY <1>2, <1>3
  <2> QED BY <2>1, <2>2, SameWorld DEF Truthful, Right, Settled, Blamed
<1>4. Truthful(disk[q])'
  BY <1>2, SameWorld DEF Truthful, Right
<1>5. Settled(disk[q])' \/ (at' = "case" /\ q = Turn!Profile.name')
  <2>1. UNCHANGED acc => q = Turn!Profile.name'
    BY <1>0 DEF Turn!Profile
  <2> QED BY <1>2, <2>1 DEF Settled, Blamed
<1> QED BY <1>2, <1>3, <1>4, <1>5 DEF DiskInv

\* The benchmark's report decides about a correct candidate.
LEMMA ScoreFacts ==
  ASSUME TurnInv, at \in {"benchmark", "profiling"}, UNCHANGED <<world, acc, hit>>,
         NEW rc, NEW r, r = perf', Turn!Score(rc, r)
  PROVE  VerdictInv' /\ at' = "done"
<1>1. /\ at' = "done" /\ verdict'.stage \in {"none", "performance"}
      /\ verdict'.scored <=> r.status = "ok" /\ r.measured # {} /\ r.measured = acc.passed
      /\ verdict'.compiled /\ verdict'.correct /\ verdict'.passed = acc.passed
      /\ verdict'.results = acc.results /\ verdict'.running = Turn!None
  BY DEF Turn!Score, Turn!MeasuresWhatPassed, Turn!NoResult
<1>2. /\ acc.results \in Seq(Items) /\ acc.passed = DueCases
      /\ \A c \in acc.passed : world.truth[c] = "ok"
      /\ \A i \in 1..Len(acc.results) : acc.results[i].status = "passed"
  BY DEF TurnInv, AccInv
<1>3. \A i \in 1..Len(verdict'.results) : Blamed(verdict.results[i])'
  BY <1>1, <1>2 DEF Blamed
<1>4. verdict'.stage \notin Turn!Validations
  BY <1>1 DEF Turn!Validations
<1> QED BY <1>1, <1>2, <1>3, <1>4, SameWorld DEF VerdictInv

LEMMA TurnInit ==
  ASSUME JudgingAssumption
  PROVE  Turn!Init => TurnInv
<1> SUFFICES ASSUME Turn!Init PROVE TurnInv
  OBVIOUS
<1>1. WorldInv
  <2>1. PICK g \in Groups, l \in Listed :
          world \in [truth : [0..(g - 1) -> {"ok", "wrong", "raise", "die"}],
                     profiles : {Turn!Profiles(table) : table \in [0..(l - 1) -> Facts]},
                     listed : {l}, groups : {g}]
    BY DEF Turn!Init
  <2>2. PICK table \in [0..(l - 1) -> Facts] : world.profiles = Turn!Profiles(table)
    BY <2>1
  <2>3. l \in Nat /\ g \in Nat \ {0} /\ world.listed = l /\ world.groups = g
    BY <2>1 DEF JudgingAssumption
  <2>4. ProfilesFit(Turn!Profiles(table), l)
    BY <2>3, ProfilesOfTable
  <2> QED BY <2>2, <2>3, <2>4 DEF WorldInv
<1>2. DiskInv
  <2>1. disk = [p \in Names |-> Turn!NoReport]
    BY DEF Turn!Init, Names
  <2>2. Truthful(Turn!NoReport) /\ Settled(Turn!NoReport) /\ Turn!NoReport \in Reports
    BY NoReportTruthful DEF Truthful
  <2> QED BY <2>1, <2>2 DEF DiskInv
<1>3. CaseInv /\ AccInv /\ PerfInv /\ VerdictInv
  BY DEF Turn!Init, CaseInv, AccInv, PerfInv, VerdictInv, Turn!Fresh, Turn!Nothing
<1> QED BY <1>1, <1>2, <1>3 DEF TurnInv

\* Steps of the evaluator before a verification.
LEMMA PrecheckStep == TurnInv /\ Turn!Precheck => TurnInv'
<1> SUFFICES ASSUME TurnInv, Turn!Precheck PROVE TurnInv'
  OBVIOUS
<1>1. /\ at = "start" /\ at' \in {"done", "verify"}
      /\ at' = "done" => \E stage \in Turn!Validations \cup {"correctness_profile", "ascendc_build"}, rc \in Nat :
           verdict' = Turn!Early(stage, rc)
      /\ UNCHANGED <<world, acc, disk, perf, hit>>
  <2>1. /\ at = "start" /\ UNCHANGED <<world, acc, disk, perf, hit>>
        /\ \/ \E stage \in {"bundle_validation", "ascendc_source_validation", "correctness_profile"} :
                verdict' = Turn!Early(stage, 1) /\ at' = "done"
           \/ \E rc \in {1, 124, 127} : verdict' = Turn!Early("ascendc_build", rc) /\ at' = "done"
           \/ at' = "verify"
    BY DEF Turn!Precheck, Turn!Reject
  <2> QED BY <2>1 DEF Turn!Validations
<1>2. WorldInv' /\ PerfInv' /\ AccInv' /\ CaseInv'
  BY <1>1, SameWorld DEF TurnInv, PerfInv, AccInv, CaseInv, Right
<1>3. DiskInv'
  BY <1>1, DiskKept
<1>4. VerdictInv'
  <2>1. ASSUME NEW stage, NEW rc, verdict' = Turn!Early(stage, rc)
        PROVE  /\ verdict'.results = <<>> /\ ~verdict'.correct /\ ~verdict'.scored
               /\ verdict'.compiled <=> stage = "correctness_profile"
               /\ verdict'.stage = stage /\ verdict'.running = Turn!None
    BY <2>1 DEF Turn!Early, Turn!NoResult
  <2>2. CASE at' = "done"
    <3>1. PICK stage, rc : verdict' = Turn!Early(stage, rc)
      BY <1>1, <2>2
    <3>2. "correctness_profile" \notin Turn!Validations
      BY DEF Turn!Validations
    <3>3. /\ verdict'.results = <<>> /\ ~verdict'.correct /\ ~verdict'.scored
          /\ verdict'.compiled => verdict'.stage \notin Turn!Validations
          /\ verdict'.running = Turn!None
      BY <2>1, <3>1, <3>2
    <3>4. verdict'.results \in Seq(Items') /\ 1..Len(verdict'.results) = {}
      BY <3>3
    <3> QED BY <3>3, <3>4 DEF VerdictInv
  <2> QED BY <2>2 DEF VerdictInv
<1> QED BY <1>2, <1>3, <1>4 DEF TurnInv

LEMMA LaunchStep == TurnInv /\ Turn!Launch => TurnInv'
<1> SUFFICES ASSUME TurnInv, Turn!Launch PROVE TurnInv'
  OBVIOUS
<1>1. PICK k \in DOMAIN world.profiles : acc' = [acc EXCEPT !.k = k]
  BY DEF Turn!Launch, Turn!Ahead
<1>2. at = "verify" /\ at' = "load" /\ UNCHANGED <<world, disk, perf, verdict, hit>>
  BY DEF Turn!Launch
<1>3. DiskInv'
  BY <1>2, DiskKept
<1>4. k \in Nat
  BY DEF TurnInv, WorldInv, ProfilesFit
<1>5. /\ acc' \in [k : Nat, passed : SUBSET DueCases, results : Seq(Items)]
      /\ acc'.k = k /\ acc'.passed = acc.passed /\ acc'.results = acc.results
  BY <1>1, <1>4 DEF TurnInv, AccInv
<1>6. AccInv'
  BY <1>2, <1>5, SameWorld DEF TurnInv, AccInv, Right
<1>7. WorldInv' /\ PerfInv' /\ CaseInv' /\ VerdictInv'
  BY <1>2, SameWorld DEF TurnInv, PerfInv, CaseInv, VerdictInv
<1> QED BY <1>3, <1>6, <1>7 DEF TurnInv

\* An evaluation that ends before the benchmark changes nothing else.
LEMMA EndsFailed ==
  ASSUME TurnInv, UNCHANGED <<world, perf, acc>>, at' = "done", DiskInv', VerdictInv'
  PROVE  TurnInv'
<1>1. WorldInv' /\ PerfInv' /\ AccInv' /\ CaseInv'
  BY SameWorld DEF TurnInv, PerfInv, AccInv, CaseInv, Right
<1> QED BY <1>1 DEF TurnInv

LEMMA LoadFailsStep == TurnInv /\ Turn!LoadFails => TurnInv'
<1> SUFFICES ASSUME TurnInv, Turn!LoadFails PROVE TurnInv'
  OBVIOUS
<1>1. /\ at = "load" /\ Turn!Persist(Turn!NoReport)
      /\ UNCHANGED <<world, perf, hit>>
  BY DEF Turn!LoadFails
<1>2. PICK mark \in {"load", "none"} : Turn!Collect(1, mark, Turn!NoReport, Turn!None)
  BY DEF Turn!LoadFails
<1>3. Truthful(Turn!NoReport) /\ Turn!NoReport.results = <<>>
  BY NoReportTruthful DEF Turn!NoReport
<1>4. VerdictInv' /\ at' = "done" /\ UNCHANGED acc
  BY <1>1, <1>2, <1>3, CollectFails
<1>5. DiskInv'
  BY <1>1, <1>3, ReportFacts, DiskWritten
<1> QED BY <1>1, <1>4, <1>5, EndsFailed

\* The cases of a running verification.
LEMMA NextCaseStep == TurnInv /\ Turn!NextCase => TurnInv'
<1> SUFFICES ASSUME TurnInv, Turn!NextCase PROVE TurnInv'
  OBVIOUS
<1> DEFINE sel == Turn!Selected(world, Turn!Profile)
<1>1. /\ (at = "load" /\ ~Turn!OutOfRange) \/ (at = "case" /\ Turn!Running = Turn!None)
      /\ at' = "case" /\ UNCHANGED <<world, acc, perf, verdict, hit>>
  BY DEF Turn!NextCase
<1>2. PICK d : /\ d = IF at = "load" THEN Turn!NoReport ELSE Turn!Report
               /\ \E c \in Turn!Due(d) : Turn!Persist(Turn!BeginCase(d, c))
  BY DEF Turn!NextCase
<1>3. PICK c \in sel : Turn!Persist(Turn!BeginCase(d, c))
  BY <1>2 DEF Turn!Due
<1>4. sel \subseteq Turn!AllCases(world)
  BY <1>1 DEF Turn!OutOfRange, TurnInv, CaseInv
<1>5. WorldInv /\ Turn!Profile.name \in Names /\ Truthful(d) /\ d \in Reports
  BY <1>1, <1>2, ReportFacts, NoReportTruthful DEF TurnInv, Truthful
<1> DEFINE n == Len(d.results)
<1>6. n \in Nat
  BY <1>5 DEF Reports
<1>7. \A i \in 1..n : /\ d.results[i].index \in sel
                      /\ d.results[i].status \in Turn!Final /\ Blamed(d.results[i])
  <2>1. CASE at = "load"
    <3>1. d.results = <<>>
      BY <1>2, <2>1 DEF Turn!NoReport
    <3> QED BY <3>1
  <2>2. CASE at = "case" /\ Turn!Running = Turn!None
    <3>1. d = Turn!Report
      BY <1>2, <2>2
    <3>2. d.results[n].status \in Turn!Final
      BY <2>2, <3>1, RunningFacts
    <3> QED BY <1>6, <2>2, <3>1, <3>2 DEF TurnInv, CaseInv
  <2> QED BY <1>1, <2>1, <2>2
<1>8. PICK e : e = Turn!BeginCase(d, c)
  OBVIOUS
<1>9. /\ Truthful(e) /\ Len(e.results) = n + 1 /\ e.failedAt = c
      /\ \A i \in 1..n : e.results[i] = d.results[i]
      /\ e.results[n + 1] = [index |-> c, status |-> "started"]
  BY <1>3, <1>4, <1>5, <1>8, BeginCaseReport
<1>10. DiskInv'
  BY <1>1, <1>3, <1>5, <1>8, <1>9, DiskWritten
<1>11. Turn!Report' = e /\ Turn!Profile' = Turn!Profile
  <2>1. Turn!Profile' = Turn!Profile
    BY <1>1 DEF Turn!Profile
  <2> QED BY <1>3, <1>5, <1>8, <2>1 DEF Turn!Persist, Turn!Report, TurnInv, DiskInv
<1>12. Turn!Selected(world, Turn!Profile)' = sel /\ Turn!AllCases(world)' = Turn!AllCases(world)
  BY <1>1, <1>11 DEF Turn!Selected, Turn!AllCases
<1>13. CaseInv'
  <2>1. \A i \in 1..(n + 1) : i \in 1..n \/ i = n + 1
    BY <1>6
  <2>2. "started" \notin Turn!Final
    BY DEF Turn!Final
  <2>3. \A i \in 1..(n + 1) :
          /\ e.results[i].index \in sel
          /\ i < n + 1 => e.results[i].status \in Turn!Final
          /\ e.results[i].status \in Turn!Final => Blamed(e.results[i])
    BY <1>6, <1>7, <1>9, <2>1, <2>2
  <2>4. e.results[n + 1].index = c
    BY <1>9
  <2>5. n + 1 > 0
    BY <1>6
  <2> QED BY <1>1, <1>4, <1>9, <1>11, <1>12, <2>3, <2>4, <2>5 DEF CaseInv, Blamed
<1>14. WorldInv' /\ PerfInv' /\ AccInv' /\ VerdictInv'
  BY <1>1, SameWorld DEF TurnInv, PerfInv, AccInv, VerdictInv, Right
<1> QED BY <1>10, <1>13, <1>14 DEF TurnInv

\* A step inside the case that runs writes the report with another status of it.
LEMMA RestatedStep ==
  ASSUME TurnInv, at = "case", at' = "case", UNCHANGED <<world, acc, perf, verdict, hit>>,
         Turn!Running # Turn!None,
         NEW e, Truthful(e), Restated(Turn!Report, e), Turn!Persist(e),
         LET s == e.results[Len(Turn!Report.results)].status IN
           \/ s \notin Turn!Final /\ e.failedAt = Turn!Report.failedAt
           \/ s = "passed"
           \/ s = "failed" /\ world.truth[Turn!Running] # "ok"
  PROVE  TurnInv'
<1> DEFINE d == Turn!Report
           n == Len(d.results)
           sel == Turn!Selected(world, Turn!Profile)
<1>1. /\ n \in Nat /\ n > 0 /\ d.failedAt = Turn!Running /\ Turn!Running = d.results[n].index
  BY RunningFacts
<1>2. /\ Len(e.results) = n /\ \A i \in 1..(n - 1) : e.results[i] = d.results[i]
      /\ e.results[n].index = d.results[n].index
  BY DEF Restated
<1>3. Turn!Profile.name \in Names
  BY ReportFacts
<1>4. DiskInv'
  BY <1>3, DiskWritten
<1>5. Turn!Report' = e /\ Turn!Profile' = Turn!Profile
  <2>1. Turn!Profile' = Turn!Profile
    BY DEF Turn!Profile
  <2> QED BY <1>3, <2>1 DEF Turn!Persist, Turn!Report, TurnInv, DiskInv
<1>6. Turn!Selected(world, Turn!Profile)' = sel /\ Turn!AllCases(world)' = Turn!AllCases(world)
  BY <1>5 DEF Turn!Selected, Turn!AllCases
<1>7. \A i \in 1..n : /\ d.results[i].index \in sel
                      /\ i < n => d.results[i].status \in Turn!Final
                      /\ d.results[i].status \in Turn!Final => Blamed(d.results[i])
  BY DEF TurnInv, CaseInv
<1>8. sel \subseteq Turn!AllCases(world)
  BY DEF TurnInv, CaseInv
<1>9. e.results[n].status \in Turn!Final => Blamed(e.results[n])
  BY <1>1, <1>2 DEF Blamed
<1>10. e.results[n].status \notin Turn!Final => e.failedAt = e.results[n].index
  BY <1>1, <1>2 DEF Turn!Final
<1> HIDE DEF d, n, sel
<1>11. ASSUME NEW i \in 1..n
       PROVE  /\ e.results[i].index \in sel
              /\ i < n => e.results[i].status \in Turn!Final
              /\ e.results[i].status \in Turn!Final => Blamed(e.results[i])
  <2>1. i = n \/ i \in 1..(n - 1)
    BY <1>1
  <2>2. ~(n < n)
    BY <1>1
  <2> QED BY <1>2, <1>7, <1>9, <2>1, <2>2
<1>12. CaseInv'
  BY <1>1, <1>2, <1>5, <1>6, <1>8, <1>10, <1>11 DEF CaseInv, Blamed
<1>13. WorldInv' /\ PerfInv' /\ AccInv' /\ VerdictInv'
  BY SameWorld DEF TurnInv, PerfInv, AccInv, VerdictInv, Right
<1> QED BY <1>4, <1>12, <1>13 DEF TurnInv

LEMMA AdvanceStep == TurnInv /\ Turn!Advance => TurnInv'
<1> SUFFICES ASSUME TurnInv, Turn!Advance PROVE TurnInv'
  OBVIOUS
<1> DEFINE n == Len(Turn!Report.results)
           status == Turn!Report.results[n].status
<1>1. /\ at = "case" /\ Turn!Running # Turn!None /\ at' = "case"
      /\ UNCHANGED <<world, acc, perf, verdict, hit>>
  BY DEF Turn!Advance
<1>2. /\ n \in Nat /\ n > 0 /\ Turn!Last(Turn!Report.results).status = status
      /\ status \notin Turn!Final /\ Turn!Running = Turn!Report.results[n].index
      /\ Turn!Running \in Turn!AllCases(world) /\ Turn!Report.failedAt = Turn!Running
  BY <1>1, RunningFacts
<1>3. Truthful(Turn!Report) /\ WorldInv /\ status # "passed"
  BY <1>1, <1>2, ReportFacts DEF TurnInv, Turn!Final
<1>4. ASSUME NEW s \in Statuses \ Turn!Final, Turn!Persist(Turn!SetStatus(Turn!Report, s))
      PROVE  TurnInv'
  <2>1. s # "passed"
    BY DEF Turn!Final
  <2>2. PICK e : e = Turn!SetStatus(Turn!Report, s)
    OBVIOUS
  <2>3. /\ Restated(Turn!Report, e) /\ Truthful(e)
        /\ e.results[n].status = s /\ e.failedAt = Turn!Report.failedAt
    BY <1>2, <1>3, <2>1, <2>2, RestatedTruthful
  <2>4. s \notin Turn!Final
    OBVIOUS
  <2>5. Turn!Persist(e)
    BY <1>4, <2>2
  <2> HIDE DEF n
  <2> QED BY <1>1, <2>3, <2>4, <2>5, RestatedStep DEF n
<1>5. CASE Turn!Persist(Turn!EndCase(Turn!Report, Turn!Running, world.truth[Turn!Running] = "ok"))
  <2> DEFINE ok == world.truth[Turn!Running] = "ok"
  <2>1. PICK e : e = Turn!EndCase(Turn!Report, Turn!Running, ok)
    OBVIOUS
  <2>2. ok \in BOOLEAN
    OBVIOUS
  <2>3. /\ Restated(Turn!Report, e) /\ Truthful(e)
        /\ e.results[n].status = IF ok THEN "passed" ELSE "failed"
    BY <1>2, <1>3, <2>1, <2>2, EndCaseReport
  <2>4. Turn!Persist(e)
    BY <1>5, <2>1
  <2>5. e.results[n].status = "passed" \/ (e.results[n].status = "failed" /\ world.truth[Turn!Running] # "ok")
    BY <2>3
  <2> HIDE DEF ok
  <2> QED BY <1>1, <2>3, <2>4, <2>5, RestatedStep DEF ok
<1>6. \/ \E s \in {"reference_passed", "candidate_started", "candidate_returned"} :
           Turn!Persist(Turn!SetStatus(Turn!Report, s))
      \/ Turn!Persist(Turn!EndCase(Turn!Report, Turn!Running, world.truth[Turn!Running] = "ok"))
  BY DEF Turn!Advance, Turn!Advances
<1>7. {"reference_passed", "candidate_started", "candidate_returned"} \subseteq Statuses \ Turn!Final
  BY DEF Statuses, Turn!Final
<1> QED BY <1>4, <1>5, <1>6, <1>7

\* A verification that ends inside a case is an evaluation that failed in it.
LEMMA ExceptionStep ==
  ASSUME TurnInv, at = "case", Turn!Running # Turn!None, UNCHANGED <<world, perf>>,
         Turn!Report.results[Len(Turn!Report.results)].status # "passed",
         hit \subseteq hit', world.truth[Turn!Running] # "ok" \/ Turn!Running \in hit',
         Turn!Persist(Turn!Excepted(Turn!Report)), NEW mark,
         Turn!Collect(1, mark, Turn!Excepted(Turn!Report), Turn!Running)
  PROVE  TurnInv'
<1> DEFINE d == Turn!Report
           n == Len(d.results)
<1>1. PICK e : e = Turn!Excepted(Turn!Report)
  OBVIOUS
<1>2. n \in Nat /\ n > 0 /\ d.failedAt = Turn!Running /\ Turn!Running = d.results[n].index
  BY RunningFacts
<1>3. Truthful(d) /\ d \in Reports /\ Turn!Profile.name \in Names /\ WorldInv
  BY ReportFacts DEF TurnInv
<1>4. /\ Restated(d, e) /\ Truthful(e) /\ e.failedAt = d.failedAt
      /\ e.results[n].status # "passed"
  BY <1>1, <1>2, <1>3, ExceptedReport
<1>5. /\ Len(e.results) = n /\ \A i \in 1..(n - 1) : e.results[i] = d.results[i]
      /\ e.results[n].index = d.results[n].index
  BY <1>4 DEF Restated
<1>6. \A i \in 1..n : \/ d.results[i].status = "passed"
                      \/ world.truth[d.results[i].index] # "ok" \/ d.results[i].index \in hit'
  BY RunningSettles
<1>7. \A i \in 1..n : \/ e.results[i].status = "passed"
                      \/ world.truth[e.results[i].index] # "ok" \/ e.results[i].index \in hit'
  <2>1. \A i \in 1..n : i = n \/ i \in 1..(n - 1)
    BY <1>2
  <2> QED BY <1>2, <1>5, <1>6, <2>1
<1> HIDE DEF d, n
<1>8. \A i \in 1..Len(e.results) :
        \/ e.results[i].status = "passed"
        \/ world.truth[e.results[i].index] # "ok" \/ e.results[i].index \in hit'
  BY <1>5, <1>7
<1>9. VerdictInv' /\ at' = "done" /\ UNCHANGED acc
  BY <1>1, <1>2, <1>4, <1>8, CollectFails
<1>10. DiskInv'
  BY <1>1, <1>3, <1>4, <1>8, DiskWritten
<1> QED BY <1>9, <1>10, EndsFailed

LEMMA CandidateFailsStep == TurnInv /\ Turn!CandidateFails => TurnInv'
<1> SUFFICES ASSUME TurnInv, Turn!CandidateFails PROVE TurnInv'
  OBVIOUS
<1>1. /\ at = "case" /\ Turn!Running # Turn!None
      /\ Turn!Last(Turn!Report.results).status = "candidate_started"
      /\ UNCHANGED <<world, perf, hit>>
  BY DEF Turn!CandidateFails
<1>2. Turn!Report.results[Len(Turn!Report.results)].status = "candidate_started"
  BY <1>1, RunningFacts
<1>3. CASE /\ world.truth[Turn!Running] = "raise"
           /\ Turn!Persist(Turn!Excepted(Turn!Report))
           /\ \E mark \in {"device", "load", "none"} :
                Turn!Collect(1, mark, Turn!Excepted(Turn!Report), Turn!Running)
  BY <1>1, <1>2, <1>3, ExceptionStep
<1>4. CASE /\ world.truth[Turn!Running] = "die" /\ UNCHANGED disk
           /\ Turn!Collect(-11, "signal", Turn!Report, Turn!Running)
  <2>1. \A i \in 1..Len(Turn!Report.results) :
          \/ Turn!Report.results[i].status = "passed"
          \/ world.truth[Turn!Report.results[i].index] # "ok"
          \/ Turn!Report.results[i].index \in hit'
    BY <1>1, <1>4, RunningSettles
  <2>2. Truthful(Turn!Report) /\ Turn!Report.failedAt = Turn!Running /\ -11 # 0
    BY <1>1, ReportFacts, RunningFacts
  <2>3. VerdictInv' /\ at' = "done" /\ UNCHANGED acc
    BY <1>1, <1>4, <2>1, <2>2, CollectFails
  <2>4. DiskInv'
    BY <1>1, <1>4, <2>1, DiskKept
  <2> QED BY <1>1, <2>3, <2>4, EndsFailed
<1> QED BY <1>3, <1>4 DEF Turn!CandidateFails

LEMMA MachineRaisesStep == TurnInv /\ Turn!MachineRaises => TurnInv'
<1> SUFFICES ASSUME TurnInv, Turn!MachineRaises PROVE TurnInv'
  OBVIOUS
<1>1. /\ at = "case" /\ Turn!Running # Turn!None
      /\ Turn!Last(Turn!Report.results).status \in {"started", "candidate_returned"}
      /\ hit' = hit \cup {Turn!Running}
      /\ Turn!Persist(Turn!Excepted(Turn!Report))
      /\ Turn!Collect(1, "none", Turn!Excepted(Turn!Report), Turn!Running)
      /\ UNCHANGED <<world, perf>>
  BY DEF Turn!MachineRaises
<1>2. Turn!Report.results[Len(Turn!Report.results)].status # "passed"
  BY <1>1, RunningFacts
<1>3. hit \subseteq hit' /\ Turn!Running \in hit'
  BY <1>1
<1> QED BY <1>1, <1>2, <1>3, ExceptionStep

LEMMA VerificationTimesOutStep == TurnInv /\ Turn!VerificationTimesOut => TurnInv'
<1> SUFFICES ASSUME TurnInv, Turn!VerificationTimesOut PROVE TurnInv'
  OBVIOUS
<1>1. /\ at \in {"load", "case"} /\ hit' = hit \cup ({Turn!Running} \ {Turn!None})
      /\ Turn!Collect(124, "none", Turn!Report, Turn!Running)
      /\ UNCHANGED <<world, disk, perf>>
  BY DEF Turn!VerificationTimesOut
<1>2. hit \subseteq hit' /\ (Turn!Running # Turn!None => Turn!Running \in hit')
  BY <1>1
<1>3. \A i \in 1..Len(Turn!Report.results) :
        \/ Turn!Report.results[i].status = "passed"
        \/ world.truth[Turn!Report.results[i].index] # "ok"
        \/ Turn!Report.results[i].index \in hit'
  <2>1. CASE at = "case"
    BY <1>1, <1>2, <2>1, RunningSettles
  <2>2. CASE at = "load"
    <3>1. Settled(Turn!Report)
      BY <1>1, <2>2, ReportFacts DEF TurnInv, DiskInv, Turn!Report
    <3> QED BY <1>2, <3>1 DEF Settled, Blamed
  <2> QED BY <1>1, <2>1, <2>2
<1>4. Truthful(Turn!Report) /\ (Turn!Running # Turn!None => Turn!Report.failedAt = Turn!Running)
  BY <1>1, ReportFacts, RunningFacts DEF Turn!Running
<1>5. VerdictInv' /\ at' = "done" /\ UNCHANGED acc
  BY <1>1, <1>2, <1>3, <1>4, CollectFails
<1>6. DiskInv'
  BY <1>1, <1>2, <1>3, DiskKept
<1> QED BY <1>1, <1>5, <1>6, EndsFailed

\* The report that ends names no failed case when all of them passed.
LEMMA ConcludedReport ==
  ASSUME NEW d, Truthful(d)
  PROVE  LET e == Turn!Concluded(d) IN
         Truthful(e) /\ e.results = d.results /\ e.passed = d.passed
<1>1. CASE Turn!AllOk(d)
  <2>1. Turn!Concluded(d) = [d EXCEPT !.failedAt = Turn!None]
    BY <1>1 DEF Turn!Concluded
  <2>2. d \in Reports /\ Turn!None \in Int
    BY DEF Truthful, Turn!None
  <2>3. PICK e : e = [d EXCEPT !.failedAt = Turn!None]
    OBVIOUS
  <2>4. e \in Reports /\ e.results = d.results /\ e.passed = d.passed
    BY <2>2, <2>3 DEF Reports
  <2>5. Truthful(e)
    BY <2>4 DEF Truthful
  <2> QED BY <2>1, <2>3, <2>4, <2>5
<1>2. CASE ~Turn!AllOk(d)
  BY <1>2 DEF Turn!Concluded
<1> QED BY <1>1, <1>2

LEMMA VerificationEndsStep == TurnInv /\ Turn!VerificationEnds => TurnInv'
<1> SUFFICES ASSUME TurnInv, Turn!VerificationEnds PROVE TurnInv'
  OBVIOUS
<1> DEFINE d == Turn!Report
           n == Len(d.results)
           sel == Turn!Selected(world, Turn!Profile)
<1>1. /\ at = "case" /\ Turn!Running = Turn!None /\ Turn!Due(d) = {}
      /\ Turn!Persist(Turn!Concluded(d))
      /\ Turn!Collect(IF Turn!AllOk(d) THEN 0 ELSE 1, "none", Turn!Concluded(d), Turn!None)
      /\ UNCHANGED <<world, perf, hit>>
  BY DEF Turn!VerificationEnds
<1>2. PICK e : e = Turn!Concluded(d)
  OBVIOUS
<1>3. Truthful(d) /\ d \in Reports /\ Turn!Profile.name \in Names /\ WorldInv
  BY <1>1, ReportFacts DEF TurnInv
<1>4. Truthful(e) /\ e.results = d.results /\ e.passed = d.passed
  BY <1>2, <1>3, ConcludedReport
<1>5. \A i \in 1..Len(e.results) :
        \/ e.results[i].status = "passed"
        \/ world.truth[e.results[i].index] # "ok" \/ e.results[i].index \in hit'
  BY <1>1, <1>4, RunningSettles
<1>6. DiskInv'
  BY <1>1, <1>2, <1>3, <1>4, <1>5, DiskWritten
<1>7. CASE ~Turn!AllOk(d)
  <2>1. VerdictInv' /\ at' = "done" /\ UNCHANGED acc
    BY <1>1, <1>2, <1>4, <1>5, <1>7, CollectFails
  <2> QED BY <1>1, <1>6, <2>1, EndsFailed
<1>8. CASE Turn!AllOk(d)
  <2>1. \A i \in 1..Len(e.results) : e.results[i].status = "passed"
    BY <1>4, <1>8 DEF Turn!AllOk
  <2>2. e.passed = sel
    <3>1. \A c \in sel : \E i \in 1..n : d.results[i].index = c
      BY <1>1 DEF Turn!Due
    <3>2. sel \subseteq Nat /\ \A i \in 1..n : d.results[i].index \in sel
      BY <1>1, <1>3 DEF TurnInv, CaseInv, Turn!AllCases, WorldInv
    <3>3. e.passed \subseteq Nat
      BY <1>4 DEF Truthful, Reports
    <3>4. \A c \in Nat : c \in e.passed <=> \E i \in 1..n : d.results[i].index = c
      BY <1>4, <2>1 DEF Truthful
    <3> HIDE DEF sel, n, d
    <3>5. \A c \in Nat : c \in e.passed <=> c \in sel
      BY <3>1, <3>2, <3>4
    <3> QED BY <3>2, <3>3, <3>5
  <2>3. Turn!Collect(0, "none", e, Turn!None)
    BY <1>1, <1>2, <1>8
  <2>4. AccInv' /\ at' \in {"verify", "benchmark"}
    BY <1>1, <1>4, <2>1, <2>2, <2>3, CollectPasses
  <2>5. WorldInv' /\ PerfInv' /\ CaseInv' /\ VerdictInv'
    BY <1>1, <2>4, SameWorld DEF TurnInv, PerfInv, CaseInv, VerdictInv
  <2> QED BY <1>6, <2>4, <2>5 DEF TurnInv
<1> QED BY <1>7, <1>8

LEMMA ScoredStep ==
  ASSUME TurnInv, at \in {"benchmark", "profiling"}, UNCHANGED <<world, acc, disk, hit>>,
         NEW rc, Turn!Score(rc, perf'), PerfInv'
  PROVE  TurnInv'
<1>1. VerdictInv' /\ at' = "done"
  BY ScoreFacts
<1>2. DiskInv'
  BY DiskKept
<1>3. WorldInv' /\ AccInv' /\ CaseInv'
  BY <1>1, SameWorld DEF TurnInv, AccInv, CaseInv, Right
<1> QED BY <1>1, <1>2, <1>3 DEF TurnInv

LEMMA BenchmarkStep == TurnInv /\ (Turn!Timing \/ Turn!BenchmarkEnds) => TurnInv'
<1> SUFFICES ASSUME TurnInv, Turn!Timing \/ Turn!BenchmarkEnds PROVE TurnInv'
  OBVIOUS
<1>1. at \in {"benchmark", "profiling"} /\ UNCHANGED <<world, acc, disk, hit>>
  BY DEF Turn!Timing, Turn!BenchmarkEnds
<1>2. \/ /\ perf' = [status |-> "ok", measured |-> Turn!AllCases(world)]
         /\ at' = "profiling" /\ UNCHANGED verdict
      \/ /\ perf' = perf \/ perf' = [status |-> "error", measured |-> {}]
         /\ \E rc \in Int : Turn!Score(rc, perf')
  <2>1. CASE Turn!Timing
    <3>1. \/ /\ perf' = [status |-> "ok", measured |-> Turn!AllCases(world)]
             /\ at' = "profiling" /\ UNCHANGED verdict
          \/ perf' = [status |-> "error", measured |-> {}] /\ Turn!Score(1, perf')
          \/ UNCHANGED perf /\ Turn!Score(-11, perf)
      BY <2>1 DEF Turn!Timing
    <3>2. 1 \in Int /\ -11 \in Int
      OBVIOUS
    <3>3. UNCHANGED perf /\ Turn!Score(-11, perf) => Turn!Score(-11, perf')
      BY DEF Turn!Score, Turn!MeasuresWhatPassed
    <3> QED BY <3>1, <3>2, <3>3
  <2>2. CASE Turn!BenchmarkEnds
    <3>1. \/ UNCHANGED perf /\ \E rc \in {0, 124, -9} : Turn!Score(rc, perf)
          \/ perf' = [status |-> "error", measured |-> {}] /\ Turn!Score(1, perf')
      BY <2>2 DEF Turn!BenchmarkEnds
    <3>2. 1 \in Int /\ {0, 124, -9} \subseteq Int
      OBVIOUS
    <3>3. \A rc : UNCHANGED perf /\ Turn!Score(rc, perf) => Turn!Score(rc, perf')
      BY DEF Turn!Score, Turn!MeasuresWhatPassed
    <3> QED BY <3>1, <3>2, <3>3
  <2> QED BY <2>1, <2>2
<1>3. PerfInv'
  BY <1>1, <1>2, SameWorld DEF TurnInv, PerfInv
<1>4. CASE \E rc \in Int : Turn!Score(rc, perf')
  BY <1>1, <1>3, <1>4, ScoredStep
<1>5. CASE at' = "profiling" /\ UNCHANGED verdict
  <2>1. DiskInv'
    BY <1>1, DiskKept
  <2>2. WorldInv' /\ AccInv' /\ CaseInv' /\ VerdictInv'
    BY <1>1, <1>5, SameWorld DEF TurnInv, AccInv, CaseInv, VerdictInv, Right
  <2> QED BY <1>3, <2>1, <2>2 DEF TurnInv
<1> QED BY <1>2, <1>4, <1>5

LEMMA RunnerDiesStep == TurnInv /\ Turn!RunnerDies => TurnInv'
<1> SUFFICES ASSUME TurnInv, Turn!RunnerDies PROVE TurnInv'
  OBVIOUS
<1>1. /\ at' = "start" /\ acc' = Turn!Fresh
      /\ hit' = hit \cup ({Turn!Running} \ {Turn!None})
      /\ UNCHANGED <<world, disk, perf, verdict>>
  BY DEF Turn!RunnerDies
<1>2. DiskInv'
  <2>1. hit \subseteq hit' /\ (Turn!Running # Turn!None => Turn!Running \in hit')
    BY <1>1
  <2> QED BY <1>1, <2>1, RunningSettles, DiskKept
<1>3. acc' = [k |-> 0, passed |-> {}, results |-> <<>>]
  BY <1>1 DEF Turn!Fresh
<1>4. AccInv' /\ WorldInv' /\ PerfInv' /\ CaseInv' /\ VerdictInv'
  BY <1>1, <1>3, SameWorld DEF TurnInv, AccInv, PerfInv, CaseInv, VerdictInv
<1> QED BY <1>2, <1>4 DEF TurnInv

LEMMA TurnStep == TurnInv /\ [Turn!Next]_turnVars => TurnInv'
<1> SUFFICES ASSUME TurnInv, [Turn!Next]_turnVars PROVE TurnInv'
  OBVIOUS
<1>1. CASE UNCHANGED turnVars
  <2>1. UNCHANGED <<world, at, acc, disk, perf, verdict, hit>>
    BY <1>1 DEF turnVars
  <2>2. Items' = Items /\ Reports' = Reports /\ DueCases' = DueCases
        /\ Turn!AllCases(world)' = Turn!AllCases(world) /\ WorldInv'
    BY <2>1, SameWorld DEF TurnInv
  <2>3. Turn!Profile' = Turn!Profile /\ Turn!Report' = Turn!Report
    BY <2>1 DEF Turn!Profile, Turn!Report
  <2>4. DiskInv'
    BY <2>1, <2>2, <2>3 DEF TurnInv, DiskInv, Truthful, Right, Settled, Blamed
  <2>5. CaseInv'
    BY <2>1, <2>2, <2>3 DEF TurnInv, CaseInv, Blamed, Turn!Selected
  <2>6. AccInv' /\ PerfInv' /\ VerdictInv'
    BY <2>1, <2>2 DEF TurnInv, AccInv, PerfInv, VerdictInv, Right, Blamed
  <2> QED BY <2>2, <2>4, <2>5, <2>6 DEF TurnInv
<1> QED BY <1>1, PrecheckStep, LaunchStep, LoadFailsStep, NextCaseStep, AdvanceStep,
        CandidateFailsStep, MachineRaisesStep, VerificationTimesOutStep,
        VerificationEndsStep, BenchmarkStep, RunnerDiesStep DEF Turn!Next

LEMMA TurnHolds == Spec => [](part = "turn" => TurnInv)
<1> DEFINE I == part = "turn" => TurnInv
<1>1. Init => I
  BY JudgingAssumption, TurnInit DEF Init
<1>2. I /\ [Next]_vars => I'
  <2> SUFFICES ASSUME TurnInv, [Next]_vars, part = "turn" PROVE [Turn!Next]_turnVars
    BY TurnStep DEF Next, vars
  <2> QED BY DEF Next, vars, JudgeKernel, JudgeAgent, kernelVars
<1> QED BY <1>1, <1>2, PTL DEF Spec

\* A result called correct is of a candidate that is right on every case due,
\* each of them reported; a scored one is right on every input group and was
\* timed on exactly those, whatever reports an earlier life of the runner left in
\* the directory (evaluator.py:385-467, 546).  A verification that ended inside a
\* case is blamed on that case (evaluator.py:439).
THEOREM ReportsAreTrue == Spec => []ReportIsTrue
<1>1. TurnInv => Turn!AcceptedIsWhole
  <2> SUFFICES ASSUME TurnInv, at = "done" PROVE Turn!AcceptedIsWhole
    BY DEF Turn!AcceptedIsWhole
  <2>1. verdict.correct => verdict.passed = DueCases /\ \A c \in DueCases : world.truth[c] = "ok"
    BY DEF TurnInv, VerdictInv
  <2>2. verdict.scored => /\ verdict.correct /\ perf.measured = verdict.passed
                          /\ perf.measured = Turn!AllCases(world)
    BY DEF TurnInv, VerdictInv, PerfInv
  <2> QED BY <2>1, <2>2 DEF Turn!AcceptedIsWhole, DueCases
<1>2. TurnInv => Turn!DeathIsLocated
  BY DEF TurnInv, VerdictInv, Turn!DeathIsLocated
<1>3. (part = "turn" => TurnInv) => ReportIsTrue
  BY <1>1, <1>2 DEF ReportIsTrue
<1> QED BY <1>3, TurnHolds, PTL

\* The case the next round is shown as failed or incomplete did fail, or the
\* machine did while it ran; one that passed is shown only when no other is left
\* (diagnostics.py:680-694).
THEOREM ShownCasesFailed == Spec => []ShownCaseFailed
<1>1. TurnInv => Turn!ShownCaseFailed
  <2> SUFFICES ASSUME TurnInv, at = "done", NEW item \in Turn!Shown(verdict)
               PROVE  IF item.status = "passed"
                      THEN ~Turn!HasStatus(verdict, {"started", "candidate_started", "failed", "error"})
                      ELSE world.truth[item.index] # "ok" \/ item.index \in hit
    BY DEF Turn!ShownCaseFailed
  <2> DEFINE open == {i \in 1..Len(verdict.results) :
                        verdict.results[i].status \notin
                          {"passed", "reference_passed", "candidate_returned"}}
  <2>1. /\ verdict.results \in Seq(Items)
        /\ \A i \in 1..Len(verdict.results) : Blamed(verdict.results[i])
    BY DEF TurnInv, VerdictInv
  <2>2. CASE open # {}
    <3>1. PICK i \in open : item = verdict.results[i]
      BY <2>2 DEF Turn!Shown
    <3> QED BY <2>1, <3>1 DEF Blamed
  <2>3. CASE open = {}
    <3>1. verdict.results # <<>> /\ item = Turn!Last(verdict.results)
      BY <2>3 DEF Turn!Shown
    <3>2. Len(verdict.results) \in 1..Len(verdict.results)
      BY <2>1, <3>1
    <3>3. Blamed(item)
      BY <2>1, <3>1, <3>2 DEF Turn!Last
    <3>4. ~Turn!HasStatus(verdict, {"started", "candidate_started", "failed", "error"})
      BY <2>3 DEF Turn!HasStatus
    <3> QED BY <3>3, <3>4 DEF Blamed
  <2> QED BY <2>2, <2>3
<1>2. (part = "turn" => TurnInv) => ShownCaseFailed
  BY <1>1 DEF ShownCaseFailed
<1> QED BY <1>2, TurnHolds, PTL

\* No gate of a result is reported passed after one that is not
\* (diagnostics.py:547-571): whatever the log ended with, a later stage is read
\* off the case reports only where the earlier ones are read off them as well.
THEOREM GatesOfResultsAreOrdered == Spec => []GatesAreOrdered
<1>1. TurnInv => Turn!GatesAreOrdered
  <2> SUFFICES ASSUME TurnInv, at = "done"
               PROVE  \A i, j \in 1..7 :
                        i < j /\ Turn!Gates(verdict)[j] = "pass" => Turn!Gates(verdict)[i] = "pass"
    BY DEF Turn!GatesAreOrdered
  <2> DEFINE r == verdict
             g == Turn!Gates(r)
  <2>1. /\ r.compiled => r.stage \notin Turn!Validations
        /\ r.correct => r.compiled
    BY DEF TurnInv, VerdictInv
  <2>2. /\ g[1] = "pass" <=> r.stage \notin Turn!Validations
        /\ g[2] = "pass" <=> r.compiled
        /\ g[3] = "pass" <=> Turn!Loaded(r) = "pass"
        /\ g[4] = "pass" <=> Turn!Executed(r) \in {"pass", "fail"}
        /\ g[5] = "pass" <=> Turn!Correct(r) \in {"pass", "fail"}
        /\ g[6] = "pass" <=> r.correct
        /\ g[7] = "pass" <=> r.correct /\ r.scored
    BY DEF Turn!Gates
  <2>3. \A S : Turn!HasStatus(r, S) => r.results # <<>>
    BY DEF Turn!HasStatus
  <2>4. g[3] = "pass" => g[2] = "pass"
    BY <2>2 DEF Turn!Loaded
  <2>5. g[4] = "pass" => g[3] = "pass"
    BY <2>2, <2>3 DEF Turn!Loaded, Turn!Executed
  <2>6. g[5] = "pass" => g[4] = "pass"
    BY <2>1, <2>2, <2>3 DEF Turn!Correct, Turn!Executed
  <2>7. g[6] = "pass" => g[5] = "pass"
    BY <2>2 DEF Turn!Correct
  <2>8. (g[7] = "pass" => g[6] = "pass") /\ (g[2] = "pass" => g[1] = "pass")
    BY <2>1, <2>2
  <2> HIDE DEF g
  <2>9. ASSUME NEW j \in 1..7, g[j] = "pass", NEW i \in 1..7, i < j
        PROVE  g[i] = "pass"
    <3>1. \A k \in 1..7 : k = 1 \/ k = 2 \/ k = 3 \/ k = 4 \/ k = 5 \/ k = 6 \/ k = 7
      OBVIOUS
    <3> QED BY <2>4, <2>5, <2>6, <2>7, <2>8, <2>9, <3>1
  <2> QED BY <2>9 DEF g
<1>2. (part = "turn" => TurnInv) => GatesAreOrdered
  BY <1>1 DEF GatesAreOrdered
<1> QED BY <1>2, TurnHolds, PTL

-----------------------------------------------------------------------------
(* Overlapping tool calls *)

LivePhases == {"BASELINE", "PLAN", "EDIT", "DIAGNOSE", "REPLAN", "FINISH"}

Record == [phase : LivePhases, init : BOOLEAN, prog : Gate!Progress,
           pending : Gate!Kd \cup {Gate!NoKd}, expPlan : Nat, expRound : Nat]

\* The calls in flight are the agent's, whatever is left of them.
CallsAreKnown ==
  \A a \in DOMAIN call : a \in [call : Gate!Calls, hook : BOOLEAN, work : BOOLEAN]

GateInv ==
  /\ st \in Record /\ plan \in Gate!Plan
  /\ CallsAreKnown
  /\ st.phase = "EDIT" => Gate!HasPending(plan) \/ st.pending # Gate!NoKd

\* The record with another phase or with other progress is one.
LEMMA PhaseOfRecord ==
  ASSUME NEW s \in Record, NEW p \in LivePhases
  PROVE  [s EXCEPT !.phase = p] \in Record
BY DEF Record

LEMMA ProgressOfRecord ==
  ASSUME NEW s \in Record, NEW g \in Gate!Progress
  PROVE  [s EXCEPT !.prog = g] \in Record
BY DEF Record

LEMMA PendingOfRecord ==
  ASSUME NEW s \in Record, NEW k \in Gate!Kd \cup {Gate!NoKd}
  PROVE  [s EXCEPT !.pending = k] \in Record
BY DEF Record

\* The calls an agent makes start no script but the three engine scripts.
LEMMA StartedScripts ==
  ASSUME NEW c \in Gate!Commands
  PROVE  \A i \in Gate!Runs(c) : c.segs[i].script \in Gate!Scripts
<1>1. \A i \in DOMAIN c.segs : Gate!Starts(c.segs[i]) => c.segs[i].script \in Gate!Scripts
  <2>1. ASSUME NEW name \in Gate!Scripts, NEW e, e = Gate!Direct(name)
        PROVE  \A i \in DOMAIN e.segs : e.segs[i].script = name
    <3>1. PICK s : s = [Gate!Plain EXCEPT !.head = "python", !.dir = Gate!Location[name],
                                          !.script = name]
      OBVIOUS
    <3>2. s.script = name
      BY <3>1 DEF Gate!Plain
    <3>3. e.segs = <<s>>
      BY <2>1, <3>1 DEF Gate!Direct, Gate!Command
    <3> QED BY <3>2, <3>3
  <2>2. CASE c = Gate!WithTask(Gate!Direct("create_plan"))
    <3>1. PICK s : s = [Gate!Plain EXCEPT !.head = "python",
                             !.dir = Gate!Location["create_plan"], !.script = "create_plan"]
      OBVIOUS
    <3>2. "script" \in DOMAIN s /\ s.script = "create_plan"
      BY <3>1 DEF Gate!Plain
    <3>3. c = [Gate!Command(<<s>>, FALSE, FALSE) EXCEPT !.segs[1].env = "task"]
      BY <2>2, <3>1 DEF Gate!WithTask, Gate!Direct
    <3>4. c.segs = [<<s>> EXCEPT ![1].env = "task"]
      BY <3>3 DEF Gate!Command
    <3>5. DOMAIN c.segs = {1} /\ c.segs[1] = [s EXCEPT !.env = "task"]
      BY <3>4
    <3>6. c.segs[1].script = "create_plan"
      BY <3>2, <3>5
    <3> QED BY <3>5, <3>6 DEF Gate!Scripts
  <2>3. CASE c = Gate!Export
    BY <2>3 DEF Gate!Export, Gate!Command, Gate!Plain, Gate!Starts, Gate!Blessed, Gate!Location
  <2>4. CASE c = [Gate!Direct("pipeline") EXCEPT !.background = TRUE]
    <3>1. PICK e : e = Gate!Direct("pipeline")
      OBVIOUS
    <3>2. \A i \in DOMAIN e.segs : e.segs[i].script = "pipeline"
      BY <2>1, <3>1 DEF Gate!Scripts
    <3>3. "segs" \in DOMAIN e
      BY <3>1 DEF Gate!Direct, Gate!Command
    <3>4. c.segs = e.segs
      BY <2>4, <3>1, <3>3
    <3> QED BY <3>2, <3>4 DEF Gate!Scripts
  <2> QED BY <2>1, <2>2, <2>3, <2>4 DEF Gate!Commands
<1> QED BY <1>1 DEF Gate!Runs

\* What the calls in flight are is kept by every step of a call.
LEMMA CallGoesOn ==
  ASSUME CallsAreKnown, NEW a \in DOMAIN call,
         NEW left \in [call : Gate!Calls, hook : BOOLEAN, work : BOOLEAN],
         Gate!GoesOn(a, left)
  PROVE  CallsAreKnown'
<1>1. DOMAIN call' \subseteq DOMAIN call \cup {left}
  BY DEF Gate!GoesOn, Gate!BagAdd, Gate!BagRemove
<1> QED BY <1>1 DEF CallsAreKnown

LEMMA AskKeepsGate ==
  ASSUME GateInv, NEW c \in Gate!Calls, Gate!Ask(c)
  PROVE  GateInv'
<1>1. Gate!Asked(c) \in [call : Gate!Calls, hook : BOOLEAN, work : BOOLEAN]
  BY DEF Gate!Asked
<1>2. DOMAIN call' \subseteq DOMAIN call \cup {Gate!Asked(c)}
  BY DEF Gate!Ask, Gate!BagAdd
<1>3. CallsAreKnown'
  BY <1>1, <1>2 DEF GateInv, CallsAreKnown
<1> QED BY <1>3 DEF GateInv, Gate!Ask, Gate!HasPending

LEMMA BaselineKeepsGate ==
  ASSUME GateInv, Gate!RunBaseline
  PROVE  /\ st' \in Record /\ plan' \in Gate!Plan
         /\ st'.phase = "EDIT" => Gate!HasPending(plan') \/ st'.pending # Gate!NoKd
<1>1. plan' = plan /\ plan \in Gate!Plan /\ st \in Record
  BY DEF Gate!RunBaseline, GateInv
<1>2. CASE \E p \in {"PLAN", "BASELINE"} : st' = [st EXCEPT !.phase = p]
  <2>1. PICK p \in {"PLAN", "BASELINE"} : st' = [st EXCEPT !.phase = p]
    BY <1>2
  <2>2. st' \in Record
    BY <1>1, <2>1, PhaseOfRecord DEF LivePhases
  <2>3. st'.phase = p
    BY <1>1, <2>1 DEF Record
  <2> QED BY <1>1, <2>2, <2>3
<1>3. CASE \E best \in {0, Gate!NoCommit}, phase \in {"PLAN", st.phase} :
             st' = [Gate!Committed(st, Gate!BaselineEntry(best)) EXCEPT !.phase = phase]
  <2>1. PICK best \in {0, Gate!NoCommit}, phase \in {"PLAN", st.phase} :
               st' = [Gate!Committed(st, Gate!BaselineEntry(best)) EXCEPT !.phase = phase]
    BY <1>3
  <2>2. PICK s : s = Gate!Committed(st, Gate!BaselineEntry(best))
    OBVIOUS
  <2>3. PICK g : g = [Gate!NoProgress EXCEPT !.best = best, !.seedOk = (best # Gate!NoCommit)]
    OBVIOUS
  <2>4. g \in Gate!Progress
    <3>1. Gate!NoProgress \in Gate!Progress /\ best \in Int
      BY DEF Gate!NoProgress, Gate!Progress, Gate!NoCommit
    <3>2. PICK h : h = [Gate!NoProgress EXCEPT !.best = best]
      OBVIOUS
    <3>3. h \in Gate!Progress
      BY <3>1, <3>2 DEF Gate!Progress
    <3>4. PICK ok \in BOOLEAN : ok = (best # Gate!NoCommit)
      OBVIOUS
    <3>5. g = [h EXCEPT !.seedOk = ok]
      BY <2>3, <3>2, <3>4
    <3> QED BY <3>3, <3>5 DEF Gate!Progress
  <2>5. s = [st EXCEPT !.prog = g, !.init = TRUE, !.expRound = 0]
    BY <2>2, <2>3 DEF Gate!Committed, Gate!BaselineEntry
  <2>6. s \in Record /\ s.pending = st.pending
    BY <1>1, <2>4, <2>5 DEF Record
  <2>7. st' = [s EXCEPT !.phase = phase] /\ phase \in LivePhases
    BY <1>1, <2>1, <2>2 DEF Record, LivePhases
  <2>8. st' \in Record
    BY <2>6, <2>7, PhaseOfRecord
  <2>9. st'.phase = phase /\ st'.pending = st.pending
    BY <2>6, <2>7 DEF Record
  <2> QED BY <1>1, <2>8, <2>9 DEF GateInv
<1> QED BY <1>2, <1>3 DEF Gate!RunBaseline

LEMMA CreatePlanKeepsGate ==
  ASSUME GateInv, Gate!RunCreatePlan
  PROVE  /\ st' \in Record /\ plan' \in Gate!Plan
         /\ st'.phase = "EDIT" => Gate!HasPending(plan') \/ st'.pending # Gate!NoKd
<1>1. plan \in Gate!Plan /\ st \in Record
  BY DEF GateInv
<1>2. PICK n \in PlanSizes :
        LET first == Gate!FirstPid(st.prog, plan)
            v == st.prog.version + 1
        IN  /\ plan' = Gate!RewrittenPlan(v, first, n, plan)
            /\ st' = IF st.init THEN Gate!Committed(st, Gate!PlanEntry(v, first + n)) ELSE st
  BY DEF Gate!RunCreatePlan
<1>3. PICK first : first = Gate!FirstPid(st.prog, plan)
  OBVIOUS
<1>4. PICK v : v = st.prog.version + 1
  OBVIOUS
<1>5. first \in Nat /\ v \in Nat /\ n \in Nat /\ n >= 3
  <2>1. n \in Nat /\ n >= 3
    BY JudgingAssumption
  <2>2. st.prog \in Gate!Progress
    BY <1>1 DEF Record
  <2>3. st.prog.version \in Nat /\ st.prog.nextPid \in Nat
    BY <2>2 DEF Gate!Progress
  <2>4. plan.first \in Nat /\ plan.n \in Nat
    BY <1>1 DEF Gate!Plan
  <2>5. first \in Nat
    BY <1>3, <2>3, <2>4 DEF Gate!FirstPid
  <2> QED BY <1>4, <2>1, <2>3, <2>5
<1>6. plan' = [v |-> v, first |-> first, n |-> n, done |-> 0, settled |-> plan.settled]
  BY <1>2, <1>3, <1>4 DEF Gate!RewrittenPlan
<1>7. plan' \in Gate!Plan /\ Gate!HasPending(plan')
  BY <1>1, <1>5, <1>6 DEF Gate!Plan, Gate!HasPending
<1>8. PICK m : m = first + n
  OBVIOUS
<1>9. PICK s : s = Gate!Committed(st, Gate!PlanEntry(v, m))
  OBVIOUS
<1>10. s = [st EXCEPT !.prog.version = v, !.prog.nextPid = m, !.expPlan = v]
  BY <1>1, <1>9 DEF Gate!Committed, Gate!PlanEntry, Gate!NoProgress
<1>11. s \in Record
  <2>1. st.prog \in Gate!Progress
    BY <1>1 DEF Record
  <2>2. PICK g : g = [st.prog EXCEPT !.version = v]
    OBVIOUS
  <2>3. g \in Gate!Progress
    BY <1>5, <2>1, <2>2 DEF Gate!Progress
  <2>4. PICK h : h = [g EXCEPT !.nextPid = m]
    OBVIOUS
  <2>5. h \in Gate!Progress
    BY <1>5, <1>8, <2>3, <2>4 DEF Gate!Progress
  <2>6. s = [[st EXCEPT !.prog = h] EXCEPT !.expPlan = v]
    BY <1>1, <1>10, <2>2, <2>4 DEF Record
  <2>7. [st EXCEPT !.prog = h] \in Record
    BY <1>1, <2>5, ProgressOfRecord
  <2> QED BY <1>5, <2>6, <2>7 DEF Record
<1>12. st' \in {s, st}
  BY <1>2, <1>3, <1>4, <1>8, <1>9
<1> QED BY <1>1, <1>7, <1>11, <1>12

\* A record between the round and its settle.
LEMMA RecordedIsRecord ==
  ASSUME GateInv, NEW d \in RoundEnds
  PROVE  /\ Gate!Recorded(d) \in Record
         /\ Gate!Recorded(d).pending \in Gate!Kd
<1>1. plan \in Gate!Plan /\ st \in Record /\ d \in Gate!Decisions
  BY JudgingAssumption DEF GateInv, Gate!Decisions
<1>2. PICK item : item = Gate!ActiveItem(plan)
  OBVIOUS
<1>3. item \in Nat
  BY <1>1, <1>2 DEF Gate!ActiveItem, Gate!HasPending, Gate!Plan
<1>4. PICK r : r = st.prog.rounds + 1
  OBVIOUS
<1>5. PICK f : f = CASE d = "FAIL" -> st.prog.fails + 1 [] d = "KEEP" -> 0
                     [] OTHER -> st.prog.fails
  OBVIOUS
<1>6. PICK b : b = IF d = "KEEP" THEN 0 ELSE st.prog.best
  OBVIOUS
<1>7. st.prog \in Gate!Progress
  BY <1>1 DEF Record
<1>8. st.prog.rounds \in Nat /\ st.prog.fails \in Nat /\ st.prog.best \in Int
  BY <1>7 DEF Gate!Progress
<1>9. r \in Nat /\ f \in Nat /\ b \in Int
  BY <1>4, <1>5, <1>6, <1>8
<1>10. PICK g : g = [[[st.prog EXCEPT !.rounds = r] EXCEPT !.fails = f] EXCEPT !.best = b]
  OBVIOUS
<1>11. g \in Gate!Progress
  <2>1. [st.prog EXCEPT !.rounds = r] \in Gate!Progress
    BY <1>7, <1>9 DEF Gate!Progress
  <2>2. [[st.prog EXCEPT !.rounds = r] EXCEPT !.fails = f] \in Gate!Progress
    BY <1>9, <2>1 DEF Gate!Progress
  <2> QED BY <1>9, <1>10, <2>2 DEF Gate!Progress
<1>12. PICK k : k = [item |-> item, decision |-> d, round |-> r]
  OBVIOUS
<1>13. k \in Gate!Kd
  BY <1>1, <1>3, <1>9, <1>12 DEF Gate!Kd
<1>14. g = [st.prog EXCEPT !.rounds = r, !.fails = f, !.best = b]
  BY <1>10
<1>15. Gate!Recorded(d) = [st EXCEPT !.prog.rounds = r, !.prog.fails = f, !.prog.best = b,
                                     !.pending = k, !.expRound = r]
  BY <1>1, <1>2, <1>4, <1>5, <1>6, <1>12 DEF Gate!Recorded, Record
<1>16. Gate!Recorded(d) = [[[st EXCEPT !.prog = g] EXCEPT !.pending = k] EXCEPT !.expRound = r]
  BY <1>1, <1>14, <1>15 DEF Record
<1>17. PICK s : s = [[st EXCEPT !.prog = g] EXCEPT !.pending = k]
  OBVIOUS
<1>18. s \in Record /\ s.pending = k
  BY <1>1, <1>11, <1>13, <1>17 DEF Record
<1> QED BY <1>9, <1>13, <1>16, <1>17, <1>18 DEF Record

LEMMA SettledKeepsGate ==
  ASSUME GateInv, NEW s \in Record, s.pending \in Gate!Kd, Gate!Settled(s)
  PROVE  /\ st' \in Record /\ plan' \in Gate!Plan
         /\ st'.phase = "EDIT" => Gate!HasPending(plan') \/ st'.pending # Gate!NoKd
<1>1. plan \in Gate!Plan
  BY DEF GateInv
<1>2. s.pending # Gate!NoKd
  BY DEF Gate!Kd, Gate!NoKd, Gate!Decisions
<1>3. CASE st' = s /\ plan' = plan
  BY <1>1, <1>2, <1>3
<1>4. PICK r : r = Gate!SettleResult(plan, s.pending)
  OBVIOUS
<1>5. PICK p : p = IF r = "settle" THEN Gate!SettledPlan(plan, s.pending.decision) ELSE plan
  OBVIOUS
<1>6. CASE plan' = p /\ st' = [s EXCEPT !.phase = Gate!NextPhase(s, p), !.pending = Gate!NoKd]
  <2>1. Gate!ActiveItem(plan) \in Nat
    BY <1>1 DEF Gate!ActiveItem, Gate!HasPending, Gate!Plan
  <2>2. p \in Gate!Plan
    <3>1. CASE p = plan
      BY <1>1, <3>1
    <3>2. CASE p = Gate!SettledPlan(plan, s.pending.decision)
      <4>1. PICK row : row = [item |-> Gate!ActiveItem(plan), decision |-> s.pending.decision]
        OBVIOUS
      <4>2. row \in Gate!SettledRow
        BY <2>1, <4>1 DEF Gate!SettledRow, Gate!Kd
      <4>3. plan.settled \in Seq(Gate!SettledRow) /\ plan.done \in Nat
        BY <1>1 DEF Gate!Plan
      <4>4. PICK rows : rows = Append(plan.settled, row)
        OBVIOUS
      <4>5. rows \in Seq(Gate!SettledRow)
        BY <4>2, <4>3, <4>4
      <4>6. PICK m : m = plan.done + 1
        OBVIOUS
      <4>7. p = [[plan EXCEPT !.done = m] EXCEPT !.settled = rows]
        BY <1>1, <3>2, <4>1, <4>4, <4>6 DEF Gate!SettledPlan, Gate!Plan
      <4>8. [plan EXCEPT !.done = m] \in Gate!Plan
        BY <1>1, <4>3, <4>6 DEF Gate!Plan
      <4> QED BY <4>5, <4>7, <4>8 DEF Gate!Plan
    <3> QED BY <1>5, <3>1, <3>2
  <2>3. PICK f : f = Gate!NextPhase(s, p)
    OBVIOUS
  <2>4. f \in LivePhases /\ (f = "EDIT" => Gate!HasPending(p))
    BY <2>3 DEF Gate!NextPhase, LivePhases
  <2>5. st' = [s EXCEPT !.phase = f, !.pending = Gate!NoKd]
    BY <1>6, <2>3
  <2>6. st' \in Record /\ st'.phase = f
    BY <2>4, <2>5 DEF Record
  <2> QED BY <1>6, <2>2, <2>4, <2>6
<1> QED BY <1>3, <1>4, <1>5, <1>6 DEF Gate!Settled

LEMMA PipelineKeepsGate ==
  ASSUME GateInv, Gate!RunPipeline
  PROVE  /\ st' \in Record /\ plan' \in Gate!Plan
         /\ st'.phase = "EDIT" => Gate!HasPending(plan') \/ st'.pending # Gate!NoKd
<1>1. plan \in Gate!Plan /\ st \in Record
  BY DEF GateInv
<1>2. CASE st.pending # Gate!NoKd /\ Gate!Settled(st)
  BY <1>1, <1>2, SettledKeepsGate DEF Record
<1>3. CASE UNCHANGED <<st, plan>>
  BY <1>3 DEF GateInv
<1>4. CASE \E d \in RoundEnds : Gate!Settled(Gate!Recorded(d))
  <2>1. PICK d \in RoundEnds : Gate!Settled(Gate!Recorded(d))
    BY <1>4
  <2> QED BY <2>1, RecordedIsRecord, SettledKeepsGate
<1> QED BY <1>2, <1>3, <1>4 DEF Gate!RunPipeline

LEMMA WorkKeepsGate ==
  ASSUME GateInv, NEW a \in DOMAIN call, Gate!Work(a)
  PROVE  GateInv'
<1>1. a \in [call : Gate!Calls, hook : BOOLEAN, work : BOOLEAN]
  BY DEF GateInv, CallsAreKnown
<1>2. CallsAreKnown'
  <2>1. PICK left : left = [a EXCEPT !.work = FALSE]
    OBVIOUS
  <2>2. left \in [call : Gate!Calls, hook : BOOLEAN, work : BOOLEAN]
    BY <1>1, <2>1
  <2>3. Gate!GoesOn(a, left)
    BY <2>1 DEF Gate!Work
  <2> QED BY <2>2, <2>3, CallGoesOn DEF GateInv
<1>3. /\ st' \in Record /\ plan' \in Gate!Plan
      /\ st'.phase = "EDIT" => Gate!HasPending(plan') \/ st'.pending # Gate!NoKd
  <2>1. CASE /\ a.call.tool = "Bash"
            /\ \E i \in Gate!Runs(a.call.cmd) : Gate!Runs1(a.call.cmd.segs[i].script)
    <3>1. PICK i \in Gate!Runs(a.call.cmd) : Gate!Runs1(a.call.cmd.segs[i].script)
      BY <2>1
    <3> DEFINE name == a.call.cmd.segs[i].script
    <3>2. a.call.cmd \in Gate!Commands
      BY <1>1, <2>1 DEF Gate!Calls, Gate!Bash, Gate!Write, Gate!Task
    <3>3. name \in {"baseline", "create_plan", "pipeline"}
      BY <3>1, <3>2, StartedScripts DEF Gate!Scripts
    <3> HIDE DEF name
    <3>4. Gate!Runs1(name)
      BY <3>1 DEF name
    <3> QED BY <3>3, <3>4, BaselineKeepsGate, CreatePlanKeepsGate, PipelineKeepsGate
            DEF Gate!Runs1
  <2>2. CASE UNCHANGED <<st, plan>>
    BY <2>2 DEF GateInv
  <2> QED BY <2>1, <2>2 DEF Gate!Work, Gate!WriteFile
<1>4. Gate!HasPending(plan)' = Gate!HasPending(plan')
  BY DEF Gate!HasPending
<1> QED BY <1>2, <1>3, <1>4 DEF GateInv

LEMMA HookKeepsGate ==
  ASSUME GateInv, NEW a \in DOMAIN call, Gate!Hook(a)
  PROVE  GateInv'
<1>1. /\ a \in [call : Gate!Calls, hook : BOOLEAN, work : BOOLEAN]
      /\ plan' = plan /\ plan \in Gate!Plan /\ st \in Record
  BY DEF GateInv, CallsAreKnown, Gate!Hook
<1>2. CallsAreKnown'
  <2>1. PICK left : left = [a EXCEPT !.hook = FALSE]
    OBVIOUS
  <2>2. left \in [call : Gate!Calls, hook : BOOLEAN, work : BOOLEAN]
    BY <1>1, <2>1
  <2>3. Gate!GoesOn(a, left)
    BY <2>1 DEF Gate!Hook
  <2> QED BY <2>2, <2>3, CallGoesOn DEF GateInv
<1>3. /\ st' \in Record
      /\ st'.phase = "EDIT" => Gate!HasPending(plan) \/ st'.pending # Gate!NoKd
  <2>1. CASE st' = st
    BY <1>1, <2>1 DEF GateInv
  <2>2. CASE Gate!Activate
    <3>1. PICK f : f = Gate!ResumePhase(st, plan)
      OBVIOUS
    <3>2. f \in LivePhases /\ (f = "EDIT" => Gate!HasPending(plan))
      BY <3>1 DEF Gate!ResumePhase, LivePhases
    <3>3. st' = st \/ st' = [st EXCEPT !.phase = f]
      BY <2>2, <3>1 DEF Gate!Activate
    <3>4. [st EXCEPT !.phase = f] \in Record /\ [st EXCEPT !.phase = f].phase = f
      BY <1>1, <3>2, PhaseOfRecord DEF Record
    <3> QED BY <2>1, <3>2, <3>3, <3>4
  <2>3. CASE Gate!PostCreatePlan /\ st' # st
    <3>1. Gate!HasPending(plan)
      BY <2>3 DEF Gate!PostCreatePlan, Gate!ValidPlan
    <3>2. st.prog \in Gate!Progress
      BY <1>1 DEF Record
    <3>3. PICK n : n = IF st.phase = "DIAGNOSE" THEN 0 ELSE st.prog.fails
      OBVIOUS
    <3>4. n \in Nat
      BY <3>2, <3>3 DEF Gate!Progress
    <3>5. PICK k : k = IF st.phase = "EDIT" THEN Gate!NoKd ELSE st.pending
      OBVIOUS
    <3>6. k \in Gate!Kd \cup {Gate!NoKd}
      BY <1>1, <3>5 DEF Record
    <3>7. PICK g : g = [st.prog EXCEPT !.fails = n]
      OBVIOUS
    <3>8. g \in Gate!Progress
      BY <3>2, <3>4, <3>7 DEF Gate!Progress
    <3>9. st' = [[[st EXCEPT !.phase = "EDIT"] EXCEPT !.prog = g] EXCEPT !.pending = k]
      <4>1. st' = [st EXCEPT !.phase = "EDIT", !.prog.fails = n, !.pending = k]
        BY <1>1, <2>3, <3>3, <3>5 DEF Gate!PostCreatePlan, Record
      <4> QED BY <1>1, <3>7, <4>1 DEF Record
    <3>10. [st EXCEPT !.phase = "EDIT"] \in Record
      BY <1>1, PhaseOfRecord DEF LivePhases
    <3>11. [[st EXCEPT !.phase = "EDIT"] EXCEPT !.prog = g] \in Record
      BY <3>8, <3>10, ProgressOfRecord
    <3> QED BY <3>1, <3>6, <3>9, <3>11, PendingOfRecord
  <2>4. CASE Gate!PostTask /\ st' # st
    <3>1. st.prog \in Gate!Progress
      BY <1>1 DEF Record
    <3>2. st.prog.version \in Nat /\ st.prog.attempts \in Nat
      BY <3>1 DEF Gate!Progress
    <3>3. PICK n : n = IF st.prog.version \in diag THEN 0 ELSE Gate!Attempts(st.prog) + 1
      OBVIOUS
    <3>4. n \in Nat
      BY <3>2, <3>3 DEF Gate!Attempts
    <3>5. PICK g : g = [[st.prog EXCEPT !.attempts = n] EXCEPT !.attFor = st.prog.version]
      OBVIOUS
    <3>6. g \in Gate!Progress
      <4>1. [st.prog EXCEPT !.attempts = n] \in Gate!Progress
        BY <3>1, <3>4 DEF Gate!Progress
      <4>2. PICK h : h = [st.prog EXCEPT !.attempts = n]
        OBVIOUS
      <4>3. PICK v \in Nat : v = st.prog.version
        BY <3>2
      <4>4. h \in Gate!Progress /\ g = [h EXCEPT !.attFor = v]
        BY <3>5, <4>1, <4>2, <4>3
      <4> QED BY <4>4 DEF Gate!Progress
    <3>7. st' = [st EXCEPT !.prog = g]
      <4>1. st' = [st EXCEPT !.prog.attempts = n, !.prog.attFor = st.prog.version]
        BY <1>1, <2>4, <3>3 DEF Gate!PostTask, Record
      <4> QED BY <1>1, <3>5, <4>1 DEF Record
    <3>8. st' \in Record
      BY <1>1, <3>6, <3>7, ProgressOfRecord
    <3>9. st'.phase = st.phase /\ st'.pending = st.pending
      BY <1>1, <3>7 DEF Record
    <3> QED BY <3>8, <3>9 DEF GateInv
  <2> QED BY <2>1, <2>2, <2>3, <2>4 DEF Gate!Hook, Gate!PostBash
<1>4. Gate!HasPending(plan)' = Gate!HasPending(plan)
  BY <1>1 DEF Gate!HasPending
<1> QED BY <1>1, <1>2, <1>3, <1>4 DEF GateInv

LEMMA GateStarts == Gate!Init => GateInv
<1> SUFFICES ASSUME Gate!Init PROVE GateInv
  OBVIOUS
<1>1. Gate!NoProgress \in Gate!Progress
  BY DEF Gate!NoProgress, Gate!Progress, Gate!NoCommit
<1>2. st = [phase |-> "BASELINE", init |-> FALSE, prog |-> Gate!NoProgress,
            pending |-> Gate!NoKd, expPlan |-> 0, expRound |-> 0]
  BY DEF Gate!Init, Gate!FreshState
<1>3. st \in Record /\ st.phase = "BASELINE"
  BY <1>1, <1>2 DEF Record, LivePhases
<1>4. plan \in Gate!Plan
  BY DEF Gate!Init, Gate!NoPlan, Gate!Plan
<1>5. DOMAIN call = {}
  BY DEF Gate!Init, Gate!NoCalls
<1> QED BY <1>3, <1>4, <1>5 DEF GateInv, CallsAreKnown

LEMMA GateHolds == Spec => [](part = "gate" => GateInv)
<1>1. Init => (part = "gate" => GateInv)
  BY GateStarts DEF Init
<1>2. (part = "gate" => GateInv) /\ [Next]_vars => (part = "gate" => GateInv)'
  <2> SUFFICES ASSUME part = "gate" => GateInv, [Next]_vars, part' = "gate"
               PROVE  GateInv'
    OBVIOUS
  <2>1. CASE UNCHANGED vars \/ JudgeKernel
    <3>1. UNCHANGED gateVars /\ part = "gate"
      BY <2>1 DEF vars, agentVars, JudgeKernel, Next
    <3> QED BY <3>1 DEF GateInv, CallsAreKnown, gateVars, Gate!HasPending
  <2>2. CASE JudgeAgent /\ part' = part
    <3>1. GateInv /\ Gate!Next
      BY <2>2 DEF JudgeAgent
    <3>2. CASE \E c \in Gate!Calls : Gate!Ask(c)
      BY <3>1, <3>2, AskKeepsGate
    <3>3. CASE \E a \in DOMAIN call : Gate!Work(a) \/ Gate!Hook(a)
      BY <3>1, <3>3, WorkKeepsGate, HookKeepsGate
    <3> QED BY <3>1, <3>2, <3>3 DEF Gate!Next
  <2> QED BY <2>1, <2>2 DEF Next
<1> QED BY <1>1, <1>2, PTL DEF Spec

\* In EDIT there is an item to work on or a settle to finish, whichever calls
\* overlapped (post_bash.py:236-296): a phase is only moved to EDIT against the
\* plan as it is when the hook or the script runs, and create_plan.py never
\* leaves a plan without items.
THEOREM ItemsInEdit == Spec => []EditHasItem
<1>1. (part = "gate" => GateInv) => EditHasItem
  BY DEF EditHasItem, GateInv, Gate!EditHasItem
<1> QED BY <1>1, GateHolds, PTL

\* What guard_bash and the hooks take the direct form of a script for.
LEMMA DirectShape ==
  ASSUME NEW name \in Gate!Scripts
  PROVE  /\ Gate!Classify(Gate!Direct(name)) = Gate!Shape("AR", name)
         /\ Gate!Invoked(Gate!Direct(name)) = name
         /\ ~Gate!NameRefused(Gate!Direct(name))
<1>1. PICK c : c = Gate!Direct(name)
  OBVIOUS
<1>2. PICK s : s = [Gate!Plain EXCEPT !.head = "python", !.dir = Gate!Location[name],
                                      !.script = name]
  OBVIOUS
<1>3. /\ s.head = "python" /\ s.dir = Gate!Location[name] /\ s.script = name
      /\ s.path = "scripts" /\ s.flag = "none"
  BY <1>2 DEF Gate!Plain
<1>4. /\ c.segs = <<s>> /\ c.background = FALSE /\ c.substitution = FALSE
  BY <1>1, <1>2 DEF Gate!Direct, Gate!Command
<1>5. name \in Gate!Blessed /\ name \notin Gate!Lifecycle
      /\ name \notin Gate!Internal \cup {"unknown"} /\ name # "none"
  BY DEF Gate!Scripts, Gate!Blessed, Gate!Location, Gate!Lifecycle, Gate!Internal
<1>6. Len(c.segs) = 1 /\ c.segs[1] = s /\ DOMAIN c.segs = {1}
  BY <1>4
<1>7. Gate!Canonical(c)
  BY <1>3, <1>4, <1>5, <1>6 DEF Gate!Canonical, Gate!FlagRuns, Gate!InPlace
<1>8. Gate!Classify(c) = Gate!Shape("AR", name)
  BY <1>3, <1>4, <1>5, <1>6, <1>7 DEF Gate!Classify
<1>9. Gate!Invoked(c) = name
  BY <1>8 DEF Gate!Invoked, Gate!Shape
<1>10. Gate!ScriptNames(c) = {name}
  BY <1>3, <1>6 DEF Gate!ScriptNames
<1>11. ~Gate!NameRefused(c)
  BY <1>5, <1>10 DEF Gate!NameRefused
<1> QED BY <1>1, <1>8, <1>9, <1>11

\* The gate of Bash lets the direct form of a script through in the phases of
\* its row of the table; in DIAGNOSE only behind a diagnosis.
LEMMA DirectPasses ==
  ASSUME NEW name \in Gate!Scripts,
         st.phase \in CASE name = "baseline" -> {"BASELINE"} [] name = "pipeline" -> {"EDIT"}
                        [] OTHER -> {"PLAN", "DIAGNOSE", "REPLAN"},
         name = "create_plan" /\ st.phase = "DIAGNOSE"
           => Gate!DiagAction(st.prog, diag) # "NEED_DIAGNOSIS"
  PROVE  Gate!Gate(Gate!Bash(Gate!Direct(name)))
<1>1. PICK c : c = Gate!Direct(name)
  OBVIOUS
<1>2. Gate!Classify(c) = Gate!Shape("AR", name) /\ Gate!Invoked(c) = name /\ ~Gate!NameRefused(c)
  BY <1>1, DirectShape
<1>3. Gate!CheckBash(c, st.phase)
  <2>1. CASE name = "baseline"
    BY <1>2, <2>1 DEF Gate!CheckBash, Gate!Shape, Gate!PhaseAllows
  <2>2. CASE name = "pipeline"
    BY <1>2, <2>2 DEF Gate!CheckBash, Gate!Shape, Gate!PhaseAllows
  <2>3. CASE name = "create_plan"
    BY <1>2, <2>3 DEF Gate!CheckBash, Gate!Shape, Gate!PhaseAllows
  <2> QED BY <2>1, <2>2, <2>3 DEF Gate!Scripts
<1>4. ~(Gate!Invoked(c) = "create_plan" /\ st.phase = "EDIT")
  BY <1>2
<1>5. Gate!GuardBash(c)
  BY <1>2, <1>3, <1>4 DEF Gate!GuardBash
<1>6. PICK b : b = Gate!Bash(c)
  OBVIOUS
<1>7. b.tool = "Bash" /\ b.cmd = c
  BY <1>6 DEF Gate!Bash
<1>8. Gate!Gate(b)
  BY <1>5, <1>7 DEF Gate!Gate
<1> QED BY <1>1, <1>6, <1>8

LEMMA WritePasses ==
  ASSUME NEW t \in {"items", "artifact"}, Gate!CheckEdit(t)
  PROVE  Gate!Gate(Gate!Write(t))
<1>1. Gate!GuardEdit(t)
  BY DEF Gate!GuardEdit
<1>2. PICK w : w = Gate!Write(t)
  OBVIOUS
<1>3. w.tool = "Write" /\ w.target = t
  BY <1>2 DEF Gate!Write
<1>4. Gate!Gate(w)
  BY <1>1, <1>3 DEF Gate!Gate
<1> QED BY <1>2, <1>4

\* The guidance and the four gates, written in five files, agree: whatever
\* overlapped, every call the guidance asks for passes its gate, and it asks for
\* one until the agent may stop (guidance.py:427-748).
THEOREM GuidancePasses == Spec => []GuidanceIsAllowed
<1>1. GateInv => Gate!GuidanceIsAllowed
  <2> SUFFICES ASSUME GateInv PROVE Gate!GuidanceIsAllowed
    OBVIOUS
  <2>1. st.phase \in LivePhases
    BY DEF GateInv, Record
  <2>2. {"baseline", "create_plan", "pipeline"} = Gate!Scripts
    BY DEF Gate!Scripts
  <2>3. ASSUME \/ st.phase \in {"PLAN", "REPLAN"}
               \/ st.phase = "DIAGNOSE" /\ Gate!DiagAction(st.prog, diag) # "NEED_DIAGNOSIS"
        PROVE  \A c \in Gate!Planning : Gate!Gate(c)
    <3>1. Gate!CheckEdit("items")
      BY <2>3 DEF Gate!CheckEdit
    <3>2. Gate!Gate(Gate!Write("items"))
      BY <3>1, WritePasses
    <3>3. Gate!Gate(Gate!Bash(Gate!Direct("create_plan")))
      BY <2>2, <2>3, DirectPasses
    <3> QED BY <3>2, <3>3 DEF Gate!Planning
  <2>4. CASE st.phase = "BASELINE"
    <3>1. Gate!Guided = {Gate!Bash(Gate!Direct("baseline"))}
      BY <2>4 DEF Gate!Guided
    <3>2. Gate!Gate(Gate!Bash(Gate!Direct("baseline")))
      BY <2>2, <2>4, DirectPasses
    <3> QED BY <3>1, <3>2 DEF Gate!GuidanceIsAllowed
  <2>5. CASE st.phase \in {"PLAN", "REPLAN"}
    <3>1. Gate!Guided = Gate!Planning
      BY <2>5 DEF Gate!Guided
    <3>2. Gate!Planning # {}
      BY DEF Gate!Planning
    <3> QED BY <2>3, <2>5, <3>1, <3>2 DEF Gate!GuidanceIsAllowed
  <2>6. CASE st.phase = "DIAGNOSE" /\ Gate!DiagAction(st.prog, diag) # "NEED_DIAGNOSIS"
    <3>1. Gate!Guided = Gate!Planning
      BY <2>6 DEF Gate!Guided, Gate!Diagnosing
    <3>2. Gate!Planning # {}
      BY DEF Gate!Planning
    <3> QED BY <2>3, <2>6, <3>1, <3>2 DEF Gate!GuidanceIsAllowed
  <2>7. CASE st.phase = "DIAGNOSE" /\ Gate!DiagAction(st.prog, diag) = "NEED_DIAGNOSIS"
    <3>1. Gate!Guided = {Gate!Task("ar-diagnosis"), Gate!Write("artifact")}
      BY <2>7 DEF Gate!Guided, Gate!Diagnosing
    <3>2. Gate!Gate(Gate!Write("artifact"))
      BY <2>7, WritePasses DEF Gate!CheckEdit
    <3>3. PICK c : c = Gate!Task("ar-diagnosis")
      OBVIOUS
    <3>4. c.tool = "Task" /\ c.agent = "ar-diagnosis"
      BY <3>3 DEF Gate!Task
    <3>5. Gate!GuardTask("ar-diagnosis")
      BY <2>7 DEF Gate!GuardTask
    <3>6. Gate!Gate(c)
      BY <3>4, <3>5 DEF Gate!Gate
    <3> QED BY <3>1, <3>2, <3>3, <3>6 DEF Gate!GuidanceIsAllowed
  <2>8. CASE st.phase = "EDIT"
    <3>1. Gate!Guided = {Gate!Bash(Gate!Direct("pipeline"))}
      BY <2>8 DEF Gate!Guided
    <3>2. Gate!Gate(Gate!Bash(Gate!Direct("pipeline")))
      BY <2>2, <2>8, DirectPasses
    <3> QED BY <3>1, <3>2 DEF Gate!GuidanceIsAllowed
  <2>9. CASE st.phase = "FINISH"
    BY <2>9 DEF Gate!GuidanceIsAllowed, Gate!Guided, Gate!MayStop
  <2> QED BY <2>1, <2>4, <2>5, <2>6, <2>7, <2>8, <2>9 DEF LivePhases
<1>2. (part = "gate" => GateInv) => GuidanceIsAllowed
  BY <1>1 DEF GuidanceIsAllowed
<1> QED BY <1>2, GateHolds, PTL

-----------------------------------------------------------------------------
(* Commands *)

Segments == Shell!Simple \cup Tails

ShellInv ==
  cmd \in [segs : Seq(Segments), lines : BOOLEAN, background : BOOLEAN,
           substitution : BOOLEAN]

\* `export` writes no file by a flag of its own.
LEMMA ExportOnlyExports ==
  ASSUME NEW s \in Segments, s.head = "export"
  PROVE  ~s.output
<1>1. CASE s \in Tails
  BY <1>1, JudgingAssumption
<1>2. CASE s \in Shell!Scripted
  BY <1>2 DEF Shell!Scripted, Shell!Pythons
<1>3. CASE s \in Shell!Unscripted
  BY <1>3 DEF Shell!Unscripted
<1> QED BY <1>1, <1>2, <1>3 DEF Segments, Shell!Simple

\* Only a word of a script command hides an operator from the classifier.
LEMMA NothingHidden ==
  ASSUME NEW s \in Segments, s.head \notin Shell!Pythons
  PROVE  s.hidden = "none"
<1>1. CASE s \in Tails
  BY <1>1, JudgingAssumption DEF Shell!Pythons
<1>2. CASE s \in Shell!Scripted
  BY <1>2 DEF Shell!Scripted
<1>3. CASE s \in Shell!Unscripted
  BY <1>3 DEF Shell!Unscripted
<1> QED BY <1>1, <1>2, <1>3 DEF Segments, Shell!Simple

\* What is taken for reading starts nothing and changes nothing.
LEMMA ReadingIsHarmless ==
  ASSUME NEW s \in Segments, Shell!Readonly(s)
  PROVE  ~Shell!Starts(s) /\ ~Shell!Changes(s)
<1>1. ~s.redirect /\ s.head \in {"read", "git", "export"} /\ ~s.output
  BY ExportOnlyExports DEF Shell!Readonly, Shell!ReadonlyGit
<1>4. s.hidden = "none"
  BY <1>1, NothingHidden DEF Shell!Pythons
<1>2. s.head = "git" => s.git # "change"
  BY DEF Shell!Readonly, Shell!ReadonlyGit
<1>3. s.head \notin Shell!Pythons
  BY <1>1 DEF Shell!Pythons
<1> QED BY <1>1, <1>2, <1>3, <1>4 DEF Shell!Starts, Shell!Changes

LEMMA ShellHolds == Spec => [](part = "shell" => ShellInv)
<1>1. Init => (part = "shell" => ShellInv)
  <2> SUFFICES ASSUME Shell!Init PROVE ShellInv
    BY DEF Init
  <2>1. cmd = [segs |-> <<>>, lines |-> FALSE, background |-> FALSE, substitution |-> FALSE]
    BY DEF Shell!Init, Shell!Command
  <2>2. <<>> \in Seq(Segments)
    OBVIOUS
  <2> QED BY <2>1, <2>2 DEF ShellInv
<1>2. (part = "shell" => ShellInv) /\ [Next]_vars => (part = "shell" => ShellInv)'
  <2> SUFFICES ASSUME part = "shell" => ShellInv, [Next]_vars, part' = "shell"
               PROVE  ShellInv'
    OBVIOUS
  <2>1. CASE UNCHANGED vars \/ JudgeKernel
    <3>1. UNCHANGED cmd /\ part = "shell"
      BY <2>1 DEF vars, agentVars, JudgeKernel, Next
    <3> QED BY <3>1 DEF ShellInv
  <2>2. CASE JudgeAgent /\ part' = part
    <3>1. ShellInv /\ Shell!Next
      BY <2>2 DEF JudgeAgent
    <3>2. CASE Shell!First
      <4>1. PICK s \in Shell!Simple, b \in BOOLEAN, u \in BOOLEAN :
                   cmd' = [segs |-> <<s>>, lines |-> FALSE, background |-> b,
                           substitution |-> u]
        BY <3>2 DEF Shell!First, Shell!Command
      <4>2. <<s>> \in Seq(Segments)
        BY DEF Segments
      <4> QED BY <4>1, <4>2 DEF ShellInv
    <3>3. CASE Shell!Second
      <4>1. PICK s \in Tails, l \in BOOLEAN :
                   cmd' = [cmd EXCEPT !.segs = Append(@, s), !.lines = l]
        BY <3>3 DEF Shell!Second
      <4>2. cmd.segs \in Seq(Segments) /\ s \in Segments
        BY <3>1 DEF ShellInv, Segments
      <4>3. PICK q : q = Append(cmd.segs, s)
        OBVIOUS
      <4>4. q \in Seq(Segments)
        BY <4>2, <4>3
      <4>5. cmd' = [cmd EXCEPT !.segs = q, !.lines = l]
        BY <3>1, <4>1, <4>3 DEF ShellInv
      <4> QED BY <3>1, <4>4, <4>5 DEF ShellInv
    <3> QED BY <3>1, <3>2, <3>3 DEF Shell!Next
  <2> QED BY <2>1, <2>2 DEF Next
<1> QED BY <1>1, <1>2, PTL DEF Spec

\* What the gate and the hook after it may rely on, whatever follows the first
\* segment: a command the classifier takes for a script names that script first
\* and runs it unless a word hides another command in its place; on one line,
\* with nothing hidden, the script runs alone and in the foreground; one line
\* taken for reading runs no script and changes nothing (phase_policy.py:259-311).
THEOREM ShapesAreTrue == Spec => []ShapeIsTrue
<1>1. ShellInv => Shell!ShapeIsTrue
  <2> SUFFICES ASSUME ShellInv PROVE Shell!ShapeIsTrue
    OBVIOUS
  <2>1. PICK segs : segs = cmd.segs
    OBVIOUS
  <2>2. segs \in Seq(Segments)
    BY <2>1 DEF ShellInv
  <2>3. PICK shape : shape = Shell!Classify(cmd)
    OBVIOUS
  <2>4. ASSUME shape.class \in {"AR", "LIFECYCLE"}
        PROVE  /\ segs[1].script = shape.name /\ ~cmd.substitution
               /\ segs[1].hidden # "instead" => 1 \in Shell!Runs(cmd)
               /\ segs[1].hidden = "none" /\ ~cmd.lines
                    => Shell!Runs(cmd) = {1} /\ Shell!Alone(cmd)
    <3>1. /\ ~cmd.substitution /\ Shell!Canonical(cmd)
          /\ shape.name = segs[1].script
      BY <2>1, <2>3, <2>4 DEF Shell!Classify, Shell!Shape
    <3>2. 1 \in DOMAIN segs /\ ~cmd.background
      BY <2>1, <2>2, <3>1 DEF Shell!Canonical
    <3>3. segs[1].hidden # "instead" => Shell!Starts(segs[1])
      BY <2>1, <3>1 DEF Shell!Canonical, Shell!FlagRuns, Shell!InPlace, Shell!Starts, Shell!Pythons
    <3>4. ~cmd.lines => Len(segs) = 1 /\ DOMAIN segs = {1}
      BY <2>1, <2>2, <3>1 DEF Shell!Canonical
    <3> QED BY <2>1, <3>1, <3>2, <3>3, <3>4 DEF Shell!Runs, Shell!Alone
  <2>5. ASSUME shape.class = "READONLY", ~cmd.lines
        PROVE  Shell!Runs(cmd) = {} /\ \A i \in DOMAIN cmd.segs : ~Shell!Changes(cmd.segs[i])
    <3>1. Shell!AllRead(cmd)
      BY <2>3, <2>5 DEF Shell!Classify, Shell!Shape
    <3>2. ASSUME NEW i \in DOMAIN segs
          PROVE  ~Shell!Starts(segs[i]) /\ ~Shell!Changes(segs[i])
      <4>1. segs[i] \in Segments
        BY <2>2
      <4>2. Shell!Readonly(segs[i])
        BY <2>1, <2>5, <3>1 DEF Shell!AllRead
      <4> QED BY <4>1, <4>2, ReadingIsHarmless
    <3> QED BY <2>1, <3>2 DEF Shell!Runs
  <2> QED BY <2>1, <2>3, <2>4, <2>5 DEF Shell!ShapeIsTrue
<1>2. (part = "shell" => ShellInv) => ShapeIsTrue
  BY <1>1 DEF ShapeIsTrue
<1> QED BY <1>2, ShellHolds, PTL

\* The limits of that promise: of two commands taken for a script in the
\* foreground one is sent to the background by its redirection (`>log&`), the
\* other runs a different command in place of the script (`A=1;cmd python ...`),
\* and lines taken for reading run a script (phase_policy.py:73, 93, 325-327).
THEOREM HiddenOperatorsPass ==
  \E behind, instead \in Shell!Scripted, read \in Shell!Unscripted :
    /\ LET c == Shell!Command(<<behind>>, FALSE, FALSE)
       IN  Shell!Classify(c).class = "AR" /\ Shell!Runs(c) = {1} /\ ~Shell!Alone(c)
    /\ LET c == Shell!Command(<<instead>>, FALSE, FALSE)
       IN  Shell!Classify(c).class = "AR" /\ Shell!Runs(c) = {}
    /\ \E script \in Shell!Scripted :
         LET c == [Shell!Command(<<read, script>>, FALSE, FALSE) EXCEPT !.lines = TRUE]
         IN  Shell!Classify(c).class = "READONLY" /\ Shell!Runs(c) = {2}
<1>1. PICK direct : direct = [Shell!Plain EXCEPT !.head = "python", !.dir = "engine",
                                                 !.script = "pipeline"]
  OBVIOUS
<1>2. PICK behind : behind = [direct EXCEPT !.redirect = TRUE, !.hidden = "background"]
  OBVIOUS
<1>3. PICK instead : instead = [direct EXCEPT !.env = "other", !.hidden = "instead"]
  OBVIOUS
<1>4. direct \in Shell!Scripted /\ behind \in Shell!Scripted /\ instead \in Shell!Scripted
  <2>1. "pipeline" \in Shell!Names
    BY DEF Shell!Names, Shell!Blessed, Shell!Location
  <2>2. "python" \in Shell!Pythons
    BY DEF Shell!Pythons
  <2>3. direct \in Shell!Scripted
    BY <1>1, <2>1, <2>2 DEF Shell!Scripted, Shell!Plain
  <2>4. behind \in Shell!Scripted
    BY <1>1, <1>2, <2>1, <2>2 DEF Shell!Scripted, Shell!Plain
  <2>5. instead \in Shell!Scripted
    BY <1>1, <1>3, <2>1, <2>2 DEF Shell!Scripted, Shell!Plain
  <2> QED BY <2>3, <2>4, <2>5
<1>5. Shell!Plain \in Shell!Unscripted
  BY DEF Shell!Plain, Shell!Unscripted
<1>6. \A s \in {direct, behind, instead} :
        /\ s.head = "python" /\ s.flag = "none" /\ s.path = "scripts"
        /\ s.dir = "engine" /\ s.script = "pipeline"
  <2>1. /\ direct.head = "python" /\ direct.flag = "none" /\ direct.path = "scripts"
        /\ direct.dir = "engine" /\ direct.script = "pipeline"
    BY <1>1 DEF Shell!Plain
  <2>2. /\ behind.head = "python" /\ behind.flag = "none" /\ behind.path = "scripts"
        /\ behind.dir = "engine" /\ behind.script = "pipeline"
    BY <1>1, <1>2 DEF Shell!Plain
  <2>3. /\ instead.head = "python" /\ instead.flag = "none" /\ instead.path = "scripts"
        /\ instead.dir = "engine" /\ instead.script = "pipeline"
    BY <1>1, <1>3 DEF Shell!Plain
  <2> QED BY <2>1, <2>2, <2>3, Zenon
<1>7. \A s \in {direct, behind, instead} : Shell!FlagRuns(s) /\ Shell!InPlace(s)
  BY <1>6 DEF Shell!FlagRuns, Shell!InPlace, Shell!Blessed, Shell!Location
<1>8. ASSUME NEW s \in {behind, instead}, NEW c, c = Shell!Command(<<s>>, FALSE, FALSE)
      PROVE  /\ Shell!Classify(c).class = "AR" /\ c.segs[1] = s /\ DOMAIN c.segs = {1}
             /\ Len(c.segs) = 1
  <2>1. c.segs = <<s>> /\ ~c.background /\ ~c.substitution
    BY <1>8 DEF Shell!Command
  <2>2. Len(c.segs) = 1 /\ c.segs # <<>> /\ c.segs[1] = s /\ DOMAIN c.segs = {1}
    BY <2>1
  <2>3. Shell!Canonical(c)
    BY <1>6, <1>7, <2>1, <2>2 DEF Shell!Canonical
  <2>4. s.script \notin Shell!Lifecycle
    BY <1>6 DEF Shell!Lifecycle
  <2> QED BY <2>1, <2>2, <2>3, <2>4 DEF Shell!Classify, Shell!Shape
<1>9. behind.hidden = "background" /\ instead.hidden = "instead" /\ direct.hidden = "none"
      /\ direct.redirect = FALSE /\ direct.output = FALSE
  <2>1. direct.hidden = "none" /\ direct.redirect = FALSE /\ direct.output = FALSE
    BY <1>1 DEF Shell!Plain
  <2>2. behind.hidden = "background"
    BY <1>1, <1>2 DEF Shell!Plain
  <2>3. instead.hidden = "instead"
    BY <1>1, <1>3 DEF Shell!Plain
  <2> QED BY <2>1, <2>2, <2>3
<1>10. Shell!Starts(behind) /\ ~Shell!Starts(instead) /\ Shell!Starts(direct)
  BY <1>6, <1>7, <1>9 DEF Shell!Starts, Shell!InPlace, Shell!Pythons
<1>11. LET c == Shell!Command(<<behind>>, FALSE, FALSE)
       IN  Shell!Classify(c).class = "AR" /\ Shell!Runs(c) = {1} /\ ~Shell!Alone(c)
  <2>1. PICK c : c = Shell!Command(<<behind>>, FALSE, FALSE)
    OBVIOUS
  <2>2. Shell!Classify(c).class = "AR" /\ c.segs[1] = behind /\ DOMAIN c.segs = {1}
    BY <1>8, <2>1
  <2>3. Shell!Runs(c) = {1} /\ ~Shell!Alone(c)
    BY <1>9, <1>10, <2>2 DEF Shell!Runs, Shell!Alone
  <2> QED BY <2>1, <2>2, <2>3
<1>12. LET c == Shell!Command(<<instead>>, FALSE, FALSE)
       IN  Shell!Classify(c).class = "AR" /\ Shell!Runs(c) = {}
  <2>1. PICK c : c = Shell!Command(<<instead>>, FALSE, FALSE)
    OBVIOUS
  <2>2. Shell!Classify(c).class = "AR" /\ c.segs[1] = instead /\ DOMAIN c.segs = {1}
    BY <1>8, <2>1
  <2>3. Shell!Runs(c) = {}
    BY <1>10, <2>2 DEF Shell!Runs
  <2> QED BY <2>1, <2>2, <2>3
<1>13. LET c == [Shell!Command(<<Shell!Plain, direct>>, FALSE, FALSE) EXCEPT !.lines = TRUE]
       IN  Shell!Classify(c).class = "READONLY" /\ Shell!Runs(c) = {2}
  <2>1. PICK p : p = Shell!Plain
    OBVIOUS
  <2>2. PICK c : c = [Shell!Command(<<p, direct>>, FALSE, FALSE) EXCEPT !.lines = TRUE]
    OBVIOUS
  <2>3. /\ p.head = "read" /\ p.env = "none" /\ p.redirect = FALSE /\ p.output = FALSE
        /\ p.hidden = "none"
    BY <2>1 DEF Shell!Plain
  <2>4. c.segs = <<p, direct>> /\ c.lines /\ ~c.background /\ ~c.substitution
    BY <2>2 DEF Shell!Command
  <2>5. c.segs[1] = p /\ c.segs[2] = direct /\ DOMAIN c.segs = {1, 2} /\ c.segs # <<>>
    BY <2>4
  <2>6. Shell!Readonly(p)
    BY <2>3 DEF Shell!Readonly
  <2>7. Shell!AllRead(c)
    BY <1>9, <2>3, <2>4, <2>5, <2>6 DEF Shell!AllRead, Shell!ReadAsOne
  <2>8. ~Shell!Canonical(c)
    BY <2>3, <2>5 DEF Shell!Canonical
  <2>9. Shell!Classify(c).class = "READONLY"
    BY <2>4, <2>7, <2>8 DEF Shell!Classify, Shell!Shape
  <2>10. Shell!Runs(c) = {2}
    BY <1>10, <2>3, <2>5 DEF Shell!Runs, Shell!Starts, Shell!Pythons
  <2> QED BY <2>1, <2>2, <2>9, <2>10
<1> QED BY <1>4, <1>5, <1>11, <1>12, <1>13

-----------------------------------------------------------------------------
(* Outputs *)

Tensor == [dtype : Output!Dtypes, vals : Seq(Nat)]
Outputs == [ref : Seq(Tensor), new : Seq(Tensor)]
Operator == [ref : Output!Findings \ {"validate"}, kernel : Output!Findings,
             run : {"right", "wrong", "raises", "silent"}]

OutputInv == outputs \in Seq(Outputs) /\ ops \in Seq(Operator) /\ full \in BOOLEAN

\* A tensor the inputs are drawn from is one.
LEMMA TensorsAreTyped ==
  ASSUME NEW dtype \in Output!Dtypes, NEW n \in Nat, NEW V \in SUBSET Nat,
         NEW t \in Output!Tensors(dtype, n, V)
  PROVE  t \in Tensor
<1>1. t \in [dtype : {dtype}, vals : [1..n -> V]]
  BY DEF Output!Tensors
<1>2. PICK v : v = t.vals
  OBVIOUS
<1>3. v \in [1..n -> V] /\ t = [dtype |-> dtype, vals |-> v]
  BY <1>1, <1>2
<1>4. v \in [1..n -> Nat]
  BY <1>3
<1>5. v \in Seq(Nat)
  BY <1>4, SeqDef
<1> QED BY <1>3, <1>5 DEF Tensor

LEMMA EntriesAreNumbers ==
  ASSUME NEW dtype
  PROVE  Output!Entries(dtype) \subseteq Nat
<1>1. Values \subseteq Nat /\ MaxValue \in Nat
  BY JudgingAssumption
<1>2. Output!Specials \subseteq Nat
  BY <1>1 DEF Output!Specials, Output!NaN
<1> QED BY <1>1, <1>2 DEF Output!Entries

LEMMA OutputsGrow ==
  ASSUME OutputInv, Output!CompareCase
  PROVE  outputs' \in Seq(Outputs)
<1>1. CASE \E dtype \in Output!Dtypes, n \in 0..(MaxSize - Output!Elements) :
             \E r, c \in Output!Tensors(dtype, n, Output!Entries(dtype)) :
               outputs' = Append(outputs, [ref |-> <<r>>, new |-> <<c>>])
  <2>1. PICK dtype \in Output!Dtypes, n \in 0..(MaxSize - Output!Elements) :
               \E r, c \in Output!Tensors(dtype, n, Output!Entries(dtype)) :
                 outputs' = Append(outputs, [ref |-> <<r>>, new |-> <<c>>])
    BY <1>1
  <2>2. n \in Nat
    OBVIOUS
  <2>3. PICK r, c \in Output!Tensors(dtype, n, Output!Entries(dtype)) :
               outputs' = Append(outputs, [ref |-> <<r>>, new |-> <<c>>])
    BY <2>1
  <2>4. r \in Tensor /\ c \in Tensor
    BY <2>2, <2>3, TensorsAreTyped, EntriesAreNumbers
  <2>5. [ref |-> <<r>>, new |-> <<c>>] \in Outputs
    BY <2>4 DEF Outputs
  <2> QED BY <2>3, <2>5 DEF OutputInv
<1>2. CASE \E d1, d2 \in Output!Dtypes :
             \E r \in Output!Tensors(d1, 1, {0}), c \in Output!Tensors(d2, 1, {0}) :
               \E ref \in {<<>>, <<r>>}, new \in {<<>>, <<c>>} :
                 outputs' = Append(outputs, [ref |-> ref, new |-> new])
  <2>1. PICK d1, d2 \in Output!Dtypes :
             \E r \in Output!Tensors(d1, 1, {0}), c \in Output!Tensors(d2, 1, {0}) :
               \E ref \in {<<>>, <<r>>}, new \in {<<>>, <<c>>} :
                 outputs' = Append(outputs, [ref |-> ref, new |-> new])
    BY <1>2
  <2>2. PICK r \in Output!Tensors(d1, 1, {0}), c \in Output!Tensors(d2, 1, {0}) :
               \E ref \in {<<>>, <<r>>}, new \in {<<>>, <<c>>} :
                 outputs' = Append(outputs, [ref |-> ref, new |-> new])
    BY <2>1
  <2>3. r \in Tensor /\ c \in Tensor
    BY <2>2, TensorsAreTyped
  <2>4. PICK ref \in {<<>>, <<r>>}, new \in {<<>>, <<c>>} :
               outputs' = Append(outputs, [ref |-> ref, new |-> new])
    BY <2>2
  <2>5. ref \in Seq(Tensor) /\ new \in Seq(Tensor)
    <3>1. {<<>>, <<r>>, <<c>>} \subseteq Seq(Tensor)
      BY <2>3
    <3> HIDE DEF Tensor
    <3> QED BY <2>4, <3>1
  <2>6. [ref |-> ref, new |-> new] \in Outputs
    BY <2>5 DEF Outputs
  <2> QED BY <2>4, <2>6 DEF OutputInv
<1> QED BY <1>1, <1>2 DEF Output!CompareCase

LEMMA OutputHolds == Spec => [](part = "output" => OutputInv)
<1>1. Init => (part = "output" => OutputInv)
  <2> SUFFICES ASSUME Output!Init PROVE OutputInv
    BY DEF Init
  <2> QED BY DEF Output!Init, OutputInv
<1>2. (part = "output" => OutputInv) /\ [Next]_vars => (part = "output" => OutputInv)'
  <2> SUFFICES ASSUME part = "output" => OutputInv, [Next]_vars, part' = "output"
               PROVE  OutputInv'
    OBVIOUS
  <2>1. CASE UNCHANGED vars \/ JudgeAgent
    <3>1. UNCHANGED outputVars /\ part = "output"
      BY <2>1 DEF vars, kernelVars, JudgeAgent, Next
    <3> QED BY <3>1 DEF OutputInv, outputVars
  <2>2. CASE JudgeKernel /\ part' = part
    <3>1. OutputInv /\ Output!Next
      BY <2>2 DEF JudgeKernel
    <3>2. CASE Output!CompareCase
      <4>1. UNCHANGED <<ops, full>>
        BY <3>2 DEF Output!CompareCase
      <4> QED BY <3>1, <3>2, <4>1, OutputsGrow DEF OutputInv
    <3>3. CASE Output!VerifyOp
      <4>1. PICK op \in Operator : ops' = Append(ops, op) /\ UNCHANGED <<outputs, full>>
        BY <3>3 DEF Output!VerifyOp, Operator
      <4> QED BY <3>1, <4>1 DEF OutputInv
    <3> QED BY <3>1, <3>2, <3>3 DEF Output!Next
  <2> QED BY <2>1, <2>2 DEF Next
<1> QED BY <1>1, <1>2, PTL DEF Spec

\* An element is hidden when it is far from the reference and accepted.
Near(r, n, i) ==
  \/ r.vals[i] = n.vals[i]
  \/ /\ {r.vals[i], n.vals[i]} \cap Output!Specials = {}
     /\ Output!Tolerance(r.dtype).r * Output!Diff(r.vals[i], n.vals[i])
          <= 10 * r.vals[i] + Output!Tolerance(r.dtype).r * Output!Tolerance(r.dtype).a

LEMMA CompareIsNear ==
  ASSUME NEW r \in Tensor, NEW n \in Tensor, Output!Compare(r, n), r.dtype \in Output!Floats,
         NEW i \in Output!Indices(r)
  PROVE  Near(r, n, i)
<1>1. Len(r.vals) = Len(n.vals) /\ r.vals \in Seq(Nat) /\ n.vals \in Seq(Nat)
  BY DEF Output!Compare, Tensor
<1>2. PICK a \in Nat : a = r.vals[i]
  BY <1>1 DEF Output!Indices
<1>3. PICK b \in Nat : b = n.vals[i]
  BY <1>1 DEF Output!Indices
<1>4. CASE {a, b} \cap Output!Specials # {}
  BY <1>2, <1>3, <1>4 DEF Output!Compare, Output!SameSpecials, Near
<1>5. CASE {a, b} \cap Output!Specials = {}
  <2>1. Output!Within(r.dtype, a, b)
    BY <1>2, <1>3, <1>5 DEF Output!Compare, Output!FiniteAt, Output!Floats
  <2>2. PICK d \in Nat : d = Output!Diff(a, b)
    <3>1. Output!Diff(a, b) \in Nat
      BY DEF Output!Diff
    <3> QED BY <3>1
  <2>3. Output!Tolerance(r.dtype).r * d
          <= a + Output!Tolerance(r.dtype).r * Output!Tolerance(r.dtype).a
    BY <2>1, <2>2 DEF Output!Within
  <2>4. Output!Tolerance(r.dtype).r * d
          <= 10 * a + Output!Tolerance(r.dtype).r * Output!Tolerance(r.dtype).a
    <3>1. CASE r.dtype = "float16"
      BY <2>3, <3>1 DEF Output!Tolerance
    <3>2. CASE r.dtype = "bfloat16"
      BY <2>3, <3>2 DEF Output!Tolerance
    <3>3. CASE r.dtype = "float32"
      BY <2>3, <3>3 DEF Output!Tolerance
    <3> QED BY <3>1, <3>2, <3>3 DEF Output!Floats
  <2> QED BY <1>2, <1>3, <1>5, <2>2, <2>4 DEF Near
<1> QED BY <1>4, <1>5

LEMMA PreciseIsNear ==
  ASSUME NEW r \in Tensor, NEW n \in Tensor, Output!AscendValues(r, n),
         r.dtype \in Output!Floats, NEW i \in Output!Indices(r)
  PROVE  Near(r, n, i)
<1>1. Len(r.vals) = Len(n.vals) /\ r.vals \in Seq(Nat) /\ n.vals \in Seq(Nat)
  BY DEF Output!AscendValues, Tensor
<1>2. PICK a \in Nat : a = r.vals[i]
  BY <1>1 DEF Output!Indices
<1>3. PICK b \in Nat : b = n.vals[i]
  BY <1>1 DEF Output!Indices
<1>4. Output!SameSpecials(r, n) /\ \A j \in Output!FiniteAt(r, n) : Output!BelowMare(r, n, j)
  BY DEF Output!AscendValues, Output!Precise
<1>5. CASE {a, b} \cap Output!Specials # {} \/ a = b
  BY <1>2, <1>3, <1>4, <1>5 DEF Output!SameSpecials, Near
<1>6. CASE {a, b} \cap Output!Specials = {} /\ a # b
  <2>1. PICK d \in Nat : d = Output!Diff(a, b)
    <3>1. Output!Diff(a, b) \in Nat
      BY DEF Output!Diff
    <3> QED BY <3>1
  <2>2. Output!Threshold(r.dtype) * d < 10 * a
    BY <1>2, <1>3, <1>4, <1>6, <2>1 DEF Output!FiniteAt, Output!BelowMare
  <2>3. Output!Tolerance(r.dtype).r * d
          <= 10 * a + Output!Tolerance(r.dtype).r * Output!Tolerance(r.dtype).a
    <3>1. CASE r.dtype = "float16"
      BY <2>2, <3>1 DEF Output!Tolerance, Output!Threshold
    <3>2. CASE r.dtype = "bfloat16"
      BY <2>2, <3>2 DEF Output!Tolerance, Output!Threshold
    <3>3. CASE r.dtype = "float32"
      BY <2>2, <3>3 DEF Output!Tolerance, Output!Threshold
    <3> QED BY <3>1, <3>2, <3>3 DEF Output!Floats
  <2> QED BY <1>2, <1>3, <1>6, <2>1, <2>3 DEF Near
<1> QED BY <1>5, <1>6

LEMMA NoneHidden == OutputInv => Output!NoElementHidden
<1> SUFFICES ASSUME OutputInv,
                    \/ Output!TritonAccepts(outputs)
                    \/ outputs # <<>> /\ Output!PreflightAccepts(outputs)
                    \/ Output!AscendAccepts(outputs),
                    NEW k \in 1..Len(outputs), NEW o \in 1..Len(outputs[k].ref)
             PROVE  /\ Len(outputs[k].ref[o].vals) = Len(outputs[k].new[o].vals)
                    /\ outputs[k].ref[o].dtype \in Output!Floats =>
                         \A i \in Output!Indices(outputs[k].ref[o]) :
                           Near(outputs[k].ref[o], outputs[k].new[o], i)
  BY DEF Output!NoElementHidden, Near
<1>1. outputs \in Seq(Outputs)
  BY DEF OutputInv
<1>2. PICK c \in Outputs : c = outputs[k]
  BY <1>1
<1>3. c.ref \in Seq(Tensor) /\ c.new \in Seq(Tensor)
  BY <1>2 DEF Outputs
<1>4. \/ Output!SingleCase(c) \/ Output!CompareOutputs(c) \/ Output!AscendCase(c)
  BY <1>2 DEF Output!TritonAccepts, Output!PreflightAccepts, Output!AscendAccepts
<1>5. Len(c.ref) = Len(c.new)
  BY <1>4 DEF Output!SingleCase, Output!CompareOutputs, Output!AscendCase
<1>6. PICK r \in Tensor : r = c.ref[o]
  BY <1>2, <1>3
<1>7. PICK n \in Tensor : n = c.new[o]
  BY <1>2, <1>3, <1>5
<1>8. Output!Compare(r, n) \/ Output!AscendValues(r, n)
  BY <1>2, <1>4, <1>6, <1>7
     DEF Output!SingleCase, Output!CompareOutputs, Output!CheckOneTensor, Output!AscendCase
<1>9. Len(r.vals) = Len(n.vals)
  BY <1>8 DEF Output!Compare, Output!AscendValues
<1>10. r.dtype \in Output!Floats => \A i \in Output!Indices(r) : Near(r, n, i)
  BY <1>8, CompareIsNear, PreciseIsNear
<1> QED BY <1>2, <1>6, <1>7, <1>9, <1>10

\* Without int8 outputs before it, a case is judged by its own tolerance.
LEMMA TileCasesAlone == OutputInv => Output!OnlyInt8Lingers
<1> DEFINE Int8(j) == \E o \in 1..Len(outputs[j].ref) : outputs[j].ref[o].dtype = "int8"
           Judged(c, wide) ==
             /\ Len(c.ref) = Len(c.new)
             /\ \A i \in 1..Len(c.ref) : Output!TileValues(wide, c.ref[i], c.new[i])
<1> SUFFICES ASSUME OutputInv, \A j \in 1..(Len(outputs) - 1) : ~Int8(j)
             PROVE  Output!TileAccepts(outputs)
                      <=> \A k \in 1..Len(outputs) : Output!TileAccepts(<<outputs[k]>>)
  BY DEF Output!OnlyInt8Lingers
<1>1. \A j \in 1..(Len(outputs) - 1) : ~Output!Widens(outputs[j])
  BY DEF Output!Widens, Output!HasInt8
<1>2. ASSUME NEW k \in 1..Len(outputs)
      PROVE  (\E j \in 1..k : Output!Widens(outputs[j])) = Output!Widens(outputs[k])
  <2>1. \A j \in 1..k : j = k \/ j \in 1..(Len(outputs) - 1)
    BY DEF OutputInv
  <2>2. (\E j \in 1..k : Output!Widens(outputs[j])) <=> Output!Widens(outputs[k])
    BY <1>1, <2>1
  <2> QED BY <2>2 DEF Output!Widens
<1>3. Output!TileAccepts(outputs)
        <=> \A k \in 1..Len(outputs) :
              Judged(outputs[k], \E j \in 1..k : Output!Widens(outputs[j]))
  BY DEF Output!TileAccepts
<1>4. ASSUME NEW c
      PROVE  Output!TileAccepts(<<c>>) <=> Judged(c, Output!Widens(c))
  <2>1. PICK s : s = <<c>>
    OBVIOUS
  <2>2. Len(s) = 1 /\ s[1] = c /\ \A k \in 1..Len(s) : k = 1
    BY <2>1
  <2>3. (\E j \in 1..1 : Output!Widens(s[j])) <=> Output!Widens(c)
    BY <2>2
  <2>4. (\E j \in 1..1 : Output!Widens(s[j])) = Output!Widens(c)
    BY <2>3 DEF Output!Widens
  <2>5. Output!TileAccepts(s)
          <=> \A k \in 1..Len(s) : Judged(s[k], \E j \in 1..k : Output!Widens(s[j]))
    BY DEF Output!TileAccepts
  <2> HIDE DEF Judged
  <2>6. Output!TileAccepts(s) <=> Judged(s[1], \E j \in 1..1 : Output!Widens(s[j]))
    <3> DEFINE P(k) == Judged(s[k], \E j \in 1..k : Output!Widens(s[j]))
    <3>1. Output!TileAccepts(s) <=> \A k \in 1..Len(s) : P(k)
      BY <2>5
    <3> HIDE DEF P
    <3>2. Output!TileAccepts(s) <=> P(1)
      BY <2>2, <3>1
    <3> QED BY <3>2 DEF P
  <2>7. Output!TileAccepts(s) <=> Judged(c, Output!Widens(c))
    BY <2>2, <2>4, <2>6
  <2> QED BY <2>1, <2>7
<1> HIDE DEF Judged, Int8
<1>5. ASSUME NEW k \in 1..Len(outputs)
      PROVE  Judged(outputs[k], \E j \in 1..k : Output!Widens(outputs[j]))
               <=> Judged(outputs[k], Output!Widens(outputs[k]))
  BY <1>2
<1> QED BY <1>3, <1>4, <1>5

LEMMA PreflightHolds == OutputInv => Output!PreflightIsTrue
<1> SUFFICES ASSUME OutputInv PROVE Output!PreflightIsTrue
  OBVIOUS
<1>1. ASSUME NEW i \in 1..Len(ops)
      PROVE  Output!SummaryStatus(Output!VerifyOne(ops[i])) \notin {"F", "E"}
               <=> /\ ops[i].ref = "fine" /\ ops[i].kernel = "fine"
                   /\ full => ops[i].run = "right"
  <2>1. PICK op \in Operator : op = ops[i]
    BY DEF OutputInv
  <2>2. PICK ref : ref = Output!Record("ref", op.ref)
    OBVIOUS
  <2>3. PICK kernel : kernel = Output!Record("kernel", op.kernel)
    OBVIOUS
  <2>4. PICK out : out = Output!VerifyOne(op)
    OBVIOUS
  <2>5. op.ref \in Output!Findings \ {"validate"} /\ op.kernel \in Output!Findings
        /\ op.run \in {"right", "wrong", "raises", "silent"} /\ full \in BOOLEAN
    BY <2>1 DEF Operator, OutputInv
  <2>6. /\ Output!TierOnePasses(ref) <=> op.ref = "fine"
        /\ Output!Bad(ref) <=> op.ref # "fine"
    BY <2>2, <2>5 DEF Output!Record, Output!TierOnePasses, Output!Bad, Output!Findings
  <2>7. /\ Output!TierOnePasses(kernel) <=> op.kernel = "fine"
        /\ Output!Bad(kernel) <=> op.kernel # "fine"
    BY <2>3, <2>5 DEF Output!Record, Output!TierOnePasses, Output!Bad, Output!Findings
  <2>8. /\ out.ref = ref /\ out.kernel = kernel
        /\ out.tier2 = IF ~full THEN "none"
                       ELSE IF ~(Output!TierOnePasses(ref) /\ Output!TierOnePasses(kernel))
                            THEN "skip" ELSE Output!TierTwo(op.run)
    BY <2>2, <2>3, <2>4 DEF Output!VerifyOne
  <2>9. CASE Output!Bad(ref) \/ Output!Bad(kernel)
    <3>1. Output!SummaryStatus(out) \in {"F", "E"}
      BY <2>8, <2>9 DEF Output!SummaryStatus
    <3> QED BY <2>1, <2>4, <2>6, <2>7, <2>9, <3>1
  <2>10. CASE ~Output!Bad(ref) /\ ~Output!Bad(kernel)
    <3>1. out.tier2 = IF ~full THEN "none" ELSE Output!TierTwo(op.run)
      BY <2>6, <2>7, <2>8, <2>10
    <3>2. Output!SummaryStatus(out) =
            CASE out.tier2 \in {"PASS", "none"} -> "P" [] out.tier2 = "FAIL" -> "F"
              [] out.tier2 = "ERROR" -> "E" [] OTHER -> "S"
      BY <2>8, <2>10 DEF Output!SummaryStatus
    <3>3. Output!TierTwo(op.run) =
            IF op.run = "right" THEN "PASS" ELSE IF op.run = "wrong" THEN "FAIL" ELSE "ERROR"
      BY <2>5 DEF Output!TierTwo
    <3>4. Output!SummaryStatus(out) \notin {"F", "E"} <=> (full => op.run = "right")
      BY <2>5, <3>1, <3>2, <3>3
    <3> QED BY <2>1, <2>4, <2>6, <2>7, <2>10, <3>4
  <2> QED BY <2>9, <2>10
<1> QED BY <1>1 DEF Output!PreflightIsTrue, Output!ExitCode

\* For every set of values and every number of cases: no comparison hides an
\* element (verify.py:192-223, verification_ascendc.py:128-161,
\* correctness.py:181), only an int8 case loosens the cases after it
\* (verification_tilelang.py:303-319), and the pre-flight check exits with 0
\* exactly when all is well (batch/verify.py:436).
THEOREM ComparisonsHold == Spec => []ComparisonsAreTrue
<1>1. (part = "output" => OutputInv) => ComparisonsAreTrue
  BY NoneHidden, TileCasesAlone, PreflightHolds DEF ComparisonsAreTrue
<1> QED BY <1>1, OutputHolds, PTL

-----------------------------------------------------------------------------
(* Benchmarks *)

\* A result file that can be read is of an implementation as it was: of the one
\* of its name, or of any under the default name.
Reported(file, report) ==
  \E n \in Impls, k \in Kernels :
    /\ n = file \/ file = "triton_ascend_impl"
    /\ report = [total |-> groups, passed |-> Cardinality((1..groups) \cap k.right),
                 of |-> <<n, k>>]

FilesInv ==
  /\ groups \in InputGroups /\ code \in [Impls -> Kernels]
  /\ DOMAIN json = Impls
  /\ \A f \in Impls : json[f] = Times!NoReport \/ Reported(f, json[f])

TimesInv ==
  /\ FilesInv
  /\ bench.gated => bench # Times!NoBench /\ bench.impl \in Impls /\ Times!Opens(bench.impl)

\* Both names are of the operator of FiniteSets.
LEMMA SameCardinality == \A S : Times!Cardinality(S) = Cardinality(S)
BY DEF Times!Cardinality, Cardinality

LEMMA ReportIsReported ==
  ASSUME NEW n \in Impls, NEW file \in {"triton_ascend_impl", n},
         code \in [Impls -> Kernels]
  PROVE  Reported(file, Times!Report(n))
<1>1. Times!Report(n) = [total |-> groups, of |-> <<n, code[n]>>,
                         passed |-> Cardinality((1..groups) \cap code[n].right)]
  BY SameCardinality DEF Times!Report, Times!Cases
<1>2. code[n] \in Kernels
  OBVIOUS
<1> QED BY <1>1, <1>2 DEF Reported

\* Nothing else is written while a file of an implementation is.
LEMMA FilesKept ==
  ASSUME FilesInv, UNCHANGED groups, code' \in [Impls -> Kernels], DOMAIN json' = Impls,
         \A f \in Impls : \/ json'[f] = json[f] \/ json'[f] = Times!NoReport
                         \/ Reported(f, json'[f])
  PROVE  FilesInv'
<1>1. Times!NoReport' = Times!NoReport
  BY DEF Times!NoReport
<1>2. ASSUME NEW f \in Impls
      PROVE  json'[f] = Times!NoReport \/ Reported(f, json'[f])
  BY DEF FilesInv
<1>3. \A f \in Impls : Reported(f, json'[f]) => Reported(f, json[f])'
  BY DEF Reported
<1> QED BY <1>1, <1>2, <1>3 DEF FilesInv

LEMMA TimesHold == Spec => [](part = "times" => TimesInv)
<1>1. Init => (part = "times" => TimesInv)
  <2> SUFFICES ASSUME Times!Init PROVE TimesInv
    BY DEF Init
  <2>1. bench.gated = FALSE
    BY DEF Times!Init, Times!NoBench
  <2> QED BY <2>1 DEF Times!Init, TimesInv, FilesInv
<1>2. (part = "times" => TimesInv) /\ [Next]_vars => (part = "times" => TimesInv)'
  <2> SUFFICES ASSUME part = "times" => TimesInv, [Next]_vars, part' = "times"
               PROVE  TimesInv'
    OBVIOUS
  <2>1. CASE UNCHANGED vars \/ JudgeAgent
    <3>1. UNCHANGED timeVars /\ part = "times"
      BY <2>1 DEF vars, kernelVars, JudgeAgent, Next
    <3> QED BY <3>1 DEF TimesInv, FilesInv, timeVars, Reported, Times!Opens
  <2>2. CASE JudgeKernel /\ part' = part
    <3>1. TimesInv /\ Times!Next
      BY <2>2 DEF JudgeKernel
    <3>2. FilesInv /\ code \in [Impls -> Kernels] /\ DOMAIN json = Impls
      BY <3>1 DEF TimesInv, FilesInv
    <3>3. Times!NoBench.gated = FALSE
      BY DEF Times!NoBench
    <3>4. CASE Times!Edit
      <4>1. UNCHANGED <<groups, json, bench>> /\ bench = Times!NoBench
        BY <3>4 DEF Times!Edit
      <4>2. code' \in [Impls -> Kernels]
        BY <3>2, <3>4 DEF Times!Edit
      <4>3. FilesInv'
        BY <3>2, <4>1, <4>2, FilesKept
      <4> QED BY <3>3, <4>1, <4>3 DEF TimesInv
    <3>5. CASE Times!VerifyEnds
      <4>1. UNCHANGED <<groups, code, bench>> /\ bench = Times!NoBench
        BY <3>5 DEF Times!VerifyEnds
      <4>2. PICK n \in Impls, file \in {"triton_ascend_impl"} \cup Impls :
                   file \in {"triton_ascend_impl", n}
                   /\ json' = [json EXCEPT ![file] = Times!Report(n)]
        BY <3>5 DEF Times!VerifyEnds
      <4>3. Reported(file, Times!Report(n))
        BY <3>2, <4>2, ReportIsReported
      <4>4. FilesInv'
        BY <3>2, <4>1, <4>2, <4>3, FilesKept
      <4> QED BY <3>3, <4>1, <4>4 DEF TimesInv
    <3>6. CASE Times!VerifyKilled
      <4>1. UNCHANGED <<groups, code, bench>> /\ bench = Times!NoBench
        BY <3>6 DEF Times!VerifyKilled
      <4>2. \E file \in Impls : json' = [json EXCEPT ![file] = Times!NoReport]
        BY <3>6 DEF Times!VerifyKilled
      <4>3. FilesInv'
        BY <3>2, <4>1, <4>2, FilesKept
      <4> QED BY <3>3, <4>1, <4>3 DEF TimesInv
    <3>7. CASE Times!Benchmark
      <4>1. /\ UNCHANGED <<groups, code, json>> /\ bench = Times!NoBench
            /\ \E n \in Impls, gated \in BOOLEAN :
                 /\ gated => Times!Opens(n)
                 /\ \E rows, score : bench' = [impl |-> n, gated |-> gated, rows |-> rows,
                                               score |-> score]
        BY <3>7 DEF Times!Benchmark
      <4>2. PICK n \in Impls, gated \in BOOLEAN :
              /\ gated => Times!Opens(n)
              /\ \E rows, score : bench' = [impl |-> n, gated |-> gated, rows |-> rows,
                                            score |-> score]
        BY <4>1
      <4>3. bench'.impl = n /\ bench'.gated = gated
        BY <4>2
      <4>4. bench'.gated => bench' # Times!NoBench /\ bench'.impl \in Impls
        BY <3>3, <4>3
      <4>5. bench'.gated => Times!Opens(bench.impl)'
        BY <4>1, <4>2, <4>3 DEF Times!Opens
      <4>6. FilesInv'
        BY <3>2, <4>1, FilesKept
      <4>7. Times!NoBench' = Times!NoBench
        BY DEF Times!NoBench
      <4> QED BY <4>4, <4>5, <4>6, <4>7 DEF TimesInv
    <3>8. CASE Times!ReadResult
      <4>1. UNCHANGED <<groups, code, json>> /\ bench' = Times!NoBench
        BY <3>8 DEF Times!ReadResult
      <4>2. FilesInv'
        BY <3>2, <4>1, FilesKept
      <4> QED BY <3>3, <4>1, <4>2 DEF TimesInv
    <3> QED BY <3>1, <3>4, <3>5, <3>6, <3>7, <3>8 DEF Times!Next
  <2> QED BY <2>1, <2>2 DEF Next
<1> QED BY <1>1, <1>2, PTL DEF Spec

\* What a benchmark behind its gate shows, whatever was edited, verified under
\* another name or killed before it (verify.py:485, benchmark.py:736): the kernel
\* its result file was written for was right on every case, and was once under
\* this name unless this is the default one.
THEOREM GatedBenchmarksAreRight == Spec => [](part = "times" => Times!GateHolds)
<1>1. TimesInv => Times!GateHolds
  <2> SUFFICES ASSUME TimesInv, bench.gated, NEW r, r = json[bench.impl]
               PROVE  /\ groups > 0 /\ Times!Cases \subseteq r.of[2].right
                      /\ r.of[1] = bench.impl \/ bench.impl = "triton_ascend_impl"
    BY DEF Times!GateHolds
  <2>3. r.total # 0 /\ r.passed = r.total
    BY DEF TimesInv, Times!Opens
  <2>4. r # Times!NoReport
    BY <2>3 DEF Times!NoReport
  <2>5. PICK n \in Impls, q \in Kernels :
          /\ n = bench.impl \/ bench.impl = "triton_ascend_impl"
          /\ r = [total |-> groups, passed |-> Cardinality((1..groups) \cap q.right),
                  of |-> <<n, q>>]
    <3>1. bench.impl \in Impls /\ FilesInv
      BY DEF TimesInv
    <3>2. Reported(bench.impl, r)
      BY <2>4, <3>1 DEF FilesInv
    <3> QED BY <3>2 DEF Reported
  <2>6. /\ Cardinality((1..groups) \cap q.right) = groups /\ groups # 0
        /\ r.of[1] = n /\ r.of[2] = q
    BY <2>3, <2>5
  <2>7. groups \in Nat
    BY JudgingAssumption DEF TimesInv, FilesInv
  <2>8. IsFiniteSet(1..groups) /\ Cardinality(1..groups) = groups
    BY <2>7, FS_Interval
  <2>9. (1..groups) \cap q.right = 1..groups
    BY <2>6, <2>8, FS_Subset
  <2> QED BY <2>5, <2>6, <2>7, <2>9 DEF Times!Cases
<1> QED BY <1>1, TimesHold, PTL
=============================================================================
