----------------------------- MODULE MCJudging ------------------------------
(***************************************************************************)
(* The programs that judge what an agent hands in, on one instance for     *)
(* TLC: its commands and tool calls, its plans, the files of its answers,  *)
(* the source, the outputs and the times of its kernel, and the two        *)
(* evaluations built on these.                                             *)
(* They share no state; `part` says which one this behaviour runs, and the *)
(* variables of the others are parked.                                     *)
(***************************************************************************)
EXTENDS Integers, Sequences, FiniteSets

CONSTANTS
  MaxCases, MaxEvals, MaxDeaths,                   \* Evaluation
  Groups, Listed, Facts, MaxReruns, MaxFaults,     \* AscendEvaluator
  MaxForward, MaxStatements,                       \* ImplValidator
  Values, MaxValue, MaxSize, MaxCompared, MaxOps,  \* Verifiers
  Descs, Reasons, RoundEnds, MaxItems, MaxPlans,   \* PlanText
  Leads, Tails,                                    \* BashCommands
  MaxRounds, FailThreshold, DiagCap, PlanSizes,    \* ToolGate
  Slots, Overlaps, GatePlans, GateRounds,
  Logic, Fixed, Contents, Retries, MaxAnswers,     \* Generation
  MaxKills, MaxResumes,
  Impls, InputGroups, Kernels, Framework,          \* KernelBenchmark
  Overhead, Given

ASSUME JudgingAssumption ==
  /\ {MaxCases, MaxEvals, MaxDeaths, MaxReruns, MaxFaults, MaxForward,
      MaxStatements, MaxSize, MaxCompared, MaxOps, MaxItems, MaxPlans,
      Slots, Overlaps, GatePlans, GateRounds} \subseteq Nat
  /\ {MaxRounds, FailThreshold, DiagCap} \subseteq Nat \ {0}
  /\ PlanSizes \subseteq {n \in Nat : n >= 3}
  /\ RoundEnds \subseteq {"KEEP", "DISCARD", "FAIL"}
  /\ Groups \subseteq Nat \ {0} /\ Listed \subseteq Nat
  /\ \A f \in Facts : f.dtype \in Nat /\ f.broadcast \in BOOLEAN /\ f.numel \in Nat
  /\ MaxValue \in Nat /\ Values \subseteq 0 .. MaxValue /\ 0 \in Values
  /\ \A s \in Tails : /\ s.head = "export" => ~s.output
                      /\ s.head \notin {"python", "py", "nohup"} => s.hidden = "none"
  /\ Logic \cap Fixed = {} /\ Logic # {}
  /\ \A c \in Contents : DOMAIN c = {"code", "note"} /\ c.code \in Nat
  /\ {Retries, MaxAnswers, MaxKills, MaxResumes} \subseteq Nat
  /\ "triton_ascend_impl" \in Impls
  /\ InputGroups \subseteq Nat /\ Given \subseteq Nat /\ Overhead \in Nat \ {0}
  /\ \A k \in Kernels : /\ DOMAIN k = {"loads", "right", "runs", "once", "again"}
                        /\ k.right \subseteq k.runs

VARIABLES
  part,
  cases, host, anchor, pc, eval, request, refFile, kernelFile, base, result,
  orphans, deaths,                                           \* Evaluation
  world, at, acc, disk, perf, verdict, evals, faults, hit,   \* AscendEvaluator
  program,                                                   \* ImplValidator
  outputs, ops, full,                                        \* Verifiers
  text, nextPid,                                             \* PlanText
  cmd,                                                       \* BashCommands
  st, plan, diag, items, dirty, marker, call, overlaps,      \* ToolGate
  tree, kept, from, cand, target, then, step, calls, wrote,
  whole, count,                                              \* Generation
  groups, code, json, bench                                  \* KernelBenchmark

Round == INSTANCE Evaluation
Turn == INSTANCE AscendEvaluator WITH result <- verdict, MaxEvals <- MaxReruns
Source == INSTANCE ImplValidator WITH MaxSize <- MaxStatements
Output == INSTANCE Verifiers WITH cases <- outputs, MaxCases <- MaxCompared
Text == INSTANCE PlanText WITH Decisions <- RoundEnds
Shape == INSTANCE BashShape
Shell == INSTANCE BashCommands
Gate == INSTANCE ToolGate WITH Outcomes <- RoundEnds
Answer == INSTANCE Generation
Times == INSTANCE KernelBenchmark WITH Groups <- InputGroups

roundVars == <<cases, host, anchor, pc, eval, request, refFile, kernelFile,
               base, result, orphans, deaths>>
turnVars == <<world, at, acc, disk, perf, verdict, evals, faults, hit>>
outputVars == <<outputs, ops, full>>
textVars == <<text, nextPid>>
gateVars == <<st, plan, diag, items, dirty, marker, call, overlaps>>
answerVars == <<tree, kept, from, cand, target, then, step, calls, wrote,
                whole, count>>
timeVars == <<groups, code, json, bench>>
kernelVars == <<roundVars, turnVars, program, outputVars, timeVars>>
agentVars == <<textVars, cmd, gateVars, answerVars>>
vars == <<part, kernelVars, agentVars>>

Parked == "parked"

RoundParked ==
  /\ cases = Parked /\ host = Parked /\ anchor = Parked /\ pc = Parked
  /\ eval = Parked /\ request = Parked /\ refFile = Parked /\ kernelFile = Parked
  /\ base = Parked /\ result = Parked /\ orphans = Parked /\ deaths = Parked

TurnParked ==
  /\ world = Parked /\ at = Parked /\ acc = Parked /\ disk = Parked /\ perf = Parked
  /\ verdict = Parked /\ evals = Parked /\ faults = Parked /\ hit = Parked

OutputParked == outputs = Parked /\ ops = Parked /\ full = Parked

GateParked ==
  /\ st = Parked /\ plan = Parked /\ diag = Parked /\ items = Parked
  /\ dirty = Parked /\ marker = Parked /\ call = Parked /\ overlaps = Parked

AnswerParked ==
  /\ tree = Parked /\ kept = Parked /\ from = Parked /\ cand = Parked
  /\ target = Parked /\ then = Parked /\ step = Parked /\ calls = Parked
  /\ wrote = Parked /\ whole = Parked /\ count = Parked

TimesParked == groups = Parked /\ code = Parked /\ json = Parked /\ bench = Parked

Init ==
  /\ part \in {"round", "turn", "source", "output", "times",
              "text", "shell", "gate", "answer"}
  /\ IF part = "round" THEN Round!Init ELSE RoundParked
  /\ IF part = "turn" THEN Turn!Init ELSE TurnParked
  /\ IF part = "source" THEN Source!Init ELSE program = Parked
  /\ IF part = "output" THEN Output!Init ELSE OutputParked
  /\ IF part = "times" THEN Times!Init ELSE TimesParked
  /\ IF part = "text" THEN Text!Init ELSE text = Parked /\ nextPid = Parked
  /\ IF part = "shell" THEN Shell!Init ELSE cmd = Parked
  /\ IF part = "gate" THEN Gate!Init ELSE GateParked
  /\ IF part = "answer" THEN Answer!Init ELSE AnswerParked

JudgeKernel ==
  /\ UNCHANGED agentVars
  /\ \/ part = "round" /\ Round!Next /\ UNCHANGED <<turnVars, program, outputVars, timeVars>>
     \/ part = "turn" /\ Turn!Next /\ UNCHANGED <<roundVars, program, outputVars, timeVars>>
     \/ part = "source" /\ Source!Next /\ UNCHANGED <<roundVars, turnVars, outputVars, timeVars>>
     \/ part = "output" /\ Output!Next /\ UNCHANGED <<roundVars, turnVars, program, timeVars>>
     \/ part = "times" /\ Times!Next /\ UNCHANGED <<roundVars, turnVars, program, outputVars>>

JudgeAgent ==
  /\ UNCHANGED kernelVars
  /\ \/ part = "text" /\ Text!Next /\ UNCHANGED <<cmd, gateVars, answerVars>>
     \/ part = "shell" /\ Shell!Next /\ UNCHANGED <<textVars, gateVars, answerVars>>
     \/ part = "gate" /\ Gate!Next /\ UNCHANGED <<textVars, cmd, answerVars>>
     \/ part = "answer" /\ Answer!Next /\ UNCHANGED <<textVars, cmd, gateVars>>

Next == UNCHANGED part /\ (JudgeKernel \/ JudgeAgent)

Spec == Init /\ [][Next]_vars

-----------------------------------------------------------------------------
\* "ok" is every case matched and timed, by this evaluation's own pass; a
\* failure is blamed on the reference exactly when it failed (eval_assemble.py:95);
\* the kernel's pass takes nothing from the finished ref pass (eval_runner.py:5);
\* and the fields of the anchor are of one measurement (baseline_anchor.py:152).
EvaluationIsTrue ==
  part = "round" => Round!VerdictIsTrue /\ Round!RefSurvivesKernel /\ Round!AnchorIsWhole

\* A result called correct is right on every listed case, a scored one on every
\* input group, and timed on those (evaluator.py:385-467); a verification that
\* ended inside a case is blamed on it (evaluator.py:439).
ReportIsTrue == part = "turn" => Turn!AcceptedIsWhole /\ Turn!DeathIsLocated

\* The case shown to the next round did fail (diagnostics.py:680-694).
ShownCaseFailed == part = "turn" => Turn!ShownCaseFailed

\* No gate is passed after one that is not (diagnostics.py:547-571).
GatesAreOrdered == part = "turn" => Turn!GatesAreOrdered

\* The AscendC check finds the degradation a run commits
\* (validate_ascendc_impl.py:748), and what the Triton or TileLang check accepts
\* launches a kernel (validate_triton_impl.py:417, validate_tilelang_impl.py:560).
SourceVerdictsAreTrue ==
  part = "source" => Source!AscendVerdictIsTrue /\ Source!AcceptedLaunches

\* No element of an accepted output is far from the reference
\* (verify.py:192-223, verification_ascendc.py:128-161, correctness.py:181);
\* only an int8 case loosens the cases after it (verification_tilelang.py:303-319);
\* the pre-flight check exits with 0 exactly when all is well (batch/verify.py:436).
ComparisonsAreTrue ==
  part = "output" => /\ Output!NoElementHidden
                     /\ Output!OnlyInt8Lingers /\ Output!PreflightIsTrue

\* A benchmark behind its gate is of a kernel that is right on every case, and
\* its score lies between the true ratios (benchmark.py:470, 736).
BenchmarkIsTrue == part = "times" => Times!GateHolds /\ Times!ScoreIsTrue

\* Every write of plan.md, read back, is a step of the plan record PlanBook
\* (workflow/planning.py:1-20), and what create_plan.py accepts is read back
\* as a valid plan (validators.py:280-314).
TextIsPlan == /\ part = "text" => Text!TextStartsAsPlan
              /\ [][part = "text" => Text!TextStepsAsPlan /\ Text!PlanValidates]_vars

\* A candidate that is judged is a complete project, the one in the task
\* directory, and mixes the files of no two bundles (bundle.py:123, 157).
CandidateIsWhole == part = "answer" => Answer!JudgedIsWhole /\ Answer!NeverMixed

\* A command taken for a script is that script; one taken for reading changes
\* nothing (phase_policy.py:259-311).
ShapeIsTrue == part = "shell" => Shell!ShapeIsTrue

\* The guidance asks for calls that the gates let through, until the agent may
\* stop (guidance.py:427-748).
GuidanceIsAllowed == part = "gate" => Gate!GuidanceIsAllowed

\* In EDIT there is an item to work on or a settle to finish, whatever calls
\* overlapped (post_bash.py:236-296).
EditHasItem == part = "gate" => Gate!EditHasItem

-----------------------------------------------------------------------------
\* Lines of a case file that differ in the type, the broadcast and the size.
SomeFacts == {[dtype |-> 0, broadcast |-> FALSE, numel |-> 128],
              [dtype |-> 0, broadcast |-> TRUE, numel |-> 40],
              [dtype |-> 1, broadcast |-> FALSE, numel |-> 128]}

\* A file with the marker, one with two comments, and another one.
SomeContents == {[code |-> 0, note |-> 0], [code |-> 1, note |-> 0],
                 [code |-> 1, note |-> 1], [code |-> 2, note |-> 0]}

\* A faster and a slower kernel, one that is slow where it launches twice, and
\* one that does not load.
SomeKernels ==
  {[loads |-> TRUE, right |-> {1, 2}, runs |-> {1, 2}, once |-> 2, again |-> 0],
   [loads |-> TRUE, right |-> {1}, runs |-> {1, 2}, once |-> 1, again |-> 2],
   [loads |-> TRUE, right |-> {1}, runs |-> {1}, once |-> 0, again |-> 3],
   [loads |-> FALSE, right |-> {}, runs |-> {}, once |-> 1, again |-> 0]}
SomeFramework == <<[once |-> 3, again |-> 1], [once |-> 1, again |-> 0]>>

\* Descriptions that differ in what the checks of create_plan.py look at: an
\* acceptable one, one of parameters only, one that is too short.
SomeDescs ==
  {[short |-> d[1], spaced |-> TRUE, words |-> {d[2]}, marks |-> {}] :
     d \in {<<FALSE, "content">>, <<FALSE, "param">>, <<TRUE, "content">>}}

\* First commands that another one follows: everything that is not a script, and
\* two scripts and an unknown one with every hiding place.
SomeLeads ==
  Shape!Unscripted
  \cup {s \in Shape!Scripted :
          /\ s.env # "other" /\ s.flag \in {"none", "tweak", "version3"}
          /\ s.path = "scripts" /\ s.dir = "engine"
          /\ s.script \in {"pipeline", "create_plan", "unknown"}}

\* What may follow: everything that is not a script, and two scripts in the
\* direct form or with something hidden.
SomeTails ==
  {s \in Shape!Unscripted : s.env = "none"}
  \cup {s \in Shape!Scripted :
          /\ s.env = "none" /\ s.head = "python" /\ s.flag \in {"none", "tweak"}
          /\ s.path = "scripts" /\ s.script \in {"pipeline", "resume"} /\ ~s.redirect}
=============================================================================
