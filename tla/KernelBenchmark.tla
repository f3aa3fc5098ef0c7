-------------------------- MODULE KernelBenchmark --------------------------
(***************************************************************************)
(* The verify directory of the Triton kernel-verifier: implementations the *)
(* agent rewrites, verify.py with its verify_result*.json, and             *)
(* benchmark.py, which asks these files before it measures and then        *)
(* averages the speedups of the cases it could time.  Times are integers,  *)
(* a speedup is a pair of times, and no framework latency is NaN or        *)
(* infinite.                                                               *)
(***************************************************************************)
EXTENDS Integers, FiniteSets, FiniteSetsExt

CONSTANTS
  Impls,      \* names of implementations, with "triton_ascend_impl"
  Groups,     \* how many input groups a task file may have
  Kernels,    \* what an implementation may be: [loads, right, runs, once, again]
  Framework,  \* by case, [once, again]: device time of the operators a call
              \* launches once, and of those it launches more than once
  Overhead,   \* what the wall clock adds to the device time
  Given       \* values of --framework_latency_ms

VARIABLES
  groups,  \* of the task file
  code,    \* the implementations
  json,    \* the verify_result files, one for each name of an implementation
  bench    \* the benchmark that just ended
vars == <<groups, code, json, bench>>

None == -1
Cases == 1..groups

\* `of` is not in the file: the implementation it was written for, as it was.
Report(n) == [total |-> groups, passed |-> Cardinality(Cases \cap code[n].right),
              of |-> <<n, code[n]>>]
NoReport == [total |-> 0, passed |-> 0, of |-> <<>>]
NoBench == [impl |-> "none", gated |-> FALSE, rows |-> <<>>, score |-> <<>>]

Init ==
  /\ groups \in Groups /\ code \in [Impls -> Kernels]
  /\ json = [n \in Impls |-> NoReport] /\ bench = NoBench

Edit ==
  /\ bench = NoBench
  /\ \E n \in Impls, k \in Kernels : code' = [code EXCEPT ![n] = k]
  /\ UNCHANGED <<groups, json, bench>>

-----------------------------------------------------------------------------
(* verify.py writes where --output says, and to verify_result.json without  *)
(* it, whatever it verifies.  An implementation that does not load, and a   *)
(* verification cut at its timeout, leave the file as it was; a kill while  *)
(* it is written leaves one that cannot be read.                            *)
VerifyEnds ==
  /\ bench = NoBench
  /\ \E n \in {m \in Impls : code[m].loads} :
       \E file \in {"triton_ascend_impl", n} : json' = [json EXCEPT ![file] = Report(n)]
  /\ UNCHANGED <<groups, code, bench>>

VerifyKilled ==
  /\ bench = NoBench
  /\ \E file \in Impls : json' = [json EXCEPT ![file] = NoReport]
  /\ UNCHANGED <<groups, code, bench>>

\* Faulty variant: one case that passed is enough.
OpensForSome(n) == json[n].total # 0 /\ json[n].passed # 0

\* check_verify_gate; a file that is missing or cannot be read is refused.
Opens(n) == json[n].total # 0 /\ json[n].passed = json[n].total

-----------------------------------------------------------------------------
(* One measurement.  The profiler leaves no usable file, one with a row for *)
(* every launch, or one with a Count column, of which only the operators    *)
(* with a launch for every step are taken.                                  *)
Traces == {"none", "plain", "counted"}
Device(model) == model.once + model.again

ParseWithCount(model) == IF model.once = 0 THEN None ELSE model.once

ParseOperatorLatency(model, trace) ==
  CASE trace = "none" -> None
    [] trace = "plain" -> Device(model)
    [] trace = "counted" -> ParseWithCount(model)

MeasureFallback(model) == Device(model) + Overhead

MeasureSingle(model, trace) ==
  LET parsed == ParseOperatorLatency(model, trace)
  IN  IF parsed \in {None, 0} THEN MeasureFallback(model) ELSE parsed

\* A case that raises fails alone.  What is not measured is as it was given.
Failed == [status |-> "fail", framework |-> 0, impl |-> 0, clock |-> "none"]

Row(model, kernel, trace, given) ==
  [status |-> "pass", impl |-> MeasureSingle(kernel, trace[2]),
   framework |-> IF given = None THEN MeasureSingle(model, trace[1]) ELSE given,
   clock |-> IF given = None /\ trace = <<"plain", "plain">>
                /\ Device(kernel) # 0 /\ Device(model) # 0
             THEN "device" ELSE "mixed"]

\* What the profiler and the device may make of a case.
RowsOf(c, kernel, given) ==
  {Failed} \cup {Row(Framework[c], kernel, t, given) :
                   t \in IF c \in kernel.runs THEN Traces \X Traces ELSE {}}

Rows(kernel, given) ==
  {rows \in [Cases -> UNION {RowsOf(c, kernel, given) : c \in Cases}] :
     \A c \in Cases : rows[c] \in RowsOf(c, kernel, given)}

ClassifySpeedup(row) == IF row.framework > 0 /\ row.impl > 0 THEN "valid" ELSE "zero"

\* compute_overall: the geometric mean <<a, b, n>>, the n-th root of a / b.
ComputeOverall(rows) ==
  LET valid == {c \in Cases : /\ rows[c].status = "pass"
                              /\ ClassifySpeedup(rows[c]) = "valid"}
      Times(side) == FoldSet(LAMBDA c, product : rows[c][side] * product, 1, valid)
  IN  IF valid = {} THEN <<>>
      ELSE <<Times("framework"), Times("impl"), Cardinality(valid)>>

\* --verify_not_required skips the gate.
Benchmark ==
  /\ bench = NoBench
  /\ \E n \in {m \in Impls : code[m].loads}, gated \in BOOLEAN, given \in Given \cup {None} :
       /\ gated => Opens(n)
       /\ \E rows \in Rows(code[n], given) :
            bench' = [impl |-> n, gated |-> gated, rows |-> rows,
                      score |-> ComputeOverall(rows)]
  /\ UNCHANGED <<groups, code, json>>

\* The agent reads the result before it goes on.
ReadResult ==
  /\ bench # NoBench /\ bench' = NoBench
  /\ UNCHANGED <<groups, code, json>>

Next == Edit \/ VerifyEnds \/ VerifyKilled \/ Benchmark \/ ReadResult

Spec == Init /\ [][Next]_vars

-----------------------------------------------------------------------------
(* What a benchmark behind the gate shows, whatever was edited, verified    *)
(* under another name or killed before it: the kernel the result file was   *)
(* written for is right on every case, and that kernel was, once, under     *)
(* this name; only the default name takes in the result of another one.     *)
(* That it is the kernel measured now nothing in the file says              *)
(* (verify.py:485, benchmark.py:736).                                       *)
GateHolds ==
  bench.gated =>
    LET of == json[bench.impl].of
    IN  /\ groups > 0 /\ Cases \subseteq of[2].right
        /\ of[1] = bench.impl \/ bench.impl = "triton_ascend_impl"

(* A score lies between the best and the worst true ratio of the cases that *)
(* passed, when the profiler saw every launch on both sides; the cases that *)
(* could not be run pull it nowhere (benchmark.py:470).                     *)
ScoreIsTrue ==
  LET passed == {c \in DOMAIN bench.rows : bench.rows[c].status = "pass"}
      time == Device(code[bench.impl])
      a == bench.score[1]  b == bench.score[2]  n == bench.score[3]
  IN  /\ bench.score # <<>>
      /\ \A c \in passed : bench.rows[c].clock = "device"
      => \E low, high \in passed :
           /\ b * Device(Framework[low]) ^ n <= a * time ^ n
           /\ a * time ^ n <= b * Device(Framework[high]) ^ n
=============================================================================
