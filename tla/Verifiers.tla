----------------------------- MODULE Verifiers -----------------------------
(***************************************************************************)
(* When is an output right?  The four comparisons of the repository over   *)
(* the same outputs: kernel-verifier's verify.py (every evaluation of a    *)
(* Triton kernel), utils/correctness.py around it (the pre-flight check of *)
(* a batch), verification_ascendc.py (mean and maximal relative error) and *)
(* verification_tilelang.py; and the pre-flight check batch/verify.py      *)
(* itself, which turns the records of its subprocesses into one exit code. *)
(*                                                                         *)
(* A value is an integer: of units of 1e-5 in a floating tensor, of units  *)
(* in an integer tensor; three codes beyond MaxValue are NaN and the       *)
(* infinities.  Tensors of different types hold zeros only, which every    *)
(* conversion keeps.                                                       *)
(***************************************************************************)
EXTENDS Integers, Sequences, FiniteSets, SequencesExt

CONSTANTS
  Values,   \* the finite values of a tensor
  MaxValue, \* their bound
  MaxSize,  \* bound on the elements of all references of a verification
  MaxCases, \* bound on the cases of one verification
  MaxOps    \* bound on the operators of one pre-flight check

VARIABLES
  cases, \* the outputs compared so far, one entry per input group
  ops,   \* the records of a pre-flight check, one entry per operator
  full   \* whether it was asked to run the kernels

vars == <<cases, ops, full>>

NaN == MaxValue + 1
Specials == {NaN, MaxValue + 2, MaxValue + 3}

Floats == {"float16", "bfloat16", "float32"}
Small == {"int8", "int16"}
Ints == Small \cup {"int32"}
Dtypes == Floats \cup Ints \cup {"bool"}

Diff(a, b) == IF a < b THEN b - a ELSE a - b
Indices(t) == 1..Len(t.vals)
FiniteAt(r, n) == {i \in Indices(r) : r.vals[i] \notin Specials}

(***************************************************************************)
(* kernel-verifier's verify.py.                                            *)
(***************************************************************************)
\* get_allclose_tolerance: 1/rtol and atol; anything else is like float32.
Tolerance(dtype) ==
  CASE dtype = "float16" -> [r |-> 1024, a |-> 100]
    [] dtype = "bfloat16" -> [r |-> 128, a |-> 1000]
    [] OTHER -> [r |-> 8192, a |-> 1]

\* |new - ref| <= atol + rtol * |ref|; an atol of 1e-5 is nothing to integers.
Within(dtype, ref, new) ==
  LET tol == Tolerance(dtype)
      d == Diff(ref, new)
  IN tol.r * d <= ref + (IF dtype \in Floats THEN tol.r * tol.a ELSE 0)

\* Without the signs of the infinities.
SamePositions(r, n) == \A i \in Indices(r) : (r.vals[i] \in Specials) = (n.vals[i] \in Specials)

\* NaN and infinities are where the reference has them.
SameSpecials(r, n) ==
  \A i \in Indices(r) : {r.vals[i], n.vals[i]} \cap Specials # {} => r.vals[i] = n.vals[i]

\* compare: flattened tensors, the type of the reference.
Compare(r, n) ==
  /\ Len(r.vals) = Len(n.vals)
  /\ SameSpecials(r, n)
  /\ \A i \in FiniteAt(r, n) :
       IF r.dtype = "bool" THEN r.vals[i] = n.vals[i] ELSE Within(r.dtype, r.vals[i], n.vals[i])

\* run_single_case, and every case counted by verify_implementations.
SingleCase(c) == Len(c.ref) = Len(c.new) /\ \A i \in 1..Len(c.ref) : Compare(c.ref[i], c.new[i])
TritonAccepts(cs) == cs # <<>> /\ \A i \in 1..Len(cs) : SingleCase(cs[i])

(***************************************************************************)
(* utils/correctness.py.                                                   *)
(***************************************************************************)
CheckOneTensor(r, n) == r.dtype = n.dtype /\ Compare(r, n)

CompareOutputs(c) ==
  /\ Len(c.ref) = Len(c.new) /\ c.ref # <<>>
  /\ \A i \in 1..Len(c.ref) : CheckOneTensor(c.ref[i], c.new[i])

PreflightAccepts(cs) == \A i \in 1..Len(cs) : CompareOutputs(cs[i])

(***************************************************************************)
(* verification_ascendc.py.                                                *)
(***************************************************************************)
\* _get_threshold_for_tensor: 1/threshold, of the type of the reference.
Threshold(dtype) ==
  CASE dtype = "float16" -> 1024 [] dtype = "bfloat16" -> 128
    [] dtype = "float32" -> 8192 [] OTHER -> 100

\* The sum of the relative errors as a fraction.
Plus(x, y) == [num |-> x.num * y.den + y.num * x.den, den |-> x.den * y.den]
RelativeSum(r, n, I) ==
  FoldSet(LAMBDA i, sum : Plus([num |-> Diff(r.vals[i], n.vals[i]), den |-> r.vals[i]], sum),
          [num |-> 0, den |-> 1], I)

\* The largest relative error is below ten thresholds; a difference where the
\* reference is 0 is divided by 1e-7 and never is.
BelowMare(r, n, i) ==
  r.vals[i] = n.vals[i] \/ Threshold(r.dtype) * Diff(r.vals[i], n.vals[i]) < 10 * r.vals[i]

BelowMere(r, n, I) ==
  LET I1 == {i \in I : r.vals[i] # n.vals[i]}
      sum == RelativeSum(r, n, I1)
  IN Threshold(r.dtype) * sum.num < Cardinality(I) * sum.den

Precise(r, n) ==
  /\ SameSpecials(r, n)
  /\ \A i \in FiniteAt(r, n) : BelowMare(r, n, i)
  /\ FiniteAt(r, n) # {} => BelowMere(r, n, FiniteAt(r, n))

AscendValues(r, n) ==
  /\ Len(r.vals) = Len(n.vals)
  /\ IF {r.dtype, n.dtype} \cap Floats # {} THEN Precise(r, n)
     ELSE IF r.dtype = n.dtype /\ r.dtype \in Small
     THEN \A i \in Indices(r) : Diff(r.vals[i], n.vals[i]) <= 1
     ELSE r = n

AscendCase(c) == Len(c.ref) = Len(c.new) /\ \A i \in 1..Len(c.ref) : AscendValues(c.ref[i], c.new[i])
AscendAccepts(cs) == \A i \in 1..Len(cs) : AscendCase(cs[i])

(***************************************************************************)
(* verification_tilelang.py: NaN counts as 0, and the tolerance of a case  *)
(* with int8 outputs stays for the cases after it.                         *)
(***************************************************************************)
Number(x) == IF x = NaN THEN 0 ELSE x

Near(wide, dtype, ref, new) ==
  LET d == Diff(Number(ref), Number(new)) IN
  IF wide THEN d <= IF dtype \in Floats THEN 150000 ELSE 1
  ELSE 100 * d <= Number(new) + IF dtype \in Floats THEN 100000 ELSE 1

TileValues(wide, r, n) ==
  /\ Len(r.vals) = Len(n.vals)
  /\ \A i \in Indices(r) :
       IF {r.vals[i], n.vals[i]} \cap (Specials \ {NaN}) # {} THEN r.vals[i] = n.vals[i]
       ELSE Near(wide, r.dtype, r.vals[i], n.vals[i])

HasInt8(outputs) == \E i \in 1..Len(outputs) : outputs[i].dtype = "int8"
Widens(c) == HasInt8(c.ref) /\ HasInt8(c.new)

TileAccepts(cs) ==
  \A k \in 1..Len(cs) :
    /\ Len(cs[k].ref) = Len(cs[k].new)
    /\ \A i \in 1..Len(cs[k].ref) :
         TileValues(\E j \in 1..k : Widens(cs[j]), cs[k].ref[i], cs[k].new[i])

(***************************************************************************)
(* The pre-flight check of a batch (batch/verify.py).                      *)
(***************************************************************************)
\* What a subprocess can find in one file; "silent" is one that leaves no
\* result or is stopped by its timeout.
Findings == {"fine", "compile", "import", "exports", "validate", "silent"}

Record(side, finding) ==
  [exports |-> IF finding \in {"fine", "validate"} THEN "PASS"
               ELSE IF finding = "exports" THEN "FAIL" ELSE "skip",
   fails |-> finding \in {"compile", "import", "exports"} \cup (IF side = "kernel" THEN {"validate"} ELSE {}),
   status |-> IF finding = "silent" THEN "ERROR" ELSE "none"]

TierOnePasses(rec) == rec.exports = "PASS" /\ ~rec.fails

\* Tier 2 runs both models on the same inputs and calls correctness.py.
TierTwo(found) ==
  CASE found \in {"raises", "silent"} -> "ERROR" [] found = "right" -> "PASS"
    [] found = "wrong" -> "FAIL"

\* The record of an operator.
VerifyOne(op) ==
  LET ref == Record("ref", op.ref)
      kernel == Record("kernel", op.kernel)
      ok == TierOnePasses(ref) /\ TierOnePasses(kernel)
  IN [ref |-> ref, kernel |-> kernel,
      tier2 |-> IF ~full THEN "none" ELSE IF ~ok THEN "skip"
                ELSE TierTwo(op.run)]

Bad(rec) == rec.fails \/ rec.status \in {"FAIL", "ERROR"}

SummaryStatus(out) ==
  IF Bad(out.ref) THEN IF out.ref.fails THEN "F" ELSE "E"
  ELSE IF Bad(out.kernel) THEN IF out.kernel.fails THEN "F" ELSE "E"
  ELSE CASE out.tier2 \in {"PASS", "none"} -> "P" [] out.tier2 = "FAIL" -> "F"
         [] out.tier2 = "ERROR" -> "E" [] OTHER -> "S"

\* run_verification.
ExitCode == IF \A i \in 1..Len(ops) : SummaryStatus(VerifyOne(ops[i])) \notin {"F", "E"} THEN 0 ELSE 1

(***************************************************************************)
(* The specification: outputs of the next input group, or the next         *)
(* operator of the manifest.                                               *)
(***************************************************************************)
Init == cases = <<>> /\ ops = <<>> /\ full \in BOOLEAN

Tensors(dtype, n, V) == [dtype : {dtype}, vals : [1..n -> V]]

Entries(dtype) == IF dtype = "bool" THEN {0, 1}
                  ELSE IF dtype \in Floats THEN Values \cup Specials
                  ELSE IF dtype = "int8" THEN Values \cap 0..127 ELSE Values

Elements == FoldSeq(LAMBDA c, sum : sum + FoldSeq(LAMBDA t, m : m + Len(t.vals), 0, c.ref), 0, cases)

CompareCase ==
  /\ ops = <<>> /\ Len(cases) < MaxCases /\ full
  /\ \/ \E dtype \in Dtypes, n \in 0..(MaxSize - Elements) :
          \E r, c \in Tensors(dtype, n, Entries(dtype)) :
            cases' = Append(cases, [ref |-> <<r>>, new |-> <<c>>])
     \/ Elements < MaxSize /\ \E d1, d2 \in Dtypes : \E r \in Tensors(d1, 1, {0}), c \in Tensors(d2, 1, {0}) :
          \E ref \in {<<>>, <<r>>}, new \in {<<>>, <<c>>} :
            cases' = Append(cases, [ref |-> ref, new |-> new])
  /\ UNCHANGED <<ops, full>>

VerifyOp ==
  /\ cases = <<>> /\ Len(ops) < MaxOps
  /\ \E op \in [ref : Findings \ {"validate"}, kernel : Findings,
                run : {"right", "wrong", "raises", "silent"}] : ops' = Append(ops, op)
  /\ UNCHANGED <<cases, full>>

Next == CompareCase \/ VerifyOp

Spec == Init /\ [][Next]_vars

(***************************************************************************)
(* Properties.                                                             *)
(***************************************************************************)
\* Every element of an accepted floating output is a special value in the
\* same place, or within ten times the tolerance of its type: no comparison
\* lets the other elements or the other cases of a verification hide one
\* (verify.py:192-223, verification_ascendc.py:128-161, correctness.py:181).
NoElementHidden ==
  (TritonAccepts(cases) \/ (cases # <<>> /\ PreflightAccepts(cases)) \/ AscendAccepts(cases)) =>
    \A k \in 1..Len(cases) : \A o \in 1..Len(cases[k].ref) :
      LET r == cases[k].ref[o]
          n == cases[k].new[o]
          tol == Tolerance(r.dtype)
      IN /\ Len(r.vals) = Len(n.vals)
         /\ r.dtype \in Floats => \A i \in Indices(r) :
              \/ r.vals[i] = n.vals[i]
              \/ /\ {r.vals[i], n.vals[i]} \cap Specials = {}
                 /\ tol.r * Diff(r.vals[i], n.vals[i]) <= 10 * r.vals[i] + tol.r * tol.a

\* "Integer dtypes must compare exactly." (correctness.py:27)
IntegersAreExact ==
  PreflightAccepts(cases) =>
    \A k \in 1..Len(cases) : \A o \in 1..Len(cases[k].ref) :
      cases[k].ref[o].dtype \in Ints => cases[k].ref[o].vals = cases[k].new[o].vals

\* In a TileLang verification a case is judged as if it were alone, unless a
\* case before it had int8 outputs: that one leaves the next ones, floating
\* ones included, with an absolute tolerance of 1.5 (verification_tilelang.py:303-319).
OnlyInt8Lingers ==
  LET Alone(k) == TileAccepts(<<cases[k]>>)
      Int8(j) == \E o \in 1..Len(cases[j].ref) : cases[j].ref[o].dtype = "int8"
  IN (\A j \in 1..(Len(cases) - 1) : ~Int8(j)) =>
       (TileAccepts(cases) <=> \A k \in 1..Len(cases) : Alone(k))

\* The pre-flight check exits with 0 exactly when both files of every
\* operator passed and, under --full, every kernel computed the right values;
\* a subprocess that left nothing or timed out is no pass (batch/verify.py:436).
PreflightIsTrue ==
  (ExitCode = 0) <=>
    \A i \in 1..Len(ops) : ops[i].ref = "fine" /\ ops[i].kernel = "fine" /\ (full => ops[i].run = "right")
=============================================================================
