--------------------------- MODULE ImplValidator ----------------------------
(***************************************************************************)
(* The three static checks that keep a generated model from falling back   *)
(* to PyTorch (validate_ascendc_impl.py, validate_triton_impl.py,          *)
(* validate_tilelang_impl.py), over small programs, beside what a run of   *)
(* the program really does.                                                *)
(*                                                                         *)
(* A program is forward(self, x, n: int), a module function g(p) and a     *)
(* method h(self, p) that may call g; each returns its last variable.  A   *)
(* statement assigns a fresh variable, numbered by its place; 0 is the     *)
(* first parameter, -1 is n.  A deep statement stands inside an `if`,      *)
(* where ast.walk meets it after the statements around it.  The method of  *)
(* a routed program is called _route; a forward that calls itself, which   *)
(* the checks let pass, never ends and is left out.                        *)
(***************************************************************************)
EXTENDS Integers, SequencesExt

CONSTANTS MaxForward,   \* bound: statements of forward
          MaxSize       \* bound: statements of the program

VARIABLES program
vars == <<program>>

\* v = out of: copy src | numel src | torch.empty | src.view | torch.relu(src)
\* | src.sum() | src + 1 | self.fc(src), a torch.nn module | ext.run(src)
\* | for i in range(n): ext.run(src[i]) | g(src) | self.h(src)
NeedTensor == {"meta", "layout", "method", "torch", "nn", "loop"}
Launches == {"kernel", "loop"}
Ops == NeedTensor \cup {"copy", "alloc", "arith", "kernel", "g", "h"}

\* What stands above the classes: no extension import or no @jit kernel, an
\* unconfigured or empty one, a class without forward, or all there is needed.
Setups == {"none", "placeholder", "no_forward", "whole"}

Some(body, ops) == \E i \in DOMAIN body : body[i].op \in ops
Walk(body) == SelectSeq(body, LAMBDA s : ~s.deep) \o SelectSeq(body, LAMBDA s : s.deep)

-----------------------------------------------------------------------------
(* What a run does: the torch computations, launches and element loops it  *)
(* executes, by function.                                                  *)

RunBody(name, body, arg, g, h) ==
  LET Value(env, s) ==
        CASE s.op \in {"copy", "arith"} -> env.type[s.src]
          [] s.op = "meta" -> "number"
          [] s.op = "g" -> g[env.type[s.src]].value
          [] s.op = "h" -> h[env.type[s.src]].value
          [] OTHER -> "tensor"
      Effect(env, s) ==
        CASE s.op = "g" -> g[env.type[s.src]].effects
          [] s.op = "h" -> h[env.type[s.src]].effects
          [] s.op \in NeedTensor /\ env.type[s.src] = "number" -> {<<name, "crash">>}
          [] s.op = "arith" /\ env.type[s.src] = "number" -> {}
          [] OTHER -> {<<name, s.op>>}
      Step(env, s) == [type |-> [env.type EXCEPT ![s.dst] = Value(env, s)],
                       effects |-> env.effects \cup Effect(env, s)]
      start == [type |-> [v \in -1 .. Len(body) |-> IF v = -1 THEN "number" ELSE arg],
                effects |-> {}]
      end == FoldLeft(Step, start, body)
  IN [value |-> end.type[Len(body)], effects |-> end.effects]

Run(p) ==
  LET types == {"tensor", "number"}
      g == [t \in types |-> RunBody("g", p.body.g, t, <<>>, <<>>)]
      h == [t \in types |-> RunBody("h", p.body.h, t, g, <<>>)]
  IN RunBody("forward", p.body.forward, "tensor", g, h).effects

Did(p, ops) == \E e \in Run(p) : e[2] \in ops
TorchWork == {"torch", "method", "arith", "nn"}

\* The verdict a run would justify: the degradation types of the docstrings.
TrueVerdict(p) ==
  CASE p.setup \in {"none", "placeholder"} -> 1
    [] p.setup = "no_forward" -> 2
    [] ~Did(p, Launches) -> 2
    [] Did(p, TorchWork) -> 3
    [] Did(p, {"loop"}) -> 4
    [] OTHER -> 0

-----------------------------------------------------------------------------
(* validate_ascendc_impl.py: value kinds without running the program.      *)

\* forward and, level by level, the local functions it calls.
Callees(body) ==
  LET calls == SelectSeq(Walk(body), LAMBDA s : s.op \in {"g", "h"})
  IN [i \in DOMAIN calls |-> calls[i].op]
Reachable(p) ==
  LET Visit(seen, f) == IF Contains(seen, f) THEN seen ELSE Append(seen, f)
      Level(seen) == FoldLeft(LAMBDA acc, f : FoldLeft(Visit, acc, Callees(p.body[f])), seen, seen)
  IN Level(Level(<<"forward">>))

Kind(k, s) ==
  CASE s.op = "copy" -> k[s.src]
    [] s.op \in {"alloc", "torch", "kernel", "loop"} -> "tensor"
    [] s.op \in {"layout", "method"} -> IF k[s.src] = "tensor" THEN "tensor" ELSE "unknown"
    [] s.op = "meta" -> IF k[s.src] = "tensor" THEN "metadata" ELSE "unknown"
    [] s.op = "arith" -> IF k[s.src] = "tensor" THEN "tensor" ELSE "scalar"
    [] OTHER -> "unknown"   \* what a helper or a module returns

\* One pass over the assignments, the last one of a variable wins.
Pass(k, body) ==
  FoldLeft(LAMBDA acc, s : IF Kind(acc, s) = "unknown" THEN acc
                           ELSE [acc EXCEPT ![s.dst] = Kind(acc, s)],
           k, Walk(body))

\* Faulty variant: one pass in the order of ast.walk.
PropagatedOnce(k, body) == Pass(k, body)

\* _propagate_assignments: as many passes as assignments, and one.
Propagated(k, body) ==
  FoldLeft(LAMBDA acc, i : Pass(acc, body), k, [i \in 1 .. Len(body) + 1 |-> i])

\* Only forward's unannotated parameter is assumed to be a tensor.
Provenance(f, body, given) ==
  Propagated([v \in -1 .. Len(body) |->
                IF v = 0 THEN (IF f = "forward" THEN "tensor" ELSE given[f])
                ELSE IF v = -1 THEN "scalar" ELSE "unknown"], body)

MergeKind(current, incoming) ==
  CASE current = "unknown" -> incoming
    [] "tensor" \in {current, incoming} -> "tensor"
    [] "metadata" \in {current, incoming} -> "metadata"
    [] OTHER -> current

\* build_function_provenance: argument kinds flow into the helpers until
\* nothing changes, for at most one round more than there are functions.
ProvenanceOf(p) ==
  LET fs == Reachable(p)
      Flow(acc, s, k) ==
        IF s.op \in {"g", "h"} /\ k[s.src] # "unknown"
        THEN [acc EXCEPT !.given[s.op] = MergeKind(acc.given[s.op], k[s.src])]
        ELSE acc
      Visit(acc, f) ==
        LET k == Provenance(f, p.body[f], acc.given)
        IN FoldLeft(LAMBDA a, s : Flow(a, s, k), [acc EXCEPT !.kinds[f] = k], Walk(p.body[f]))
      none == [given |-> [f \in {"g", "h"} |-> "unknown"], kinds |-> [f \in {"forward", "g", "h"} |-> <<>>]]
  IN FoldLeft(LAMBDA acc, i : FoldLeft(Visit, acc, fs), none, [i \in 1 .. Len(fs) + 1 |-> i]).kinds

\* check_forbidden_torch_ops
Forbidden(body, k) ==
  \E i \in DOMAIN body :
     \/ body[i].op \in {"torch", "nn"}
     \/ body[i].op \in {"method", "arith"} /\ k[body[i].src] = "tensor"

\* check_for_loops_over_tensors: a launch counts as computation.
ElementLoop(body, k) == \E i \in DOMAIN body : body[i].op = "loop" /\ k[body[i].src] = "tensor"

\* The extension under the name its PYBIND11_MODULE declares.
ExtensionImported(p) == p.setup \notin {"none", "placeholder"}
HasForward(p) == p.setup # "no_forward"
CallsKernel(p) == \E f \in ToSet(Reachable(p)) : Some(p.body[f], Launches)

AscendVerdict(p) ==
  LET fs == ToSet(Reachable(p))
      kinds == ProvenanceOf(p)
  IN CASE ~ExtensionImported(p) -> 1
       [] ~HasForward(p) -> 2
       [] ~CallsKernel(p) -> 2
       [] \E f \in fs : Forbidden(p.body[f], kinds[f]) -> 3
       [] \E f \in fs : ElementLoop(p.body[f], kinds[f]) -> 4
       [] OTHER -> 0

-----------------------------------------------------------------------------
(* validate_triton_impl.py and validate_tilelang_impl.py: forward's calls  *)
(* by name.                                                                *)

\* find_wrapper_functions, find_module_wrapper_functions: a function that
\* launches or builds a kernel itself, not through another one.
Wrappers(p) == {f \in {"g", "h"} : Some(p.body[f], Launches)}

\* @triton.jit functions, ModelNew.forward, and its calls of either.
JitKernels(p) == p.setup \notin {"none", "placeholder"}
ModelNewForward(p) == p.setup # "no_forward"
TritonCalls(p) == Some(p.body.forward, Launches \cup Wrappers(p))

\* self._route(...), the scheduler of a kernel that was split.
Routes(p) == p.routed /\ Some(p.body.forward, {"h"})

\* Any other method is taken for a torch.nn module, a host loop is forbidden.
TritonForbidden(p) ==
  \/ Some(p.body.forward, {"torch", "method", "nn", "loop"})
  \/ Some(p.body.forward, {"h"}) /\ ~Routes(p)

\* Rule B: more than one launch in forward, and no scheduler.
LaunchesTwice(p) ==
  LET launches == {i \in DOMAIN p.body.forward : p.body.forward[i].op \in Launches}
  IN ~Routes(p) /\ \E i, j \in launches : i # j

TritonVerdict(p) ==
  CASE ~JitKernels(p) -> 1
    [] ~ModelNewForward(p) -> 2
    [] ~TritonCalls(p) -> 2
    [] TritonForbidden(p) \/ LaunchesTwice(p) -> 3
    [] OTHER -> 0

\* A design module is imported, a model has a forward, and forward calls a
\* kernel, what a building method returned, or a wrapper; calling the building
\* method alone invokes nothing.
DesignImported(p) == p.setup \notin {"none", "placeholder"}
TileForward(p) == p.setup # "no_forward"
BuildMethods(p) == {"h"} \cap Wrappers(p)
TileCalls(p) == Some(p.body.forward, Launches \cup (Wrappers(p) \ BuildMethods(p)))

\* A method that builds a kernel is allowed.
TileForbidden(p) == Some(p.body.forward, {"torch", "method", "nn"} \cup ({"h"} \ BuildMethods(p)))

\* A loop that only launches holds no computation, so there is no type 4 here.
TilelangVerdict(p) ==
  CASE ~DesignImported(p) -> 1
    [] ~TileForward(p) -> 2
    [] ~TileCalls(p) -> 2
    [] TileForbidden(p) -> 3
    [] OTHER -> 0

-----------------------------------------------------------------------------
(* The programs: helpers first, then forward statement by statement.       *)

Shallow(op) == [op |-> op, src |-> 0, dst |-> 1, deep |-> op = "loop"]
GBodies == {<<>>} \cup {<<Shallow(op)>> : op \in {"arith", "method", "kernel"}}
RoutedOps == {"torch", "kernel"}   \* bound
HBodies == {<<>>} \cup {<<Shallow(op)>> : op \in {"arith", "meta", "torch", "kernel", "g"}}

Init ==
  \E setup \in Setups, g \in GBodies, h \in HBodies, routed \in BOOLEAN :
     /\ routed => Len(h) = 1 /\ h[1].op \in RoutedOps
     /\ program = [setup |-> setup, routed |-> routed,
                   body |-> [forward |-> <<>>, g |-> g, h |-> h]]

AddStatement ==
  LET forward == program.body.forward
      place == Len(forward) + 1
  IN /\ program.setup = "whole" /\ place <= MaxForward
     /\ place + Len(program.body.g) + Len(program.body.h) <= MaxSize
     /\ \E op \in Ops, src \in -1 .. Len(forward), deep \in BOOLEAN :
          /\ op = "loop" => deep
          /\ deep => op \in {"copy", "layout", "arith", "loop"}
          /\ op = "alloc" => src = 0
          /\ program' = [program EXCEPT !.body.forward =
                           Append(@, [op |-> op, src |-> src, dst |-> place, deep |-> deep])]
     /\ ~Did(program', {"crash"})

Next == AddStatement
Spec == Init /\ [][Next]_vars

-----------------------------------------------------------------------------
\* A variable that holds what a helper returned, or was computed from one.
FromHelper(body) ==
  FoldLeft(LAMBDA acc, s : IF s.op \in {"g", "h"} \/ (s.src \in acc /\ s.op # "alloc")
                           THEN acc \cup {s.dst} ELSE acc, {}, body)

\* The AscendC check finds the very degradation a run commits, in forward and
\* in its helpers, whatever the order of the statements and of the calls, as
\* long as no helper's result is computed with (validate_ascendc_impl.py:748).
AscendVerdictIsTrue ==
  (\A i \in DOMAIN program.body.forward : program.body.forward[i].src \notin FromHelper(program.body.forward))
     => AscendVerdict(program) = TrueVerdict(program)

\* A model the Triton or TileLang check accepts launches a kernel when it runs,
\* and its forward calls no torch function, Tensor method or torch.nn module
\* (validate_triton_impl.py:417, validate_tilelang_impl.py:560).
AcceptedLaunches ==
  (TritonVerdict(program) = 0 \/ TilelangVerdict(program) = 0)
     => /\ Did(program, Launches)
        /\ ~ \E e \in Run(program) : e[1] = "forward" /\ e[2] \in {"torch", "method", "nn"}
=============================================================================
