------------------------------ MODULE ToolGate ------------------------------
(***************************************************************************)
(* The tool calls of one activated task, several of them in flight.        *)
(*                                                                         *)
(* Claude Code runs a hook before a call (the gate), then the call, then a *)
(* hook after it.  A diagnosis subagent makes calls of its own while the   *)
(* Task call that started it is still out, and the hook after a Bash call  *)
(* in the background comes before its script has run: gate, work and hook  *)
(* are steps of their own, and the steps of several calls interleave.      *)
(*                                                                         *)
(* A script and a hook are one step each here; TaskEngine takes them apart *)
(* write by write, for one call at a time.                                 *)
(***************************************************************************)
EXTENDS TaskRecord, BashShape, BagsExt

CONSTANTS
  Slots,        \* bound: calls in flight
  Overlaps,     \* bound: calls made while another one is in flight
  GatePlans,    \* bound: plan versions
  GateRounds,   \* bound: rounds recorded
  Outcomes      \* the decisions a round may come to

VARIABLES
  st,        \* state.json
  plan,      \* plan.md
  diag,      \* plan versions with a valid diagnose_v<N>.md
  items,     \* plan_items.xml is there and create_plan.py accepts it
  dirty,     \* the editable files differ from HEAD
  marker,    \* .edit_started
  call,      \* the bag of the calls in flight
  overlaps   \* calls made so far while another one was in flight

vars == <<st, plan, diag, items, dirty, marker, call, overlaps>>

-----------------------------------------------------------------------------
(* Calls *)

NoCalls == [a \in {} |-> 0]     \* the empty bag

Direct(name) ==
  Command(<<[Plain EXCEPT !.head = "python", !.dir = Location[name],
                          !.script = name]>>, FALSE, FALSE)

WithTask(c) == [c EXCEPT !.segs[1].env = "task"]

Scripts == {"baseline", "create_plan", "pipeline"}

Bash(c) == [tool |-> "Bash", cmd |-> c]
Write(target) == [tool |-> "Write", target |-> target]
Task(agent) == [tool |-> "Task", agent |-> agent]

Export == Command(<<[Plain EXCEPT !.head = "export"]>>, FALSE, FALSE)

\* The direct form of every script, one with the task named in front of it, the
\* activation alone, a script the shell sends to the background.
Commands == {Direct(s) : s \in Scripts}
            \cup {WithTask(Direct("create_plan")), Export,
                  [Direct("pipeline") EXCEPT !.background = TRUE]}

Targets == {"kernel", "items", "artifact", "plan", "outside"}

Calls == {Bash(c) : c \in Commands} \cup {Write(t) : t \in Targets}
         \cup {Task(a) : a \in {"ar-diagnosis", "other"}}

\* What of a call is still to come.  A Task call does nothing of its own, its
\* subagent makes calls; the hook after a write only speaks (post_edit).
Asked(c) == [call |-> c, hook |-> c.tool # "Write",
             work |-> c.tool = "Write" \/ (c.tool = "Bash" /\ Runs(c.cmd) # {})]

Init ==
  /\ st = FreshState("BASELINE") /\ plan = NoPlan
  /\ diag = {} /\ items = FALSE /\ dirty = FALSE /\ marker = FALSE
  /\ call = NoCalls /\ overlaps = 0

-----------------------------------------------------------------------------
(* The gates *)

\* check_bash: the table of the phases speaks of scripts in the direct form.
CheckBash(c, phase) ==
  LET shape == Classify(c)
      script == IF shape.name = "create_plan" THEN "plan" ELSE shape.name
  IN  \/ shape.class \in {"LIFECYCLE", "READONLY"}
      \/ shape.class = "AR" /\ PhaseAllows(script, phase)

\* guard_bash
GuardBash(c) ==
  LET planning == Invoked(c) = "create_plan"
  IN  /\ ~NameRefused(c)
      /\ (planning /\ st.phase = "DIAGNOSE")
           => DiagAction(st.prog, diag) # "NEED_DIAGNOSIS"
      /\ CheckBash(c, IF planning /\ st.phase = "EDIT" /\ st.pending # NoKd
                        THEN "REPLAN" ELSE st.phase)

\* Faulty variant: a plan's items may only be written where a plan is made
\* anew.
CheckEditStrict(target) ==
  CASE target = "items" -> st.phase \in {"PLAN", "REPLAN"}
    [] target = "artifact" -> st.phase = "DIAGNOSE"
    [] target = "kernel" -> st.phase = "EDIT"
    [] OTHER -> FALSE

\* check_edit
CheckEdit(target) ==
  CASE target = "items" ->
         \/ st.phase \in {"PLAN", "REPLAN"}
         \/ st.phase = "DIAGNOSE" /\ DiagAction(st.prog, diag) # "NEED_DIAGNOSIS"
         \/ st.phase = "EDIT" /\ st.pending # NoKd
    [] target = "artifact" -> st.phase = "DIAGNOSE"
    [] target = "kernel" -> st.phase = "EDIT"
    [] OTHER -> FALSE

\* guard_edit: a dirty tree without a marker belongs to no round.
GuardEdit(target) ==
  CheckEdit(target) /\ (target = "kernel" => marker \/ ~dirty)

\* guard_task
GuardTask(agent) ==
  st.phase = "DIAGNOSE" =>
    DiagAction(st.prog, diag) = "NEED_DIAGNOSIS" /\ agent = "ar-diagnosis"

Gate(c) == CASE c.tool = "Bash"  -> GuardBash(c.cmd)
             [] c.tool = "Write" -> GuardEdit(c.target)
             [] c.tool = "Task"  -> GuardTask(c.agent)

Room == BagCardinality(call) < IF overlaps < Overlaps THEN Slots ELSE 1

\* The gate of an edit of the kernel leaves the marker of a round begun.
Ask(c) ==
  /\ Room /\ Gate(c)
  /\ call' = BagAdd(call, Asked(c))
  /\ overlaps' = IF call = NoCalls THEN overlaps ELSE overlaps + 1
  /\ marker' = (marker \/ c = Write("kernel"))
  /\ UNCHANGED <<st, plan, diag, items, dirty>>

-----------------------------------------------------------------------------
(* The work *)

\* baseline.py
RunBaseline ==
  /\ IF st.init THEN st' = [st EXCEPT !.phase = "PLAN"]
     ELSE \/ st' = [st EXCEPT !.phase = "BASELINE"]
          \/ \E best \in {0, NoCommit}, phase \in {"PLAN", st.phase} :
               /\ phase = st.phase => best = NoCommit
               /\ st' = [Committed(st, BaselineEntry(best)) EXCEPT !.phase = phase]
  /\ UNCHANGED <<plan, diag, items, dirty, marker>>

\* create_plan.py: rejected items change nothing.
RunCreatePlan ==
  /\ items /\ plan.v < GatePlans
  /\ \E n \in PlanSizes :
       LET first == FirstPid(st.prog, plan)
           v == st.prog.version + 1
       IN  /\ plan' = RewrittenPlan(v, first, n, plan)
           /\ st' = IF st.init THEN Committed(st, PlanEntry(v, first + n)) ELSE st
  /\ UNCHANGED <<diag, items, dirty, marker>>

Recorded(d) ==
  [st EXCEPT !.prog.rounds = @ + 1,
             !.prog.fails = CASE d = "FAIL" -> @ + 1 [] d = "KEEP" -> 0 [] OTHER -> @,
             !.prog.best = IF d = "KEEP" THEN 0 ELSE @,
             !.pending = [item |-> ActiveItem(plan), decision |-> d,
                          round |-> st.prog.rounds + 1],
             !.expRound = st.prog.rounds + 1]

\* settle_round, unless the session lost it between the record and here.
Settled(s) ==
  LET r == SettleResult(plan, s.pending)
      p == IF r = "settle" THEN SettledPlan(plan, s.pending.decision) ELSE plan
  IN  \/ /\ r # "failed" /\ plan' = p
         /\ st' = [s EXCEPT !.phase = NextPhase(s, p), !.pending = NoKd]
         /\ marker' = FALSE
      \/ st' = s /\ UNCHANGED <<plan, marker>>

\* pipeline.py: a settle left over, an abort, or a round.
RunPipeline ==
  /\ IF st.pending # NoKd THEN Settled(st) /\ UNCHANGED dirty
     ELSE /\ dirty' = FALSE
          /\ \/ marker' = FALSE /\ UNCHANGED <<st, plan>>
             \/ \E d \in Outcomes : /\ st.prog.rounds < GateRounds
                                    /\ d = "DISCARD" => st.prog.best # NoCommit
                                    /\ Settled(Recorded(d))
  /\ UNCHANGED <<diag, items>>

Runs1(name) ==
  CASE name = "baseline"    -> RunBaseline
    [] name = "create_plan" -> RunCreatePlan
    [] name = "pipeline"    -> RunPipeline

WriteFile(target) ==
  /\ CASE target = "kernel"   -> dirty' = TRUE /\ UNCHANGED <<items, diag>>
       [] target = "items"    -> items' \in BOOLEAN /\ UNCHANGED <<dirty, diag>>
       [] target = "artifact" -> /\ diag' \in {diag \cup {st.prog.version},
                                               diag \ {st.prog.version}}
                                 /\ UNCHANGED <<dirty, items>>
  /\ UNCHANGED <<st, plan, marker>>

\* A call goes on without what it has done, and is over when nothing is left.
GoesOn(a, left) ==
  call' = IF left.work \/ left.hook THEN BagAdd(BagRemove(call, a), left)
                                   ELSE BagRemove(call, a)

Work(a) ==
  /\ a.work
  /\ LET c == a.call
     IN  \/ c.tool = "Bash" /\ \E i \in Runs(c.cmd) : Runs1(c.cmd.segs[i].script)
         \/ c.tool = "Write" /\ WriteFile(c.target)
         \/ UNCHANGED <<st, plan, diag, items, dirty, marker>>
  /\ GoesOn(a, [a EXCEPT !.work = FALSE])
  /\ UNCHANGED overlaps

-----------------------------------------------------------------------------
(* The hooks after a call *)

\* _handle_activation: only PLAN and REPLAN are recomputed.
Activate ==
  /\ marker' = (marker /\ dirty)
  /\ st' = IF st.phase \in {"PLAN", "REPLAN"}
             THEN [st EXCEPT !.phase = ResumePhase(st, plan)] ELSE st

\* Faulty variant: the plan on disk is not looked at.
PostCreatePlanUnseen ==
  /\ st' = IF st.phase = "EDIT" /\ st.pending = NoKd THEN st
           ELSE [st EXCEPT !.phase = "EDIT",
                           !.prog.fails = IF st.phase = "DIAGNOSE" THEN 0 ELSE @,
                           !.pending = IF st.phase = "EDIT" THEN NoKd ELSE @]
  /\ UNCHANGED marker

\* _handle_post_create_plan
PostCreatePlan ==
  /\ st' = IF ~ValidPlan(plan) \/ (st.phase = "EDIT" /\ st.pending = NoKd) THEN st
           ELSE [st EXCEPT !.phase = "EDIT",
                           !.prog.fails = IF st.phase = "DIAGNOSE" THEN 0 ELSE @,
                           !.pending = IF st.phase = "EDIT" THEN NoKd ELSE @]
  /\ UNCHANGED marker

\* post_bash: a command that names the task is taken for the activation.
PostBash(c) ==
  IF Activates(c) THEN Activate
  ELSE IF Invoked(c) = "create_plan"
            /\ st.phase \in {"PLAN", "DIAGNOSE", "REPLAN", "EDIT"}
    THEN PostCreatePlan ELSE UNCHANGED <<st, marker>>

\* post_task: a Task call that ends in DIAGNOSE is a diagnosis.
PostTask ==
  /\ st' = IF st.phase # "DIAGNOSE" THEN st
           ELSE [st EXCEPT
             !.prog.attempts = IF st.prog.version \in diag THEN 0
                               ELSE Attempts(st.prog) + 1,
             !.prog.attFor = st.prog.version]
  /\ UNCHANGED marker

\* After the work, or at once when the command runs in the background.
Hook(a) ==
  /\ a.hook
  /\ LET c == a.call
     IN  /\ a.work => c.tool = "Bash"
         /\ CASE c.tool = "Bash" -> PostBash(c.cmd)
              [] c.tool = "Task" -> PostTask
              [] OTHER           -> UNCHANGED <<st, marker>>
  /\ GoesOn(a, [a EXCEPT !.hook = FALSE])
  /\ UNCHANGED <<plan, diag, items, dirty, overlaps>>

-----------------------------------------------------------------------------
Next ==
  \/ \E c \in Calls : Ask(c)
  \/ \E a \in DOMAIN call : Work(a) \/ Hook(a)

Spec == Init /\ [][Next]_vars

-----------------------------------------------------------------------------
(* Guidance *)

\* stop_save: at the end, or with no baseline to be had.
MayStop == st.phase = "FINISH" \/ (st.phase = "BASELINE" /\ ~st.init)

\* The items, then the script that takes them.
Planning == {Write("items"), Bash(Direct("create_plan"))}

\* The subagent and its report, until that is valid or was asked for too often.
Diagnosing ==
  IF DiagAction(st.prog, diag) = "NEED_DIAGNOSIS"
    THEN {Task("ar-diagnosis"), Write("artifact")} ELSE Planning

\* get_guidance: the calls it asks for.
Guided ==
  CASE st.phase = "BASELINE" -> {Bash(Direct("baseline"))}
    [] st.phase \in {"PLAN", "REPLAN"} -> Planning
    [] st.phase = "DIAGNOSE" -> Diagnosing
    [] st.phase = "EDIT" -> {Bash(Direct("pipeline"))}
    [] OTHER -> {}

\* Whatever was called and in whatever order it came to an end, the agent is
\* asked for calls that the gates let through, and it is asked for some until
\* it may stop (guidance.py, phase_policy.py and four hooks speak of the
\* same phases).
GuidanceIsAllowed ==
  LET guided == Guided
  IN  (\A c \in guided : Gate(c)) /\ (MayStop \/ guided # {})

\* In EDIT there is an item to work on or a settle to finish.
EditHasItem == st.phase = "EDIT" => HasPending(plan) \/ st.pending # NoKd

\* Claim (post_bash.py:16-17): once create_plan.py has left a valid plan, the
\* hook after it moves the phase on to EDIT.
PlanAdvances ==
  [][\A a \in DOMAIN call :
       LET ends == a.hook /\ ~a.work /\ call' = BagRemove(call, a)
       IN  (ends /\ a.call.tool = "Bash" /\ Runs(a.call.cmd) = {1}
              /\ a.call.cmd.segs[1].script = "create_plan"
              /\ ValidPlan(plan) /\ st.phase \in {"PLAN", "DIAGNOSE", "REPLAN"})
           => st'.phase = "EDIT"]_vars
=============================================================================
