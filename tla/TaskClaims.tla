----------------------------- MODULE TaskClaims -----------------------------
(***************************************************************************)
(* What the documentation and the comments say of a task and the code does *)
(* not always do.  TLC refutes DiagnoseEndsInNewPlan in a run of its own,  *)
(* the others on the instances named in the README.                        *)
(***************************************************************************)
EXTENDS TaskSafety

\* AUTORESEARCH.md:376 and :470: --max-rounds is an upper limit on the rounds.
\* (A settlement abandoned through create_plan.py in EDIT skips the check.)
BudgetHolds == st.prog.rounds <= MaxRounds

\* AUTORESEARCH.md:474: the hook leaves DIAGNOSE for EDIT once create_plan.py
\* has passed its checks, so with a plan none of whose items is settled yet.
DiagnoseEndsInNewPlan ==
  [][(st.phase = "DIAGNOSE" /\ st'.phase = "EDIT") => plan.done = 0]_vars

\* AUTORESEARCH.md:118-121: once FINISH is reached, kernel.py is the best
\* kernel: nothing is edited and HEAD is the commit of the last kept round.
KernelIsBest ==
  (pc = "idle" /\ st.phase = "FINISH" /\ st.prog.best # NoCommit)
    => ~dirty /\ head = st.prog.best

\* guidance.py:443 and AUTORESEARCH.md:656: activating a task that is still in
\* INIT moves it to BASELINE.
ActivationLeavesInit ==
  [][(cmd = "activate" /\ pc = "opened" /\ cmd' = "none" /\ kills' = kills)
       => st'.phase # "INIT"]_vars

\* AUTORESEARCH.md:449: DIAGNOSE is entered after consecutive FAILs.
DiagnoseNeedsStreak ==
  st.phase = "DIAGNOSE" =>
    \A i \in DOMAIN hist : i > Len(hist) - FailThreshold => hist[i].decision = "FAIL"

\* post_bash.py:108-115: an activation that finds a plan with work left moves
\* PLAN and REPLAN on to EDIT, so that the plan is not written a second time.
ResumeKeepsPlan ==
  [][(ActivateResume /\ st.phase \in {"PLAN", "REPLAN"} /\ HasPending(plan))
       => st'.phase = "EDIT"]_vars
=============================================================================
