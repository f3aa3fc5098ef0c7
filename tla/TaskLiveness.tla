---------------------------- MODULE TaskLiveness ----------------------------
(***************************************************************************)
(* What a task must eventually do.                                         *)
(*                                                                         *)
(* Fairness.  A command that has started goes on (WF of Run): hooks are    *)
(* synchronous and every script runs under a timeout.  The Stop hook       *)
(* (stop_save.py) refuses to end a session before FINISH and repeats the   *)
(* guidance, which names the one script to run next, so an agent that      *)
(* keeps being told so runs it in the end, with items create_plan.py       *)
(* accepts (SF, as other commands come in between).  The infrastructure    *)
(* does not fail for ever: an evaluation gets recorded if retried, and a   *)
(* dead session is resumed.                                                *)
(***************************************************************************)
EXTENDS TaskSafety

Resume  == pc = "down" /\ Activate
Records == \E d \in Decisions : EvalDecide(d)

Fairness ==
  /\ WF_vars(Run)
  /\ WF_vars(Resume)
  /\ \A c \in {"plan", "pipeline"} : SF_vars(Start(c))
  /\ SF_vars(Diagnose)
  /\ SF_vars(Records)

FairSpec == Spec /\ Fairness

\* A task whose baseline is committed uses up its budget and finishes, through
\* failed rounds, rejected plans, diagnoses and deaths.
ReachesFinish == (st.phase = "PLAN") ~> (st.phase = "FINISH")

\* No round stays unsettled: its settlement is completed or given up, unless
\* it was the last one and the task has finished.
SettlementsEnd ==
  (st.pending # NoKd) ~> (st.pending = NoKd \/ st.phase = "FINISH")
=============================================================================
