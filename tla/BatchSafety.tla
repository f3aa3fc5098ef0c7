---------------------------- MODULE BatchSafety -----------------------------
(***************************************************************************)
(* What the batch runner promises.                                         *)
(***************************************************************************)
EXTENDS BatchRun

Up(op) == {i \in Ids : agent[i].life = "up" /\ agent[i].op = op}

\* recover_stale_running (batch/run.py:219-222): a case that is in flight is not
\* launched again, so that no two sessions work on one operator: of those that
\* are up all but one have been lost, to a runner that ended before it had
\* recorded their directory and they had claimed it, to a heartbeat that grew
\* old after the runner had gone, or to a manifest without the operator.
NoDoubleRun == \A op \in Ops : Cardinality(Up(op) \ lost) <= 1

\* A case is done only by a directory of its own operator whose task is at
\* FINISH, whichever way run_one found that directory.
DoneIsFinished ==
  \A op \in Ops : cases[op].status = "done" =>
    LET d == cases[op].dir IN d # 0 /\ agent[d].op = op /\ agent[d].phase = "FINISH"

\* --timeout-min is "hard wall-clock cap per op" (batch/run.py): every operator
\* of the queue is settled in time, unless the runner stops or is killed, or
\* the launches of the instance are used up.
EveryCaseSettles ==
  \A op \in Ops :
    (\E r \in Runners : run[r].op = op)
      ~> \/ cases[op].status \in {"done", "error"}
         \/ \A r \in Runners : at[r] # "holding"
         \/ \A i \in Ids : agent[i].life # "none"

\* run_one (batch/run.py:493): a session that crashed while the task had
\* progress is resumed while retries remain.
TransientResumed ==
  [][\A r \in Runners :
       LET i == run[r].launch IN
         /\ run[r].pc = "settle" /\ run'[r].pc # "settle" /\ at'[r] = "holding"
         /\ run[r].dir = i /\ agent[i].rc = "error" /\ agent[i].phase = "PLAN"
         /\ ~run[r].interrupted /\ run[r].retries < MaxRetries
         => run'[r].pc = "watch"]_vars

-----------------------------------------------------------------------------
(* Why: the inductive strengthening. *)

CaseRec  == [status : {"absent", "pending", "running", "done", "error"},
             runner : Runners \cup {None}, dir : Ids \cup {0}]
AgentRec == [op : Ops \cup {None}, life : {"none", "up", "gone"}, chatty : BOOLEAN,
             dir : BOOLEAN, owned : BOOLEAN, fresh : BOOLEAN,
             phase : {"UNKNOWN", "PLAN", "FINISH"}, rc : {"none", "zero", "error"}]
RunRec   == [pc : {"off", "next", "launch", "watch", "settle", "end"},
             queue : SUBSET Ops, op : Ops \cup {None}, launch : Ids \cup {0},
             pre : SUBSET Ids, dir : Ids \cup {0}, prev : Ids \cup {0},
             interrupted : BOOLEAN, retries : Nat]

BatchType ==
  /\ cases \in [Ops -> CaseRec]
  /\ agent \in [Ids -> AgentRec]
  /\ run \in [Runners -> RunRec]

\* Only the holder of the lock runs main, and what it has in hand is what
\* batch_progress.json says of the operator it is at.
Fits(r) ==
  /\ run[r].pc # "off" => at[r] = "holding"
  /\ run[r].pc \in {"next", "launch"} => run[r].dir = 0
  /\ run[r].pc \in {"launch", "watch", "settle"} =>
       run[r].op \in Ops /\ cases[run[r].op].status = "running"
         /\ cases[run[r].op].dir = run[r].dir
  /\ run[r].pc \in {"watch", "settle"} =>
       run[r].launch \in Ids /\ agent[run[r].launch].op = run[r].op
         /\ agent[run[r].launch].life # "none" /\ run[r].dir \in {0, run[r].launch}
  /\ run[r].pc = "settle" => agent[run[r].launch].life = "gone"

RunFits == \A r \in Runners : Fits(r)

\* Directories are those of launched sessions, and a finished one stays so.
DirsFit ==
  /\ \A i \in Ids : agent[i].dir => agent[i].life # "none"
  /\ \A op \in Ops : cases[op].status = "done" =>
       LET d == cases[op].dir
       IN  /\ d \in Ids /\ agent[d].life # "none"
           /\ agent[d].op = op /\ agent[d].phase = "FINISH"

\* A case says which session is at it, and its heartbeat keeps the case from
\* being demoted.
Recorded(i) ==
  /\ cases[agent[i].op].status = "running" /\ cases[agent[i].op].dir = i
  /\ agent[i].owned /\ agent[i].fresh

\* A session that is up and not lost is accounted for, and the previous
\* directory of a runner is that of an ended session or of a lost one.
InFlight ==
  /\ \A r \in Runners : run[r].prev # 0 =>
       agent[run[r].prev].life = "gone" \/ run[r].prev \in lost
  /\ \A i \in Ids \ lost : agent[i].life = "up" =>
       agent[i].op \in Ops /\ (Watched(i) \/ Recorded(i))
=============================================================================
