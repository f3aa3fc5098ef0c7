------------------------------ MODULE BatchRun ------------------------------
(***************************************************************************)
(* The batch runner (batch/run.py, batch/manifest.py): under the lock of   *)
(* the batch directory it walks a queue of operators, launches one         *)
(* claude --print session for each, and records how it ended in            *)
(* batch_progress.json.  The sessions outlive a runner that is killed.  A  *)
(* launch and the task directory its scaffold makes have the same number.  *)
(* A session ends with the process; children it leaves are not modelled.   *)
(***************************************************************************)
EXTENDS BatchLock

CONSTANTS Ops,
          Launches,     \* bound on the sessions launched
          MaxFaults,    \* bound on kills and interrupts of runners
          MaxRetries,   \* batch.transient_retries
          RetryErrored, \* --retry-errored
          Chatty        \* TRUE: a session may print a line every few seconds

ASSUME BatchAssumption == Launches \in Nat

VARIABLES
  cases,  \* batch_progress.json
  agent,  \* the claude --print sessions and their task directories
  run,    \* the local state of each runner
  faults,
  lost    \* history: the sessions nobody accounted for while they were up
batchVars == <<cases, agent, run, faults, lost>>
vars == <<lockVars, batchVars>>

Ids == 1..Launches
Case(status, runner, dir) == [status |-> status, runner |-> runner, dir |-> dir]
NoAgent == [op |-> None, life |-> "none", chatty |-> FALSE, dir |-> FALSE,
            owned |-> FALSE, fresh |-> FALSE, phase |-> "UNKNOWN", rc |-> "none"]
NoRun == [pc |-> "off", queue |-> {}, op |-> None, launch |-> 0, pre |-> {},
          dir |-> 0, prev |-> 0, interrupted |-> FALSE, retries |-> 0]

Init ==
  /\ LockInit
  /\ cases = [op \in Ops |-> Case("absent", None, 0)]
  /\ agent = [i \in Ids |-> NoAgent]
  /\ run = [r \in Runners |-> NoRun]
  /\ faults = 0 /\ lost = {}

\* Directories under ar_tasks/ (snapshot_task_dirs).
Dirs == {i \in Ids : agent[i].dir}

\* A session that is up is accounted for by the runner that reads its output,
\* and, when that one has gone, by its case as long as its hooks keep the
\* heartbeat fresh.
Watched(i) == \E r \in Runners : run[r].pc = "watch" /\ run[r].launch = i

-----------------------------------------------------------------------------
(* acquire_lock, then the head of main *)

Locking ==
  /\ \E r \in Runners : Start(r) \/ Acquire(r)
  /\ UNCHANGED batchVars

\* phase_machine.is_task_active: an owner and a fresh heartbeat.
Active(i) == i # 0 /\ agent[i].owned /\ agent[i].fresh

\* Faulty variant: whatever is running is demoted.
DemotesAny(c) == c.status = "running"

\* recover_stale_running demotes what nobody seems to drive.
Demotes(c) ==
  /\ c.status = "running"
  /\ ~(c.runner # None /\ Alive(c.runner))
  /\ ~Active(c.dir)

\* resolve_cases: what an op_name and its two reference files can describe.
Manifests == SUBSET Ops \ {{}}

\* merge_cases: the manifest says which operators there are; a case it leaves
\* out is forgotten, running or not.
Merged(manifest) ==
  [op \in Ops |->
     IF op \notin manifest THEN Case("absent", None, 0)
     ELSE IF cases[op].status = "absent" THEN Case("pending", None, 0)
     ELSE IF Demotes(cases[op]) THEN [cases[op] EXCEPT !.status = "error"]
     ELSE cases[op]]

\* filter_queue.
Wanted(c) == c.status = "pending" \/ (RetryErrored /\ c.status = "error")

\* --only and --limit keep some of the queue.
Recover(r) ==
  /\ at[r] = "holding" /\ run[r].pc = "off"
  /\ \E manifest \in Manifests :
       /\ cases' = Merged(manifest)
       /\ lost' = lost \cup {i \in Ids : agent[i].life = "up" /\ agent[i].op \notin manifest}
       /\ \E queue \in SUBSET {op \in Ops : Wanted(cases'[op])} :
            run' = [run EXCEPT ![r] = [NoRun EXCEPT
                      !.pc = IF queue = {} THEN "end" ELSE "next",
                      !.queue = queue]]
  /\ UNCHANGED <<lockVars, agent, faults>>

-----------------------------------------------------------------------------
(* run_one *)

\* The status is looked at again; "running" is written before anything else.
Begin(r) ==
  /\ at[r] = "holding" /\ run[r].pc = "next"
  /\ \E op \in run[r].queue :
       IF Wanted(cases[op])
         THEN /\ cases' = [cases EXCEPT ![op] = Case("running", r, 0)]
              /\ run' = [run EXCEPT ![r].pc = "launch", ![r].op = op]
         ELSE /\ run' = [run EXCEPT ![r].queue = @ \ {op}]
              /\ UNCHANGED cases
  /\ UNCHANGED <<lockVars, agent, faults, lost>>

\* clear_active_task of the previous operator's directory; without one, and
\* without a session of its own, the runner clears and refuses nothing.
Launch(r) ==
  /\ at[r] = "holding" /\ run[r].pc = "launch"
  /\ \E i \in Ids, chatty \in IF Chatty THEN BOOLEAN ELSE {FALSE} :
       /\ agent[i].life = "none" /\ \A j \in 1..(i - 1) : agent[j].life # "none"
       /\ LET p == run[r].prev
              freed == IF p # 0 /\ agent[p].owned
                         THEN [agent EXCEPT ![p].owned = FALSE, ![p].fresh = TRUE]
                         ELSE agent
          IN  agent' = [freed EXCEPT ![i] =
                          [NoAgent EXCEPT !.op = run[r].op, !.life = "up",
                                          !.chatty = chatty]]
       /\ run' = [run EXCEPT ![r].pc = "watch", ![r].launch = i, ![r].pre = Dirs]
  /\ UNCHANGED <<lockVars, cases, faults, lost>>

\* parse_scaffold_*_line: a scaffold line or its JSON names the directory.
Announced(r) == agent[run[r].launch].dir

\* The line reaches the runner through the session's output.
Bind(r) ==
  /\ at[r] = "holding" /\ run[r].pc = "watch" /\ run[r].dir = 0
  /\ Announced(r)
  /\ run' = [run EXCEPT ![r].dir = run[r].launch]
  /\ cases' = [cases EXCEPT ![run[r].op].dir = run[r].launch]
  /\ UNCHANGED <<lockVars, agent, faults, lost>>

EndOfOutput(r) ==
  /\ at[r] = "holding" /\ run[r].pc = "watch"
  /\ agent[run[r].launch].life = "gone"
  /\ run' = [run EXCEPT ![r].pc = "settle"]
  /\ UNCHANGED <<lockVars, cases, agent, faults, lost>>

Kill(i) == agent' = [agent EXCEPT ![i].life = "gone",
                                  ![i].rc = IF @ = "none" THEN "error" ELSE @]

\* Faulty variant: the clock is only looked at after a line.
TimeoutAfterLine(r) ==
  /\ at[r] = "holding" /\ run[r].pc = "watch"
  /\ LET i == run[r].launch
     IN  agent[i].chatty /\ agent[i].life = "up" /\ Kill(i)
  /\ run' = [run EXCEPT ![r].pc = "settle"]
  /\ UNCHANGED <<lockVars, cases, faults, lost>>

\* The clock is only looked at when no line came for five seconds.
Timeout(r) ==
  /\ at[r] = "holding" /\ run[r].pc = "watch"
  /\ LET i == run[r].launch
     IN  ~agent[i].chatty /\ agent[i].life = "up" /\ Kill(i)
  /\ run' = [run EXCEPT ![r].pc = "settle"]
  /\ UNCHANGED <<lockVars, cases, faults, lost>>

\* Ctrl-C inside the loop that reads the output.
Interrupt(r) ==
  /\ at[r] = "holding" /\ run[r].pc = "watch" /\ faults < MaxFaults
  /\ Kill(run[r].launch)
  /\ run' = [run EXCEPT ![r].pc = "settle", ![r].interrupted = TRUE]
  /\ faults' = faults + 1
  /\ UNCHANGED <<lockVars, cases, lost>>

\* Ctrl-C elsewhere in run_one: main reports it and stops.
InterruptOutside(r) ==
  /\ at[r] = "holding" /\ faults < MaxFaults
  /\ run[r].pc \in {"launch", "settle"}
  /\ run' = [run EXCEPT ![r] = [NoRun EXCEPT !.pc = "end"]]
  /\ faults' = faults + 1
  /\ UNCHANGED <<lockVars, cases, agent, lost>>

\* task_dir_belongs_to_op: <op>_<time>_<six hex digits>,
\* the whole name of the operator, not a prefix of another's.
BelongsTo(i, op) == agent[i].op = op

\* pick_new_task_dir: made since the snapshot, named after the operator.
NewDirs(r) == {i \in Dirs \ run[r].pre : BelongsTo(i, run[r].op)}

\* What read_task_state returns.
ResultKeys == {"baseline_metric", "best_metric", "rounds", "consecutive_failures"}

\* The guard of the transient retry; ok: the post-run heal found no fault.
Resumes(r, i, ok) ==
  /\ agent[run[r].launch].rc = "error" /\ ~run[r].interrupted /\ ok
  /\ agent[i].phase # "FINISH"
  /\ "progress_initialized" \in ResultKeys
  /\ run[r].retries < MaxRetries

\* Faulty variant: a session that ended is taken for a task that finished.
IsDoneWhenEnded(r, i, ok) == ok /\ agent[i].life = "gone"

IsDone(r, i, ok) == agent[i].phase = "FINISH" /\ ~run[r].interrupted /\ ok

\* main after run_one: on to the next operator, or stop when interrupted.
Onward(r, dir) ==
  LET rest == run[r].queue \ {run[r].op}
  IN  run' = [run EXCEPT ![r] = [NoRun EXCEPT
                !.pc = IF rest = {} \/ run[r].interrupted THEN "end" ELSE "next",
                !.queue = IF run[r].interrupted THEN {} ELSE rest,
                !.prev = IF dir # 0 THEN dir ELSE run[r].prev]]

\* The session is over: pick its directory, heal it, read it, record it.
Settle(r) ==
  /\ at[r] = "holding" /\ run[r].pc = "settle"
  /\ \E ok \in BOOLEAN,
        i \in IF run[r].dir # 0 THEN {run[r].dir}
              ELSE IF NewDirs(r) # {} THEN NewDirs(r) ELSE {0} :
       IF i # 0 /\ Resumes(r, i, ok)
         THEN /\ agent' = [agent EXCEPT ![run[r].launch].life = "up",
                                        ![run[r].launch].rc = "none"]
              /\ run' = [run EXCEPT ![r].pc = "watch", ![r].dir = i,
                                    ![r].retries = @ + 1]
              /\ UNCHANGED cases
         ELSE /\ cases' = [cases EXCEPT ![run[r].op] =
                   IF i = 0 THEN [@ EXCEPT !.status = "error"]
                   ELSE [@ EXCEPT !.dir = i, !.status =
                           IF IsDone(r, i, ok) THEN "done" ELSE "error"]]
              /\ Onward(r, i)
              /\ UNCHANGED agent
  /\ UNCHANGED <<lockVars, faults, lost>>

\* The queue is empty or the batch was stopped: the finally clause of main.
Leave(r) ==
  /\ \/ run[r].pc = "end"
     \/ run[r].pc = "next" /\ run[r].queue = {}
  /\ ReleaseLock(r)
  /\ run' = [run EXCEPT ![r] = NoRun]
  /\ UNCHANGED <<cases, agent, faults, lost>>

\* A runner that ends before the directory of its session is recorded and
\* claimed leaves a session that no later runner can find.
Orphaned(r) ==
  {i \in Ids : /\ run[r].pc = "watch" /\ run[r].launch = i
               /\ agent[i].life = "up" /\ ~Active(run[r].dir)}

\* proc.wait gives up after 30 seconds, and nothing catches that: the runner
\* leaves the case and the session as they are.
WaitExpires(r) ==
  /\ faults < MaxFaults /\ faults' = faults + 1
  /\ run[r].pc = "watch" /\ agent[run[r].launch].life = "up"
  /\ ReleaseLock(r)
  /\ run' = [run EXCEPT ![r] = NoRun]
  /\ lost' = lost \cup Orphaned(r)
  /\ UNCHANGED <<cases, agent>>

\* A kill of the runner leaves its session running.
Killed(r) ==
  /\ faults < MaxFaults /\ faults' = faults + 1
  /\ Die(r)
  /\ run' = [run EXCEPT ![r] = NoRun]
  /\ lost' = lost \cup Orphaned(r)
  /\ UNCHANGED <<cases, agent>>

-----------------------------------------------------------------------------
(* The session: scaffold, the claim of its hooks, the task, the end *)

Session(i) ==
  /\ agent[i].life = "up"
  /\ LET a == agent[i]
     IN  agent' = [agent EXCEPT ![i] =
           CASE ~a.dir -> [a EXCEPT !.dir = TRUE]
             [] a.dir /\ ~a.owned -> [a EXCEPT !.owned = TRUE, !.fresh = TRUE]
             [] OTHER -> [a EXCEPT !.fresh = TRUE,
                            !.phase = IF a.phase = "UNKNOWN" THEN "PLAN" ELSE "FINISH"]]
  /\ UNCHANGED <<lockVars, cases, run, faults, lost>>

SessionEnds(i) ==
  /\ agent[i].life = "up"
  /\ \E rc \in {"zero", "error"} :
       agent' = [agent EXCEPT ![i].life = "gone", ![i].rc = rc]
  /\ UNCHANGED <<lockVars, cases, run, faults, lost>>

\* The heartbeat window passes without a tool call.
GoesStale(i) ==
  /\ agent[i].fresh
  /\ agent' = [agent EXCEPT ![i].fresh = FALSE]
  /\ lost' = IF agent[i].life = "up" /\ ~Watched(i) THEN lost \cup {i} ELSE lost
  /\ UNCHANGED <<lockVars, cases, run, faults>>

Work(r) == Recover(r) \/ Begin(r) \/ Launch(r) \/ EndOfOutput(r) \/ Settle(r) \/ Leave(r)

\* Out of processes or of launches: the bounds of the instance.
Over ==
  /\ \A r \in Runners : at[r] \in {"out", "dead"} \/ run[r].pc = "launch"
  /\ UNCHANGED vars

Next ==
  \/ Locking
  \/ \E r \in Runners :
       \/ Work(r) \/ Bind(r) \/ Timeout(r) \/ Interrupt(r) \/ InterruptOutside(r)
       \/ WaitExpires(r) \/ Killed(r)
  \/ \E i \in Ids : Session(i) \/ SessionEnds(i) \/ GoesStale(i)
  \/ Over

Spec == Init /\ [][Next]_vars

\* A runner goes on, and its clock runs.  Nothing is assumed of the sessions.
FairSpec == Spec /\ \A r \in Runners : WF_vars(Work(r)) /\ WF_vars(Timeout(r))
=============================================================================
