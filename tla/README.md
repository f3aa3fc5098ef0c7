# Formal models of CannAgent

This directory holds TLA+ specifications of the two programs of the repository
that drive an agent to a faster kernel, and of everything that judges what the
agent hands in:

 * `src/autoresearch`: Claude Code plans, edits, evaluates and settles versions of
   a kernel until a round budget is used up; hooks gate its tool calls, a batch
   runner starts one session for each operator, workers own the devices;
 * `src/ascendc_multi_turn`: a program that calls a model itself, first until a
   generated AscendC project is valid, then for speed;
 * the verifiers, source checks and benchmarks both rely on (`src/utils`,
   `src/skills/*/scripts`).

TLC checks the specifications on small instances; TLAPS proves the safety properties
of the task engine, the ownership of tasks, the batch runner, the worker with its
clients and hosts, the multi-turn runner and most of judging for all values of the
constants.

    tlc -workers 2 -config TaskEngine_safety.cfg MCTaskEngine.tla
    tlapm TaskEngineProofs.tla

`PROJECT.json` lists the components, the runs, the theorems, the hazards, the
faulty variants each property is tested with, and the source lines each definition
stands for.

## 1. Inventory

Paths are below `src/`; `A/` is `autoresearch/scripts/`, `M/` is `ascendc_multi_turn/`.

| component | source | state it keeps | operations |
|---|---|---|---|
| task files | `A/phase_machine/state_store.py` | `state.json`, `plan.md`, `history.jsonl`, `intent.json` | load, save, append, `write_intent`, `replay_intent`, `check_state_consistency` |
| transactions | `A/task_handle.py`, `A/workflow/*.py` | none of its own: writes the task files in a fixed order | open, `record_baseline`, `commit_plan`, `record_round`, `settle_round`, phase moves |
| engine scripts | `A/engine/baseline.py`, `create_plan.py`, `pipeline.py` | none | one transaction each, `pipeline.py` two |
| phase machine | `A/phase_machine/phase_policy.py`, `validators.py`, `guidance.py` | none | next and resume phase, command classes, plan and diagnosis checks, what to do next |
| hooks | `A/hooks/*.py` | `.edit_started` | gates before Bash, Edit, Task and Stop; phase moves and counters after Bash and Task |
| git side | `A/utils/git_utils.py` | HEAD and working tree | commit of a kept kernel, roll back of any other |
| ownership | `A/phase_machine/state_store.py`, `A/resume.py` | owner and heartbeat in `state.json`, session index | claim, release, take over a stale task |
| batch runner | `A/batch/run.py`, `manifest.py` | lock file, `batch_progress.json`, sessions | run operators, time out, recover, retry |
| evaluation worker | `A/worker/server.py`, `A/utils/eval_runner.py` | device queue, temporary directories, subprocesses | accept, wait, run two passes, cancel, clean up |
| client, worker host | `A/task_config/eval_client.py`, `A/ar_cli.py` | none; worker processes of a machine | choose a worker, wait; start, probe, stop |
| evaluation | `A/engine/eval_kernel.py`, `A/task_config/eval_*.py`, `A/utils/baseline_anchor.py` | sidecar files, baseline anchor in `state.json` | request, verdict, anchor |
| multi-turn runner | `M/runner.py`, `repair_state.py`, `logging.py`, `bundle.py` | trajectory, run state, plan, best, baseline, repair state, task directory | generate, evaluate, decide, settle, resume |
| AscendC evaluator | `M/evaluator.py`, `diagnostics.py`, `case_profiles.py`, `benchmark.py` | case reports, `performance.json` | check, build, verify by profile, time, classify |
| verifiers | `skills/triton/kernel-verifier/scripts/verify.py`, `utils/verification_*.py`, `A/utils/correctness.py`, `A/batch/verify.py` | none | compare outputs, pre-flight check |
| source checks | `skills/*/*/scripts/validate_*_impl.py` | none | find a fall-back to PyTorch |
| Triton benchmark | `skills/triton/kernel-verifier/scripts/benchmark.py` | `verify_result*.json` | gate, time, score |

How they interact.  The agent makes tool calls; before one a guard hook reads
`state.json` and lets it pass or not, after it a post hook moves the phase.  A
script opens the task (`Task.__enter__`: replay the journal, check the files against
the commit barrier, claim), runs its transaction and exits.  It evaluates in
subprocesses of its own or through a worker over HTTP; what comes back are sidecar
files.  The batch runner sees a session only through its output, its exit code and
the files of its task.  The multi-turn runner is one process that talks to its
evaluator's processes through files of the round directory.  All communication
is through files, process exits and one HTTP request.

What is hard.  A transaction writes up to four files and git, the multi-turn runner
seven files, and nothing makes these writes one: a death may fall between any two,
also during the recovery from the death before.  A hook that follows a script is
not told how it ended, and tool calls overlap.  Two sessions may drive one
task, two runners one batch, two workers one machine; each defence reads a file, a
pid or a clock first and acts later.  A device must come back from a handler
whatever awaits are cancelled.  A verdict is put together from reports,
return codes and logs that a death leaves in any combination, some of them of an
earlier evaluation.

What makes the parts correct:

 * task: after recovery the files belong together, rounds are neither lost nor
   repeated, an item is settled once and with its own round's decision, the best
   commit is that of the last kept round, every phase has a way on;
 * ownership and batch: a live session keeps its task, a dead one loses it; an
   operator has one session and ends up settled;
 * worker: a device is with one request at a time and comes back; requests end;
 * multi-turn: budgets, best and baseline are what the recorded rounds say, the
   next edit starts from the repair base, repair only advances, the run ends;
 * judging: what is accepted is right, and what is blamed did fail.

## 2. Modules

| module | content |
|---|---|
| `TaskRecord` | The files of a task as records, and the pure functions of them: plan operations, the journal, the phase policies, the script gate. |
| `TaskEngine` | The state machine: one action for each write of each script and hook, the agent's choices, deaths. |
| `TaskSafety`, `TaskLiveness` | Type invariant, safety properties, the inductive `JournalInv`; fairness and liveness. |
| `TaskLedger` | The abstract specification: a ledger whose entries (baseline, plan, round) land whole, with what is always true of it (`LedgerInv`). |
| `TaskClaims` | Statements of the documentation and comments that the code does not keep. |
| `PlanBook`, `PlanText` | `plan.md` abstractly, as the record the engine uses; and as lines of text, with what `create_plan.py` accepts, how it is rendered, settled line by line and parsed back. `PlanText` refines `PlanBook`. |
| `BashShape`, `BashCommands` | The classifier of Bash commands beside what a shell would do; every command of up to two segments. |
| `ToolGate` | Overlapping tool calls of one task: gate, work and hook as separate steps, and what the guidance asks for. |
| `Ownership` | Owner, heartbeat and session index over several sessions, load and save of `state.json` as two steps; its last section is the inductive strengthening. |
| `BatchLock`, `BatchRun`, `BatchSafety` | The lock file step by step; queue, sessions and manifest on top of it. |
| `DevicePool` | The abstract pool: a device is reserved and freed in one step. |
| `WorkerPool`, `WorkerSafety` | The handlers over `asyncio.Queue`, with every await a boundary; what must hold of the devices. |
| `EvalClient`, `WorkerHost` | Patience of the clients; several workers on one machine. |
| `Evaluation` | Request, two passes with sidecars and orphans, verdict, anchor. |
| `RepairState`, `MultiTurn`, `MultiTurnSafety` | The repair decision; the loop with each of its files; its properties. |
| `Generation` | One level below `MultiTurn`: calls, answers, bundles, the task directory file by file. |
| `AscendEvaluator` | One AscendC evaluation: profiles, reports, gates, the case shown. |
| `Verifiers` | The four comparisons of outputs and the pre-flight check. |
| `ImplValidator` | The three source checks beside what the program really does. |
| `KernelBenchmark` | The gate of the Triton benchmark, its two clocks and its score. |
| `MC*` | The instances TLC runs. `MCService` and `MCJudging` put modules that share no state side by side; `part` says which one a behaviour runs. |
| `TaskEngineProofs` | Three parts: types of the task engine; recovery and rounds; the engine implements the ledger. |
| `TaskLedgerProofs` | The ledger's own invariant. |
| `OwnershipProofs`, `BatchProofs`, `WorkerProofs` | Claims of tasks; lock, sessions and cases of the batch; devices, wakeups and subprocesses of a worker. |
| `MultiTurnProofs` | Rounds, budgets, files and repair base of the multi-turn runner. |
| `ServiceProofs` | Patience of the clients, starts of workers on one machine. |
| `JudgingProofs` | Evaluations, candidates, AscendC reports, tool calls, commands, comparisons, the gate of the benchmark: one section for each part of `MCJudging`. |

Definitions whose comment starts with *Faulty variant* are not part of the
system.  Each is what a plausible mistake would make of the definition that
follows it; put in its place, it must break the property it is listed with in
`PROJECT.json`.

### State and code

The task engine:

| variable | code |
|---|---|
| `st` | `state.json`: `phase`, `progress_initialized` (`init`), the fields of `Progress` the control flow reads (`prog`), `pending_settle`, `expected_plan_version`, `expected_history_round`. Phase `"NONE"` is a missing file. |
| `plan` | `plan.md`: version, first item number, number of items, how many are settled (the next one is ACTIVE), the Settled History table |
| `hist` | `history.jsonl`: round, item, decision, commit of each row |
| `intent` | `intent.json` |
| `diag` | the plan versions whose `diagnose_v<N>.md` passes validation |
| `head`, `dirty` | commits on top of the scaffold commit; whether the editable files differ from HEAD |
| `marker` | `.edit_started` |
| `pc`, `cmd`, `out` | the next write of the running command, the command, the outcome it carries |
| `kills` | deaths so far (bound) |

A command is a sequence of actions, one for each durable write, in the order of
the code.  Opening is `Heal`, `DropIntent`, `Claim`; a round is `EvalDecide`, then
one of `GitKeep`, `GitError`, `GitRollback`, then `RoundIntent`, `RoundBody`,
`RoundState`, `RoundClear`, then the settlement `Settle`, `SettlePhase`, `Unmark`,
`SettleClear`.  Computation between two writes is part of the action of the write
that follows it.  `Kill` and `SessionCrash` are enabled between any two writes.

The other modules follow the same rule, and each lists its variables with the file
or variable they stand for in its header.  `WorkerPool`: a handler is up to three
coroutines (`pc`, the `get()` task `qt`, the evaluation task `ev`, the watcher
`seen`); an action runs from one await to the next.  `MultiTurn`: one variable for
each file, `m` for the memory of the process, and a death keeps the files.
`BatchRun`: `agent` is a session with its task directory as the runner can see
it, `run` the locals of `run_one`.  `Ownership`: `copy` is the record a session
loaded and has not saved yet.

Where the code's defence has a gap, a history variable records who came to stand in
it, and the property says that nobody else is harmed:

| variable | grows when |
|---|---|
| `Ownership.overtaken` | a session saves a record another one has changed since it was loaded (the task) |
| `Ownership.aged` | a record goes stale under a running script (the task) |
| `BatchRun.lost` | a runner ends before the directory of its session is recorded and claimed, a heartbeat grows old after the runner has gone, or a manifest drops the operator (the session) |
| `WorkerHost.met` | two workers of a machine are up together (the pair) |

No action reads one of them, except that `Ownership` bounds how many tasks get into the
first two on an instance.

### Abstractions

 * Task engine: evaluations are their outcomes, so KEEP and DISCARD are a free
   choice except that the first correct kernel is always kept.  A plan is its
   number of items, or its rejection.  `kernel.py` is the number of its last commit
   and a flag; a commit can fail, or land and be reported as failed.  One session at
   a time; the claim only creates `state.json`.  The append of a history row is
   atomic.  `auto_rollback` is taken to succeed.
 * `ToolGate` takes a script and a hook as one step each; `TaskEngine` takes them
   apart, for one call at a time.
 * `Ownership` keeps only owner and `last_touched` of a record; time is counted in
   ticks, and only script bodies, the time between tool calls and death take any.
 * `BatchRun`: a launch and the directory its scaffold makes have the same number;
   children that outlive a session's process are not modelled.
 * `EvalClient` counts time in ticks and takes a worker as the line of its requests.
 * `Evaluation`: a time is the number of the evaluation that measured it; a list of
   times is that number when every case has a finite one.
 * `MultiTurn`: a bundle is a number, a result is its gate (`rank`), diagnostics,
   passed cases and score, taken from the set `Outcomes`.
 * `Generation`: a file is its code and its comments; code 0 holds a marker.
 * `AscendEvaluator`: a case is its index; the candidate is deterministic, the
   machine is not.
 * `Verifiers`: a value is an integer, of units of 1e-5 in a floating tensor, with
   codes for NaN and the infinities.
 * `ImplValidator`: programs of one function, one method and `forward`, a few
   statements long, every statement assigning a fresh variable.  The method may be
   called `_route`, which the Triton check exempts; a `forward` that calls itself,
   which it exempts too, never ends and is left out.
 * `KernelBenchmark`: times are small integers; a score is compared by cross
   multiplication instead of a root.
 * `BashShape`: a command is a sequence of simple commands, chained or each on its own
   line.  What an operator inside one word does to the shell (`>log&`, `>log;cmd`,
   `A=1;cmd python ...`) is the field `hidden` of a simple command; of quoting only
   that it may hide a command behind the script.

Outside the repository, modelled from its use: the PostToolUse hook also runs
after a failed command (`post_bash.py:216-224` handles one), and after a killed
one it may or may not run; a killed process has done a prefix of its writes; saves
by rename are atomic; `asyncio.Queue` wakes its getters in order and hands a
cancelled getter's wakeup on; `uvicorn` runs the start-up code before it binds its
port.

## 3. Runs

| run | instance | question and answer |
|---|---|---|
| `engine_safety` | 4 rounds, threshold 2, plans of 3 items, 3 versions, 1 death | Do plan, table, history and best commit agree along a whole life, and are item numbers fresh? Yes. |
| `engine_deaths` | 2 rounds, 2 deaths, diagnosis cap 2 | Does recovery work, also when it is interrupted, and does the engine seen through recovery implement the atomic ledger? Yes. |
| `engine_liveness` | 2 rounds, threshold 1, 6 versions, 1 death | Does a planned task finish, and is each settlement completed or given up? Yes, under `Fairness`. |
| `ownership` | 2 sessions, 2 tasks, window 2, 1 death, 1 task overtaken, 1 aged | Claims overlap and scripts are longer than the window: does a session own two tasks, or a running script lose its claim, in any way but those two? No. Does a dead session lose its task? Yes. |
| `batch` | 2 runners, 2 operators, 2 launches, 1 fault | Does a secure holder keep the lock, has an operator one session that is not lost, is it done only by a finished directory, is every operator settled? Yes; the last when silent sessions are cut (`Chatty = FALSE`). The two runners do not acquire the lock at the same time (`Staggered`, a bound of this instance: `claim_lock` has the race). |
| `pool` | 3 requests, 1 device, 1 deaf subprocess | Are devices conserved and is no wakeup lost, do the handlers implement `DevicePool`, is every request answered? Yes. |
| `service` | 3 clients and 2 workers; 3 workers on 2 ports | Does a client that found a free device wait for its worst case? Yes. Whom does a start of a worker at any time harm? Only workers that were up together with it. |
| `multi` | 3 bootstrap, 2 optimization, 3 in total, 1 death, 1 fault, measurements that do not repeat | Are rounds, budgets, best and baseline exact, does the edit start from the repair base, does repair advance, does the run end? Yes. |
| `judging` | nine parts, below | Is every verdict true? Yes, in the sense of the properties. |
| `claim_diagnose_plan`, `claim_lock`, `claim_anchor` | the smallest instance that shows it | Three statements the code does not keep, section 6. |

The parts of `judging` and their sizes in states: an evaluation (1.3 million: two
cases, three evaluations, one killed pipeline), outputs (0.3 million: all outputs of
two elements over four values in two cases), commands (0.2 million: all simple ones, and
`SomeLeads` with each of `SomeTails` behind, on one line or two), programs
(0.4 million: all of four statements), overlapping tool calls
(0.6 million: two in flight, one overlap, two plan versions, three rounds), answers (70 thousand: two answers, one
death), an AscendC evaluation (46 thousand: two input groups, a case file with
fewer, as many or more lines or none, two runs, one fault), the
Triton benchmark (50 thousand), plan texts (3 thousand).

The bounds.  Four rounds with plans of three items go through a used-up plan
(REPLAN), with a threshold of two through DIAGNOSE, and back to EDIT; three plan
versions are the first plan, a replan and a recovery plan.  With one death every
prefix of every transaction is recovered from; a second one interrupts the
recovery or hits the following transaction.  In `engine_liveness` the number of
plan versions must not stop a task that could go on, hence six.  In `pool` three
requests on one device are one that holds, one that waits and one that barges past
the wakeup.  In `ownership` one death kills a script, so that its session goes on without it, or the
session; one overtaken task and one aged one leave the other task to show that
nothing else goes wrong with it.  In
`batch` one fault strands a session, and the second launch is the one that could
double it.  In `multi` the total budget of three bounds the sum below the two
separate ones, so that all three stop conditions are met.  A verifier treats
elements one by one but for the mean and the tolerance carried over, for which two
elements and two cases are the least; four statements are the least program with a
helper, an alias and a launch.  Values 8192 and 8193 are where the fp32 tolerance
passes one.

`CHECK_DEADLOCK` is off where everything may be over: the worker when all requests
are answered, the multi-turn run when it has ended, the parts of `judging` when their
inputs are used up.

### Fairness

Task engine: `WF(Run)`, a started command goes on, because every script runs under a
timeout and hooks are synchronous.  `WF(Resume)`: a dead session is resumed, which
`resume.py` and the batch runner do.  `SF(Start("plan"))`, `SF(Start("pipeline"))`
and `SF(Diagnose)`: `hooks/stop_save.py` refuses to end the session in any phase
the properties are about and repeats the guidance, which names one next command;
strong, because rejected plans and resumptions come in between.  `SF(Records)`: an
evaluation is recorded if tried again and again.  No fairness is assumed of edits,
of a good diagnosis, of a kept kernel, or of the absence of rejected plans and of
deaths beyond their bound.

Worker: weak fairness of the coroutines and of the watcher, which the event loop
gives; none of new requests or of clients hanging up.  Ownership: time passes, a
living session makes its next tool call, a script ends, and a living session tries
each task now and then.  Batch: weak fairness of a runner's own steps and of its
clock, none of the sessions.  Multi-turn: weak fairness of the process, none of
deaths, model failures or resumes.

## 4. Proofs

Every theorem is about the specification the runs check, without bounds: the modules
of the task engine assume `RecordAssumption` and `BoundAssumption` alone (a positive
budget, threshold and cap, plans of at least three items, any number of plans and of
deaths), the others the assumption of their module (`PoolAssumption`,
`OwnershipAssumption`, `LockAssumption`, `BatchAssumption`, `MultiTurnAssumption` with
`RepairAssumption`: the "no such thing" value is none, the devices and diagnostics are
finitely many, a bootstrap budget and a failure threshold are positive).
`ServiceAssumption` asks for more: the constant in a client's timeout exceeds two
terminations.  In the code it is 60 s (`eval_client.py:193`), and a pass that is cut
is given 5 s twice over (`eval_runner.py:150`, `415`).  `JudgingAssumption` gives the
inputs their shapes: group numbers and values are naturals, a kernel right on a case
runs it, the files of a project are disjoint from the fixed ones.

A theorem that needs more names it as a hypothesis, and each is one the code does not
keep by itself, so that TLC refutes the property without it (section 6):

| hypothesis | theorems | why |
|---|---|---|
| `Listed = Tasks` | `OneTaskEach` | a claim whose index was never written is found again by a scan of `ar_tasks/` |
| `Window > 0` | `ClaimIsKept`, `WriterIsAlone` | with no window every heartbeat is old |
| `[]LockExclusive` | `DoneOnlyFinished`, `OneSession` | the lock file is created and filled in two steps, and between them a second runner may take it; what two runners do to one manifest is anything |
| `MaxKills <= 1` | `CandidatesAreWhole` | a second death, before anything was kept, leaves files of two answers and nothing that says so |
| `MaxRestarts <= 1` | `BaselineStays`, `RunExact` | the baseline round is in `trajectory.json` before the workflow names it; a resumed process takes the best round for it |

No theorem assumes that claims do not overlap, that scripts are short, that
heartbeats are fresh, that runners live, that workers start on a quiet machine or that
measurements repeat.  Where one of these takes something away, the history variables of
section 2 say from whom, and the theorem is that it takes nothing from anyone else.

`TaskEngineProofs`, part 1: `Spec => []TypeInv`, and `TypesHold: Spec => []TypeOK`.  `TypeInv` adds
to `TypeOK` what a command holds in hand between two writes, for instance that the
counter a plan entry carries is at least the next free item number, without
which the rewritten plan would have a negative number of items.

`TaskEngineProofs`, part 2: `JournalCorrect`, `RecoveryNeverRefuses` and `RoundsAreExact`.
`Recoverable` is not inductive: it says nothing of the value of the entry a script
is about to act on.  `JournalInv`, which is only proved and no longer a property of a
run, says it in four parts:

 * `Gapless`: the rows of the history are numbered 0, 1, 2, ...;
 * `Together(Recovered, plan, hist)`: the state that *replaying the journal now*
   would give belongs with the plan and the history on disk;
 * `NeedsBaseline`: late phases and the commands started in them have a committed
   baseline;
 * `InStep`: the entry, the barrier and the artifact are where the place in the
   transaction says.

Each transaction then has the same four-step argument.  Writing the entry changes
nothing, as its body has not landed (`ReplayNothing`).  When the body lands, replay
starts to give exactly what the commit is about to save (`ReplayCompletes`).
Saving it changes nothing, since replaying what is committed is a no-op
(`CommittedStays`), and dropping the entry changes nothing for the same reason.
Recovery itself is harmless to repeat (`ReplayIdempotent`), and deaths write no file
(`DeathJournal`).  One write happens outside this scheme: `post_task.py` updates the
attempt counter without opening the task, so possibly with an entry waiting;
`SameReplayed` shows that the fields recovery relies on do not notice.

`TaskLedgerProofs`: `LedgerCorrect`.  The ledger is a small system whose entries land
whole, and what matters about a task is first proved of it: a pending settlement is
that of the last round (`OwesLastRow`), the settled rows of the plan carry the
decisions of their last rounds (`TableTrue`), the best commit is that of the last kept
row (`BestKept`), and item numbers are above all used ones (`NumbersUsed`).  Beside
these, `LedgerInv` says which phases go with a pending settlement, a used-up plan and a
missing baseline (`PhaseFits`); without it a plan could be committed, or an item
settled, in a phase where it would make the table wrong.

`TaskEngineProofs`, part 3: `ImplementsLedger`.  The mapping is not the files as they lie but
what recovery would make of them: `Ledger` takes the replayed state, the plan and the
history.  `StepInv` adds to `JournalInv` what every command holds in hand between two
writes (`InHand`: the row and the state that `RoundBody` will write are those of the
round in the entry) and the phase it is in (`PhaseAt`).  With it each write that
lands the body of an entry is the ledger's entry, the settlement's writes are its
settlement, a phase move is one of `Moves`, and every other write, recovery and death
is a stutter.  The invariants of the ledger then hold of the engine: `PendingIsLast`,
`SettledAgrees`, `BestIsKept` and `NumbersAreFresh` are the four parts of `LedgerInv` read
back through the mapping.

`OwnershipProofs`: `OneTaskEach`, `ClaimIsKept`, `WriterIsAlone`.  A save either writes a
copy that is still what is on disk, or marks its task as overtaken (`CopyWrites`,
`Unmarked`), so that for every other task a load and its save are as good as one step.
`SingleTask` is not inductive: a second claim is harmless only because the
prior task was found and released.  `Led` says so: before a claim, what the session
owns is what its index names; once it is released, it owns nothing but its target;
and a session that died between the two is led back by the scan before it can open
anything.  For the claims, `Drives` says what a *rival* has in hand: while a script runs
on a task whose record is fresh, whoever loaded it either holds an outdated copy, so
that saving it marks the task, or saw a fresh owner and is about to be refused.

`BatchProofs`: `LockExcludes`, `DoneOnlyFinished`, `OneSession`.  A runner is `Secure` when it
holds the lock, its pid is in the file, and no one else is past the test that lets it
unlink or fill that file; `SecureStays` shows that no step of `acquire_lock` of any
other runner takes this away, since each one finds a live pid and is refused.  What comes before,
a runner that holds the lock and is not secure yet, is the race of `claim_lock`.  On top
of it `Fits` makes what the holder has in
hand agree with `batch_progress.json`, which gives `DoneIsFinished` together with the fact
that a finished directory stays finished (`DirsFit`).  For one session an operator needs
`InFlight`: every session that is up and not lost is either being read by a runner, or
recorded in a running case with a directory that is owned and fresh, which keeps
`recover_stale_running` from demoting it.  The three ways into `lost` are what the
proof needed to close; the third, a manifest that forgets a running case and a later one
that brings it back, takes three runners and so was seen in the proof and not in a run.

`WorkerProofs`: `DevicesConserved`, `ProcsStayUnderHolder`, `PoolTypeCorrect` (of
`PoolTypeOK`, which is only proved), `WakeupsArrive` and `PoolImplements`.  The inductive
invariant `IInv` adds two parts to the first two.  `Stages` ties the handler to its
`get()` and its evaluation task: a handler has a device exactly while its `get()` is
done and the handler is not over, and an evaluation task is alive only in the two
stages that await it.  `ProcsCurrent` says that a subprocess that obeys SIGTERM is the
one its evaluation task is at, on the handler's device: without it nothing would
rule out a device put back under a running subprocess.  `PoolImplements` shows that
the initial states of the handlers map to those of `DevicePool` and that each action
is a reservation, the end of one, or a stutter.  `NoLostWakeup` needs counting:
`WakeupsSuffice` says that while a getter waits there are at least as many wakeups
under way as devices in the queue.  One wakeup would not do, since a getter that is
woken and cancelled hands on one wakeup only, and a newcomer may take a device
without one.

`MultiTurnProofs`: `RunInvariant`, and from it `RoundsDistinct`, `BudgetsKept`,
`BestRoundIsMax`, `BestFileKept`, `RepairIsBase` and `RepairGoesOn`, without any condition
on deaths, resumes or measurements; `BaselineStays` and `RunExact` for at most one resume.  The
runner has no journal: what carries a run over a death is that each file is read
back in the right order, and `RunInv` says how they fit at every write.
`AttemptsInStep`: the attempt pending for the round that comes next is above all
recorded ones, so `begin_pending` may go on with it, and an attempt that was just
recorded is no longer current.  `CandidatesInStep`: the checkpoint of an attempt that
is not recorded holds its base or a bundle no round has.  `BudgetLeft`: a round under
way has been paid for.  `BestInStep`: `best_round` is the best of the rounds, the process
knows its result, a candidate it keeps exceeds all of them (`KeptExceeds`), and one it
rejects does not.  `RepairFits` and `RepairInStep`: evidence of the repair base clears
nothing back, and the next candidate is aimed at it.  `BestFileInStep` adds what a death
after `best.json` leaves: the file is ahead of the record (`Landed`), and the
checkpoint that is still pending will be measured again; if it is kept again the
record catches up, and if it is discarded the file is that of a discarded round of a
later process (`HoldsBest`), which is all that `BestIsMax` promises.  The steps are first brought
into fifteen kinds by what they write (`Steps`, `EveryStep`), and every conjunct is then
proved for each kind.

`ServiceProofs`: `ServedIsAwaited` and `StartsOnlyHarmTheMet`.  What a client has waited is
bounded by what its evaluation has done: while a request that was served at once
runs (`Served`), its age is at most a full pass and a termination for every pass behind
it and the age of the one under way (`AgeInBound`), and no pass is older than its bound
(`PassInBound`).  The timeout covers that sum exactly when the slack exceeds the
terminations, which is where the assumption comes from.  For the host nothing
is assumed of when and where workers start.  Workers that are up together have met
(`Acquainted`), what is evaluated runs in a worker that has listened (`Placed`), and what
a start command says, a crash on a taken port and a removed directory each point back to
a worker that was met (`CliFollows`, `DirsKept`); since `met` only grows, they go on doing so.

`JudgingProofs`: the parts share no variable, so each has an inductive invariant that
holds while `part` names it.

 * `EvaluationsAreTrue`.  A sidecar on disk may be of an earlier evaluation, left by a
   killed pipeline or an orphan that still writes.  `RoundInv` says of each file whose
   it is: older payloads exist only after a death, none of them survives
   `Begin`, and what an orphan writes is still a payload of its own evaluation.
 * `JudgedCandidatesAreWhole`, `CandidatesAreWhole`.  `DirectoryInv` ties the task
   directory to the step of the writer: which files of the target it holds already,
   which of the base still.  That makes what is judged complete and current
   whatever dies.  That it is of one bundle also needs `KnownInv`: the base of the
   next answer, and a directory that will be taken as it is found, was once completely
   there or has a marker left, which asks for an answer of every file.  The first
   candidate is answered against the scaffold; a death before it is kept spends that, and
   a second one can leave a mixture that nothing tells from a whole bundle.
 * `ReportsAreTrue`, `ShownCasesFailed`, `GatesOfResultsAreOrdered`.  `TurnInv` has six
   parts along the path of a fact: the table (`WorldInv`), a report on disk (`DiskInv`),
   the case a verification is at (`CaseInv`), what the evaluator has accumulated from
   earlier profiles (`AccInv`), the benchmark (`PerfInv`) and the result (`VerdictInv`).
   The last three say why a result may be believed: every case it counts as passed
   was right when its own verification ended.
 * `ItemsInEdit`, `GuidancePasses`.  `GateInv` is the type of the record and of the calls
   in flight, and that a record in EDIT finds work in the plan as it is now.
   Every place that writes EDIT looks at the plan in the same step, and a plan is
   only ever replaced by one with pending items or consumed together with a new phase;
   that is why overlap does no harm here while it does to `PlanAdvances` (section 6).
   The guidance and the gates are then compared phase by phase.
 * `ShapesAreTrue` holds of the classifier for every command of any number of segments.
   The only facts about the commands themselves it needs are that `export` writes no file
   by a flag, and that what follows hides an operator only in a script.  It promises less
   than the comments of `phase_policy.py` do, and `HiddenOperatorsPass` proves, by a command
   for each, that no more can be promised: the classifier takes for a script in the
   foreground one sent to the background by `>log&` and one replaced by what an
   assignment hides, and takes for reading two lines of which the second is a script.
 * `ComparisonsHold`.  The tolerances are compared type by type; nothing is assumed of
   the number of cases, outputs or elements.
 * `GatedBenchmarksAreRight` is `GateHolds`, the first half of `BenchmarkIsTrue`.  The kernel
   may have been edited, verified under another name, or killed in a verification since;
   `FilesInv` follows what each result file was written for.  If as many cases passed as
   there are, the set of passed cases is the set of all.  That the file is of the kernel
   measured now is not promised: nothing in the file says so.

Only model-checked:

 * all liveness (`ReachesFinish`, `SettlementsEnd`, `EveryRequestEnds`,
   `DeadOwnerReplaced`, `EveryCaseSettles`, `RunEnds`), which is out of the prover's reach;
 * what a fold or a recursive computation gives for every input, which needs induction
   over data with an operator parameter that the installed provers cannot instantiate:
   `SourceVerdictsAreTrue` (a run and the provenance analysis are folds over statements)
   and `ScoreIsTrue`, the second half of `BenchmarkIsTrue` (products of times);
 * `TextIsPlan`, whose texts are concatenations of item blocks and whose readers count
   lines of them.

## 5. Hazards and properties

`PROJECT.json` lists each hazard at its line with the properties that would catch it
going wrong.  In short: deaths inside journaled transactions, in the settlement
(which has no journal) and between the files of the multi-turn runner; commits that
land unnoticed; stale pending settlements, heartbeats, pids, sidecars, case reports
and verification results; the races of claims, locks, wakeups and janitors; clocks
of two sides that start at different times; operators hidden in the words of a command; hooks that act on what an overlapping
call changed; texts that are parsed back; element-wise comparisons that leave
elements out; ways on from every state.

Hazards without a property of a passing run are those the code does not keep, each
with a named statement in section 6, and the torn append of a history row, which is
up to the file system.

## 6. Disagreements found

Refuted by a run of its own, with the quotation in `PROJECT.json`:

 * `claim_diagnose_plan`: a rejected plan takes DIAGNOSE to EDIT with the old plan
   and the failure streak reset;
 * `claim_lock`: a runner reads the lock file the other one has not filled yet,
   unlinks it, and both hold the lock;
 * `claim_anchor`: a round whose kernel pass left no sidecar rewrites the anchor with
   a count of one case.

The following statements are definitions of the modules too.  TLC refutes them when
they replace the properties of the named configuration with the changes given.

| statement | where | what happens |
|---|---|---|
| `TaskClaims.BudgetHolds` | `MCTaskEngine`, 1 round, threshold 2, cap 1, 1 death | A death between the record and the settlement of the last round, then a recovery plan in EDIT: one round more than `max_rounds`. |
| `TaskClaims.KernelIsBest` | as above | A commit that lands and is reported as failed, or a death right after it: FINISH with a HEAD no kept round recorded. |
| `TaskClaims.ActivationLeavesInit` | as above | A death right after the claim leaves INIT for good. |
| `TaskClaims.ResumeKeepsPlan` | as above | After a failed seed kernel an activation does not find a plan whose hook never ran. |
| `TaskClaims.DiagnoseNeedsStreak` | `MCTaskEngine`, 4 rounds, no death | FAIL, DISCARD, FAIL enters DIAGNOSE. |
| `Ownership.LiveOwnerKept`, `OneLiveWriter` | `Ownership.cfg`, without `\cup aged` | A script longer than the window: another session resumes its task beside it. |
| `Ownership.LiveOwnerKept`, `OneLiveWriter` | `Ownership.cfg`, without `overtaken \cup` | Two claims that both loaded first: the later save overwrites a live claim. |
| `Ownership.SingleTask` | `Ownership.cfg`, without `overtaken = {} =>` | A session moves on from its task while the script of another one is between load and save of that record: the save brings the old owner back, who now has both. |
| `Ownership.SingleTask` | `Ownership.cfg`, `Listed = {}` | A task outside `ar_tasks/` is not found by the fallback scan after a death between record and index. |
| `BatchSafety.NoDoubleRun` | `BatchRun.cfg`, without `\ lost` | A runner killed before the scaffold line was read: the operator is launched beside its live session. With three runners also: the manifest of the second leaves the operator out (`manifest.py:174`, "ops that exist in the old progress file but no longer in `resolved_cases` are dropped"), and the third one, whose manifest names it again, finds it new. |
| `BatchSafety.EveryCaseSettles` | `BatchRun.cfg`, `Chatty = TRUE` | A session that keeps printing is never cut. |
| `BatchSafety.TransientResumed` | `BatchRun.cfg`, `MaxRetries = 1` | The retry asks for a key that `read_task_state` never returns. |
| `WorkerSafety.NoOrphanOnDevice` | `WorkerPool.cfg` | A subprocess that ignores SIGTERM still runs on a device that was handed out. |
| `MultiTurnSafety.BaselineSticks` | `MultiTurn.cfg`, `MaxRestarts = 2` | A death after the baseline's round and before the workflow, a better round, a second death before the workflow: the third process takes the better round for the baseline. |
| `MultiTurnSafety.HoldsBest`, its second case left out | `MultiTurn.cfg` | A death after `best.json`; the candidate, evaluated again, is slower and discarded, and the file keeps it: it is not the bundle of `best_round`. |
| `EvalClient.NeverGivenUpMidEval` | constants of `Service.cfg` | A request that waited in line is given up in the middle of its evaluation. |
| `WorkerHost.JanitorSparesLive`, `ReadyIsMine`, `DeviceNotShared` | constants of `Service.cfg` | A second worker removes live directories; the old worker's answer is taken for the new one's. |
| `BashCommands.ScriptRunsAlone` | constants of `Judging.cfg` | `phase_policy.py:389-391` says what is taken for a script is one foreground invocation. An environment value and the target of a redirection are any text without blanks (`phase_policy.py:73`, `:93`), so `... pipeline.py T >log&`, `... 2>&1&`, `... >log;cmd` and `A=1;cmd python scripts/engine/pipeline.py` are AR. |
| `Verifiers.IntegersAreExact` | constants of `Judging.cfg` | Integers are compared with the fp32 tolerance, 8193 passes for 8192 (`correctness.py:22` says exact). |
| `ToolGate.PlanAdvances` | one slot, `PlanSizes = {3}`, 2 plans | An activation prefixed as an assignment is taken for the activation, and the phase stays. |
| `Generation.NeverMixed` | `MaxKills = 2`, 3 answers, 3 resumes | A second death leaves a candidate of two bundles. |

Smaller ones, seen while modelling; the definitions model the code:

 * Plan: a description over a line end, or one that holds the words of the table
   head, changes what is read back from `plan.md`; a rationale is checked in full
   and read back by its first line.  Rejected plans in EDIT let rounds go beyond the
   budget as above.
 * Hooks: two overlapping pipelines at the last item leave a pending settle without
   an item; any Task call that returns in DIAGNOSE counts as a failed attempt, and a
   delayed hook can push the attempts over their cap.  The comment at
   `phase_policy.py:52-56` is narrower than its expression, and a command of several
   lines is classified as one.
 * Multi-turn: the semantic hash drops Python's indentation and what follows `//`,
   also inside a C++ string (`bundle.py:183-195`), so such edits count as no-ops;
   every answer that deletes an editable file is refused.  After a death between
   `repair_state.json` and the trajectory the next edit does not start from the repair
   base, and the candidate is evaluated against itself.
 * AscendC evaluation: `failed_case_index` is the last case started; a
   `performance.json` of a killed runner may be read; the compact view may show a
   passed case; a hanging kernel (124) is classified as infrastructure; an error of
   the reference on the device sets `kernel_started` to pass; a verification that
   outlives its runner shares the name of the temporary report.  A case file with
   more lines than input groups ends in an IndexError blamed on the candidate, one
   with fewer in `performance_result_invalid`.
 * Source checks: a helper's result is unknown to the AscendC check, so arithmetic on
   it passes; the other two accept every tensor operator but `@`, and the TileLang one
   a loop that launches the kernel for each slice.
 * Verifiers: `verify.py` compares flattened tensors and accepts a kernel without
   outputs, `correctness.py` does not; the int8 case of `verification_tilelang.py`
   leaves `atol = 1.5` to the following cases and treats NaN as 0; the second tier of
   the pre-flight check runs reference and kernel on the same tensors.
 * Triton benchmark: `verify.py` without `--output` writes `verify_result.json` for
   whatever it verifies (`verify.py:485`), while the gate of `triton_optimized` looks
   for `verify_result_optimized.json` (`benchmark.py:721`); nothing in the file says
   whose it is; framework and implementation may be measured on different clocks
   (`benchmark.py:316-375`); operators a call launches more than once are dropped from
   a trace with counts (`benchmark.py:250-268`).

## 7. Not modelled, and what is left

Left out, for the reasons in `PROJECT.json`: scaffold, dashboard, report and monitor
(one-shot generation and read-only views), the prompts and knowledge of the
multi-turn runner (text for a model), the project generator (parsing and templates),
skills and agents as text, benchmarks, archived tasks and templates (data and
generated code).  Of the parts listed as partly modelled the rest is metric values,
parsing of logs and task files, tables and messages.

What would come next: two sessions over the whole of `TaskEngine` rather than over
owner and heartbeat alone, and `Generation` as a refinement of the candidate step of
`MultiTurn`.
