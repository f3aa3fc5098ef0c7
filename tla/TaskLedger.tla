----------------------------- MODULE TaskLedger -----------------------------
(***************************************************************************)
(* What the journal of one task promises: a task is a ledger whose entries *)
(* land whole.  A baseline, a plan and a round are one step each, whatever *)
(* number of files they are written to and wherever a process dies.        *)
(***************************************************************************)
EXTENDS TaskRecord

VARIABLES
  state,  \* the control record
  plan,   \* the plan
  rows,   \* the rounds
  head    \* the newest kernel commit

lvars == <<state, plan, rows, head>>

LInit ==
  state = FreshState("NONE") /\ plan = NoPlan /\ rows = <<>> /\ head = 0

\* The phase graph.
Moves ==
  {<<"NONE", "INIT">>, <<"NONE", "BASELINE">>, <<"INIT", "BASELINE">>,
   <<"INIT", "PLAN">>, <<"BASELINE", "PLAN">>,
   <<"PLAN", "EDIT">>, <<"REPLAN", "EDIT">>, <<"REPLAN", "PLAN">>,
   <<"DIAGNOSE", "EDIT">>}
    \cup {<<"EDIT", p>> : p \in {"DIAGNOSE", "REPLAN", "FINISH"}}

\* A phase change moves nothing else.  FINISH is where the budget is used up,
\* EDIT has an item to work on, and PLAN is for want of a plan or of a seed.
Advance ==
  /\ \E m \in Moves : state.phase = m[1] /\ state' = [state EXCEPT !.phase = m[2]]
  /\ state'.phase = "FINISH" <=> state.prog.rounds >= MaxRounds
  /\ state'.phase = "EDIT" => HasPending(plan)
  /\ state'.phase = "PLAN" => ~PlanExists(plan) \/ ~state.prog.seedOk
  /\ state'.phase \in Phases \ {"NONE", "INIT", "BASELINE"} => state.init
  /\ UNCHANGED <<plan, rows, head>>

\* The baseline is the first row and happens once.
Seed ==
  /\ ~state.init /\ rows = <<>>
  /\ rows' = <<SeedRow(head)>>
  /\ \E ok \in BOOLEAN :
       state' = [state EXCEPT !.init = TRUE, !.prog.seedOk = ok,
                              !.prog.best = IF ok THEN head ELSE NoCommit]
  /\ UNCHANGED <<plan, head>>

\* A plan is rewritten under the next version, with item numbers never used.
NewPlan ==
  /\ state.init /\ state.phase \in {"PLAN", "DIAGNOSE", "REPLAN", "EDIT"}
  /\ \E n \in PlanSizes :
       LET first == FirstPid(state.prog, plan)
       IN  /\ plan' = RewrittenPlan(plan.v + 1, first, n, plan)
           /\ state' = [state EXCEPT !.prog.version = plan.v + 1,
                                     !.prog.nextPid = first + n,
                                     !.expPlan = plan.v + 1]
  /\ UNCHANGED <<rows, head>>

\* A round works on the ACTIVE item in EDIT, adds one row, the one after the
\* last, and owes its settlement.
Round ==
  /\ state.init /\ state.pending = NoKd
  /\ state.phase = "EDIT" /\ HasPending(plan)
  /\ \E d \in Decisions :
       LET r == Len(rows)
           kd == [item |-> ActiveItem(plan), decision |-> d, round |-> r]
       IN  /\ rows' = Append(rows, [round |-> r, item |-> kd.item, decision |-> d,
                                    commit |-> IF d = "KEEP" THEN head ELSE NoCommit])
           /\ state' = [state EXCEPT
                !.prog.rounds = r, !.expRound = r, !.pending = kd,
                !.prog.best = IF d = "KEEP" THEN head ELSE @,
                !.prog.fails = CASE d = "FAIL" -> @ + 1
                                 [] d = "KEEP" -> 0
                                 [] OTHER      -> @]
  /\ UNCHANGED <<plan, head>>

\* The item of the round just recorded is settled with that round's decision.
SettleItem ==
  /\ state.pending # NoKd /\ HasPending(plan) /\ state.phase = "EDIT"
  /\ state.pending.item = ActiveItem(plan)
  /\ ~IsSettled(plan, ActiveItem(plan))
  /\ plan' = SettledPlan(plan, rows[Len(rows)].decision)
  /\ UNCHANGED <<state, rows, head>>

\* The settlement is over (or was given up), and EDIT has its next item.
Forget ==
  /\ state.pending # NoKd
  /\ state.phase = "EDIT" => HasPending(plan)
  /\ state' = [state EXCEPT !.pending = NoKd]
  /\ UNCHANGED <<plan, rows, head>>

\* A replan out of DIAGNOSE starts a new failure streak.
ResetFailures ==
  /\ state.phase = "DIAGNOSE"
  /\ state' = [state EXCEPT !.prog.fails = 0]
  /\ UNCHANGED <<plan, rows, head>>

\* Diagnosis attempts are counted up to the cap, per plan version; while a
\* new plan waits to be recovered they still count for the one before it.
CountAttempt ==
  /\ state.phase = "DIAGNOSE"
  /\ \E a \in 0 .. DiagCap, v \in {state.prog.version - 1, state.prog.version} :
       state' = [state EXCEPT !.prog.attempts = a, !.prog.attFor = v]
  /\ UNCHANGED <<plan, rows, head>>

\* A kernel is committed before the round that keeps it is recorded.
CommitKernel == head' = head + 1 /\ UNCHANGED <<state, plan, rows>>

LNext == \/ Advance \/ Seed \/ NewPlan \/ Round \/ SettleItem \/ Forget
         \/ ResetFailures \/ CountAttempt \/ CommitKernel

LSpec == LInit /\ [][LNext]_lvars

-----------------------------------------------------------------------------
(* What every ledger keeps: an inductive invariant of LSpec. *)

\* The settlement that is owed is that of the last row, and of an item.
OwesLastRow ==
  state.pending # NoKd =>
    /\ rows # <<>> /\ state.pending.item > 0
    /\ LET row == rows[Len(rows)]
       IN  /\ row.round = state.pending.round /\ row.item = state.pending.item
           /\ row.decision = state.pending.decision

\* The best commit is the one of the last row kept, or of the seed.
BestKept ==
  LET kept == {i \in DOMAIN rows : rows[i].decision = "KEEP"}
  IN  state.init =>
        /\ kept = {} => state.prog.best = IF state.prog.seedOk THEN rows[1].commit
                                         ELSE NoCommit
        /\ kept # {} => \E i \in kept : /\ \A j \in kept : j <= i
                                       /\ state.prog.best = rows[i].commit

\* Item numbers: those of the rows and of the plan are used up, those of the
\* table lie below the ACTIVE one.
NumbersUsed ==
  /\ plan.done <= plan.n /\ FirstPid(state.prog, plan) > 0
  /\ plan.first + plan.n <= FirstPid(state.prog, plan)
  /\ plan.n > 0 => plan.first > 0 /\ PlanExists(plan)
  /\ \A i \in DOMAIN rows : rows[i].item < FirstPid(state.prog, plan)
  /\ \A i \in DOMAIN plan.settled : plan.settled[i].item < plan.first + plan.done

\* The table says what the rows say, once per item.
TableTrue ==
  /\ \A i \in DOMAIN plan.settled : \E j \in DOMAIN rows :
       /\ rows[j].item = plan.settled[i].item
       /\ rows[j].decision = plan.settled[i].decision
  /\ \A i, j \in DOMAIN plan.settled :
       plan.settled[i].item = plan.settled[j].item => i = j

\* What a phase means.
PhaseFits ==
  /\ state.phase \in {"NONE", "INIT", "BASELINE"} => ~PlanExists(plan)
  /\ state.phase \notin {"EDIT", "FINISH"} => state.prog.rounds < MaxRounds
  /\ state.phase = "PLAN" /\ state.prog.seedOk /\ PlanExists(plan) => HasPending(plan)
  /\ state.phase = "EDIT" /\ state.pending = NoKd => HasPending(plan)
  /\ state.phase \notin {"NONE", "INIT", "BASELINE"} => state.init

\* The baseline is the first row, and without it nothing has happened.
NothingYet ==
  /\ state.init => rows # <<>>
  /\ ~state.init => /\ rows = <<>> /\ plan = NoPlan /\ state.prog = NoProgress
                    /\ state.pending = NoKd /\ state.expRound = 0

LedgerType ==
  state \in State /\ plan \in Plan /\ rows \in Seq(HistRow) /\ head \in Nat

LedgerInv ==
  OwesLastRow /\ BestKept /\ NumbersUsed /\ TableTrue /\ PhaseFits /\ NothingYet
=============================================================================
