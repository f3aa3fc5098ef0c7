-------------------------- MODULE TaskLedgerProofs --------------------------
(***************************************************************************)
(* The ledger of a task keeps its promises for every budget and every      *)
(* number of plan items: what is owed, what is best and which item numbers *)
(* are used up follow from the rows alone.                                 *)
(*                                                                         *)
(* The argument is by the actions of the ledger.  Each is first reduced to *)
(* the fields it leaves alone; each part of the invariant is then kept by  *)
(* those actions that touch what it speaks of.                             *)
(***************************************************************************)
EXTENDS TaskLedger, TLAPS

-----------------------------------------------------------------------------
(* Operators *)

\* The number handed out next is a natural number.
LEMMA NextNumber ==
  ASSUME NEW pr \in Progress, NEW p \in Plan
  PROVE  FirstPid(pr, p) \in Nat
BY DEF FirstPid, Progress, Plan, PlanExists

\* Only the counter decides on it.
LEMMA SameNextNumber ==
  ASSUME NEW pr, NEW qr, NEW p, pr.nextPid = qr.nextPid
  PROVE  FirstPid(pr, p) = FirstPid(qr, p)
BY DEF FirstPid

\* A settled item is the ACTIVE one, at the end of the table.
LEMMA SettledPlanIs ==
  ASSUME NEW p \in Plan, NEW d \in Decisions
  PROVE  LET q   == SettledPlan(p, d)
             row == [item |-> ActiveItem(p), decision |-> d]
         IN  /\ q \in Plan
             /\ q.v = p.v /\ q.first = p.first /\ q.n = p.n /\ q.done = p.done + 1
             /\ q.settled = Append(p.settled, row)
             /\ row \in SettledRow
<1> DEFINE row == [item |-> ActiveItem(p), decision |-> d]
           s   == Append(p.settled, row)
           r   == [p EXCEPT !.done = p.done + 1]
<1>1. row \in SettledRow
  BY DEF SettledRow, ActiveItem, HasPending, Plan
<1>2. s \in Seq(SettledRow)
  <2>1. p.settled \in Seq(SettledRow)
    BY DEF Plan
  <2> HIDE DEF row
  <2> QED BY <1>1, <2>1
<1>3. r \in Plan /\ r.v = p.v /\ r.first = p.first /\ r.n = p.n /\ r.done = p.done + 1
  BY DEF Plan
<1>4. SettledPlan(p, d) = [r EXCEPT !.settled = s]
  BY DEF SettledPlan
<1>5. LET q == [r EXCEPT !.settled = s]
      IN  /\ q \in Plan
          /\ q.v = r.v /\ q.first = r.first /\ q.n = r.n /\ q.done = r.done
          /\ q.settled = s
  <2> HIDE DEF r, s
  <2> QED BY <1>2, <1>3 DEF Plan
<1> QED BY <1>1, <1>3, <1>4, <1>5

\* A debt is never the empty one.
LEMMA DebtIsNotNone == NoKd \notin Kd
BY DEF NoKd, Kd, Decisions

\* The progress of a task without a baseline is progress.
LEMMA NoProgressType == NoProgress \in Progress
BY DEF NoProgress, Progress, NoCommit

-----------------------------------------------------------------------------
(* What each action writes *)

\* The fields of the control record the invariant speaks of, but the phase
\* and the debt.
SameProgress(s, t) ==
  /\ t.init = s.init /\ t.expRound = s.expRound
  /\ t.prog.best = s.prog.best /\ t.prog.seedOk = s.prog.seedOk
  /\ t.prog.nextPid = s.prog.nextPid /\ t.prog.rounds = s.prog.rounds

LEMMA AdvanceWrites ==
  ASSUME LedgerType, Advance
  PROVE  /\ \E m \in Moves : state.phase = m[1] /\ state'.phase = m[2]
         /\ state'.prog = state.prog /\ state'.pending = state.pending
         /\ state'.phase \in Phases /\ state' \in State
         /\ SameProgress(state, state')
<1> PICK m \in Moves : state.phase = m[1] /\ state' = [state EXCEPT !.phase = m[2]]
  BY DEF Advance
<1>1. m[2] \in Phases
  BY DEF Moves, Phases
<1>2. state \in State
  BY DEF LedgerType
<1> QED BY <1>1, <1>2 DEF SameProgress, State

LEMMA SeedWrites ==
  ASSUME LedgerType, LedgerInv, Seed
  PROVE  /\ state' \in State /\ state'.init /\ state'.phase = state.phase
         /\ state'.pending = NoKd /\ state'.prog.nextPid = 0
         /\ state'.prog.rounds = 0
         /\ state'.prog.best = IF state'.prog.seedOk THEN head ELSE NoCommit
         /\ rows' = <<SeedRow(head)>> /\ rows' \in Seq(HistRow)
         /\ plan' = NoPlan /\ plan = NoPlan
<1> PICK ok \in BOOLEAN :
      state' = [state EXCEPT !.init = TRUE, !.prog.seedOk = ok,
                             !.prog.best = IF ok THEN head ELSE NoCommit]
  BY DEF Seed
<1> DEFINE b  == IF ok THEN head ELSE NoCommit
           p1 == [state.prog EXCEPT !.seedOk = ok]
           p2 == [p1 EXCEPT !.best = b]
<1>1. state \in State /\ state.prog \in Progress /\ b \in Int /\ head \in Nat
  BY DEF LedgerType, State, NoCommit
<1>2. state.pending = NoKd /\ plan = NoPlan /\ state.prog.nextPid = 0 /\ state.prog.rounds = 0
  BY DEF Seed, LedgerInv, NothingYet, NoProgress
<1>3. p1 \in Progress /\ p1.nextPid = 0 /\ p1.rounds = 0 /\ p1.seedOk = ok
  BY <1>1, <1>2 DEF Progress
<1>4. p2 \in Progress /\ p2.nextPid = 0 /\ p2.rounds = 0 /\ p2.seedOk = ok /\ p2.best = b
  <2> HIDE DEF p1, b
  <2> QED BY <1>1, <1>3 DEF Progress
<1>5. state' = [[state EXCEPT !.init = TRUE] EXCEPT !.prog = p2]
  BY <1>1 DEF State
<1>6. /\ state' \in State /\ state'.init /\ state'.phase = state.phase
      /\ state'.pending = state.pending /\ state'.prog = p2
  <2> HIDE DEF p2
  <2> QED BY <1>1, <1>4, <1>5 DEF State
<1>7. SeedRow(head) \in HistRow
  BY <1>1 DEF SeedRow, HistRow
<1>8. rows' = <<SeedRow(head)>> /\ rows' \in Seq(HistRow)
  BY <1>7 DEF Seed
<1> QED BY <1>2, <1>4, <1>6, <1>8 DEF Seed

LEMMA NewPlanWrites ==
  ASSUME LedgerType, NewPlan
  PROVE  \E n \in PlanSizes : LET first == FirstPid(state.prog, plan) IN
         /\ n \in Nat /\ n >= 3 /\ first \in Nat
         /\ state' \in State /\ state'.init = state.init
         /\ state'.phase = state.phase /\ state'.pending = state.pending
         /\ state'.prog.best = state.prog.best /\ state'.prog.seedOk = state.prog.seedOk
         /\ state'.prog.rounds = state.prog.rounds
         /\ state'.prog.nextPid = first + n
         /\ plan' \in Plan /\ plan'.v = plan.v + 1 /\ plan'.first = first
         /\ plan'.n = n /\ plan'.done = 0 /\ plan'.settled = plan.settled
<1> DEFINE first == FirstPid(state.prog, plan)
<1>a. PICK n \in PlanSizes :
      /\ plan' = RewrittenPlan(plan.v + 1, first, n, plan)
      /\ state' = [state EXCEPT !.prog.version = plan.v + 1,
                                !.prog.nextPid = first + n, !.expPlan = plan.v + 1]
  BY DEF NewPlan
<1>1. state \in State /\ state.prog \in Progress /\ plan \in Plan /\ plan.v + 1 \in Nat
  BY DEF LedgerType, State, Plan
<1>2. n \in Nat /\ n >= 3
  BY RecordAssumption DEF RecordAssumption
<1>3. first \in Nat
  BY <1>1, NextNumber
<1> DEFINE p1 == [state.prog EXCEPT !.version = plan.v + 1]
           p2 == [p1 EXCEPT !.nextPid = first + n]
           s1 == [state EXCEPT !.expPlan = plan.v + 1]
<1> HIDE DEF first
<1>4. /\ p1 \in Progress /\ p1.best = state.prog.best /\ p1.seedOk = state.prog.seedOk
      /\ p1.rounds = state.prog.rounds
  BY <1>1 DEF Progress
<1>5. /\ p2 \in Progress /\ p2.best = state.prog.best /\ p2.seedOk = state.prog.seedOk
      /\ p2.rounds = state.prog.rounds /\ p2.nextPid = first + n
  <2> HIDE DEF p1
  <2> QED BY <1>2, <1>3, <1>4 DEF Progress
<1>6. s1 \in State /\ s1.init = state.init /\ s1.phase = state.phase /\ s1.pending = state.pending
  BY <1>1 DEF State
<1>7. state' = [s1 EXCEPT !.prog = p2]
  BY <1>1, <1>a DEF State
<1>8. /\ state' \in State /\ state'.init = s1.init /\ state'.phase = s1.phase
      /\ state'.pending = s1.pending /\ state'.prog = p2
  <2> HIDE DEF p2, s1
  <2> QED BY <1>5, <1>6, <1>7 DEF State
<1>9. /\ plan' \in Plan /\ plan'.v = plan.v + 1 /\ plan'.first = first
      /\ plan'.n = n /\ plan'.done = 0 /\ plan'.settled = plan.settled
  <2>1. plan' = RewrittenPlan(plan.v + 1, first, n, plan)
    BY <1>a
  <2> QED BY <1>1, <1>2, <1>3, <2>1 DEF RewrittenPlan, Plan
<1> QED BY <1>2, <1>3, <1>5, <1>6, <1>8, <1>9 DEF first

LEMMA RoundWrites ==
  ASSUME LedgerType, Round
  PROVE  /\ state.phase = "EDIT" /\ state.init /\ state.pending = NoKd /\ HasPending(plan)
         /\ state' \in State /\ state'.phase = "EDIT" /\ state'.init
         /\ state'.pending \in Kd /\ state'.pending.item = ActiveItem(plan)
         /\ state'.prog.nextPid = state.prog.nextPid
         /\ state'.prog.seedOk = state.prog.seedOk
         /\ plan' = plan
         /\ \E row \in HistRow :
              /\ rows' = Append(rows, row)
              /\ row.item = ActiveItem(plan) /\ row.decision = state'.pending.decision
              /\ row.round = state'.pending.round
              /\ state'.prog.best = IF row.decision = "KEEP" THEN row.commit
                                    ELSE state.prog.best
<1>a. PICK d \in Decisions :
       LET r == Len(rows)
           kd == [item |-> ActiveItem(plan), decision |-> d, round |-> r]
       IN  /\ rows' = Append(rows, [round |-> r, item |-> kd.item, decision |-> d,
                                    commit |-> IF d = "KEEP" THEN head ELSE NoCommit])
           /\ state' = [state EXCEPT
                !.prog.rounds = r, !.expRound = r, !.pending = kd,
                !.prog.best = IF d = "KEEP" THEN head ELSE @,
                !.prog.fails = CASE d = "FAIL" -> @ + 1
                                 [] d = "KEEP" -> 0
                                 [] OTHER      -> @]
  BY DEF Round
<1> DEFINE r  == Len(rows)
           kd == [item |-> ActiveItem(plan), decision |-> d, round |-> r]
           c  == IF d = "KEEP" THEN head ELSE NoCommit
           b  == IF d = "KEEP" THEN head ELSE state.prog.best
           f  == CASE d = "FAIL" -> state.prog.fails + 1
                   [] d = "KEEP" -> 0
                   [] OTHER      -> state.prog.fails
           row == [round |-> r, item |-> ActiveItem(plan), decision |-> d, commit |-> c]
           p1 == [state.prog EXCEPT !.rounds = r]
           p2 == [p1 EXCEPT !.best = b]
           p3 == [p2 EXCEPT !.fails = f]
           s1 == [state EXCEPT !.expRound = r]
           s2 == [s1 EXCEPT !.pending = kd]
<1>1. /\ state \in State /\ state.prog \in Progress /\ plan \in Plan /\ rows \in Seq(HistRow)
      /\ r \in Nat /\ head \in Nat
  BY DEF LedgerType, State
<1>2. ActiveItem(plan) \in Nat
  BY <1>1 DEF ActiveItem, HasPending, Plan
<1>3. kd \in Kd
  BY <1>1, <1>2 DEF Kd
<1>4. c \in Int /\ b \in Int /\ f \in Nat
  BY <1>1 DEF NoCommit, Progress
<1>5. row \in HistRow
  <2> HIDE DEF c
  <2> QED BY <1>1, <1>2, <1>4 DEF HistRow
<1>6. p1 \in Progress /\ p1.nextPid = state.prog.nextPid /\ p1.seedOk = state.prog.seedOk
  BY <1>1 DEF Progress
<1>7. /\ p2 \in Progress /\ p2.nextPid = state.prog.nextPid /\ p2.seedOk = state.prog.seedOk
      /\ p2.best = b
  <2> HIDE DEF p1, b
  <2> QED BY <1>4, <1>6 DEF Progress
<1>8. /\ p3 \in Progress /\ p3.nextPid = state.prog.nextPid /\ p3.seedOk = state.prog.seedOk
      /\ p3.best = b
  <2> HIDE DEF p2, b, f
  <2> QED BY <1>4, <1>7 DEF Progress
<1>9. s1 \in State /\ s1.phase = state.phase /\ s1.init = state.init
  BY <1>1 DEF State
<1>10. s2 \in State /\ s2.phase = state.phase /\ s2.init = state.init /\ s2.pending = kd
  <2> HIDE DEF s1, kd
  <2> QED BY <1>3, <1>9 DEF State
<1>11. state' = [s2 EXCEPT !.prog = p3]
  BY <1>1, <1>a DEF State, Progress
<1>12. /\ state' \in State /\ state'.phase = state.phase /\ state'.init = state.init
       /\ state'.pending = kd /\ state'.prog = p3
  <2> HIDE DEF s2, p3, kd
  <2> QED BY <1>8, <1>10, <1>11 DEF State
<1>13. rows' = Append(rows, row)
  BY <1>a
<1>14. /\ row.item = ActiveItem(plan) /\ row.decision = kd.decision
       /\ row.round = kd.round
       /\ b = IF row.decision = "KEEP" THEN row.commit ELSE state.prog.best
  OBVIOUS
<1>15. kd.item = ActiveItem(plan)
  OBVIOUS
<1> HIDE DEF row, kd, p3, b
<1> QED BY <1>3, <1>5, <1>8, <1>12, <1>13, <1>14, <1>15 DEF Round

LEMMA SettleItemWrites ==
  ASSUME LedgerType, LedgerInv, SettleItem
  PROVE  /\ state' = state /\ rows' = rows
         /\ state.phase = "EDIT" /\ state.pending # NoKd /\ HasPending(plan)
         /\ rows # <<>> /\ rows[Len(rows)] \in HistRow
         /\ plan' \in Plan /\ plan'.v = plan.v /\ plan'.first = plan.first
         /\ plan'.n = plan.n /\ plan'.done = plan.done + 1
         /\ \E row \in SettledRow :
              /\ row.item = ActiveItem(plan) /\ row.item = rows[Len(rows)].item
              /\ row.decision = rows[Len(rows)].decision
              /\ plan'.settled = Append(plan.settled, row)
<1> DEFINE last == rows[Len(rows)]
           row  == [item |-> ActiveItem(plan), decision |-> last.decision]
<1>1. /\ rows # <<>> /\ last.item = state.pending.item
      /\ last.decision = state.pending.decision
  BY DEF SettleItem, LedgerInv, OwesLastRow
<1>2. state.pending \in Kd /\ last.decision \in Decisions
  BY <1>1 DEF LedgerType, State, SettleItem, Kd
<1>3. last \in HistRow
  BY <1>1 DEF LedgerType
<1>4. plan' = SettledPlan(plan, last.decision)
  BY DEF SettleItem
<1>5. /\ plan' \in Plan /\ plan'.v = plan.v /\ plan'.first = plan.first
      /\ plan'.n = plan.n /\ plan'.done = plan.done + 1
      /\ plan'.settled = Append(plan.settled, row) /\ row \in SettledRow
  <2> HIDE DEF last
  <2> QED BY <1>2, <1>4, SettledPlanIs DEF LedgerType
<1>6. row.item = ActiveItem(plan) /\ row.decision = last.decision
  OBVIOUS
<1> HIDE DEF row
<1> QED BY <1>1, <1>3, <1>5, <1>6 DEF SettleItem

LEMMA ForgetWrites ==
  ASSUME LedgerType, Forget
  PROVE  /\ state' \in State /\ state'.phase = state.phase /\ state'.prog = state.prog
         /\ state'.pending = NoKd /\ SameProgress(state, state')
BY DEF LedgerType, Forget, State, SameProgress

\* The failure streak and the diagnosis attempts are nothing to the invariant.
LEMMA CounterWrites ==
  ASSUME LedgerType, ResetFailures \/ CountAttempt
  PROVE  /\ state.phase = "DIAGNOSE" /\ state' \in State
         /\ state'.phase = state.phase /\ state'.pending = state.pending
         /\ SameProgress(state, state')
         /\ plan' = plan /\ rows' = rows /\ head' = head
<1>0. state \in State /\ state.prog \in Progress
  BY DEF LedgerType, State
<1>1. CASE ResetFailures
  <2>1. state' = [state EXCEPT !.prog.fails = 0]
    BY <1>1 DEF ResetFailures
  <2>2. [state.prog EXCEPT !.fails = 0] \in Progress
    BY <1>0 DEF Progress
  <2> QED BY <1>0, <1>1, <2>1, <2>2 DEF ResetFailures, State, Progress, SameProgress
<1>2. CASE CountAttempt
  <2>a. PICK a \in 0 .. DiagCap, v \in {state.prog.version - 1, state.prog.version} :
          state' = [state EXCEPT !.prog.attempts = a, !.prog.attFor = v]
    BY <1>2 DEF CountAttempt
  <2> DEFINE p1 == [state.prog EXCEPT !.attempts = a]
             p2 == [p1 EXCEPT !.attFor = v]
  <2>1. a \in Nat /\ v \in Int
    BY <1>0, RecordAssumption DEF RecordAssumption, Progress
  <2>2. /\ p1 \in Progress /\ p1.best = state.prog.best /\ p1.seedOk = state.prog.seedOk
        /\ p1.nextPid = state.prog.nextPid /\ p1.rounds = state.prog.rounds
    BY <1>0, <2>1 DEF Progress
  <2>3. /\ p2 \in Progress /\ p2.best = state.prog.best /\ p2.seedOk = state.prog.seedOk
        /\ p2.nextPid = state.prog.nextPid /\ p2.rounds = state.prog.rounds
    <3> HIDE DEF p1
    <3> QED BY <2>1, <2>2 DEF Progress
  <2>4. state' = [state EXCEPT !.prog = p2]
    BY <1>0, <2>a DEF State
  <2>5. /\ state' \in State /\ state'.phase = state.phase /\ state'.pending = state.pending
        /\ state'.init = state.init /\ state'.expRound = state.expRound /\ state'.prog = p2
    <3> HIDE DEF p2
    <3> QED BY <1>0, <2>3, <2>4 DEF State
  <2> QED BY <1>2, <2>3, <2>5 DEF CountAttempt, SameProgress
<1> QED BY <1>1, <1>2

-----------------------------------------------------------------------------
(* Rows, seen from both ends *)

\* An append moves the last row and no other.
LEMMA AppendRows ==
  ASSUME NEW h \in Seq(HistRow), NEW row \in HistRow, NEW g, g = Append(h, row)
  PROVE  /\ g \in Seq(HistRow) /\ Len(g) = Len(h) + 1 /\ g # <<>>
         /\ g[Len(g)] = row
         /\ \A i \in DOMAIN h : i \in DOMAIN g /\ g[i] = h[i]
         /\ \A i \in DOMAIN g : i \in DOMAIN h \/ i = Len(g)
<1>1. g \in Seq(HistRow) /\ Len(g) = Len(h) + 1
  OBVIOUS
<1>2. g # <<>>
  <2>1. Len(h) + 1 # 0 /\ Len(<<>>) = 0
    OBVIOUS
  <2> QED BY <1>1, <2>1
<1>3. g[Len(g)] = row
  OBVIOUS
<1>4. \A i \in DOMAIN h : i \in DOMAIN g /\ g[i] = h[i]
  OBVIOUS
<1>5. \A i \in DOMAIN g : i \in DOMAIN h \/ i = Len(g)
  OBVIOUS
<1> QED BY <1>1, <1>2, <1>3, <1>4, <1>5

\* Rows and settled rows carry natural numbers.
LEMMA ItemsAreNumbers ==
  ASSUME NEW h \in Seq(HistRow), NEW t \in Seq(SettledRow)
  PROVE  /\ \A i \in DOMAIN h : h[i].item \in Nat
         /\ \A i \in DOMAIN t : t[i].item \in Nat
<1>1. (\A i \in DOMAIN h : h[i] \in HistRow) /\ (\A i \in DOMAIN t : t[i] \in SettledRow)
  OBVIOUS
<1>2. (\A r \in HistRow : r.item \in Nat) /\ (\A r \in SettledRow : r.item \in Nat)
  BY DEF HistRow, SettledRow
<1> QED BY <1>1, <1>2

-----------------------------------------------------------------------------
(* Every action keeps every part *)

LEMMA TypeStep == LedgerType /\ LedgerInv /\ LNext => LedgerType'
<1> SUFFICES ASSUME LedgerType, LedgerInv, LNext PROVE LedgerType'
  OBVIOUS
<1>1. CASE Advance
  BY <1>1, AdvanceWrites DEF Advance, LedgerType
<1>2. CASE Seed
  BY <1>2, SeedWrites DEF Seed, LedgerType
<1>3. CASE NewPlan
  BY <1>3, NewPlanWrites DEF NewPlan, LedgerType
<1>4. CASE Round
  <2>1. state' \in State /\ plan' = plan /\ head' = head
    BY <1>4, RoundWrites DEF Round
  <2>2. PICK row \in HistRow : rows' = Append(rows, row)
    BY <1>4, RoundWrites
  <2>3. rows' \in Seq(HistRow)
    BY <2>2 DEF LedgerType
  <2> QED BY <2>1, <2>3 DEF LedgerType
<1>5. CASE SettleItem
  BY <1>5, SettleItemWrites DEF SettleItem, LedgerType
<1>6. CASE Forget
  BY <1>6, ForgetWrites DEF Forget, LedgerType
<1>7. CASE ResetFailures \/ CountAttempt
  BY <1>7, CounterWrites DEF LedgerType
<1>8. CASE CommitKernel
  BY <1>8 DEF CommitKernel, LedgerType
<1> QED BY <1>1, <1>2, <1>3, <1>4, <1>5, <1>6, <1>7, <1>8 DEF LNext

\* Only a round makes a debt.
LEMMA OwesStep == LedgerType /\ LedgerInv /\ LNext => OwesLastRow'
<1> SUFFICES ASSUME LedgerType, LedgerInv, LNext PROVE OwesLastRow'
  OBVIOUS
<1> USE DEF LedgerInv
<1>1. CASE state'.pending = NoKd
  BY <1>1 DEF OwesLastRow
<1>2. CASE state'.pending = state.pending /\ rows' = rows
  BY <1>2 DEF OwesLastRow
<1>3. CASE Round
  <2>1. PICK row \in HistRow :
          /\ rows' = Append(rows, row)
          /\ row.item = ActiveItem(plan) /\ row.decision = state'.pending.decision
          /\ row.round = state'.pending.round
    BY <1>3, RoundWrites
  <2>2. rows' # <<>> /\ rows'[Len(rows')] = row
    BY <2>1, AppendRows DEF LedgerType
  <2>3. state'.pending.item = ActiveItem(plan) /\ HasPending(plan)
    BY <1>3, RoundWrites
  <2>4. ActiveItem(plan) > 0
    BY <2>3 DEF NumbersUsed, ActiveItem, HasPending, LedgerType, Plan
  <2> QED BY <2>1, <2>2, <2>3, <2>4 DEF OwesLastRow
<1>4. ASSUME ~Round PROVE state'.pending = NoKd \/ (state'.pending = state.pending /\ rows' = rows)
  <2>1. CASE Advance BY <2>1, AdvanceWrites DEF Advance
  <2>2. CASE Seed BY <2>2, SeedWrites
  <2>3. CASE NewPlan BY <2>3, NewPlanWrites DEF NewPlan
  <2>4. CASE SettleItem BY <2>4 DEF SettleItem
  <2>5. CASE Forget BY <2>5, ForgetWrites
  <2>6. CASE ResetFailures \/ CountAttempt BY <2>6, CounterWrites
  <2>7. CASE CommitKernel BY <2>7 DEF CommitKernel
  <2> QED BY <1>4, <2>1, <2>2, <2>3, <2>4, <2>5, <2>6, <2>7 DEF LNext
<1> QED BY <1>1, <1>2, <1>3, <1>4

\* The best commit moves with the rows.
LEMMA BestStep == LedgerType /\ LedgerInv /\ LNext => BestKept'
<1> SUFFICES ASSUME LedgerType, LedgerInv, LNext PROVE BestKept'
  OBVIOUS
<1> USE DEF LedgerInv
<1>1. CASE /\ state'.init = state.init /\ state'.prog.best = state.prog.best
           /\ state'.prog.seedOk = state.prog.seedOk /\ rows' = rows
  BY <1>1 DEF BestKept
<1>2. CASE Seed
  <2>1. /\ rows' = <<SeedRow(head)>>
        /\ state'.prog.best = IF state'.prog.seedOk THEN head ELSE NoCommit
    BY <1>2, SeedWrites
  <2>2. rows'[1].decision = "SEED" /\ rows'[1].commit = head /\ DOMAIN rows' = {1}
    BY <2>1 DEF SeedRow
  <2>3. {i \in DOMAIN rows' : rows'[i].decision = "KEEP"} = {}
    BY <2>2
  <2> QED BY <2>1, <2>2, <2>3 DEF BestKept
<1>3. CASE Round
  <2>1. PICK row \in HistRow :
          /\ rows' = Append(rows, row)
          /\ state'.prog.best = IF row.decision = "KEEP" THEN row.commit
                                ELSE state.prog.best
    BY <1>3, RoundWrites
  <2>2. state.init /\ state'.init /\ rows # <<>> /\ state'.prog.seedOk = state.prog.seedOk
    BY <1>3, RoundWrites DEF NothingYet
  <2> DEFINE kept  == {i \in DOMAIN rows : rows[i].decision = "KEEP"}
             kept1 == {i \in DOMAIN rows' : rows'[i].decision = "KEEP"}
             n     == Len(rows')
  <2>3. /\ rows' \in Seq(HistRow) /\ n = Len(rows) + 1 /\ rows'[n] = row
        /\ \A i \in DOMAIN rows : i \in DOMAIN rows' /\ rows'[i] = rows[i]
        /\ \A i \in DOMAIN rows' : i \in DOMAIN rows \/ i = n
    BY <2>1, AppendRows DEF LedgerType
  <2>4. 1 \in DOMAIN rows /\ n \in DOMAIN rows' /\ n \notin DOMAIN rows
    BY <2>2, <2>3 DEF LedgerType
  <2>5. CASE row.decision = "KEEP"
    <3>1. n \in kept1 /\ \A j \in kept1 : j <= n
      BY <2>3, <2>4, <2>5
    <3>2. state'.prog.best = rows'[n].commit
      BY <2>1, <2>3, <2>5
    <3> QED BY <3>1, <3>2 DEF BestKept
  <2>6. CASE row.decision # "KEEP"
    <3>1. kept1 = kept
      BY <2>3, <2>4, <2>6
    <3>2. state'.prog.best = state.prog.best
      BY <2>1, <2>6
    <3>3. \A i \in kept : rows'[i].commit = rows[i].commit
      BY <2>3
    <3>4. rows'[1].commit = rows[1].commit
      BY <2>3, <2>4
    <3> QED BY <2>2, <3>1, <3>2, <3>3, <3>4 DEF BestKept
  <2> QED BY <2>5, <2>6
<1>4. ASSUME ~Round, ~Seed
      PROVE  /\ state'.init = state.init /\ state'.prog.best = state.prog.best
             /\ state'.prog.seedOk = state.prog.seedOk /\ rows' = rows
  <2>1. CASE Advance BY <2>1, AdvanceWrites DEF Advance, SameProgress
  <2>3. CASE NewPlan BY <2>3, NewPlanWrites DEF NewPlan
  <2>4. CASE SettleItem BY <2>4 DEF SettleItem
  <2>5. CASE Forget BY <2>5, ForgetWrites DEF Forget, SameProgress
  <2>6. CASE ResetFailures \/ CountAttempt BY <2>6, CounterWrites DEF SameProgress
  <2>7. CASE CommitKernel BY <2>7 DEF CommitKernel
  <2> QED BY <1>4, <2>1, <2>3, <2>4, <2>5, <2>6, <2>7 DEF LNext
<1> QED BY <1>1, <1>2, <1>3, <1>4

\* The steps that move neither the rows, nor the plan, nor the next number.
LEMMA FrameSteps ==
  ASSUME LedgerType, Advance \/ Forget \/ ResetFailures \/ CountAttempt \/ CommitKernel
  PROVE  /\ plan' = plan /\ rows' = rows /\ state'.init = state.init
         /\ state'.prog.rounds = state.prog.rounds
         /\ state'.prog.seedOk = state.prog.seedOk
         /\ FirstPid(state'.prog, plan) = FirstPid(state.prog, plan)
<1>1. CASE Advance
  BY <1>1, AdvanceWrites, SameNextNumber DEF Advance, SameProgress
<1>2. CASE Forget
  BY <1>2, ForgetWrites, SameNextNumber DEF Forget, SameProgress
<1>3. CASE ResetFailures \/ CountAttempt
  BY <1>3, CounterWrites, SameNextNumber DEF SameProgress
<1>4. CASE CommitKernel
  BY <1>4 DEF CommitKernel
<1> QED BY <1>1, <1>2, <1>3, <1>4

\* No number comes back.
LEMMA NumbersStep == LedgerType /\ LedgerInv /\ LNext => NumbersUsed'
<1> SUFFICES ASSUME LedgerType, LedgerInv, LNext PROVE NumbersUsed'
  OBVIOUS
<1> DEFINE N  == FirstPid(state.prog, plan)
           N1 == FirstPid(state'.prog, plan')
<1>a. /\ plan.done <= plan.n /\ N > 0 /\ plan.first + plan.n <= N
      /\ plan.n > 0 => plan.first > 0 /\ PlanExists(plan)
      /\ \A i \in DOMAIN rows : rows[i].item < N
      /\ \A i \in DOMAIN plan.settled : plan.settled[i].item < plan.first + plan.done
  BY DEF LedgerInv, NumbersUsed
<1>b. /\ plan \in Plan /\ plan.first \in Nat /\ plan.n \in Nat /\ plan.done \in Nat
      /\ plan.v \in Nat /\ N \in Nat
      /\ \A i \in DOMAIN rows : rows[i].item \in Nat
      /\ \A i \in DOMAIN plan.settled : plan.settled[i].item \in Nat
  <2>1. N \in Nat
    BY NextNumber DEF LedgerType, State
  <2>3. rows \in Seq(HistRow) /\ plan.settled \in Seq(SettledRow)
    BY DEF LedgerType, Plan
  <2>2. \A i \in DOMAIN rows : rows[i].item \in Nat
    BY <2>3, ItemsAreNumbers
  <2>4. \A i \in DOMAIN plan.settled : plan.settled[i].item \in Nat
    BY <2>3, ItemsAreNumbers
  <2> QED BY <2>1, <2>2, <2>4 DEF LedgerType, Plan
<1>1. CASE Advance \/ Forget \/ ResetFailures \/ CountAttempt \/ CommitKernel
  BY <1>1, <1>a, FrameSteps DEF NumbersUsed
<1>2. CASE Seed
  <2>1. plan' = NoPlan /\ rows' = <<SeedRow(head)>> /\ state'.prog.nextPid = 0
    BY <1>2, SeedWrites
  <2>2. N1 = 1
    BY <2>1 DEF FirstPid, PlanExists, NoPlan
  <2>3. DOMAIN rows' = {1} /\ rows'[1].item = 0 /\ NoPlan.settled = <<>>
    BY <2>1 DEF SeedRow, NoPlan
  <2> QED BY <2>1, <2>2, <2>3 DEF NumbersUsed, NoPlan
<1>3. CASE NewPlan
  <2>1. PICK n \in PlanSizes :
          /\ n \in Nat /\ n >= 3
          /\ state'.prog.nextPid = N + n
          /\ plan'.v = plan.v + 1 /\ plan'.first = N
          /\ plan'.n = n /\ plan'.done = 0 /\ plan'.settled = plan.settled
    BY <1>3, NewPlanWrites
  <2>2. N1 = N + n /\ PlanExists(plan') /\ rows' = rows
    <3>1. N + n # 0 /\ plan.v + 1 # 0
      BY <1>a, <1>b, <2>1
    <3> QED BY <1>3, <2>1, <3>1 DEF FirstPid, PlanExists, NewPlan
  <2>3. \A i \in DOMAIN rows : rows[i].item < N + n
    BY <1>a, <1>b, <2>1
  <2>4. \A i \in DOMAIN plan.settled : plan.settled[i].item < N
    BY <1>a, <1>b
  <2>5. plan'.done <= plan'.n /\ N + n > 0 /\ plan'.first > 0 /\ plan'.first + plan'.n <= N + n
    BY <1>a, <1>b, <2>1
  <2>6. \A i \in DOMAIN plan'.settled : plan'.settled[i].item < plan'.first + plan'.done
    BY <1>b, <2>1, <2>4
  <2> QED BY <2>2, <2>3, <2>5, <2>6 DEF NumbersUsed
<1>4. CASE Round
  <2>1. PICK row \in HistRow : rows' = Append(rows, row) /\ row.item = ActiveItem(plan)
    BY <1>4, RoundWrites
  <2>2. HasPending(plan) /\ plan' = plan /\ state'.prog.nextPid = state.prog.nextPid
    BY <1>4, RoundWrites
  <2>3. N1 = N
    BY <2>2, SameNextNumber
  <2>4. row.item < N
    BY <1>a, <1>b, <2>1, <2>2 DEF ActiveItem, HasPending
  <2>5. /\ rows'[Len(rows')] = row
        /\ \A i \in DOMAIN rows : rows'[i] = rows[i]
        /\ \A i \in DOMAIN rows' : i \in DOMAIN rows \/ i = Len(rows')
    BY <2>1, AppendRows DEF LedgerType
  <2>6. \A i \in DOMAIN rows' : rows'[i].item < N
    BY <1>a, <2>4, <2>5
  <2> QED BY <1>a, <2>2, <2>3, <2>6 DEF NumbersUsed
<1>5. CASE SettleItem
  <2>1. /\ HasPending(plan) /\ state' = state /\ rows' = rows
        /\ plan'.v = plan.v /\ plan'.first = plan.first
        /\ plan'.n = plan.n /\ plan'.done = plan.done + 1
    BY <1>5, SettleItemWrites
  <2>2. PICK row \in SettledRow :
          row.item = ActiveItem(plan) /\ plan'.settled = Append(plan.settled, row)
    BY <1>5, SettleItemWrites
  <2>3. N1 = N
    BY <2>1 DEF FirstPid, PlanExists
  <2>4. row.item = plan.first + plan.done /\ plan.done < plan.n
    BY <2>1, <2>2 DEF ActiveItem, HasPending
  <2>5. plan.settled \in Seq(SettledRow)
    BY DEF LedgerType, Plan
  <2>6. \A i \in DOMAIN plan'.settled : \/ i \in DOMAIN plan.settled /\ plan'.settled[i] = plan.settled[i]
                                        \/ plan'.settled[i] = row
    BY <2>2, <2>5
  <2>7. \A i \in DOMAIN plan'.settled : plan'.settled[i].item < plan'.first + plan'.done
    BY <1>a, <1>b, <2>1, <2>4, <2>6
  <2>8. plan'.done <= plan'.n /\ (PlanExists(plan') <=> PlanExists(plan))
    BY <1>b, <2>1, <2>4 DEF PlanExists
  <2> QED BY <1>a, <2>1, <2>3, <2>7, <2>8 DEF NumbersUsed
<1> QED BY <1>1, <1>2, <1>3, <1>4, <1>5 DEF LNext

\* The table grows with what the rows already say.
LEMMA TableStep == LedgerType /\ LedgerInv /\ LNext => TableTrue'
<1> SUFFICES ASSUME LedgerType, LedgerInv, LNext PROVE TableTrue'
  OBVIOUS
<1>a. plan.settled \in Seq(SettledRow)
  BY DEF LedgerType, Plan
<1>1. CASE plan'.settled = plan.settled /\ rows' = rows
  BY <1>1 DEF LedgerInv, TableTrue
<1>2. CASE Seed
  <2>1. plan' = NoPlan
    BY <1>2, SeedWrites
  <2>2. DOMAIN plan'.settled = {}
    BY <2>1 DEF NoPlan
  <2> QED BY <2>2 DEF TableTrue
<1>3. CASE Round
  <2>1. plan' = plan /\ \E row \in HistRow : rows' = Append(rows, row)
    BY <1>3, RoundWrites
  <2>2. \A i \in DOMAIN rows : i \in DOMAIN rows' /\ rows'[i] = rows[i]
    BY <2>1, AppendRows DEF LedgerType
  <2> QED BY <2>1, <2>2 DEF LedgerInv, TableTrue
<1>4. CASE SettleItem
  <2>1. rows' = rows /\ rows # <<>> /\ HasPending(plan)
    BY <1>4, SettleItemWrites
  <2>2. PICK row \in SettledRow :
          /\ row.item = ActiveItem(plan) /\ row.item = rows[Len(rows)].item
          /\ row.decision = rows[Len(rows)].decision
          /\ plan'.settled = Append(plan.settled, row)
    BY <1>4, SettleItemWrites
  <2> DEFINE t == plan.settled
             u == plan'.settled
  <2>3. \A i \in DOMAIN u : \/ i \in DOMAIN t /\ u[i] = t[i]
                            \/ i = Len(t) + 1 /\ u[i] = row
    BY <1>a, <2>2
  <2>4. Len(rows) \in DOMAIN rows
    BY <2>1 DEF LedgerType
  <2>5. \A i \in DOMAIN u : \E j \in DOMAIN rows' :
          rows'[j].item = u[i].item /\ rows'[j].decision = u[i].decision
    <3> SUFFICES ASSUME NEW i \in DOMAIN u
                 PROVE  \E j \in DOMAIN rows : rows[j].item = u[i].item /\ rows[j].decision = u[i].decision
      BY <2>1
    <3>1. CASE i \in DOMAIN t /\ u[i] = t[i]
      BY <3>1 DEF LedgerInv, TableTrue
    <3>2. CASE u[i] = row
      BY <2>2, <2>4, <3>2
    <3> HIDE DEF u, t
    <3> QED BY <2>3, <3>1, <3>2
  <2>6. \A i \in DOMAIN t : t[i].item # row.item
    <3>1. row.item = plan.first + plan.done
      BY <2>1, <2>2 DEF ActiveItem
    <3>2. \A i \in DOMAIN t : t[i].item \in Nat /\ t[i].item < plan.first + plan.done
      BY <1>a, ItemsAreNumbers DEF LedgerInv, NumbersUsed, LedgerType
    <3>3. plan.first + plan.done \in Nat
      BY DEF LedgerType, Plan
    <3> HIDE DEF t
    <3> QED BY <3>1, <3>2, <3>3
  <2>7. \A i, j \in DOMAIN t : t[i].item = t[j].item => i = j
    BY DEF LedgerInv, TableTrue
  <2>8. \A i, j \in DOMAIN u : u[i].item = u[j].item => i = j
    <3> HIDE DEF u, t
    <3> QED BY <2>3, <2>6, <2>7
  <2> QED BY <2>5, <2>8 DEF TableTrue
<1>5. ASSUME ~Seed, ~Round, ~SettleItem PROVE plan'.settled = plan.settled /\ rows' = rows
  <2>1. CASE NewPlan
    BY <2>1, NewPlanWrites DEF NewPlan
  <2> QED BY <1>5, <2>1, FrameSteps DEF LNext
<1> QED BY <1>1, <1>2, <1>3, <1>4, <1>5

\* A phase keeps its meaning.
LEMMA PhaseFitsStep == LedgerType /\ LedgerInv /\ LNext => PhaseFits'
<1> SUFFICES ASSUME LedgerType, LedgerInv, LNext PROVE PhaseFits'
  OBVIOUS
<1>a. PhaseFits
  BY DEF LedgerInv
<1>b. state.prog.rounds \in Nat /\ MaxRounds \in Nat
  BY RecordAssumption DEF RecordAssumption, LedgerType, State, Progress
<1>1. CASE Advance
  <2>1. PICK m \in Moves : state.phase = m[1] /\ state'.phase = m[2]
    BY <1>1, AdvanceWrites
  <2>2. /\ state'.phase \in {"NONE", "INIT", "BASELINE"}
              => state.phase \in {"NONE", "INIT", "BASELINE"}
    BY <2>1 DEF Moves
  <2>3. /\ plan' = plan /\ state'.pending = state.pending /\ state'.init = state.init
        /\ state'.prog = state.prog /\ state'.phase \in Phases
    BY <1>1, AdvanceWrites, FrameSteps DEF Advance
  <2>4. /\ state'.phase = "FINISH" <=> state.prog.rounds >= MaxRounds
        /\ state'.phase = "EDIT" => HasPending(plan)
        /\ state'.phase = "PLAN" => ~PlanExists(plan) \/ ~state.prog.seedOk
        /\ state'.phase \in Phases \ {"NONE", "INIT", "BASELINE"} => state.init
    BY <1>1 DEF Advance
  <2>5. state'.phase # "FINISH" => state.prog.rounds < MaxRounds
    BY <1>b, <2>4
  <2> QED BY <1>a, <2>2, <2>3, <2>4, <2>5 DEF PhaseFits
<1>2. CASE Seed
  <2>1. /\ plan' = NoPlan /\ plan = NoPlan /\ state'.init /\ state'.phase = state.phase
        /\ state'.prog.rounds = 0 /\ ~state.init
    BY <1>2, SeedWrites DEF Seed
  <2>2. ~PlanExists(plan') /\ state'.phase # "EDIT"
    BY <1>a, <2>1 DEF PlanExists, NoPlan, PhaseFits
  <2>3. 0 < MaxRounds
    BY RecordAssumption DEF RecordAssumption
  <2> QED BY <2>1, <2>2, <2>3 DEF PhaseFits
<1>3. CASE NewPlan
  <2>1. /\ state'.init = state.init /\ state'.phase = state.phase /\ state.init
        /\ state'.prog.rounds = state.prog.rounds
        /\ state.phase \in {"PLAN", "DIAGNOSE", "REPLAN", "EDIT"}
        /\ HasPending(plan')
    <3>1. state.init /\ state.phase \in {"PLAN", "DIAGNOSE", "REPLAN", "EDIT"}
      BY <1>3 DEF NewPlan
    <3>2. /\ state'.init = state.init /\ state'.phase = state.phase
          /\ state'.prog.rounds = state.prog.rounds
      BY <1>3, NewPlanWrites
    <3>3. HasPending(plan')
      BY <1>3, NewPlanWrites DEF HasPending
    <3> QED BY <3>1, <3>2, <3>3
  <2> QED BY <1>a, <2>1 DEF PhaseFits
<1>4. CASE Round
  <2>1. state'.phase = "EDIT" /\ state'.init /\ state'.pending # NoKd
    BY <1>4, RoundWrites, DebtIsNotNone
  <2> QED BY <2>1 DEF PhaseFits
<1>5. CASE SettleItem
  <2>1. state' = state /\ state.phase = "EDIT" /\ state.pending # NoKd
    BY <1>5, SettleItemWrites
  <2> QED BY <1>a, <2>1 DEF PhaseFits
<1>6. CASE Forget
  <2>1. /\ plan' = plan /\ state'.init = state.init /\ state'.phase = state.phase
        /\ state'.prog = state.prog /\ (state.phase = "EDIT" => HasPending(plan))
    BY <1>6, ForgetWrites, FrameSteps DEF Forget
  <2> QED BY <1>a, <2>1 DEF PhaseFits
<1>7. CASE ResetFailures \/ CountAttempt \/ CommitKernel
  <2>1. /\ plan' = plan /\ state'.init = state.init
        /\ state'.prog.rounds = state.prog.rounds
        /\ state'.prog.seedOk = state.prog.seedOk
    BY <1>7, FrameSteps
  <2>2. state'.phase = state.phase /\ state'.pending = state.pending
    BY <1>7, CounterWrites DEF CommitKernel
  <2> QED BY <1>a, <2>1, <2>2 DEF PhaseFits
<1> QED BY <1>1, <1>2, <1>3, <1>4, <1>5, <1>6, <1>7 DEF LNext

\* Nothing happens before the baseline, and the baseline is a row.
LEMMA NothingStep == LedgerType /\ LedgerInv /\ LNext => NothingYet'
<1> SUFFICES ASSUME LedgerType, LedgerInv, LNext PROVE NothingYet'
  OBVIOUS
<1>a. NothingYet /\ PhaseFits
  BY DEF LedgerInv
<1>1. CASE Advance
  <2>1. /\ plan' = plan /\ rows' = rows /\ state'.init = state.init
        /\ state'.prog = state.prog /\ state'.pending = state.pending
        /\ state'.expRound = state.expRound
    BY <1>1, AdvanceWrites, FrameSteps DEF SameProgress
  <2> QED BY <1>a, <2>1 DEF NothingYet
<1>2. CASE Seed
  <2>1. state'.init /\ rows' = <<SeedRow(head)>>
    BY <1>2, SeedWrites
  <2>2. rows' # <<>>
    BY <2>1
  <2> QED BY <2>1, <2>2 DEF NothingYet
<1>3. CASE NewPlan
  <2>1. state.init /\ state'.init = state.init /\ rows' = rows
    BY <1>3, NewPlanWrites DEF NewPlan
  <2> QED BY <1>a, <2>1 DEF NothingYet
<1>4. CASE Round
  <2>1. state'.init /\ \E row \in HistRow : rows' = Append(rows, row)
    BY <1>4, RoundWrites
  <2>2. rows' # <<>>
    BY <2>1, AppendRows DEF LedgerType
  <2> QED BY <2>1, <2>2 DEF NothingYet
<1>5. CASE SettleItem
  <2>1. state' = state /\ rows' = rows /\ state.phase = "EDIT"
    BY <1>5, SettleItemWrites
  <2> QED BY <1>a, <2>1 DEF NothingYet, PhaseFits
<1>6. CASE Forget
  <2>1. state.pending # NoKd /\ rows' = rows /\ state'.init = state.init
    BY <1>6, FrameSteps DEF Forget
  <2> QED BY <1>a, <2>1 DEF NothingYet
<1>7. CASE ResetFailures \/ CountAttempt
  <2>1. state.phase = "DIAGNOSE" /\ rows' = rows /\ state'.init = state.init
    BY <1>7, CounterWrites, FrameSteps
  <2> QED BY <1>a, <2>1 DEF NothingYet, PhaseFits
<1>8. CASE CommitKernel
  BY <1>8, <1>a DEF CommitKernel, NothingYet
<1> QED BY <1>1, <1>2, <1>3, <1>4, <1>5, <1>6, <1>7, <1>8 DEF LNext

-----------------------------------------------------------------------------
(* The theorem *)

LEMMA LedgerStep == LedgerType /\ LedgerInv /\ [LNext]_lvars => (LedgerType /\ LedgerInv)'
<1> SUFFICES ASSUME LedgerType, LedgerInv, [LNext]_lvars PROVE (LedgerType /\ LedgerInv)'
  OBVIOUS
<1>1. CASE LNext
  <2>1. LedgerType'
    BY <1>1, TypeStep
  <2>2. LedgerInv'
    BY <1>1, OwesStep, BestStep, NumbersStep, TableStep, PhaseFitsStep, NothingStep
       DEF LedgerInv
  <2> QED BY <2>1, <2>2
<1>2. CASE UNCHANGED lvars
  BY <1>2 DEF lvars, LedgerType, LedgerInv, OwesLastRow, BestKept, NumbersUsed, TableTrue,
              PhaseFits, NothingYet
<1> QED BY <1>1, <1>2

LEMMA LedgerStart == LInit => LedgerType /\ LedgerInv
<1> SUFFICES ASSUME LInit PROVE LedgerType /\ LedgerInv
  OBVIOUS
<1>1. LedgerType
  BY NoProgressType DEF LInit, LedgerType, FreshState, State, Phases, NoPlan, Plan, SettledRow
<1>2. /\ state.phase = "NONE" /\ ~state.init /\ state.prog = NoProgress /\ state.pending = NoKd
      /\ state.expRound = 0 /\ plan = NoPlan /\ rows = <<>>
  BY DEF LInit, FreshState
<1>3. OwesLastRow /\ BestKept /\ NothingYet
  BY <1>2 DEF OwesLastRow, BestKept, NothingYet
<1>4. NumbersUsed /\ TableTrue
  BY <1>2 DEF NumbersUsed, TableTrue, NoPlan, NoProgress, FirstPid, PlanExists
<1>5. PhaseFits
  BY <1>2, RecordAssumption DEF PhaseFits, NoPlan, NoProgress, PlanExists, RecordAssumption
<1> QED BY <1>1, <1>3, <1>4, <1>5 DEF LedgerInv

\* Every ledger keeps what is owed, what is best, which numbers are used up and
\* what its table and its phases say.
THEOREM LedgerCorrect == LSpec => [](LedgerType /\ LedgerInv)
BY LedgerStart, LedgerStep, PTL DEF LSpec
=============================================================================
