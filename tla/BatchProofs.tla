---------------------------- MODULE BatchProofs -----------------------------
(***************************************************************************)
(* What the lock of a batch directory guarantees; and, as long as it       *)
(* excludes two runners, that a case is done only by a finished task of    *)
(* its own operator and that no operator has two sessions but for those    *)
(* that were lost: for every set of runners and operators, every number of *)
(* launches, kills and interrupts.                                         *)
(*                                                                         *)
(* []LockExclusive is a hypothesis of the last two: acquire_lock does not  *)
(* establish it (the run Claim_lock), only keep it (LockExcludes).         *)
(*                                                                         *)
(* The argument.  A holder's file names the holder, so that whoever finds  *)
(* it reads a live pid and leaves.  While only one runner runs main, what  *)
(* it has in hand is what batch_progress.json says (RunFits).  A session   *)
(* that is up is either the one this runner watches, or its case is        *)
(* recorded as running with the session's own directory, which its         *)
(* heartbeat protects from being demoted (InFlight), or it is lost.        *)
(***************************************************************************)
EXTENDS BatchSafety, FiniteSetTheorems, TLAPS

USE DEF Go, Acquiring

-----------------------------------------------------------------------------
(* The lock *)

\* A file is there, and it is its maker's.
LEMMA Files ==
  ASSUME NEW r \in Runners, NEW p \in Runners \cup {None}
  PROVE  File(r, p) # None /\ File(r, p).maker = r /\ File(r, p).pid = p
<1>1. File(r, p) \in [maker : Runners, pid : Runners \cup {None}]
  BY DEF File
<1> QED BY <1>1, LockAssumption DEF LockAssumption, File

\* The steps of runners that touch the lock or their place.
LEMMA LockSteps ==
  ASSUME [Next]_vars
  PROVE  \/ UNCHANGED lockVars
         \/ \E r \in Runners : Start(r) \/ Acquire(r) \/ ReleaseLock(r) \/ Die(r)
<1>1. CASE Locking
  BY <1>1 DEF Locking
<1>2. CASE \E r \in Runners : Leave(r) \/ WaitExpires(r) \/ Killed(r)
  BY <1>2 DEF Leave, WaitExpires, Killed
<1>3. CASE \E r \in Runners : Recover(r) \/ Begin(r) \/ Launch(r) \/ EndOfOutput(r) \/ Settle(r)
  BY <1>3 DEF Recover, Begin, Launch, EndOfOutput, Settle
<1>4. CASE \E r \in Runners : Bind(r) \/ Timeout(r) \/ Interrupt(r) \/ InterruptOutside(r)
  BY <1>4 DEF Bind, Timeout, Interrupt, InterruptOutside
<1>5. CASE \E i \in Ids : Session(i) \/ SessionEnds(i) \/ GoesStale(i)
  BY <1>5 DEF Session, SessionEnds, GoesStale
<1>6. CASE Over \/ UNCHANGED vars
  BY <1>6 DEF Over, vars
<1> QED BY <1>1, <1>2, <1>3, <1>4, <1>5, <1>6 DEF Next, Work

LEMMA LockTyped ==
  ASSUME LockType, [Next]_vars
  PROVE  LockType'
<1> USE DEF LockType
<1>1. CASE UNCHANGED lockVars
  BY <1>1 DEF lockVars
<1>2. CASE \E r \in Runners : Start(r) \/ Acquire(r) \/ ReleaseLock(r) \/ Die(r)
  <2>1. PICK r \in Runners : Start(r) \/ Acquire(r) \/ ReleaseLock(r) \/ Die(r)
    BY <1>2
  <2>2. \E p \in {"off", "out", "dead", "holding"} \cup Acquiring : at' = [at EXCEPT ![r] = p]
    BY <2>1 DEF Start, Acquire, Create, WritePid, Read, Unlink, ReleaseLock, Die
  <2> QED BY <2>2
<1> QED BY <1>1, <1>2, LockSteps

\* Another runner's step leaves the file of a secure holder alone.
LEMMA SecureStays ==
  ASSUME LockType, NEW q \in Runners, Secure(q), [Next]_vars, at'[q] = "holding"
  PROVE  Secure(q)'
<1> USE DEF LockType
<1>1. CASE UNCHANGED lockVars
  BY <1>1 DEF lockVars, Secure
<1>2. CASE \E r \in Runners : Start(r) \/ Acquire(r) \/ ReleaseLock(r) \/ Die(r)
  <2>1. PICK r \in Runners : Start(r) \/ Acquire(r) \/ ReleaseLock(r) \/ Die(r)
    BY <1>2
  <2>2. /\ at[q] = "holding" /\ lock = File(q, q) /\ lock # None /\ lock.pid = q
        /\ \A p \in Runners \ {q} : at[p] \notin {"wrote", "holding", "unlink"}
    BY Files DEF Secure
  <2>3. LivePid
    BY <2>2, LockAssumption DEF LockAssumption, LivePid, Alive
  <2>4. CASE r = q
    <3>1. Die(q) \/ ReleaseLock(q) => at'[q] # "holding"
      BY DEF Die, ReleaseLock
    <3>2. ~(Start(q) \/ Acquire(q))
      BY <2>2 DEF Start, Acquire, Create, WritePid, Read, Unlink
    <3> QED BY <2>1, <2>4, <3>1, <3>2
  <2>5. CASE r # q
    <3>1. at[r] \notin {"wrote", "holding", "unlink"}
      BY <2>2, <2>5
    <3>2. /\ lock' = lock
          /\ \E p \in {"create", "read", "out", "dead"} : at' = [at EXCEPT ![r] = p]
      BY <2>1, <2>2, <2>3, <3>1
      DEF Start, Acquire, Create, WritePid, Read, Unlink, ReleaseLock, Die
    <3> QED BY <2>2, <2>5, <3>2 DEF Secure
  <2> QED BY <2>4, <2>5
<1> QED BY <1>1, <1>2, LockSteps

\* Two runners never drive one batch directory once the first is secure in its
\* lock, however many others are inside acquire_lock, then or later.
THEOREM LockExcludes == Spec => LockHolds
<1>1. Init => LockType
  BY DEF Init, LockInit, LockType
<1>2. LockType /\ [Next]_vars
        => [\A q \in Runners : Secure(q) /\ at'[q] = "holding" => Secure(q)']_lockVars
  BY SecureStays
<1> QED BY <1>1, <1>2, LockTyped, PTL DEF Spec, LockHolds

\* What is asked of the lock in the rest.
LockInv == LockType /\ LockExclusive

-----------------------------------------------------------------------------
(* Types *)

LEMMA RunTyped ==
  ASSUME BatchType, NEW r \in Runners, NEW x \in RunRec, run' = [run EXCEPT ![r] = x]
  PROVE  run' \in [Runners -> RunRec] /\ run'[r] = x /\ \A q \in Runners \ {r} : run'[q] = run[q]
BY DEF BatchType

LEMMA CaseTyped ==
  ASSUME BatchType, NEW op \in Ops, NEW x \in CaseRec, cases' = [cases EXCEPT ![op] = x]
  PROVE  /\ cases' \in [Ops -> CaseRec] /\ cases'[op] = x
         /\ \A o \in Ops \ {op} : cases'[o] = cases[o]
BY DEF BatchType

LEMMA AgentTyped ==
  ASSUME BatchType, NEW i \in Ids, NEW x \in AgentRec, agent' = [agent EXCEPT ![i] = x]
  PROVE  /\ agent' \in [Ids -> AgentRec] /\ agent'[i] = x
         /\ \A j \in Ids \ {i} : agent'[j] = agent[j]
BY DEF BatchType

\* A runner that has nothing in hand any more.
LEMMA NoRunTyped ==
  /\ NoRun \in RunRec
  /\ \A p \in {"off", "next", "end"}, q \in SUBSET Ops, d \in Ids \cup {0} :
       /\ [NoRun EXCEPT !.pc = p, !.queue = q, !.prev = d] \in RunRec
       /\ [NoRun EXCEPT !.pc = p, !.queue = q] \in RunRec
       /\ [NoRun EXCEPT !.pc = p] \in RunRec
BY DEF NoRun, RunRec

\* No session is ever resumed: the guard asks for a key that read_task_state
\* does not return.
LEMMA NeverResumes == ASSUME NEW r, NEW i, NEW ok PROVE ~Resumes(r, i, ok)
BY DEF Resumes, ResultKeys

\* What Onward leaves in hand.
LEMMA OnwardWrites ==
  ASSUME BatchType, NEW r \in Runners, NEW d \in Ids \cup {0}, Onward(r, d)
  PROVE  \E x \in RunRec :
           /\ run' = [run EXCEPT ![r] = x]
           /\ x.pc \in {"next", "end"} /\ x.dir = 0
           /\ x.prev = IF d # 0 THEN d ELSE run[r].prev
<1> DEFINE rest == run[r].queue \ {run[r].op}
           p == IF rest = {} \/ run[r].interrupted THEN "end" ELSE "next"
           q == IF run[r].interrupted THEN {} ELSE rest
           v == IF d # 0 THEN d ELSE run[r].prev
           x == [NoRun EXCEPT !.pc = p, !.queue = q, !.prev = v]
<1>1. run[r] \in RunRec
  BY DEF BatchType
<1>2. p \in {"next", "end"} /\ q \in SUBSET Ops /\ v \in Ids \cup {0}
  BY <1>1 DEF RunRec
<1>3. run' = [run EXCEPT ![r] = x]
  BY DEF Onward
<1> HIDE DEF p, q, v
<1>4. x \in RunRec
  BY <1>2, NoRunTyped
<1>5. x.pc = p /\ x.dir = 0 /\ x.prev = v
  BY DEF NoRun
<1> HIDE DEF x
<1> QED BY <1>2, <1>3, <1>4, <1>5 DEF v

\* What each step of a runner writes, as records.
LEMMA RecoverWrites ==
  ASSUME BatchType, NEW r \in Runners, Recover(r)
  PROVE  /\ at[r] = "holding" /\ run[r].pc = "off" /\ UNCHANGED <<lockVars, agent>>
         /\ cases' \in [Ops -> CaseRec]
         /\ \E x \in RunRec : /\ run' = [run EXCEPT ![r] = x]
                              /\ x.pc \in {"next", "end"} /\ x.dir = 0 /\ x.prev = 0
         /\ \E manifest \in Manifests :
              /\ cases' = Merged(manifest)
              /\ \A i \in Ids : agent[i].life = "up" => agent[i].op \in manifest \/ i \in lost'
<1>1. PICK manifest \in Manifests :
        /\ \A i \in Ids : agent[i].life = "up" => agent[i].op \in manifest \/ i \in lost'
        /\ cases' = Merged(manifest)
        /\ \E queue \in SUBSET {op \in Ops : Wanted(cases'[op])} :
             run' = [run EXCEPT ![r] = [NoRun EXCEPT
                       !.pc = IF queue = {} THEN "end" ELSE "next", !.queue = queue]]
  BY DEF Recover
<1>2. cases' \in [Ops -> CaseRec]
  <2>1. ASSUME NEW op \in Ops PROVE cases[op] \in CaseRec
    BY DEF BatchType
  <2>2. ASSUME NEW op \in Ops
        PROVE  [cases[op] EXCEPT !.status = "error"] \in CaseRec
    BY <2>1 DEF CaseRec
  <2>3. Case("absent", None, 0) \in CaseRec /\ Case("pending", None, 0) \in CaseRec
    BY DEF Case, CaseRec
  <2> QED BY <1>1, <2>1, <2>2, <2>3 DEF Merged
<1>3. PICK queue \in SUBSET {op \in Ops : Wanted(cases'[op])} :
        run' = [run EXCEPT ![r] = [NoRun EXCEPT
                  !.pc = IF queue = {} THEN "end" ELSE "next", !.queue = queue]]
  BY <1>1
<1> DEFINE p == IF queue = {} THEN "end" ELSE "next"
           x == [NoRun EXCEPT !.pc = p, !.queue = queue]
<1>5. p \in {"next", "end"} /\ queue \in SUBSET Ops
  OBVIOUS
<1>6. run' = [run EXCEPT ![r] = x]
  BY <1>3
<1> HIDE DEF p
<1>7. x \in RunRec
  BY <1>5, NoRunTyped
<1>8. x.pc = p /\ x.dir = 0 /\ x.prev = 0
  BY DEF NoRun
<1> HIDE DEF x
<1>9. /\ at[r] = "holding" /\ run[r].pc = "off" /\ UNCHANGED <<lockVars, agent>>
  BY DEF Recover
<1> QED BY <1>1, <1>2, <1>5, <1>6, <1>7, <1>8, <1>9

LEMMA BeginWrites ==
  ASSUME BatchType, NEW r \in Runners, Begin(r)
  PROVE  /\ at[r] = "holding" /\ run[r].pc = "next" /\ UNCHANGED <<lockVars, agent>>
         /\ \E op \in Ops, x \in RunRec :
              /\ run' = [run EXCEPT ![r] = x] /\ x.prev = run[r].prev /\ x.dir = run[r].dir
              /\ \/ /\ x.pc = "launch" /\ x.op = op /\ Wanted(cases[op])
                    /\ Case("running", r, 0) \in CaseRec
                    /\ cases' = [cases EXCEPT ![op] = Case("running", r, 0)]
                 \/ x.pc = "next" /\ cases' = cases
<1>1. run[r] \in RunRec
  BY DEF BatchType
<1>2. /\ at[r] = "holding" /\ run[r].pc = "next" /\ UNCHANGED <<lockVars, agent>>
  BY DEF Begin
<1>3. PICK op \in run[r].queue :
       IF Wanted(cases[op])
         THEN /\ cases' = [cases EXCEPT ![op] = Case("running", r, 0)]
              /\ run' = [run EXCEPT ![r].pc = "launch", ![r].op = op]
         ELSE /\ run' = [run EXCEPT ![r].queue = @ \ {op}]
              /\ UNCHANGED cases
  BY DEF Begin
<1>4. op \in Ops
  BY <1>1 DEF RunRec
<1>5. CASE Wanted(cases[op])
  <2> DEFINE x == [run[r] EXCEPT !.pc = "launch", !.op = op]
  <2>1. run' = [run EXCEPT ![r] = x]
    BY <1>3, <1>5 DEF BatchType
  <2>2. x \in RunRec /\ x.prev = run[r].prev /\ x.dir = run[r].dir /\ x.pc = "launch" /\ x.op = op
    BY <1>1, <1>4 DEF RunRec
  <2>3. Case("running", r, 0) \in CaseRec
    BY DEF Case, CaseRec
  <2> HIDE DEF x
  <2> QED BY <1>2, <1>3, <1>4, <1>5, <2>1, <2>2, <2>3
<1>6. CASE ~Wanted(cases[op])
  <2> DEFINE x == [run[r] EXCEPT !.queue = @ \ {op}]
  <2>1. run' = [run EXCEPT ![r] = x]
    BY <1>3, <1>6 DEF BatchType
  <2>2. x \in RunRec /\ x.prev = run[r].prev /\ x.dir = run[r].dir /\ x.pc = "next"
    BY <1>1, <1>2 DEF RunRec
  <2> HIDE DEF x
  <2> QED BY <1>2, <1>3, <1>4, <1>6, <2>1, <2>2
<1> QED BY <1>5, <1>6

LEMMA LaunchWrites ==
  ASSUME BatchType, NEW r \in Runners, Launch(r)
  PROVE  /\ at[r] = "holding" /\ run[r].pc = "launch" /\ UNCHANGED <<lockVars, cases>>
         /\ agent' \in [Ids -> AgentRec]
         /\ \E i \in Ids, x \in RunRec :
              /\ agent[i].life = "none"
              /\ agent'[i].op = run[r].op /\ agent'[i].life = "up" /\ ~agent'[i].dir
              /\ \A j \in Ids \ {i} :
                   /\ agent'[j].op = agent[j].op /\ agent'[j].life = agent[j].life
                   /\ agent'[j].dir = agent[j].dir /\ agent'[j].phase = agent[j].phase
                   /\ j # run[r].prev => agent'[j] = agent[j]
              /\ run' = [run EXCEPT ![r] = x]
              /\ x.pc = "watch" /\ x.launch = i /\ x.op = run[r].op
              /\ x.dir = run[r].dir /\ x.prev = run[r].prev
<1> DEFINE p == run[r].prev
           freed == IF p # 0 /\ agent[p].owned
                      THEN [agent EXCEPT ![p].owned = FALSE, ![p].fresh = TRUE]
                      ELSE agent
           Made(chatty) == [NoAgent EXCEPT !.op = run[r].op, !.life = "up", !.chatty = chatty]
<1>1. run[r] \in RunRec /\ agent \in [Ids -> AgentRec]
  BY DEF BatchType
<1>2. p \in Ids \cup {0} /\ run[r].op \in Ops \cup {None}
  BY <1>1 DEF RunRec
<1>3. PICK i \in Ids, chatty \in BOOLEAN :
        /\ agent[i].life = "none"
        /\ agent' = [freed EXCEPT ![i] = Made(chatty)]
        /\ run' = [run EXCEPT ![r].pc = "watch", ![r].launch = i, ![r].pre = Dirs]
  BY DEF Launch
<1>4. /\ freed \in [Ids -> AgentRec]
      /\ \A j \in Ids :
           /\ freed[j].op = agent[j].op /\ freed[j].life = agent[j].life
           /\ freed[j].dir = agent[j].dir /\ freed[j].phase = agent[j].phase
           /\ j # p => freed[j] = agent[j]
  <2>1. CASE p # 0 /\ agent[p].owned
    <3> DEFINE y == [agent[p] EXCEPT !.owned = FALSE, !.fresh = TRUE]
    <3>1. p \in Ids
      BY <1>2, <2>1
    <3>2. freed = [agent EXCEPT ![p] = y]
      BY <1>1, <2>1, <3>1
    <3>3. /\ y \in AgentRec /\ y.op = agent[p].op /\ y.life = agent[p].life
          /\ y.dir = agent[p].dir /\ y.phase = agent[p].phase
      <4>1. agent[p] \in AgentRec
        BY <1>1, <3>1
      <4> HIDE DEF p
      <4> QED BY <4>1 DEF AgentRec
    <3> HIDE DEF y, freed, p
    <3> QED BY <1>1, <3>1, <3>2, <3>3
  <2>2. CASE ~(p # 0 /\ agent[p].owned)
    BY <1>1, <2>2
  <2> QED BY <2>1, <2>2
<1>5. Made(chatty) \in AgentRec /\ Made(chatty).op = run[r].op
        /\ Made(chatty).life = "up" /\ ~Made(chatty).dir
  BY <1>2 DEF NoAgent, AgentRec
<1> DEFINE m == Made(chatty)
           x == [run[r] EXCEPT !.pc = "watch", !.launch = i, !.pre = Dirs]
<1>6. run' = [run EXCEPT ![r] = x]
  BY <1>3 DEF BatchType
<1>7. /\ x \in RunRec /\ x.pc = "watch" /\ x.launch = i /\ x.op = run[r].op
      /\ x.dir = run[r].dir /\ x.prev = run[r].prev
  <2>1. Dirs \in SUBSET Ids
    BY DEF Dirs
  <2> QED BY <1>1, <2>1 DEF RunRec
<1>8. /\ at[r] = "holding" /\ run[r].pc = "launch" /\ UNCHANGED <<lockVars, cases>>
  BY DEF Launch
<1>9. agent' = [freed EXCEPT ![i] = m] /\ agent[i].life = "none"
  BY <1>3
<1>10. m \in AgentRec /\ m.op = run[r].op /\ m.life = "up" /\ ~m.dir
  BY <1>5
<1> HIDE DEF freed, m, x, Made, p
<1>11. agent' \in [Ids -> AgentRec] /\ agent'[i] = m /\ \A j \in Ids \ {i} : agent'[j] = freed[j]
  BY <1>4, <1>9, <1>10
<1>12. /\ agent'[i].op = run[r].op /\ agent'[i].life = "up" /\ ~agent'[i].dir
       /\ \A j \in Ids \ {i} :
            /\ agent'[j].op = agent[j].op /\ agent'[j].life = agent[j].life
            /\ agent'[j].dir = agent[j].dir /\ agent'[j].phase = agent[j].phase
            /\ j # run[r].prev => agent'[j] = agent[j]
  BY <1>4, <1>10, <1>11 DEF p
<1> QED BY <1>6, <1>7, <1>8, <1>9, <1>11, <1>12

\* The end of a session from the outside.
LEMMA KillWrites ==
  ASSUME BatchType, NEW i \in Ids, Kill(i)
  PROVE  \E y \in AgentRec :
           /\ agent' = [agent EXCEPT ![i] = y] /\ y.life = "gone" /\ y.op = agent[i].op
           /\ y.dir = agent[i].dir /\ y.phase = agent[i].phase
<1> DEFINE y == [agent[i] EXCEPT !.life = "gone", !.rc = IF @ = "none" THEN "error" ELSE @]
<1>1. agent[i] \in AgentRec
  BY DEF BatchType
<1>2. /\ y \in AgentRec /\ y.life = "gone" /\ y.op = agent[i].op
      /\ y.dir = agent[i].dir /\ y.phase = agent[i].phase
  BY <1>1 DEF AgentRec
<1>3. agent' = [agent EXCEPT ![i] = y]
  BY DEF Kill, BatchType
<1> HIDE DEF y
<1> QED BY <1>2, <1>3

\* What the steps of a session write.
LEMMA SessionWrites ==
  ASSUME BatchType, NEW i \in Ids, Session(i) \/ SessionEnds(i) \/ GoesStale(i)
  PROVE  /\ UNCHANGED <<lockVars, cases, run>>
         /\ \E y \in AgentRec :
              /\ agent' = [agent EXCEPT ![i] = y] /\ y.op = agent[i].op
              /\ agent[i].life = "none" => y.life = "none" /\ y.dir = agent[i].dir
              /\ agent[i].life = "gone" => y.life = "gone"
              /\ agent[i].life = "up" => y.life # "none"
              /\ agent[i].phase = "FINISH" => y.phase = "FINISH"
              /\ y.life = "up" /\ agent[i].owned /\ agent[i].fresh
                   => (y.owned /\ y.fresh) \/ Watched(i) \/ i \in lost'
<1>1. agent[i] \in AgentRec
  BY DEF BatchType
<1>2. CASE Session(i)
  <2> DEFINE a == agent[i]
             y == CASE ~a.dir -> [a EXCEPT !.dir = TRUE]
                    [] a.dir /\ ~a.owned -> [a EXCEPT !.owned = TRUE, !.fresh = TRUE]
                    [] OTHER -> [a EXCEPT !.fresh = TRUE,
                                   !.phase = IF a.phase = "UNKNOWN" THEN "PLAN" ELSE "FINISH"]
  <2>1. agent' = [agent EXCEPT ![i] = y] /\ agent[i].life = "up"
    BY <1>2 DEF Session, BatchType
  <2>2. /\ y \in AgentRec /\ y.op = agent[i].op /\ y.life = agent[i].life
        /\ agent[i].phase = "FINISH" => y.phase = "FINISH"
        /\ agent[i].owned /\ agent[i].fresh => y.owned /\ y.fresh
    <3>1. CASE ~a.dir
      <4>1. y = [a EXCEPT !.dir = TRUE]
        BY <3>1
      <4> HIDE DEF y
      <4> QED BY <1>1, <4>1 DEF AgentRec
    <3>2. CASE a.dir /\ ~a.owned
      <4>1. y = [a EXCEPT !.owned = TRUE, !.fresh = TRUE]
        BY <3>2
      <4> HIDE DEF y
      <4> QED BY <1>1, <4>1, <3>2 DEF AgentRec
    <3>3. CASE a.dir /\ a.owned
      <4>1. y = [a EXCEPT !.fresh = TRUE,
                          !.phase = IF a.phase = "UNKNOWN" THEN "PLAN" ELSE "FINISH"]
        BY <3>3
      <4> HIDE DEF y
      <4> QED BY <1>1, <4>1 DEF AgentRec
    <3> QED BY <3>1, <3>2, <3>3
  <2> HIDE DEF y
  <2> QED BY <1>2, <2>1, <2>2 DEF Session
<1>3. CASE SessionEnds(i)
  <2>1. PICK rc \in {"zero", "error"} :
          agent' = [agent EXCEPT ![i].life = "gone", ![i].rc = rc]
    BY <1>3 DEF SessionEnds
  <2> DEFINE y == [agent[i] EXCEPT !.life = "gone", !.rc = rc]
  <2>2. agent' = [agent EXCEPT ![i] = y] /\ agent[i].life = "up"
    <3>1. agent[i].life = "up"
      BY <1>3 DEF SessionEnds
    <3>2. agent' = [agent EXCEPT ![i] = y]
      BY <2>1 DEF BatchType
    <3> QED BY <3>1, <3>2
  <2>3. /\ y \in AgentRec /\ y.op = agent[i].op /\ y.life = "gone"
        /\ y.phase = agent[i].phase
    BY <1>1 DEF AgentRec
  <2> HIDE DEF y
  <2> QED BY <1>3, <2>2, <2>3 DEF SessionEnds
<1>4. CASE GoesStale(i)
  <2> DEFINE y == [agent[i] EXCEPT !.fresh = FALSE]
  <2>1. agent' = [agent EXCEPT ![i] = y]
    BY <1>4 DEF GoesStale, BatchType
  <2>2. /\ y \in AgentRec /\ y.op = agent[i].op /\ y.life = agent[i].life
        /\ y.phase = agent[i].phase /\ y.dir = agent[i].dir
    BY <1>1 DEF AgentRec
  <2>3. agent[i].life = "up" => Watched(i) \/ i \in lost'
    BY <1>4 DEF GoesStale
  <2> HIDE DEF y
  <2> QED BY <1>4, <2>1, <2>2, <2>3 DEF GoesStale
<1> QED BY <1>2, <1>3, <1>4

-----------------------------------------------------------------------------
(* What a runner has in hand *)

\* Only one runner is past acquire_lock.
LEMMA RunnersApart ==
  ASSUME LockInv, RunFits, NEW r \in Runners, at[r] = "holding"
  PROVE  \A q \in Runners \ {r} : run[q].pc = "off" /\ at[q] # "holding"
<1> SUFFICES ASSUME NEW q \in Runners, q # r PROVE run[q].pc = "off" /\ at[q] # "holding"
  OBVIOUS
<1>1. at[q] # "holding"
  <2>1. ASSUME at[q] = "holding" PROVE FALSE
    <3> QED BY <2>1 DEF LockInv, LockExclusive
  <2> QED BY <2>1
<1> QED BY <1>1 DEF RunFits, Fits

\* A step of the holder owes only what it has in hand itself.
LEMMA FitsAlone ==
  ASSUME LockInv, RunFits, NEW r \in Runners, at[r] = "holding",
         \A q \in Runners \ {r} : run'[q] = run[q], Fits(r)'
  PROVE  RunFits'
<1>1. ASSUME NEW q \in Runners, q # r PROVE Fits(q)'
  <2>1. run'[q].pc = "off"
    BY <1>1, RunnersApart
  <2> QED BY <2>1 DEF Fits
<1>2. ASSUME NEW q \in Runners PROVE Fits(q)'
  BY <1>1, <1>2
<1> QED BY <1>2 DEF RunFits

\* Directories fit as long as sessions only go on and cases are done rightly.
LEMMA DirsStay ==
  ASSUME DirsFit,
         \A i \in Ids : /\ agent'[i].dir => agent'[i].life # "none"
                        /\ agent[i].life # "none" =>
                             /\ agent'[i].life # "none" /\ agent'[i].op = agent[i].op
                             /\ agent[i].phase = "FINISH" => agent'[i].phase = "FINISH",
         \A op \in Ops : cases'[op].status = "done" =>
           \/ cases'[op] = cases[op]
           \/ /\ cases'[op].dir \in Ids /\ agent'[cases'[op].dir].life # "none"
              /\ agent'[cases'[op].dir].op = op /\ agent'[cases'[op].dir].phase = "FINISH"
  PROVE  DirsFit'
BY DEF DirsFit

\* What holds of the batch whatever its sessions and runners do.
Books == BatchType /\ LockInv /\ RunFits /\ DirsFit

LEMMA SameBooks ==
  ASSUME Books, UNCHANGED <<cases, agent, run>>, LockInv',
         \A r \in Runners : at[r] = "holding" => at'[r] = "holding"
  PROVE  Books'
<1>1. BatchType' /\ DirsFit'
  BY DEF Books, BatchType, DirsFit
<1>2. RunFits'
  BY DEF Books, RunFits, Fits
<1> QED BY <1>1, <1>2 DEF Books

LEMMA RecoverBooks ==
  ASSUME Books, LockInv', NEW r \in Runners, Recover(r)
  PROVE  Books'
<1> USE DEF Books
<1>1. /\ at[r] = "holding" /\ UNCHANGED <<lockVars, agent>>
      /\ cases' \in [Ops -> CaseRec]
  BY RecoverWrites
<1>2. PICK x \in RunRec : /\ run' = [run EXCEPT ![r] = x]
                          /\ x.pc \in {"next", "end"} /\ x.dir = 0 /\ x.prev = 0
  BY RecoverWrites
<1>3. PICK manifest \in Manifests : cases' = Merged(manifest)
  BY RecoverWrites
<1>4. /\ run' \in [Runners -> RunRec] /\ run'[r] = x
      /\ \A q \in Runners \ {r} : run'[q] = run[q]
  BY <1>2, RunTyped
<1>5. BatchType'
  BY <1>1, <1>4 DEF BatchType
<1>6. RunFits'
  <2>1. Fits(r)'
    BY <1>1, <1>2, <1>4 DEF Fits, lockVars
  <2> QED BY <1>1, <1>4, <2>1, FitsAlone
<1>7. DirsFit'
  <2>1. ASSUME NEW op \in Ops, cases'[op].status = "done" PROVE cases'[op] = cases[op]
    <3>1. cases[op] \in CaseRec
      BY DEF BatchType
    <3>2. \/ cases'[op] = Case("absent", None, 0) \/ cases'[op] = Case("pending", None, 0)
          \/ cases'[op] = [cases[op] EXCEPT !.status = "error"] \/ cases'[op] = cases[op]
      BY <1>3 DEF Merged
    <3> QED BY <2>1, <3>1, <3>2 DEF Case, CaseRec
  <2> QED BY <1>1, <2>1, DirsStay DEF DirsFit
<1> QED BY <1>5, <1>6, <1>7

LEMMA BeginBooks ==
  ASSUME Books, LockInv', NEW r \in Runners, Begin(r)
  PROVE  Books'
<1> USE DEF Books
<1>1. /\ at[r] = "holding" /\ run[r].pc = "next" /\ UNCHANGED <<lockVars, agent>>
  BY BeginWrites
<1>2. PICK op \in Ops, x \in RunRec :
        /\ run' = [run EXCEPT ![r] = x] /\ x.prev = run[r].prev /\ x.dir = run[r].dir
        /\ \/ /\ x.pc = "launch" /\ x.op = op /\ Wanted(cases[op])
              /\ Case("running", r, 0) \in CaseRec
              /\ cases' = [cases EXCEPT ![op] = Case("running", r, 0)]
           \/ x.pc = "next" /\ cases' = cases
  BY BeginWrites
<1>3. /\ run' \in [Runners -> RunRec] /\ run'[r] = x
      /\ \A q \in Runners \ {r} : run'[q] = run[q]
  BY <1>2, RunTyped
<1>4. x.dir = 0
  BY <1>1, <1>2 DEF RunFits, Fits
<1>5. \/ /\ x.pc = "launch" /\ x.op = op
         /\ cases' \in [Ops -> CaseRec] /\ cases'[op] = Case("running", r, 0)
         /\ \A o \in Ops \ {op} : cases'[o] = cases[o]
      \/ x.pc = "next" /\ cases' = cases /\ cases' \in [Ops -> CaseRec]
  BY <1>2, CaseTyped DEF BatchType
<1>6. BatchType'
  BY <1>1, <1>3, <1>5 DEF BatchType
<1>7. RunFits'
  <2>1. Fits(r)'
    BY <1>1, <1>3, <1>4, <1>5 DEF Fits, lockVars, Case
  <2> QED BY <1>1, <1>3, <2>1, FitsAlone
<1>8. DirsFit'
  <2>1. ASSUME NEW o \in Ops, cases'[o].status = "done" PROVE cases'[o] = cases[o]
    BY <1>5, <2>1 DEF Case
  <2> QED BY <1>1, <2>1, DirsStay DEF DirsFit
<1> QED BY <1>6, <1>7, <1>8

LEMMA LaunchBooks ==
  ASSUME Books, LockInv', NEW r \in Runners, Launch(r)
  PROVE  Books'
<1> USE DEF Books
<1>1. /\ at[r] = "holding" /\ run[r].pc = "launch" /\ UNCHANGED <<lockVars, cases>>
      /\ agent' \in [Ids -> AgentRec]
  BY LaunchWrites
<1>2. PICK i \in Ids, x \in RunRec :
        /\ agent[i].life = "none"
        /\ agent'[i].op = run[r].op /\ agent'[i].life = "up" /\ ~agent'[i].dir
        /\ \A j \in Ids \ {i} :
             /\ agent'[j].op = agent[j].op /\ agent'[j].life = agent[j].life
             /\ agent'[j].dir = agent[j].dir /\ agent'[j].phase = agent[j].phase
             /\ j # run[r].prev => agent'[j] = agent[j]
        /\ run' = [run EXCEPT ![r] = x]
        /\ x.pc = "watch" /\ x.launch = i /\ x.op = run[r].op
        /\ x.dir = run[r].dir /\ x.prev = run[r].prev
  BY LaunchWrites
<1>3. /\ run' \in [Runners -> RunRec] /\ run'[r] = x
      /\ \A q \in Runners \ {r} : run'[q] = run[q]
  BY <1>2, RunTyped
<1>4. BatchType'
  BY <1>1, <1>3 DEF BatchType
<1>5. RunFits'
  <2>1. Fits(r)'
    BY <1>1, <1>2, <1>3 DEF RunFits, Fits, lockVars
  <2> QED BY <1>1, <1>3, <2>1, FitsAlone
<1>6. DirsFit'
  <2>1. ASSUME NEW j \in Ids
        PROVE  /\ agent'[j].dir => agent'[j].life # "none"
               /\ agent[j].life # "none" =>
                    /\ agent'[j].life # "none" /\ agent'[j].op = agent[j].op
                    /\ agent[j].phase = "FINISH" => agent'[j].phase = "FINISH"
    BY <1>2 DEF DirsFit
  <2> QED BY <1>1, <2>1, DirsStay
<1> QED BY <1>4, <1>5, <1>6

\* The runner watches: it binds the directory, or the session is over.
LEMMA BindWrites ==
  ASSUME BatchType, RunFits, NEW r \in Runners, Bind(r)
  PROVE  /\ at[r] = "holding" /\ run[r].pc = "watch" /\ UNCHANGED <<lockVars, agent>>
         /\ run[r].op \in Ops /\ run[r].launch \in Ids /\ run[r].dir = 0
         /\ \E x \in RunRec, c \in CaseRec :
              /\ run' = [run EXCEPT ![r] = x]
              /\ x.pc = "watch" /\ x.op = run[r].op /\ x.launch = run[r].launch
              /\ x.dir = run[r].launch /\ x.prev = run[r].prev
              /\ cases' = [cases EXCEPT ![run[r].op] = c]
              /\ c.status = "running" /\ c.dir = run[r].launch
<1>1. run[r] \in RunRec
  BY DEF BatchType
<1>2. /\ at[r] = "holding" /\ run[r].pc = "watch" /\ UNCHANGED <<lockVars, agent>>
      /\ run[r].dir = 0
  BY DEF Bind
<1>3. run[r].op \in Ops /\ run[r].launch \in Ids /\ cases[run[r].op].status = "running"
  BY <1>2 DEF RunFits, Fits
<1> DEFINE i == run[r].launch
           x == [run[r] EXCEPT !.dir = i]
           c == [cases[run[r].op] EXCEPT !.dir = i]
<1>4. run' = [run EXCEPT ![r] = x]
  BY DEF Bind, BatchType
<1>5. cases' = [cases EXCEPT ![run[r].op] = c]
  BY <1>3 DEF Bind, BatchType
<1>6. /\ x \in RunRec /\ x.pc = "watch" /\ x.op = run[r].op /\ x.launch = run[r].launch
      /\ x.dir = run[r].launch /\ x.prev = run[r].prev
  BY <1>1, <1>2, <1>3 DEF RunRec
<1>7. c \in CaseRec /\ c.status = "running" /\ c.dir = run[r].launch
  <2>1. cases[run[r].op] \in CaseRec
    BY <1>3 DEF BatchType
  <2> QED BY <1>3, <2>1 DEF CaseRec
<1> HIDE DEF x, c
<1> QED BY <1>2, <1>3, <1>4, <1>5, <1>6, <1>7

LEMMA StopWrites ==
  ASSUME BatchType, RunFits, NEW r \in Runners, EndOfOutput(r) \/ Timeout(r) \/ Interrupt(r)
  PROVE  /\ at[r] = "holding" /\ run[r].pc = "watch" /\ UNCHANGED <<lockVars, cases>>
         /\ run[r].launch \in Ids
         /\ \E x \in RunRec, y \in AgentRec :
              /\ run' = [run EXCEPT ![r] = x]
              /\ x.pc = "settle" /\ x.op = run[r].op /\ x.launch = run[r].launch
              /\ x.dir = run[r].dir /\ x.prev = run[r].prev
              /\ agent' = [agent EXCEPT ![run[r].launch] = y]
              /\ y.life = "gone" /\ y.op = agent[run[r].launch].op
              /\ y.phase = agent[run[r].launch].phase
<1>1. run[r] \in RunRec
  BY DEF BatchType
<1>2. at[r] = "holding" /\ run[r].pc = "watch" /\ UNCHANGED <<lockVars, cases>>
  BY DEF EndOfOutput, Timeout, Interrupt
<1>3. run[r].launch \in Ids
  BY <1>2 DEF RunFits, Fits
<1>4. \E x \in RunRec :
        /\ run' = [run EXCEPT ![r] = x]
        /\ x.pc = "settle" /\ x.op = run[r].op /\ x.launch = run[r].launch
        /\ x.dir = run[r].dir /\ x.prev = run[r].prev
  <2>1. CASE run' = [run EXCEPT ![r].pc = "settle"]
    <3> DEFINE x == [run[r] EXCEPT !.pc = "settle"]
    <3>1. run' = [run EXCEPT ![r] = x]
      BY <2>1 DEF BatchType
    <3>2. /\ x \in RunRec /\ x.pc = "settle" /\ x.op = run[r].op
          /\ x.launch = run[r].launch /\ x.dir = run[r].dir /\ x.prev = run[r].prev
      BY <1>1 DEF RunRec
    <3> HIDE DEF x
    <3> QED BY <3>1, <3>2
  <2>2. CASE run' = [run EXCEPT ![r].pc = "settle", ![r].interrupted = TRUE]
    <3> DEFINE x == [run[r] EXCEPT !.pc = "settle", !.interrupted = TRUE]
    <3>1. run' = [run EXCEPT ![r] = x]
      BY <2>2 DEF BatchType
    <3>2. /\ x \in RunRec /\ x.pc = "settle" /\ x.op = run[r].op
          /\ x.launch = run[r].launch /\ x.dir = run[r].dir /\ x.prev = run[r].prev
      BY <1>1 DEF RunRec
    <3> HIDE DEF x
    <3> QED BY <3>1, <3>2
  <2> QED BY <2>1, <2>2 DEF EndOfOutput, Timeout, Interrupt
<1>5. \E y \in AgentRec :
        /\ agent' = [agent EXCEPT ![run[r].launch] = y]
        /\ y.life = "gone" /\ y.op = agent[run[r].launch].op
        /\ y.phase = agent[run[r].launch].phase
  <2>1. CASE EndOfOutput(r)
    <3> DEFINE y == agent[run[r].launch]
    <3>1. agent' = [agent EXCEPT ![run[r].launch] = y] /\ y \in AgentRec /\ y.life = "gone"
      BY <1>3, <2>1 DEF EndOfOutput, BatchType
    <3> QED BY <3>1
  <2>2. CASE Timeout(r) \/ Interrupt(r)
    <3>1. Kill(run[r].launch)
      BY <2>2 DEF Timeout, Interrupt
    <3> QED BY <1>3, <3>1, KillWrites
  <2> QED BY <2>1, <2>2
<1> QED BY <1>2, <1>3, <1>4, <1>5

LEMMA WatchBooks ==
  ASSUME Books, LockInv', NEW r \in Runners,
         Bind(r) \/ EndOfOutput(r) \/ Timeout(r) \/ Interrupt(r)
  PROVE  Books'
<1> USE DEF Books
<1>1. CASE Bind(r)
  <2>1. /\ at[r] = "holding" /\ run[r].pc = "watch" /\ UNCHANGED <<lockVars, agent>>
        /\ run[r].op \in Ops /\ run[r].launch \in Ids
    BY <1>1, BindWrites
  <2>2. PICK x \in RunRec, c \in CaseRec :
          /\ run' = [run EXCEPT ![r] = x]
          /\ x.pc = "watch" /\ x.op = run[r].op /\ x.launch = run[r].launch
          /\ x.dir = run[r].launch /\ x.prev = run[r].prev
          /\ cases' = [cases EXCEPT ![run[r].op] = c]
          /\ c.status = "running" /\ c.dir = run[r].launch
    BY <1>1, BindWrites
  <2>3. /\ run' \in [Runners -> RunRec] /\ run'[r] = x
        /\ \A q \in Runners \ {r} : run'[q] = run[q]
    BY <2>2, RunTyped
  <2>4. /\ cases' \in [Ops -> CaseRec] /\ cases'[run[r].op] = c
        /\ \A o \in Ops \ {run[r].op} : cases'[o] = cases[o]
    BY <2>1, <2>2, CaseTyped
  <2>5. BatchType'
    BY <2>1, <2>3, <2>4 DEF BatchType
  <2>6. RunFits'
    <3>1. Fits(r)'
      BY <2>1, <2>2, <2>3, <2>4 DEF RunFits, Fits, lockVars
    <3> QED BY <2>1, <2>3, <3>1, FitsAlone
  <2>7. DirsFit'
    <3>1. ASSUME NEW o \in Ops, cases'[o].status = "done" PROVE cases'[o] = cases[o]
      BY <2>2, <2>4, <3>1
    <3> QED BY <2>1, <3>1, DirsStay DEF DirsFit
  <2> QED BY <2>5, <2>6, <2>7
<1>2. CASE EndOfOutput(r) \/ Timeout(r) \/ Interrupt(r)
  <2>1. /\ at[r] = "holding" /\ run[r].pc = "watch" /\ UNCHANGED <<lockVars, cases>>
        /\ run[r].launch \in Ids
    BY <1>2, StopWrites
  <2>2. PICK x \in RunRec, y \in AgentRec :
          /\ run' = [run EXCEPT ![r] = x]
          /\ x.pc = "settle" /\ x.op = run[r].op /\ x.launch = run[r].launch
          /\ x.dir = run[r].dir /\ x.prev = run[r].prev
          /\ agent' = [agent EXCEPT ![run[r].launch] = y]
          /\ y.life = "gone" /\ y.op = agent[run[r].launch].op
          /\ y.phase = agent[run[r].launch].phase
    BY <1>2, StopWrites
  <2>3. /\ run' \in [Runners -> RunRec] /\ run'[r] = x
        /\ \A q \in Runners \ {r} : run'[q] = run[q]
    BY <2>2, RunTyped
  <2>4. /\ agent' \in [Ids -> AgentRec] /\ agent'[run[r].launch] = y
        /\ \A j \in Ids \ {run[r].launch} : agent'[j] = agent[j]
    BY <2>1, <2>2, AgentTyped
  <2>5. BatchType'
    BY <2>1, <2>3, <2>4 DEF BatchType
  <2>6. RunFits'
    <3>1. Fits(r)'
      BY <2>1, <2>2, <2>3, <2>4 DEF RunFits, Fits, lockVars
    <3> QED BY <2>1, <2>3, <3>1, FitsAlone
  <2>7. DirsFit'
    <3>1. ASSUME NEW j \in Ids
          PROVE  /\ agent'[j].dir => agent'[j].life # "none"
                 /\ agent[j].life # "none" =>
                      /\ agent'[j].life # "none" /\ agent'[j].op = agent[j].op
                      /\ agent[j].phase = "FINISH" => agent'[j].phase = "FINISH"
      BY <2>2, <2>4 DEF DirsFit
    <3> QED BY <2>1, <3>1, DirsStay
  <2> QED BY <2>5, <2>6, <2>7
<1> QED BY <1>1, <1>2

\* A settlement picks the directory of a launched session of its operator, or
\* none.
LEMMA SettleWrites ==
  ASSUME BatchType, RunFits, DirsFit, NEW r \in Runners, Settle(r)
  PROVE  /\ at[r] = "holding" /\ run[r].pc = "settle" /\ UNCHANGED <<lockVars, agent>>
         /\ run[r].op \in Ops
         /\ \E i \in Ids \cup {0}, x \in RunRec, c \in CaseRec :
              /\ i # 0 => agent[i].op = run[r].op /\ agent[i].life # "none"
              /\ run' = [run EXCEPT ![r] = x]
              /\ x.pc \in {"next", "end"} /\ x.dir = 0
              /\ x.prev = IF i # 0 THEN i ELSE run[r].prev
              /\ cases' = [cases EXCEPT ![run[r].op] = c]
              /\ c.status \in {"done", "error"}
              /\ c.status = "done" => i # 0 /\ c.dir = i /\ agent[i].phase = "FINISH"
<1>1. run[r] \in RunRec
  BY DEF BatchType
<1>2. at[r] = "holding" /\ run[r].pc = "settle" /\ UNCHANGED lockVars
  BY DEF Settle
<1>3. /\ run[r].op \in Ops /\ run[r].launch \in Ids /\ agent[run[r].launch].op = run[r].op
      /\ agent[run[r].launch].life # "none" /\ run[r].dir \in {0, run[r].launch}
  BY <1>2 DEF RunFits, Fits
<1>4. PICK ok \in BOOLEAN,
           i \in IF run[r].dir # 0 THEN {run[r].dir}
                 ELSE IF NewDirs(r) # {} THEN NewDirs(r) ELSE {0} :
        /\ cases' = [cases EXCEPT ![run[r].op] =
             IF i = 0 THEN [@ EXCEPT !.status = "error"]
             ELSE [@ EXCEPT !.dir = i, !.status =
                     IF IsDone(r, i, ok) THEN "done" ELSE "error"]]
        /\ Onward(r, i)
        /\ UNCHANGED agent
  BY NeverResumes DEF Settle
<1>5. /\ i \in Ids \cup {0}
      /\ i # 0 => agent[i].op = run[r].op /\ agent[i].life # "none"
  <2>1. CASE i = run[r].dir
    BY <1>3, <2>1
  <2>2. CASE i \in NewDirs(r)
    BY <2>2 DEF NewDirs, Dirs, BelongsTo, DirsFit
  <2>3. CASE i = 0
    BY <2>3
  <2> QED BY <2>1, <2>2, <2>3
<1>6. PICK x \in RunRec :
        /\ run' = [run EXCEPT ![r] = x]
        /\ x.pc \in {"next", "end"} /\ x.dir = 0
        /\ x.prev = IF i # 0 THEN i ELSE run[r].prev
  BY <1>4, <1>5, OnwardWrites
<1> DEFINE e == cases[run[r].op]
           s == IF IsDone(r, i, ok) THEN "done" ELSE "error"
           c == IF i = 0 THEN [e EXCEPT !.status = "error"]
                ELSE [e EXCEPT !.dir = i, !.status = s]
<1>7. cases' = [cases EXCEPT ![run[r].op] = c]
  BY <1>3, <1>4 DEF BatchType
<1>8. /\ c \in CaseRec /\ c.status \in {"done", "error"}
      /\ c.status = "done" => i # 0 /\ c.dir = i /\ agent[i].phase = "FINISH"
  <2>1. e \in CaseRec
    BY <1>3 DEF BatchType
  <2>2. s \in {"done", "error"} /\ (s = "done" => agent[i].phase = "FINISH")
    BY DEF IsDone
  <2> HIDE DEF e, s
  <2> QED BY <1>5, <2>1, <2>2 DEF CaseRec
<1> HIDE DEF c
<1> QED BY <1>2, <1>3, <1>4, <1>5, <1>6, <1>7, <1>8

LEMMA SettleBooks ==
  ASSUME Books, LockInv', NEW r \in Runners, Settle(r)
  PROVE  Books'
<1> USE DEF Books
<1>1. /\ at[r] = "holding" /\ run[r].pc = "settle" /\ UNCHANGED <<lockVars, agent>>
      /\ run[r].op \in Ops
  BY SettleWrites
<1>2. PICK i \in Ids \cup {0}, x \in RunRec, c \in CaseRec :
        /\ i # 0 => agent[i].op = run[r].op /\ agent[i].life # "none"
        /\ run' = [run EXCEPT ![r] = x]
        /\ x.pc \in {"next", "end"} /\ x.dir = 0
        /\ x.prev = IF i # 0 THEN i ELSE run[r].prev
        /\ cases' = [cases EXCEPT ![run[r].op] = c]
        /\ c.status \in {"done", "error"}
        /\ c.status = "done" => i # 0 /\ c.dir = i /\ agent[i].phase = "FINISH"
  BY SettleWrites
<1>3. /\ run' \in [Runners -> RunRec] /\ run'[r] = x
      /\ \A q \in Runners \ {r} : run'[q] = run[q]
  BY <1>2, RunTyped
<1>4. /\ cases' \in [Ops -> CaseRec] /\ cases'[run[r].op] = c
      /\ \A o \in Ops \ {run[r].op} : cases'[o] = cases[o]
  BY <1>1, <1>2, CaseTyped
<1>5. BatchType'
  BY <1>1, <1>3, <1>4 DEF BatchType
<1>6. RunFits'
  <2>1. Fits(r)'
    BY <1>1, <1>2, <1>3 DEF Fits, lockVars
  <2> QED BY <1>1, <1>3, <2>1, FitsAlone
<1>7. DirsFit'
  <2>1. ASSUME NEW o \in Ops, cases'[o].status = "done"
        PROVE  \/ cases'[o] = cases[o]
               \/ /\ cases'[o].dir \in Ids /\ agent'[cases'[o].dir].life # "none"
                  /\ agent'[cases'[o].dir].op = o /\ agent'[cases'[o].dir].phase = "FINISH"
    BY <1>1, <1>2, <1>4, <2>1
  <2> QED BY <1>1, <2>1, DirsStay DEF DirsFit
<1> QED BY <1>5, <1>6, <1>7

\* The runner stops, leaves or is killed.
LEMMA EndWrites ==
  ASSUME BatchType, NEW r \in Runners,
         InterruptOutside(r) \/ Leave(r) \/ WaitExpires(r) \/ Killed(r)
  PROVE  /\ UNCHANGED <<cases, agent>>
         /\ \A q \in Runners \ {r} : at[q] = "holding" => at'[q] = "holding"
         /\ run' \in [Runners -> RunRec] /\ run'[r].pc \in {"off", "end"}
         /\ run'[r].dir = 0 /\ run'[r].prev = 0
         /\ run'[r].pc = "end" => at'[r] = "holding" /\ run[r].pc # "watch"
         /\ \A q \in Runners \ {r} : run'[q] = run[q]
<1> DEFINE x == [NoRun EXCEPT !.pc = "end"]
<1>1. UNCHANGED <<cases, agent>>
  BY DEF InterruptOutside, Leave, WaitExpires, Killed
<1>2. \A q \in Runners \ {r} : at[q] = "holding" => at'[q] = "holding"
  <2>1. CASE InterruptOutside(r)
    BY <2>1 DEF InterruptOutside, lockVars
  <2>2. CASE Leave(r) \/ WaitExpires(r)
    <3>1. at' = [at EXCEPT ![r] = "out"]
      BY <2>2 DEF Leave, WaitExpires, ReleaseLock
    <3> QED BY <3>1
  <2>3. CASE Killed(r)
    <3>1. at' = [at EXCEPT ![r] = "dead"]
      BY <2>3 DEF Killed, Die
    <3> QED BY <3>1
  <2> QED BY <2>1, <2>2, <2>3
<1>3. NoRun \in RunRec /\ NoRun.pc = "off" /\ NoRun.dir = 0 /\ NoRun.prev = 0
  BY NoRunTyped DEF NoRun
<1>4. x \in RunRec /\ x.pc = "end" /\ x.dir = 0 /\ x.prev = 0
  <2>1. x \in RunRec
    BY NoRunTyped
  <2> QED BY <2>1 DEF NoRun
<1>5. CASE InterruptOutside(r)
  <2>1. /\ run' = [run EXCEPT ![r] = x] /\ at[r] = "holding" /\ at' = at
        /\ run[r].pc # "watch"
    BY <1>5 DEF InterruptOutside, lockVars
  <2> HIDE DEF x
  <2> QED BY <1>1, <1>2, <1>4, <2>1, RunTyped
<1>6. CASE Leave(r) \/ WaitExpires(r) \/ Killed(r)
  <2>1. run' = [run EXCEPT ![r] = NoRun]
    BY <1>6 DEF Leave, WaitExpires, Killed
  <2> QED BY <1>1, <1>2, <1>3, <2>1, RunTyped
<1> QED BY <1>5, <1>6

LEMMA EndBooks ==
  ASSUME Books, LockInv', NEW r \in Runners,
         InterruptOutside(r) \/ Leave(r) \/ WaitExpires(r) \/ Killed(r)
  PROVE  Books'
<1> USE DEF Books
<1>1. BatchType' /\ DirsFit'
  BY EndWrites DEF BatchType, DirsFit
<1>2. ASSUME NEW q \in Runners PROVE Fits(q)'
  <2>1. CASE q = r
    BY <2>1, EndWrites DEF Fits
  <2>2. CASE q # r
    <3>1. /\ run'[q] = run[q] /\ UNCHANGED <<cases, agent>>
          /\ at[q] = "holding" => at'[q] = "holding"
      BY <2>2, EndWrites
    <3>2. Fits(q)
      BY DEF RunFits
    <3> QED BY <3>1, <3>2 DEF Fits
  <2> QED BY <2>1, <2>2
<1> QED BY <1>1, <1>2 DEF RunFits

LEMMA SessionBooks ==
  ASSUME Books, LockInv', NEW i \in Ids, Session(i) \/ SessionEnds(i) \/ GoesStale(i)
  PROVE  Books'
<1> USE DEF Books
<1>1. UNCHANGED <<lockVars, cases, run>>
  BY SessionWrites
<1>2. PICK y \in AgentRec :
        /\ agent' = [agent EXCEPT ![i] = y] /\ y.op = agent[i].op
        /\ agent[i].life = "none" => y.life = "none" /\ y.dir = agent[i].dir
        /\ agent[i].life = "gone" => y.life = "gone"
        /\ agent[i].life = "up" => y.life # "none"
        /\ agent[i].phase = "FINISH" => y.phase = "FINISH"
  BY SessionWrites
<1>3. /\ agent' \in [Ids -> AgentRec] /\ agent'[i] = y
      /\ \A j \in Ids \ {i} : agent'[j] = agent[j]
  BY <1>2, AgentTyped
<1>4. agent[i].life \in {"none", "up", "gone"}
  BY DEF BatchType, AgentRec
<1>5. BatchType'
  BY <1>1, <1>3 DEF BatchType
<1>6. ASSUME NEW j \in Ids
      PROVE  /\ agent'[j].dir => agent'[j].life # "none"
             /\ agent[j].life # "none" =>
                  /\ agent'[j].life # "none" /\ agent'[j].op = agent[j].op
                  /\ agent[j].phase = "FINISH" => agent'[j].phase = "FINISH"
             /\ agent[j].life = "gone" => agent'[j].life = "gone"
  BY <1>2, <1>3, <1>4 DEF DirsFit
<1>7. DirsFit'
  BY <1>1, <1>6, DirsStay
<1>8. RunFits'
  <2>1. ASSUME NEW q \in Runners PROVE Fits(q)'
    <3>1. Fits(q)
      BY DEF RunFits
    <3> QED BY <1>1, <1>6, <3>1 DEF Fits, lockVars
  <2> QED BY <2>1 DEF RunFits
<1> QED BY <1>5, <1>7, <1>8

LEMMA BooksStart == Init => Books
<1> SUFFICES ASSUME Init PROVE Books
  OBVIOUS
<1>1. LockInv
  BY DEF Init, LockInit, LockInv, LockType, LockExclusive
<1>2. cases \in [Ops -> CaseRec] /\ \A op \in Ops : cases[op].status = "absent"
  <2>1. Case("absent", None, 0) \in CaseRec /\ Case("absent", None, 0).status = "absent"
    BY DEF Case, CaseRec
  <2> QED BY <2>1 DEF Init
<1>3. agent \in [Ids -> AgentRec] /\ \A i \in Ids : ~agent[i].dir
  <2>1. NoAgent \in AgentRec /\ ~NoAgent.dir
    BY DEF NoAgent, AgentRec
  <2> QED BY <2>1 DEF Init
<1>4. run \in [Runners -> RunRec] /\ \A r \in Runners : run[r].pc = "off"
  <2>1. NoRun \in RunRec /\ NoRun.pc = "off"
    BY NoRunTyped DEF NoRun
  <2> QED BY <2>1 DEF Init
<1>5. BatchType
  BY <1>2, <1>3, <1>4 DEF BatchType
<1>6. RunFits /\ DirsFit
  BY <1>2, <1>3, <1>4 DEF RunFits, Fits, DirsFit
<1> QED BY <1>1, <1>5, <1>6 DEF Books

LEMMA BooksStep ==
  ASSUME Books, [Next]_vars, LockExclusive'
  PROVE  Books'
<1>1. LockInv'
  BY LockTyped DEF Books, LockInv
<1>2. CASE Locking
  <2>1. UNCHANGED <<cases, agent, run>>
    BY <1>2 DEF Locking, batchVars
  <2>2. PICK r \in Runners : Start(r) \/ Acquire(r)
    BY <1>2 DEF Locking
  <2>3. at[r] # "holding" /\ (at' = at \/ \E p : at' = [at EXCEPT ![r] = p])
    BY <2>2 DEF Start, Acquire, Create, WritePid, Read, Unlink
  <2>4. \A q \in Runners : at[q] = "holding" => at'[q] = "holding"
    <3>1. DOMAIN at = Runners
      BY DEF Books, LockInv, LockType
    <3>2. CASE at' = at
      BY <3>2
    <3>3. CASE \E p : at' = [at EXCEPT ![r] = p]
      <4>1. PICK p : at' = [at EXCEPT ![r] = p]
        BY <3>3
      <4> QED BY <2>3, <3>1, <4>1
    <3> QED BY <2>3, <3>2, <3>3
  <2> QED BY <1>1, <2>1, <2>4, SameBooks
<1>3. CASE \E r \in Runners : Recover(r) \/ Begin(r) \/ Launch(r) \/ Settle(r)
  BY <1>1, <1>3, RecoverBooks, BeginBooks, LaunchBooks, SettleBooks
<1>4. CASE \E r \in Runners : Bind(r) \/ EndOfOutput(r) \/ Timeout(r) \/ Interrupt(r)
  BY <1>1, <1>4, WatchBooks
<1>5. CASE \E r \in Runners : InterruptOutside(r) \/ Leave(r) \/ WaitExpires(r) \/ Killed(r)
  BY <1>1, <1>5, EndBooks
<1>6. CASE \E i \in Ids : Session(i) \/ SessionEnds(i) \/ GoesStale(i)
  BY <1>1, <1>6, SessionBooks
<1>7. CASE Over \/ UNCHANGED vars
  <2>1. UNCHANGED <<cases, agent, run, at>>
    BY <1>7 DEF Over, vars, batchVars, lockVars
  <2> QED BY <1>1, <2>1, SameBooks
<1> QED BY <1>2, <1>3, <1>4, <1>5, <1>6, <1>7 DEF Next, Work

\* As long as the lock excludes, a case is done only by a finished task of its
\* own operator.
THEOREM DoneOnlyFinished == Spec /\ []LockExclusive => []DoneIsFinished
<1>1. Books => DoneIsFinished
  <2>1. 0 \notin Ids
    BY BatchAssumption DEF BatchAssumption, Ids
  <2> QED BY <2>1 DEF Books, DirsFit, DoneIsFinished
<1>2. Books /\ [Next]_vars /\ LockExclusive' => Books'
  BY BooksStep
<1> QED BY <1>1, <1>2, BooksStart, PTL DEF Spec

-----------------------------------------------------------------------------
(* No operator has two sessions *)

\* What the holder of the lock does not watch is recorded.
LEMMA Unwatched ==
  ASSUME Books, InFlight, NEW r \in Runners, at[r] = "holding",
         NEW j \in Ids \ lost, agent[j].life = "up",
         ~(run[r].pc = "watch" /\ run[r].launch = j)
  PROVE  agent[j].op \in Ops /\ Recorded(j)
<1>1. \A q \in Runners \ {r} : run[q].pc = "off"
  BY RunnersApart DEF Books
<1>2. ~Watched(j)
  BY <1>1 DEF Watched
<1> QED BY <1>2 DEF InFlight

\* Before its launch and after its end, the operator in hand has no session.
LEMMA InHandIsIdle ==
  ASSUME Books, InFlight, NEW r \in Runners, at[r] = "holding",
         run[r].pc \in {"launch", "settle"},
         NEW j \in Ids \ lost, agent[j].life = "up"
  PROVE  agent[j].op # run[r].op
<1>1. Recorded(j)
  BY Unwatched
<1>2. Fits(r)
  BY DEF Books, RunFits
<1>3. 0 \notin Ids
  BY BatchAssumption DEF BatchAssumption, Ids
<1> QED BY <1>1, <1>2, <1>3 DEF Recorded, Fits

\* A step that leaves the directories and cases of known sessions alone.
LEMMA KnownStays ==
  ASSUME NEW j \in Ids, agent[j].op \in Ops /\ Recorded(j), agent'[j] = agent[j],
         cases'[agent[j].op] = cases[agent[j].op]
  PROVE  agent'[j].op \in Ops /\ Recorded(j)'
BY DEF Recorded

LEMMA LostGrows ==
  /\ \A r \in Runners :
       \/ Recover(r) \/ Begin(r) \/ Launch(r) \/ Bind(r) \/ EndOfOutput(r) \/ Timeout(r)
       \/ Interrupt(r) \/ Settle(r) \/ InterruptOutside(r) \/ Leave(r) \/ WaitExpires(r)
       \/ Killed(r)
       => lost \subseteq lost'
  /\ \A i \in Ids : Session(i) \/ SessionEnds(i) \/ GoesStale(i) => lost \subseteq lost'
BY DEF Recover, Begin, Launch, Bind, EndOfOutput, Timeout, Interrupt, Settle,
       InterruptOutside, Leave, WaitExpires, Killed, Session, SessionEnds, GoesStale

\* recover_stale_running does not demote a case with a fresh heartbeat.
LEMMA RecoverInFlight ==
  ASSUME Books, InFlight, NEW r \in Runners, Recover(r)
  PROVE  InFlight'
<1>0. lost \subseteq lost'
  BY LostGrows
<1> USE <1>0
<1>1. /\ at[r] = "holding" /\ run[r].pc = "off" /\ agent' = agent
  BY RecoverWrites DEF Books
<1>2. PICK x \in RunRec : /\ run' = [run EXCEPT ![r] = x]
                          /\ x.pc \in {"next", "end"} /\ x.dir = 0 /\ x.prev = 0
  BY RecoverWrites DEF Books
<1>3. PICK manifest \in Manifests :
        /\ cases' = Merged(manifest)
        /\ \A i \in Ids : agent[i].life = "up" => agent[i].op \in manifest \/ i \in lost'
  BY RecoverWrites DEF Books
<1>4. /\ run'[r] = x /\ \A q \in Runners \ {r} : run'[q] = run[q]
  BY <1>2, RunTyped DEF Books
<1>5. ASSUME NEW j \in Ids \ lost', agent'[j].life = "up"
      PROVE  agent'[j].op \in Ops /\ Recorded(j)'
  <2>1. agent[j].op \in Ops /\ Recorded(j)
    BY <1>1, <1>5, Unwatched
  <2>2. agent[j].op \in manifest
    BY <1>1, <1>3, <1>5
  <2>3. ~Demotes(cases[agent[j].op])
    <3>1. 0 \notin Ids
      BY BatchAssumption DEF BatchAssumption, Ids
    <3> QED BY <2>1, <3>1 DEF Demotes, Active, Recorded
  <2>4. cases'[agent[j].op] = cases[agent[j].op]
    BY <1>3, <2>1, <2>2, <2>3 DEF Merged, Recorded
  <2> QED BY <1>1, <2>1, <2>4, KnownStays
<1>6. \A q \in Runners : run'[q].prev # 0 =>
       agent'[run'[q].prev].life = "gone" \/ run'[q].prev \in lost'
  BY <1>1, <1>2, <1>4 DEF InFlight
<1> QED BY <1>5, <1>6 DEF InFlight

\* run_one marks a case that was not running.
LEMMA BeginInFlight ==
  ASSUME Books, InFlight, NEW r \in Runners, Begin(r)
  PROVE  InFlight'
<1>0. lost \subseteq lost'
  BY LostGrows
<1> USE <1>0
<1>1. /\ at[r] = "holding" /\ run[r].pc = "next" /\ agent' = agent
  BY BeginWrites DEF Books
<1>2. PICK op \in Ops, x \in RunRec :
        /\ run' = [run EXCEPT ![r] = x] /\ x.prev = run[r].prev /\ x.dir = run[r].dir
        /\ \/ /\ x.pc = "launch" /\ x.op = op /\ Wanted(cases[op])
              /\ Case("running", r, 0) \in CaseRec
              /\ cases' = [cases EXCEPT ![op] = Case("running", r, 0)]
           \/ x.pc = "next" /\ cases' = cases
  BY BeginWrites DEF Books
<1>3. /\ run'[r] = x /\ \A q \in Runners \ {r} : run'[q] = run[q]
  BY <1>2, RunTyped DEF Books
<1>4. ASSUME NEW j \in Ids \ lost', agent'[j].life = "up"
      PROVE  agent'[j].op \in Ops /\ Recorded(j)'
  <2>1. agent[j].op \in Ops /\ Recorded(j)
    BY <1>1, <1>4, Unwatched
  <2>2. cases'[agent[j].op] = cases[agent[j].op]
    <3>1. CASE cases' = cases
      BY <3>1
    <3>2. CASE /\ Wanted(cases[op]) /\ Case("running", r, 0) \in CaseRec
               /\ cases' = [cases EXCEPT ![op] = Case("running", r, 0)]
      <4>1. agent[j].op # op
        BY <2>1, <3>2 DEF Recorded, Wanted
      <4> QED BY <2>1, <3>2, <4>1, CaseTyped DEF Books
    <3> QED BY <1>2, <3>1, <3>2
  <2> QED BY <1>1, <2>1, <2>2, KnownStays
<1>5. \A q \in Runners : run'[q].prev # 0 =>
       agent'[run'[q].prev].life = "gone" \/ run'[q].prev \in lost'
  BY <1>1, <1>2, <1>3 DEF InFlight
<1> QED BY <1>4, <1>5 DEF InFlight

\* A launch clears the owner of the previous directory only, whose session is
\* over.
LEMMA LaunchInFlight ==
  ASSUME Books, InFlight, NEW r \in Runners, Launch(r)
  PROVE  InFlight'
<1>0. lost \subseteq lost'
  BY LostGrows
<1> USE <1>0
<1>1. /\ at[r] = "holding" /\ run[r].pc = "launch" /\ UNCHANGED <<lockVars, cases>>
  BY LaunchWrites DEF Books
<1>2. PICK i \in Ids, x \in RunRec :
        /\ agent[i].life = "none"
        /\ agent'[i].op = run[r].op /\ agent'[i].life = "up" /\ ~agent'[i].dir
        /\ \A j \in Ids \ {i} :
             /\ agent'[j].op = agent[j].op /\ agent'[j].life = agent[j].life
             /\ agent'[j].dir = agent[j].dir /\ agent'[j].phase = agent[j].phase
             /\ j # run[r].prev => agent'[j] = agent[j]
        /\ run' = [run EXCEPT ![r] = x]
        /\ x.pc = "watch" /\ x.launch = i /\ x.op = run[r].op
        /\ x.dir = run[r].dir /\ x.prev = run[r].prev
  BY LaunchWrites DEF Books
<1>3. /\ run'[r] = x /\ \A q \in Runners \ {r} : run'[q] = run[q]
  BY <1>2, RunTyped DEF Books
<1>4. ASSUME NEW j \in Ids \ lost', agent'[j].life = "up"
      PROVE  agent'[j].op \in Ops /\ (Watched(j)' \/ Recorded(j)')
  <2>1. CASE j = i
    <3>1. Watched(j)'
      BY <1>2, <1>3, <2>1 DEF Watched
    <3>2. run[r].op \in Ops
      BY <1>1 DEF Books, RunFits, Fits
    <3> QED BY <1>2, <2>1, <3>1, <3>2
  <2>2. CASE j # i
    <3>1. agent[j].life = "up"
      BY <1>2, <1>4, <2>2
    <3>2. agent[j].op \in Ops /\ Recorded(j)
      BY <1>1, <3>1, Unwatched
    <3>3. j # run[r].prev
      <4>1. 0 \notin Ids
        BY BatchAssumption DEF BatchAssumption, Ids
      <4> QED BY <3>1, <4>1 DEF InFlight
    <3>4. agent'[j] = agent[j]
      BY <1>2, <2>2, <3>3
    <3> QED BY <1>1, <3>2, <3>4, KnownStays
  <2> QED BY <2>1, <2>2
<1>5. ASSUME NEW q \in Runners, run'[q].prev # 0
      PROVE  agent'[run'[q].prev].life = "gone" \/ run'[q].prev \in lost'
  <2>1. run'[q].prev = run[q].prev
    BY <1>2, <1>3
  <2>2. /\ agent[run[q].prev].life = "gone" \/ run[q].prev \in lost
        /\ run[q].prev \in Ids
    <3>1. run[q].prev \in Ids \cup {0}
      BY DEF Books, BatchType, RunRec
    <3> QED BY <1>5, <2>1, <3>1 DEF InFlight
  <2>3. CASE agent[run[q].prev].life = "gone"
    BY <1>2, <2>1, <2>2, <2>3
  <2>4. CASE run[q].prev \in lost
    BY <2>1, <2>4
  <2> QED BY <2>2, <2>3, <2>4
<1> QED BY <1>4, <1>5 DEF InFlight

\* The case takes the directory of the session that is watched.
LEMMA BindInFlight ==
  ASSUME Books, InFlight, NEW r \in Runners, Bind(r)
  PROVE  InFlight'
<1>0. lost \subseteq lost'
  BY LostGrows
<1> USE <1>0
<1>1. /\ at[r] = "holding" /\ run[r].pc = "watch" /\ UNCHANGED <<lockVars, agent>>
      /\ run[r].op \in Ops /\ run[r].launch \in Ids /\ run[r].dir = 0
  BY BindWrites DEF Books
<1>2. PICK x \in RunRec, c \in CaseRec :
        /\ run' = [run EXCEPT ![r] = x]
        /\ x.pc = "watch" /\ x.op = run[r].op /\ x.launch = run[r].launch
        /\ x.dir = run[r].launch /\ x.prev = run[r].prev
        /\ cases' = [cases EXCEPT ![run[r].op] = c]
        /\ c.status = "running" /\ c.dir = run[r].launch
  BY BindWrites DEF Books
<1>3. /\ run'[r] = x /\ \A q \in Runners \ {r} : run'[q] = run[q]
  BY <1>2, RunTyped DEF Books
<1>4. \A o \in Ops \ {run[r].op} : cases'[o] = cases[o]
  BY <1>1, <1>2, CaseTyped DEF Books
<1>5. ASSUME NEW j \in Ids \ lost', agent'[j].life = "up"
      PROVE  agent'[j].op \in Ops /\ (Watched(j)' \/ Recorded(j)')
  <2>1. CASE j = run[r].launch
    <3>1. Watched(j)'
      BY <1>2, <1>3, <2>1 DEF Watched
    <3>2. agent[j].op \in Ops
      BY <1>1, <2>1 DEF Books, RunFits, Fits
    <3> QED BY <1>1, <3>1, <3>2
  <2>2. CASE j # run[r].launch
    <3>1. agent[j].op \in Ops /\ Recorded(j)
      BY <1>1, <1>5, <2>2, Unwatched
    <3>2. agent[j].op # run[r].op
      <4>1. 0 \notin Ids
        BY BatchAssumption DEF BatchAssumption, Ids
      <4>2. cases[run[r].op].dir = 0
        BY <1>1 DEF Books, RunFits, Fits
      <4> QED BY <3>1, <4>1, <4>2 DEF Recorded
    <3> QED BY <1>1, <1>4, <3>1, <3>2, KnownStays
  <2> QED BY <2>1, <2>2
<1>6. \A q \in Runners : run'[q].prev # 0 =>
       agent'[run'[q].prev].life = "gone" \/ run'[q].prev \in lost'
  BY <1>1, <1>2, <1>3 DEF InFlight
<1> QED BY <1>5, <1>6 DEF InFlight

\* The session that was watched is over.
LEMMA StopInFlight ==
  ASSUME Books, InFlight, NEW r \in Runners, EndOfOutput(r) \/ Timeout(r) \/ Interrupt(r)
  PROVE  InFlight'
<1>0. lost \subseteq lost'
  BY LostGrows
<1> USE <1>0
<1>1. /\ at[r] = "holding" /\ run[r].pc = "watch" /\ UNCHANGED <<lockVars, cases>>
      /\ run[r].launch \in Ids
  BY StopWrites DEF Books
<1>2. PICK x \in RunRec, y \in AgentRec :
        /\ run' = [run EXCEPT ![r] = x]
        /\ x.pc = "settle" /\ x.op = run[r].op /\ x.launch = run[r].launch
        /\ x.dir = run[r].dir /\ x.prev = run[r].prev
        /\ agent' = [agent EXCEPT ![run[r].launch] = y]
        /\ y.life = "gone" /\ y.op = agent[run[r].launch].op
        /\ y.phase = agent[run[r].launch].phase
  BY StopWrites DEF Books
<1>3. /\ run'[r] = x /\ \A q \in Runners \ {r} : run'[q] = run[q]
  BY <1>2, RunTyped DEF Books
<1>4. /\ agent'[run[r].launch] = y
      /\ \A j \in Ids \ {run[r].launch} : agent'[j] = agent[j]
  BY <1>1, <1>2, AgentTyped DEF Books
<1>5. ASSUME NEW j \in Ids \ lost', agent'[j].life = "up"
      PROVE  agent'[j].op \in Ops /\ Recorded(j)'
  <2>1. j # run[r].launch /\ agent'[j] = agent[j]
    BY <1>2, <1>4, <1>5
  <2>2. agent[j].op \in Ops /\ Recorded(j)
    BY <1>1, <1>5, <2>1, Unwatched
  <2> QED BY <1>1, <2>1, <2>2, KnownStays
<1>6. ASSUME NEW q \in Runners, run'[q].prev # 0
      PROVE  agent'[run'[q].prev].life = "gone" \/ run'[q].prev \in lost'
  <2>1. run'[q].prev = run[q].prev
    BY <1>2, <1>3
  <2>2. run[q].prev \in Ids
    <3>1. run[q].prev \in Ids \cup {0}
      BY DEF Books, BatchType, RunRec
    <3> QED BY <1>6, <2>1, <3>1
  <2> QED BY <1>2, <1>4, <1>6, <2>1, <2>2 DEF InFlight
<1> QED BY <1>5, <1>6 DEF InFlight

\* The directory that is settled is not that of a session that is up.
LEMMA SettleInFlight ==
  ASSUME Books, InFlight, NEW r \in Runners, Settle(r)
  PROVE  InFlight'
<1>0. lost \subseteq lost'
  BY LostGrows
<1> USE <1>0
<1>1. /\ at[r] = "holding" /\ run[r].pc = "settle" /\ UNCHANGED <<lockVars, agent>>
      /\ run[r].op \in Ops
  BY SettleWrites DEF Books
<1>2. PICK i \in Ids \cup {0}, x \in RunRec, c \in CaseRec :
        /\ i # 0 => agent[i].op = run[r].op /\ agent[i].life # "none"
        /\ run' = [run EXCEPT ![r] = x]
        /\ x.pc \in {"next", "end"} /\ x.dir = 0
        /\ x.prev = IF i # 0 THEN i ELSE run[r].prev
        /\ cases' = [cases EXCEPT ![run[r].op] = c]
        /\ c.status \in {"done", "error"}
        /\ c.status = "done" => i # 0 /\ c.dir = i /\ agent[i].phase = "FINISH"
  BY SettleWrites DEF Books
<1>3. /\ run'[r] = x /\ \A q \in Runners \ {r} : run'[q] = run[q]
  BY <1>2, RunTyped DEF Books
<1>4. \A o \in Ops \ {run[r].op} : cases'[o] = cases[o]
  BY <1>1, <1>2, CaseTyped DEF Books
<1>5. ASSUME NEW j \in Ids \ lost', agent'[j].life = "up"
      PROVE  agent'[j].op \in Ops /\ Recorded(j)'
  <2>1. agent[j].op \in Ops /\ Recorded(j) /\ agent[j].op # run[r].op
    BY <1>1, <1>5, Unwatched, InHandIsIdle
  <2> QED BY <1>1, <1>4, <2>1, KnownStays
<1>6. i # 0 => agent[i].life = "gone" \/ i \in lost
  <2>1. ASSUME i # 0 PROVE agent[i].life \in {"none", "up", "gone"}
    <3>1. i \in Ids
      BY <2>1
    <3> QED BY <3>1 DEF Books, BatchType, AgentRec
  <2> QED BY <1>1, <1>2, <2>1, InHandIsIdle
<1>7. \A q \in Runners : run'[q].prev # 0 =>
       agent'[run'[q].prev].life = "gone" \/ run'[q].prev \in lost'
  BY <1>1, <1>2, <1>3, <1>6 DEF InFlight
<1> QED BY <1>5, <1>7 DEF InFlight

\* Who stops watching leaves a session that is recorded.
LEMMA EndInFlight ==
  ASSUME Books, InFlight, NEW r \in Runners,
         InterruptOutside(r) \/ Leave(r) \/ WaitExpires(r) \/ Killed(r)
  PROVE  InFlight'
<1>0. lost \subseteq lost'
  BY LostGrows
<1> USE <1>0
<1>1. /\ UNCHANGED <<cases, agent>> /\ run'[r].prev = 0
      /\ \A q \in Runners \ {r} : run'[q] = run[q]
  BY EndWrites DEF Books
<1>2. ASSUME run[r].pc = "watch", run[r].launch \in Ids \ lost',
             agent[run[r].launch].life = "up"
      PROVE  Active(run[r].dir)
  BY <1>2 DEF InterruptOutside, Leave, WaitExpires, Killed, Orphaned
<1>3. ASSUME run[r].pc = "watch", run[r].launch \in Ids \ lost',
             agent[run[r].launch].life = "up"
      PROVE  Recorded(run[r].launch)
  BY <1>2, <1>3 DEF Books, RunFits, Fits, Active, Recorded
<1>4. ASSUME NEW j \in Ids \ lost', agent'[j].life = "up"
      PROVE  agent'[j].op \in Ops /\ (Watched(j)' \/ Recorded(j)')
  <2>1. agent[j].op \in Ops /\ (Watched(j) \/ Recorded(j))
    BY <1>1, <1>4 DEF InFlight
  <2>2. CASE Recorded(j)
    BY <1>1, <2>1, <2>2 DEF Recorded
  <2>3. CASE Watched(j)
    <3>1. PICK q \in Runners : run[q].pc = "watch" /\ run[q].launch = j
      BY <2>3 DEF Watched
    <3>2. CASE q = r
      <4>1. Recorded(j)
        BY <1>1, <1>3, <1>4, <3>1, <3>2
      <4> QED BY <1>1, <2>1, <4>1 DEF Recorded
    <3>3. CASE q # r
      <4>1. Watched(j)'
        BY <1>1, <3>1, <3>3 DEF Watched
      <4> QED BY <1>1, <2>1, <4>1
    <3> QED BY <3>2, <3>3
  <2> QED BY <2>1, <2>2, <2>3
<1>5. \A q \in Runners : run'[q].prev # 0 =>
       agent'[run'[q].prev].life = "gone" \/ run'[q].prev \in lost'
  BY <1>1 DEF InFlight
<1> QED BY <1>4, <1>5 DEF InFlight

\* A session that is up keeps its heartbeat, and one that ended stays ended.
LEMMA SessionInFlight ==
  ASSUME Books, InFlight, NEW i \in Ids,
         Session(i) \/ SessionEnds(i) \/ GoesStale(i)
  PROVE  InFlight'
<1>0. lost \subseteq lost'
  BY LostGrows
<1> USE <1>0
<1>1. UNCHANGED <<lockVars, cases, run>>
  BY SessionWrites DEF Books
<1>2. PICK y \in AgentRec :
        /\ agent' = [agent EXCEPT ![i] = y] /\ y.op = agent[i].op
        /\ agent[i].life = "none" => y.life = "none" /\ y.dir = agent[i].dir
        /\ agent[i].life = "gone" => y.life = "gone"
        /\ agent[i].life = "up" => y.life # "none"
        /\ agent[i].phase = "FINISH" => y.phase = "FINISH"
        /\ y.life = "up" /\ agent[i].owned /\ agent[i].fresh
             => (y.owned /\ y.fresh) \/ Watched(i) \/ i \in lost'
  BY SessionWrites DEF Books
<1>3. /\ agent'[i] = y /\ \A j \in Ids \ {i} : agent'[j] = agent[j]
  BY <1>2, AgentTyped DEF Books
<1>4. agent[i].life \in {"none", "up", "gone"}
  BY DEF Books, BatchType, AgentRec
<1>5. ASSUME NEW j \in Ids \ lost', agent'[j].life = "up"
      PROVE  agent'[j].op \in Ops /\ (Watched(j)' \/ Recorded(j)')
  <2>1. agent[j].life = "up" /\ agent'[j].op = agent[j].op
    BY <1>2, <1>3, <1>4, <1>5
  <2>2. agent[j].owned /\ agent[j].fresh
          => (agent'[j].owned /\ agent'[j].fresh) \/ Watched(j)
    BY <1>2, <1>3, <1>5
  <2>3. agent[j].op \in Ops /\ (Watched(j) \/ Recorded(j))
    BY <2>1 DEF InFlight
  <2>4. Watched(j) => Watched(j)'
    BY <1>1 DEF Watched
  <2>5. Recorded(j) => Recorded(j)' \/ Watched(j)
    BY <1>1, <2>1, <2>2 DEF Recorded
  <2> QED BY <2>1, <2>3, <2>4, <2>5
<1>6. ASSUME NEW q \in Runners, run'[q].prev # 0
      PROVE  agent'[run'[q].prev].life = "gone" \/ run'[q].prev \in lost'
  <2>1. /\ run'[q].prev = run[q].prev
        /\ agent[run[q].prev].life = "gone" \/ run[q].prev \in lost
    BY <1>1, <1>6 DEF InFlight
  <2>2. run[q].prev \in Ids
    <3>1. run[q].prev \in Ids \cup {0}
      BY DEF Books, BatchType, RunRec
    <3> QED BY <1>1, <1>6, <3>1
  <2> QED BY <1>2, <1>3, <2>1, <2>2
<1> QED BY <1>5, <1>6 DEF InFlight

LEMMA InFlightStart == Init => InFlight
<1>1. NoRun.prev = 0 /\ NoAgent.life = "none"
  BY DEF NoRun, NoAgent
<1> QED BY <1>1 DEF Init, InFlight

LEMMA InFlightStep ==
  ASSUME Books, InFlight, [Next]_vars
  PROVE  InFlight'
<1>1. CASE Locking \/ Over \/ UNCHANGED vars
  <2>1. UNCHANGED <<cases, agent, run, lost>>
    BY <1>1 DEF Locking, Over, batchVars, vars
  <2> QED BY <2>1 DEF InFlight, Watched, Recorded
<1>2. CASE \E r \in Runners : Recover(r) \/ Begin(r) \/ Launch(r) \/ Settle(r)
  BY <1>2, RecoverInFlight, BeginInFlight, LaunchInFlight, SettleInFlight
<1>3. CASE \E r \in Runners : Bind(r) \/ EndOfOutput(r) \/ Timeout(r) \/ Interrupt(r)
  BY <1>3, BindInFlight, StopInFlight
<1>4. CASE \E r \in Runners : InterruptOutside(r) \/ Leave(r) \/ WaitExpires(r) \/ Killed(r)
  BY <1>4, EndInFlight
<1>5. CASE \E i \in Ids : Session(i) \/ SessionEnds(i) \/ GoesStale(i)
  BY <1>5, SessionInFlight
<1> QED BY <1>1, <1>2, <1>3, <1>4, <1>5 DEF Next, Work

\* Two known sessions of one operator are one session.
LEMMA OneUp ==
  ASSUME Books, InFlight, NEW i \in Ids \ lost, NEW j \in Ids \ lost, agent[i].life = "up",
         agent[j].life = "up", agent[i].op = agent[j].op
  PROVE  i = j
<1>1. CASE Recorded(i) /\ Recorded(j)
  BY <1>1 DEF Recorded
<1>2. ASSUME NEW k \in Ids \ lost, NEW l \in Ids \ lost, agent[k].life = "up", agent[l].life = "up",
             agent[k].op = agent[l].op, Watched(k)
      PROVE  k = l
  <2>1. PICK r \in Runners : run[r].pc = "watch" /\ run[r].launch = k
    BY <1>2 DEF Watched
  <2>2. Fits(r)
    BY DEF Books, RunFits
  <2>3. CASE k # l
    <3>1. Recorded(l)
      BY <1>2, <2>1, <2>2, <2>3, Unwatched DEF Fits
    <3>2. 0 \notin Ids
      BY BatchAssumption DEF BatchAssumption, Ids
    <3> QED BY <1>2, <2>1, <2>2, <3>1, <3>2 DEF Fits, Recorded
  <2> QED BY <2>3
<1> QED BY <1>1, <1>2 DEF InFlight

\* As long as the lock excludes, no operator has two sessions that are not lost:
\* a kill of the runner, an expired wait, a heartbeat that went stale while the
\* runner watched and a manifest that drops other operators do not make two.
THEOREM OneSession == Spec /\ []LockExclusive => []NoDoubleRun
<1>1. Books /\ InFlight => NoDoubleRun
  <2>1. SUFFICES ASSUME Books, InFlight, NEW op \in Ops PROVE Cardinality(Up(op) \ lost) <= 1
    BY DEF NoDoubleRun
  <2>2. CASE Up(op) \ lost = {}
    BY <2>2, FS_EmptySet
  <2>3. CASE Up(op) \ lost # {}
    <3>1. PICK i \in Up(op) \ lost : TRUE
      BY <2>3
    <3>2. Up(op) \ lost = {i}
      BY <2>1, <3>1, OneUp DEF Up
    <3> QED BY <3>2, FS_Singleton
  <2> QED BY <2>2, <2>3
<1>2. Books /\ InFlight /\ [Next]_vars /\ LockExclusive' => Books' /\ InFlight'
  BY BooksStep, InFlightStep
<1> QED BY <1>1, <1>2, BooksStart, InFlightStart, PTL DEF Spec
=============================================================================
