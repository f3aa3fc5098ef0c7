---------------------------- MODULE WorkerProofs ----------------------------
(***************************************************************************)
(* No device of the worker is lost, doubled or shared, for any number of   *)
(* requests and devices.                                                   *)
(***************************************************************************)
EXTENDS WorkerSafety, TLAPS, SequenceTheorems, FiniteSetTheorems

Over == {"served", "gone", "refused"}

\* What ties a handler to its get() and its evaluation.
Stages ==
  \A r \in Reqs :
    /\ pc[r] \in {"new", "refused"} => qt[r] = "none"
    /\ pc[r] \in {"granted", "evaluating", "stopping"} => qt[r] = "done"
    /\ pc[r] \in {"queued", "ungranted", "reap"} => qt[r] # "none"
    /\ pc[r] \in {"served", "gone"} => qt[r] \in {"done", "cancelled"}
    /\ dev[r] # NoDev <=> qt[r] = "done" /\ pc[r] \notin Over
    /\ pc[r] = "evaluating" => ev[r] \in {"run", "term", "done"}
    /\ pc[r] = "stopping" => ev[r] \in {"cancel", "cancelled"}
    /\ ev[r] \in {"run", "term", "cancel"} => pc[r] \in {"evaluating", "stopping"}

\* An evaluation that obeys its SIGTERM has its one subprocess on its device.
ProcsCurrent ==
  \A x \in procs : x[1] \notin Deaf =>
    /\ ev[x[1]] \in {"run", "term", "cancel"}
    /\ x[2] = pass[x[1]] /\ x[3] = dev[x[1]]

IInv == PoolTypeOK /\ DeviceConserved /\ Stages /\ ProcsCurrent

-----------------------------------------------------------------------------
\* _wakeup_next changes no getter but one that was waiting.
LEMMA WakeNextQt ==
  ASSUME NEW q \in [Reqs -> QtStates], getters \in Seq(Reqs), WakeNext(q)
  PROVE  /\ getters' \in Seq(Reqs)
         /\ qt' \in [Reqs -> QtStates]
         /\ \A r \in Reqs : qt'[r] = q[r] \/ (q[r] = "waiting" /\ qt'[r] = "woken")
<1> DEFINE Live == {i \in DOMAIN getters : q[getters[i]] = "waiting"}
<1>1. CASE Live = {} /\ getters' = <<>> /\ qt' = q
  BY <1>1
<1>2. CASE \E i \in Live :
           /\ getters' = SubSeq(getters, i + 1, Len(getters))
           /\ qt' = [q EXCEPT ![getters[i]] = "woken"]
  <2>1. PICK i \in Live :
           /\ getters' = SubSeq(getters, i + 1, Len(getters))
           /\ qt' = [q EXCEPT ![getters[i]] = "woken"]
    BY <1>2
  <2>2. i \in 1..Len(getters) /\ getters[i] \in Reqs
    OBVIOUS
  <2>3. getters' \in Seq(Reqs)
    <3>1. \A j \in (i+1)..Len(getters) : getters[j] \in Reqs
      BY <2>2
    <3> QED BY <2>1, <2>2, <3>1, SubSeqProperties
  <2> QED BY <2>1, <2>2, <2>3 DEF QtStates
<1> QED BY <1>1, <1>2 DEF WakeNext

LEMMA InitIInv == Init => IInv
BY PoolAssumption DEF Init, IInv, PoolTypeOK, DeviceConserved, Stages, ProcsCurrent,
   Pcs, QtStates, EvStates, Passes, Over

-----------------------------------------------------------------------------
(* One lemma per group of actions *)

LEMMA QueueSteps ==
  ASSUME IInv, NEW r \in Reqs, QueueStep(r)
  PROVE  IInv'
<1> USE DEF IInv
<1>1. CASE GetDevice(r)
  <2> USE <1>1 DEF GetDevice, TakeOrWait
  <2>1. PoolTypeOK'
    <3>1. getters' \in Seq(Reqs) /\ qt' \in [Reqs -> QtStates]
      <4>1. getters' = getters \/ getters' = Append(getters, r)
        OBVIOUS
      <4>2. getters \in Seq(Reqs) /\ Append(getters, r) \in Seq(Reqs)
        BY ONLY IInv, r \in Reqs, AppendProperties DEF IInv, PoolTypeOK
      <4>3. \E s \in QtStates : qt' = [qt EXCEPT ![r] = s]
        BY DEF QtStates
      <4>4. qt \in [Reqs -> QtStates]
        BY ONLY IInv DEF IInv, PoolTypeOK
      <4> HIDE DEF IInv, GetDevice, TakeOrWait
      <4> QED BY <4>1, <4>2, <4>3, <4>4
    <3>2. pool' \in [Devices -> Nat] /\ dev' \in [Reqs -> Devices \cup {NoDev}]
      <4>1. pool \in [Devices -> Nat] /\ dev \in [Reqs -> Devices \cup {NoDev}]
        BY ONLY IInv DEF IInv, PoolTypeOK
      <4>2. \/ \E d \in Devices : pool[d] > 0 /\ dev' = [dev EXCEPT ![r] = d]
                                  /\ pool' = [pool EXCEPT ![d] = @ - 1]
            \/ pool' = pool /\ dev' = dev
        OBVIOUS
      <4> QED BY ONLY <4>1, <4>2, r \in Reqs
    <3> QED BY <3>1, <3>2 DEF PoolTypeOK
  <2>2. CASE \E d \in Devices : pool[d] > 0 /\ dev' = [dev EXCEPT ![r] = d]
                 /\ pool' = [pool EXCEPT ![d] = @ - 1] /\ qt' = [qt EXCEPT ![r] = "done"]
    <3>1. PICK d \in Devices : pool[d] > 0 /\ dev' = [dev EXCEPT ![r] = d]
                 /\ pool' = [pool EXCEPT ![d] = @ - 1] /\ qt' = [qt EXCEPT ![r] = "done"]
      BY <2>2
    <3>2. dev[r] = NoDev /\ pc[r] \in {"queued", "ungranted", "reap"}
      BY DEF Stages, PoolTypeOK, Pcs, Over
    <3>3. DeviceConserved'
      BY <3>1, <3>2, PoolAssumption DEF DeviceConserved, PoolTypeOK
    <3>4. Stages'
      BY <3>1, <3>2, PoolAssumption DEF Stages, PoolTypeOK, Over
    <3>5. ProcsCurrent'
      BY <3>1, <3>2 DEF ProcsCurrent, Stages, PoolTypeOK
    <3> QED BY <2>1, <3>3, <3>4, <3>5
  <2>3. CASE UNCHANGED <<pool, dev>> /\ qt' = [qt EXCEPT ![r] = "waiting"]
    BY <2>1, <2>3 DEF DeviceConserved, Stages, ProcsCurrent, PoolTypeOK, Over
  <2> QED BY <2>2, <2>3
<1>2. CASE GetCancelled(r)
  <2>1. /\ getters' \in Seq(Reqs) /\ qt' \in [Reqs -> QtStates]
        /\ \A s \in Reqs : \/ qt'[s] = qt[s]
                           \/ qt[s] \in {"dropped", "passing"} /\ qt'[s] = "cancelled"
                           \/ qt[s] = "waiting" /\ qt'[s] = "woken"
    <3>1. CASE qt[r] = "dropped"
      <4>1. CASE \E i \in DOMAIN getters :
                   getters' = SubSeq(getters, 1, i - 1)
                                \o SubSeq(getters, i + 1, Len(getters))
        <5>1. PICK i \in DOMAIN getters :
                   getters' = SubSeq(getters, 1, i - 1)
                                \o SubSeq(getters, i + 1, Len(getters))
          BY <4>1
        <5>2. i \in 1..Len(getters) /\ \A j \in 1..Len(getters) : getters[j] \in Reqs
          BY DEF PoolTypeOK
        <5>4. /\ SubSeq(getters, 1, i - 1) \in Seq(Reqs)
              /\ SubSeq(getters, i + 1, Len(getters)) \in Seq(Reqs)
          <6>1. /\ \A j \in 1..(i-1) : getters[j] \in Reqs
                /\ \A j \in (i+1)..Len(getters) : getters[j] \in Reqs
                /\ Len(getters) \in Int
            BY <5>2
          <6> HIDE DEF IInv
          <6> QED BY <5>2, <6>1, SubSeqProperties
        <5>3. getters' \in Seq(Reqs)
          BY <5>1, <5>4, ConcatProperties
        <5> QED BY <1>2, <3>1, <5>3 DEF GetCancelled, PoolTypeOK, QtStates
      <4> QED BY <1>2, <3>1, <4>1 DEF GetCancelled, RemoveGetter, PoolTypeOK, QtStates
    <3>2. CASE qt[r] = "passing" /\ WakeNext([qt EXCEPT ![r] = "cancelled"])
      <4>1. [qt EXCEPT ![r] = "cancelled"] \in [Reqs -> QtStates]
        BY DEF PoolTypeOK, QtStates
      <4> QED BY <3>2, <4>1, WakeNextQt DEF PoolTypeOK
    <3>3. CASE qt[r] = "passing" /\ qt' = [qt EXCEPT ![r] = "cancelled"] /\ UNCHANGED getters
      BY <3>3 DEF PoolTypeOK, QtStates
    <3> QED BY <1>2, <3>1, <3>2, <3>3 DEF GetCancelled
  <2>2. UNCHANGED <<pool, pc, dev, conn, seen, ev, pass, procs>>
    BY <1>2 DEF GetCancelled
  <2>3. PoolTypeOK'
    BY <2>1, <2>2 DEF PoolTypeOK
  <2>4. Stages'
    BY <2>1, <2>2 DEF Stages, PoolTypeOK, Over
  <2> QED BY <2>2, <2>3, <2>4 DEF DeviceConserved, ProcsCurrent
<1> QED BY <1>1, <1>2 DEF QueueStep

\* Putting back the device of a request that ends.
LEMMA Release ==
  ASSUME IInv, NEW r \in Reqs, NEW q \in [Reqs -> QtStates],
         dev[r] # NoDev,
         \A s \in Reqs \ {r} : q[s] = qt[s],
         PutBack(dev[r], q), dev' = [dev EXCEPT ![r] = NoDev],
         pc' \in [Reqs -> Pcs], \A s \in Reqs \ {r} : pc'[s] = pc[s]
  PROVE  /\ pool' \in [Devices -> Nat] /\ getters' \in Seq(Reqs)
         /\ qt' \in [Reqs -> QtStates] /\ dev' \in [Reqs -> Devices \cup {NoDev}]
         /\ \A s \in Reqs : qt'[s] = q[s] \/ (q[s] = "waiting" /\ qt'[s] = "woken")
         /\ DeviceConserved'
<1> USE DEF IInv, PutBack
<1>1. /\ getters' \in Seq(Reqs) /\ qt' \in [Reqs -> QtStates]
      /\ \A s \in Reqs : qt'[s] = q[s] \/ (q[s] = "waiting" /\ qt'[s] = "woken")
  BY WakeNextQt DEF PoolTypeOK
<1>2. dev[r] \in Devices /\ pool[dev[r]] = 0
  BY DEF DeviceConserved, PoolTypeOK
<1>3. pool' = [pool EXCEPT ![dev[r]] = 1] /\ dev' \in [Reqs -> Devices \cup {NoDev}]
  BY <1>2 DEF PoolTypeOK
<1>4. DeviceConserved'
  <2>1. \A d \in Devices :
       \/ pool'[d] = 1 /\ \A s \in Reqs : dev'[s] # d
       \/ pool'[d] = 0 /\ \E s \in Reqs : dev'[s] = d
    BY <1>2, <1>3, PoolAssumption DEF DeviceConserved, PoolTypeOK
  <2>2. \A s, t \in Reqs : dev'[s] = dev'[t] /\ dev'[s] # NoDev => s = t
    BY <1>3 DEF DeviceConserved, PoolTypeOK
  <2>3. \A s \in Reqs : pc'[s] \in {"served", "gone", "refused"} => dev'[s] = NoDev
    BY <1>3 DEF DeviceConserved, PoolTypeOK
  <2> QED BY <2>1, <2>2, <2>3 DEF DeviceConserved
<1> QED BY <1>1, <1>3, <1>4 DEF PoolTypeOK

LEMMA HandlerSteps ==
  ASSUME IInv, NEW r \in Reqs, HandlerStep(r)
  PROVE  IInv'
<1> USE DEF IInv
<1>1. CASE Decide(r)
  BY <1>1 DEF Decide, PoolTypeOK, DeviceConserved, Stages, ProcsCurrent, Pcs, Over
<1>2. CASE AbandonQueue(r)
  <2>1. qt' \in [Reqs -> QtStates] /\ \A s \in Reqs :
          \/ qt'[s] = qt[s]
          \/ s = r /\ qt[s] \in {"waiting", "woken"} /\ qt'[s] \in {"dropped", "passing"}
    BY <1>2 DEF AbandonQueue, CancelGet, PoolTypeOK, QtStates
  <2>2. PoolTypeOK'
    BY <1>2, <2>1 DEF AbandonQueue, PoolTypeOK, Pcs
  <2>3. Stages'
    BY <1>2, <2>1 DEF AbandonQueue, Stages, PoolTypeOK, Over
  <2> QED BY <1>2, <2>2, <2>3 DEF AbandonQueue, DeviceConserved, ProcsCurrent, PoolTypeOK
<1>3. CASE Reap(r)
  <2>0. pc' = [pc EXCEPT ![r] = "gone"] /\ pc' \in [Reqs -> Pcs]
        /\ dev' = [dev EXCEPT ![r] = NoDev]
        /\ UNCHANGED <<conn, seen, ev, pass, procs>>
    BY <1>3 DEF Reap, PoolTypeOK, Pcs
  <2>1. CASE qt[r] = "done" /\ PutBack(dev[r], [qt EXCEPT ![r] = "cancelled"])
    <3> DEFINE q == [qt EXCEPT ![r] = "cancelled"]
    <3>1. q \in [Reqs -> QtStates] /\ dev[r] # NoDev
      BY <1>3, <2>1 DEF PoolTypeOK, QtStates, Reap, Stages, Over
    <3>2. /\ pool' \in [Devices -> Nat] /\ getters' \in Seq(Reqs)
          /\ qt' \in [Reqs -> QtStates] /\ dev' \in [Reqs -> Devices \cup {NoDev}]
          /\ \A s \in Reqs : qt'[s] = q[s] \/ (q[s] = "waiting" /\ qt'[s] = "woken")
          /\ DeviceConserved'
      <4>1. \A s \in Reqs \ {r} : q[s] = qt[s] /\ pc'[s] = pc[s]
        BY <2>0 DEF PoolTypeOK
      <4> HIDE DEF q, IInv
      <4> QED BY <2>0, <2>1, <3>1, <4>1, Release DEF q
    <3>3. PoolTypeOK'
      BY <2>0, <3>2 DEF PoolTypeOK
    <3>4. Stages'
      BY <1>3, <2>0, <2>1, <3>2 DEF Stages, PoolTypeOK, Over, Reap
    <3>5. ProcsCurrent'
      BY <1>3, <2>0 DEF ProcsCurrent, PoolTypeOK, Stages, Reap
    <3> QED BY <3>2, <3>3, <3>4, <3>5
  <2>2. CASE qt[r] = "cancelled" /\ UNCHANGED <<pool, getters, qt>>
    <3>1. dev[r] = NoDev
      BY <2>2 DEF Stages
    <3>2. dev' = dev
      BY <2>0, <3>1 DEF PoolTypeOK
    <3> QED
      BY <1>3, <2>0, <2>2, <3>1, <3>2
      DEF Reap, PoolTypeOK, DeviceConserved, Stages, ProcsCurrent, Over
  <2> QED BY <1>3, <2>1, <2>2 DEF Reap
<1>4. CASE StartEval(r)
  <2>0. pc[r] = "granted" /\ ev[r] \notin {"run", "term", "cancel"} /\ dev[r] \in Devices
    BY <1>4 DEF StartEval, Stages, PoolTypeOK, Over
  <2>1. PoolTypeOK'
    <3>1. procs' \subseteq Reqs \X Passes \X Devices
      BY <1>4, <2>0 DEF StartEval, PoolTypeOK
    <3>2. pass' \in [Reqs -> Passes] /\ ev' \in [Reqs -> EvStates]
      BY <1>4 DEF StartEval, PoolTypeOK, EvStates
    <3> QED BY <1>4, <3>1, <3>2 DEF StartEval, PoolTypeOK, Pcs
  <2>2. DeviceConserved'
    BY <1>4, <2>0 DEF StartEval, PoolTypeOK, DeviceConserved
  <2>3. Stages'
    BY <1>4, <2>0 DEF StartEval, PoolTypeOK, Stages, Over
  <2>4. ProcsCurrent'
    BY <1>4, <2>0 DEF StartEval, PoolTypeOK, ProcsCurrent, Passes
  <2> QED BY <2>1, <2>2, <2>3, <2>4
<1>5. CASE AbandonEval(r)
  <2>1. PoolTypeOK'
    BY <1>5 DEF AbandonEval, PoolTypeOK, Pcs, EvStates
  <2>2. DeviceConserved'
    BY <1>5 DEF AbandonEval, PoolTypeOK, DeviceConserved
  <2>3. Stages'
    BY <1>5 DEF AbandonEval, PoolTypeOK, Stages, Over
  <2>4. ProcsCurrent'
    BY <1>5 DEF AbandonEval, PoolTypeOK, ProcsCurrent
  <2> QED BY <2>1, <2>2, <2>3, <2>4
<1>6. CASE Finish(r)
  <2>0. /\ pc[r] \in {"evaluating", "stopping"} /\ ev[r] \in {"done", "cancelled"}
        /\ pc' \in [Reqs -> Pcs] /\ \A s \in Reqs \ {r} : pc'[s] = pc[s]
        /\ pc'[r] \in {"served", "gone"}
        /\ dev' = [dev EXCEPT ![r] = NoDev]
        /\ UNCHANGED <<conn, seen, ev, pass, procs>> /\ PutBack(dev[r], qt)
    BY <1>6 DEF Finish, PoolTypeOK, Pcs
  <2>1. dev[r] # NoDev /\ qt[r] = "done" /\ qt \in [Reqs -> QtStates]
    BY <2>0 DEF Stages, Over, PoolTypeOK
  <2>2. /\ pool' \in [Devices -> Nat] /\ getters' \in Seq(Reqs)
        /\ qt' \in [Reqs -> QtStates] /\ dev' \in [Reqs -> Devices \cup {NoDev}]
        /\ \A s \in Reqs : qt'[s] = qt[s] \/ (qt[s] = "waiting" /\ qt'[s] = "woken")
        /\ DeviceConserved'
    <3> HIDE DEF IInv
    <3> QED BY <2>0, <2>1, Release
  <2>3. PoolTypeOK'
    BY <2>0, <2>2 DEF PoolTypeOK
  <2>4. Stages'
    BY <2>0, <2>1, <2>2 DEF Stages, PoolTypeOK, Over
  <2>5. ProcsCurrent'
    BY <2>0 DEF ProcsCurrent, PoolTypeOK
  <2> QED BY <2>2, <2>3, <2>4, <2>5
<1> QED BY <1>1, <1>2, <1>3, <1>4, <1>5, <1>6 DEF HandlerStep

LEMMA EvalSteps ==
  ASSUME IInv, NEW r \in Reqs, EvalStep(r)
  PROVE  IInv'
<1> USE DEF IInv
<1>0. /\ ev[r] \in {"run", "term", "cancel"} /\ pc[r] \in {"evaluating", "stopping"}
      /\ dev[r] \in Devices
      /\ UNCHANGED <<pool, getters, pc, qt, dev, conn, seen>>
  <2>1. ev[r] \in {"run", "term", "cancel"} /\ UNCHANGED <<pool, getters, pc, qt, dev, conn, seen>>
    BY DEF EvalStep, PassEnds, PassTimeout, PassTimedOut, EvalCancelled
  <2> QED BY <2>1 DEF Stages, PoolTypeOK, Over
<1>t. \A x \in procs : x = <<x[1], x[2], x[3]>> /\ x[1] \in Reqs
  BY DEF PoolTypeOK
<1>1. ASSUME NEW left \in SUBSET procs, NextPass(r, left),
             ev[r] \in {"run", "term"}, r \notin Deaf => Proc(r) \notin left
      PROVE  IInv'
  <2>1. PoolTypeOK'
    <3>1. procs' \subseteq Reqs \X Passes \X Devices
      BY <1>0, <1>1 DEF NextPass, PoolTypeOK, Passes
    <3>2. pass' \in [Reqs -> Passes] /\ ev' \in [Reqs -> EvStates]
      BY <1>1 DEF NextPass, PoolTypeOK, Passes, EvStates
    <3> QED BY <1>0, <3>1, <3>2 DEF PoolTypeOK
  <2>2. DeviceConserved'
    BY <1>0 DEF DeviceConserved
  <2>3. pc[r] = "evaluating"
    BY <1>0, <1>1 DEF Stages
  <2>4. Stages'
    BY <1>0, <1>1, <2>3 DEF NextPass, PoolTypeOK, Stages, Over
  <2>5. ProcsCurrent'
    <3>1. \A x \in left : x[1] \notin Deaf => x[1] # r
      <4> SUFFICES ASSUME NEW x \in left, x[1] \notin Deaf, x[1] = r PROVE FALSE
        OBVIOUS
      <4>1. x = <<r, pass[r], dev[r]>>
        BY <1>t DEF ProcsCurrent
      <4> QED BY <1>1, <4>1 DEF Proc
    <3>2. \A x \in left : x[1] \notin Deaf => ev'[x[1]] = ev[x[1]] /\ pass'[x[1]] = pass[x[1]]
      BY <1>1, <3>1 DEF NextPass, PoolTypeOK
    <3>3. \A x \in procs' : x \in left \/ (x = <<r, "kernel", dev[r]>>
                                           /\ pass' = [pass EXCEPT ![r] = "kernel"]
                                           /\ ev' = [ev EXCEPT ![r] = "run"])
      BY <1>1 DEF NextPass
    <3> QED BY <1>0, <1>1, <3>2, <3>3 DEF ProcsCurrent, PoolTypeOK
  <2> QED BY <2>1, <2>2, <2>4, <2>5 DEF ProcsCurrent
<1>2. CASE PassEnds(r)
  BY <1>1, <1>2 DEF PassEnds
<1>3. CASE PassTimeout(r)
  <2>1. pc[r] = "evaluating"
    BY <1>0, <1>3 DEF Stages, PassTimeout
  <2> QED BY <1>0, <1>3, <2>1 DEF PassTimeout, PoolTypeOK, EvStates, DeviceConserved, Stages,
       ProcsCurrent, Over
<1>4. CASE PassTimedOut(r)
  <2>1. PICK left \in AfterTerm(r) : NextPass(r, left)
    BY <1>4 DEF PassTimedOut
  <2>2. left \subseteq procs /\ (r \notin Deaf => Proc(r) \notin left)
    BY <2>1 DEF AfterTerm
  <2> QED BY <1>1, <1>4, <2>1, <2>2 DEF PassTimedOut
<1>5. CASE EvalCancelled(r)
  <2>0. pc[r] = "stopping" /\ ev' = [ev EXCEPT ![r] = "cancelled"] /\ UNCHANGED pass
        /\ procs' \subseteq procs /\ (r \notin Deaf => Proc(r) \notin procs')
    BY <1>0, <1>5 DEF EvalCancelled, AfterTerm, Stages
  <2>1. PoolTypeOK'
    BY <1>0, <2>0 DEF PoolTypeOK, EvStates
  <2>2. DeviceConserved'
    BY <1>0 DEF DeviceConserved
  <2>3. Stages'
    BY <1>0, <2>0 DEF Stages, PoolTypeOK, Over
  <2>4. ProcsCurrent'
    <3>1. \A x \in procs' : x[1] \notin Deaf => x[1] # r
      <4> SUFFICES ASSUME NEW x \in procs', x[1] \notin Deaf, x[1] = r PROVE FALSE
        OBVIOUS
      <4>1. x \in procs /\ x = <<r, pass[r], dev[r]>>
        BY <1>t, <2>0 DEF ProcsCurrent
      <4> QED BY <2>0, <4>1 DEF Proc
    <3> QED BY <1>0, <2>0, <3>1 DEF ProcsCurrent, PoolTypeOK
  <2> QED BY <2>1, <2>2, <2>3, <2>4 DEF ProcsCurrent
<1> QED BY <1>2, <1>3, <1>4, <1>5 DEF EvalStep

LEMMA OtherSteps ==
  ASSUME IInv,
         \/ \E r \in Reqs : Refuse(r) \/ Arrive(r) \/ Disconnect(r) \/ Watch(r)
         \/ OrphanEnds
         \/ UNCHANGED vars
  PROVE  IInv'
<1> USE DEF IInv
<1>1. ASSUME NEW r \in Reqs, Refuse(r) PROVE IInv'
  BY <1>1 DEF Refuse, PoolTypeOK, Pcs, DeviceConserved, Stages, ProcsCurrent, Over
<1>2. ASSUME NEW r \in Reqs, Arrive(r) PROVE IInv'
  <2>1. PoolTypeOK'
    BY <1>2 DEF Arrive, PoolTypeOK, Pcs, QtStates
  <2>2. Stages'
    <3>1. pc[r] = "new" /\ pc' = [pc EXCEPT ![r] = "queued"]
          /\ qt' = [qt EXCEPT ![r] = "ready"] /\ dev[r] = NoDev
          /\ UNCHANGED <<dev, ev>> /\ ev[r] \notin {"run", "term", "cancel"}
      BY <1>2 DEF Arrive, Stages
    <3> QED BY <3>1 DEF PoolTypeOK, Stages, Over
  <2>3. DeviceConserved'
    BY <1>2 DEF Arrive, PoolTypeOK, DeviceConserved
  <2>4. ProcsCurrent'
    BY <1>2 DEF Arrive, ProcsCurrent
  <2> QED BY <2>1, <2>2, <2>3, <2>4
<1>3. ASSUME NEW r \in Reqs, Disconnect(r) \/ Watch(r) PROVE IInv'
  <2>1. UNCHANGED <<pool, getters, pc, qt, dev, ev, pass, procs>>
    BY <1>3 DEF Disconnect, Watch
  <2>2. conn' \in [Reqs -> BOOLEAN] /\ seen' \in [Reqs -> BOOLEAN]
    BY <1>3 DEF Disconnect, Watch, PoolTypeOK
  <2>3. PoolTypeOK'
    BY <2>1, <2>2 DEF PoolTypeOK
  <2>4. DeviceConserved'
    BY <2>1 DEF DeviceConserved
  <2>5. Stages'
    BY <2>1 DEF Stages
  <2> QED BY <2>1, <2>3, <2>4, <2>5 DEF ProcsCurrent
<1>4. CASE OrphanEnds
  BY <1>4 DEF OrphanEnds, PoolTypeOK, DeviceConserved, Stages, ProcsCurrent
<1>5. CASE UNCHANGED vars
  <2> USE <1>5 DEF vars
  <2>1. PoolTypeOK'
    BY DEF PoolTypeOK
  <2>2. DeviceConserved'
    BY DEF DeviceConserved
  <2>3. Stages'
    BY DEF Stages
  <2> QED BY <2>1, <2>2, <2>3 DEF ProcsCurrent
<1> QED BY <1>1, <1>2, <1>3, <1>4, <1>5

LEMMA NextIInv == IInv /\ [Next]_vars => IInv'
<1> SUFFICES ASSUME IInv, [Next]_vars PROVE IInv'
  OBVIOUS
<1> QED BY QueueSteps, HandlerSteps, EvalSteps, OtherSteps DEF Next, Terminated

LEMMA AlwaysIInv == Spec => []IInv
BY InitIInv, NextIInv, PTL DEF Spec

-----------------------------------------------------------------------------
\* The types of the worker's state.
THEOREM PoolTypeCorrect == Spec => []PoolTypeOK
BY AlwaysIInv, PTL DEF IInv

\* No device is lost, put back twice or given to two requests, whatever is
\* cancelled when.
THEOREM DevicesConserved == Spec => []DeviceConserved
BY AlwaysIInv, PTL DEF IInv

\* A device that is handed out carries no subprocess of an earlier request,
\* provided subprocesses end within 5 s of their SIGTERM.
THEOREM ProcsStayUnderHolder == Spec => []ProcsUnderHolder
<1>1. IInv => ProcsUnderHolder
  BY DEF IInv, ProcsCurrent, ProcsUnderHolder
<1> QED BY <1>1, AlwaysIInv, PTL

-----------------------------------------------------------------------------
(* The pool implements DevicePool *)

\* The holder of a device is the one request it is with.
LEMMA HolderIs ==
  ASSUME IInv, NEW d \in Devices
  PROVE  /\ \A r \in Reqs : dev[r] = d => holder[d] = r
         /\ (\A r \in Reqs : dev[r] # d) => holder[d] = NoDev
<1>1. ASSUME NEW r \in Reqs, dev[r] = d PROVE holder[d] = r
  <2>1. \A s \in Reqs : dev[s] = d => s = r
    BY <1>1, PoolAssumption DEF IInv, DeviceConserved
  <2>2. (CHOOSE s \in Reqs : dev[s] = d) = r
    BY <1>1, <2>1
  <2> QED BY <1>1, <2>2 DEF holder
<1>2. ASSUME \A r \in Reqs : dev[r] # d PROVE holder[d] = NoDev
  BY <1>2 DEF holder
<1> QED BY <1>1, <1>2

\* A step that moves no device and ends no request is a stutter.
LEMMA Stutters ==
  ASSUME dev' = dev, \A r \in Reqs : pc'[r] \in Over <=> pc[r] \in Over
  PROVE  UNCHANGED <<holder, {r \in Reqs : pc[r] \in {"served", "gone", "refused"}}>>
BY DEF holder, Over

LEMMA RefinesInit == Init => Abstract!Init
BY PoolAssumption DEF Init, Abstract!Init, holder

\* A request that ends frees what it held in the same step.
LEMMA EndsRefine ==
  ASSUME IInv, IInv', NEW r \in Reqs, pc[r] \notin Over, pc'[r] \in Over,
         \A s \in Reqs \ {r} : pc'[s] = pc[s], dev' = [dev EXCEPT ![r] = NoDev]
  PROVE  Abstract!End(r)
<1> DEFINE over == {s \in Reqs : pc[s] \in {"served", "gone", "refused"}}
<1>1. r \notin over /\ over' = over \cup {r}
  BY DEF Over
<1>2. dev \in [Reqs -> Devices \cup {NoDev}]
  BY DEF IInv, PoolTypeOK
<1>3. ASSUME NEW d \in Devices
      PROVE  holder'[d] = IF holder[d] = r THEN NoDev ELSE holder[d]
  <2>1. d # NoDev
    BY PoolAssumption
  <2>2. CASE dev[r] = d
    <3>1. holder[d] = r
      BY <2>2, HolderIs
    <3>2. \A s \in Reqs : dev'[s] # d
      BY <1>2, <2>1, <2>2 DEF IInv, DeviceConserved
    <3> QED BY <3>1, <3>2 DEF holder
  <2>3. CASE dev[r] # d
    <3>1. \A s \in Reqs : dev'[s] = d <=> dev[s] = d
      BY <1>2, <2>1, <2>3
    <3>2. holder'[d] = holder[d]
      BY <3>1 DEF holder
    <3>3. CASE \E s \in Reqs : dev[s] = d
      BY <2>3, <3>2, <3>3, HolderIs
    <3>4. CASE \A s \in Reqs : dev[s] # d
      <4>1. holder[d] = NoDev
        BY <3>4, HolderIs
      <4> QED BY <3>2, <4>1
    <3> QED BY <3>3, <3>4
  <2> QED BY <2>2, <2>3
<1>4. holder' = [d \in Devices |-> IF holder[d] = r THEN NoDev ELSE holder[d]]
  BY <1>3 DEF holder
<1> QED BY <1>1, <1>4 DEF Abstract!End

LEMMA RefinesNext ==
  ASSUME IInv, IInv', [Next]_vars
  PROVE  [Abstract!Next]_<<holder, {r \in Reqs : pc[r] \in {"served", "gone", "refused"}}>>
<1> DEFINE over == {s \in Reqs : pc[s] \in {"served", "gone", "refused"}}
<1>1. ASSUME NEW r \in Reqs, Refuse(r) PROVE Abstract!Next
  <2>1. pc[r] = "new" /\ pc' = [pc EXCEPT ![r] = "refused"] /\ dev' = dev
    BY <1>1 DEF Refuse
  <2>2. dev' = [dev EXCEPT ![r] = NoDev]
    BY <2>1 DEF IInv, PoolTypeOK, Stages
  <2>3. Abstract!End(r)
    BY <2>1, <2>2, EndsRefine DEF IInv, PoolTypeOK, Over
  <2> QED BY <2>3 DEF Abstract!Next
<1>2. ASSUME NEW r \in Reqs, Reap(r) \/ Finish(r) PROVE Abstract!Next
  <2>1. /\ pc[r] \notin Over /\ dev' = [dev EXCEPT ![r] = NoDev]
        /\ \E p \in Over : pc' = [pc EXCEPT ![r] = p]
    BY <1>2 DEF Reap, Finish, Over
  <2>2. Abstract!End(r)
    BY <2>1, EndsRefine DEF IInv, PoolTypeOK
  <2> QED BY <2>2 DEF Abstract!Next
<1>3. ASSUME NEW r \in Reqs, GetDevice(r) PROVE [Abstract!Next]_<<holder, over>>
  <2>1. pc' = pc /\ qt[r] \in {"ready", "woken"}
    BY <1>3 DEF GetDevice
  <2>2. CASE dev' = dev
    BY <2>1, <2>2, Stutters
  <2>3. CASE \E d \in Devices : pool[d] > 0 /\ dev' = [dev EXCEPT ![r] = d]
    <3>1. PICK d \in Devices : pool[d] > 0 /\ dev' = [dev EXCEPT ![r] = d]
      BY <2>3
    <3>2. /\ dev \in [Reqs -> Devices \cup {NoDev}] /\ dev[r] = NoDev /\ r \notin over
          /\ \A s \in Reqs : dev[s] # d
      <4>1. dev \in [Reqs -> Devices \cup {NoDev}]
        BY DEF IInv, PoolTypeOK
      <4>2. dev[r] = NoDev /\ pc[r] \notin Over
        BY <2>1 DEF IInv, Stages, Over
      <4>3. \A s \in Reqs : dev[s] # d
        BY <3>1 DEF IInv, DeviceConserved
      <4> QED BY <4>1, <4>2, <4>3 DEF Over
    <3>3. holder[d] = NoDev /\ holder'[d] = r
      <4>1. dev'[r] = d
        BY <3>1, <3>2
      <4>2. \A s \in Reqs : dev'[s] = d => s = r
        BY <3>1, <3>2
      <4>3. (CHOOSE s \in Reqs : dev'[s] = d) = r
        BY <4>1, <4>2
      <4> QED BY <3>2, <4>1, <4>3 DEF holder
    <3>4. \A e \in Devices \ {d} : holder'[e] = holder[e]
      <4>1. \A e \in Devices \ {d}, s \in Reqs : dev'[s] = e <=> dev[s] = e
        BY <3>1, <3>2, PoolAssumption
      <4> QED BY <4>1 DEF holder
    <3>5. holder' = [holder EXCEPT ![d] = r]
      <4> DEFINE h == [e \in Devices |-> IF e = d THEN r ELSE holder[e]]
      <4>1. holder' = [e \in Devices |-> holder'[e]]
        BY DEF holder
      <4>2. holder = [e \in Devices |-> holder[e]]
        BY DEF holder
      <4> HIDE DEF holder
      <4>3. [holder EXCEPT ![d] = r] = h
        BY <4>2
      <4>4. \A e \in Devices : holder'[e] = h[e]
        BY <3>3, <3>4
      <4> QED BY <4>1, <4>3, <4>4
    <3>6. ASSUME NEW e \in Devices PROVE holder[e] # r \/ NoDev = r
      <4>1. dev[r] # e
        BY <3>2, PoolAssumption
      <4>2. CASE \E s \in Reqs : dev[s] = e
        <5>1. PICK s \in Reqs : dev[s] = e
          BY <4>2
        <5>2. holder[e] = s
          BY <5>1, HolderIs
        <5> QED BY <4>1, <5>1, <5>2
      <4>3. CASE \A s \in Reqs : dev[s] # e
        BY <4>3, HolderIs
      <4> QED BY <4>2, <4>3
    <3>7. over' = over
      BY <2>1
    <3>8. \A e \in Devices : holder[e] # r
      BY <3>6, PoolAssumption
    <3>9. Abstract!Acquire(r, d)
      BY <3>2, <3>3, <3>5, <3>7, <3>8 DEF Abstract!Acquire
    <3> QED BY <3>9 DEF Abstract!Next
  <2> QED BY <1>3, <2>2, <2>3 DEF GetDevice, TakeOrWait
<1>4. ASSUME NEW r \in Reqs,
             \/ Arrive(r) \/ Disconnect(r) \/ Watch(r) \/ GetCancelled(r)
             \/ Decide(r) \/ AbandonQueue(r) \/ StartEval(r) \/ AbandonEval(r)
             \/ EvalStep(r)
      PROVE  UNCHANGED <<holder, over>>
  <2>1. dev' = dev
    BY <1>4 DEF Arrive, Disconnect, Watch, GetCancelled, Decide, AbandonQueue,
         StartEval, AbandonEval, EvalStep, PassEnds, PassTimeout, PassTimedOut,
         EvalCancelled
  <2>2. \/ pc' = pc
        \/ pc[r] \notin Over /\ \E p \in Pcs \ Over : pc' = [pc EXCEPT ![r] = p]
    BY <1>4 DEF Arrive, Disconnect, Watch, GetCancelled, Decide, AbandonQueue,
         StartEval, AbandonEval, EvalStep, PassEnds, PassTimeout, PassTimedOut,
         EvalCancelled, Over, Pcs
  <2>3. \A s \in Reqs : pc'[s] \in Over <=> pc[s] \in Over
    BY <2>2 DEF IInv, PoolTypeOK
  <2> QED BY <2>1, <2>3, Stutters
<1>5. CASE OrphanEnds \/ UNCHANGED vars
  <2>1. dev' = dev /\ pc' = pc
    BY <1>5 DEF OrphanEnds, vars
  <2> QED BY <2>1, Stutters
<1> QED BY <1>1, <1>2, <1>3, <1>4, <1>5 DEF Next, HandlerStep, QueueStep, Terminated

\* The handlers implement the pool that reserves and frees in single steps.
THEOREM PoolImplements == Spec => PoolRefines
<1>1. IInv /\ IInv' /\ [Next]_vars =>
        [Abstract!Next]_<<holder, {r \in Reqs : pc[r] \in {"served", "gone", "refused"}}>>
  BY RefinesNext
<1> QED BY <1>1, RefinesInit, AlwaysIInv, PTL DEF Spec, PoolRefines, Abstract!Spec

-----------------------------------------------------------------------------
(* No wakeup is lost *)

\* WakeupsSuffice, and only finitely many getters have been woken so far.
WInv == WakeupsSuffice /\ IsFiniteSet(Woken)

WokenIn(q) == {r \in Reqs : q[r] \in {"woken", "passing"}}

LEMMA InitWInv == Init => WInv
<1> SUFFICES ASSUME Init PROVE WInv
  OBVIOUS
<1>1. \A r \in Reqs : qt[r] = "none"
  BY DEF Init
<1>2. Woken = {}
  BY <1>1 DEF Woken
<1> QED BY <1>1, <1>2, FS_EmptySet DEF WInv, WakeupsSuffice

\* A put, or a cancelled getter that was woken, wakes a getter as long as one
\* waits, and keeps those behind it in the queue.
LEMMA WakeNextWakes ==
  ASSUME NEW q \in [Reqs -> QtStates], getters \in Seq(Reqs), WakeNext(q),
         \A r \in Reqs : q[r] = "waiting" => \E i \in DOMAIN getters : getters[i] = r,
         IsFiniteSet(WokenIn(q))
  PROVE  /\ \A r \in Reqs : qt'[r] = "waiting" =>
              q[r] = "waiting" /\ \E i \in DOMAIN getters' : getters'[i] = r
         /\ IsFiniteSet(Woken')
         /\ (\E r \in Reqs : qt'[r] = "waiting") =>
              Cardinality(Woken') = Cardinality(WokenIn(q)) + 1
<1> DEFINE Live == {i \in DOMAIN getters : q[getters[i]] = "waiting"}
<1>1. CASE Live = {} /\ getters' = <<>> /\ qt' = q
  <2>1. \A r \in Reqs : q[r] # "waiting"
    BY <1>1
  <2>2. Woken' = WokenIn(q)
    BY <1>1 DEF Woken, WokenIn
  <2> QED BY <1>1, <2>1, <2>2
<1>2. CASE \E i \in Live :
           /\ \A j \in Live : i <= j
           /\ getters' = SubSeq(getters, i + 1, Len(getters))
           /\ qt' = [q EXCEPT ![getters[i]] = "woken"]
  <2>1. PICK i \in Live :
           /\ \A j \in Live : i <= j
           /\ getters' = SubSeq(getters, i + 1, Len(getters))
           /\ qt' = [q EXCEPT ![getters[i]] = "woken"]
    BY <1>2
  <2>2. /\ i \in 1..Len(getters) /\ getters[i] \in Reqs /\ q[getters[i]] = "waiting"
        /\ Len(getters) \in Nat /\ DOMAIN getters = 1..Len(getters)
    BY <2>1
  <2>3. /\ Len(getters') = Len(getters) - i
        /\ DOMAIN getters' = 1..Len(getters')
        /\ \A j \in 1..(Len(getters) - i) : getters'[j] = getters[i + j]
    <3>1. \A j \in (i + 1)..Len(getters) : getters[j] \in Reqs
      BY <2>2
    <3>2. /\ SubSeq(getters, i + 1, Len(getters)) \in Seq(Reqs)
          /\ Len(SubSeq(getters, i + 1, Len(getters)))
               = IF i + 1 <= Len(getters) THEN Len(getters) - (i + 1) + 1 ELSE 0
          /\ \A j \in 1..(Len(getters) - (i + 1) + 1) :
               SubSeq(getters, i + 1, Len(getters))[j] = getters[(i + 1) + j - 1]
      BY <2>2, <3>1, SubSeqProperties
    <3> QED BY <2>1, <2>2, <3>2
  <2>4. ASSUME NEW r \in Reqs, qt'[r] = "waiting"
        PROVE  q[r] = "waiting" /\ \E j \in DOMAIN getters' : getters'[j] = r
    <3>1. r # getters[i] /\ q[r] = "waiting"
      BY <2>1, <2>2, <2>4
    <3>2. PICK j \in DOMAIN getters : getters[j] = r
      BY <3>1
    <3>3. j \in Live /\ i <= j /\ j # i
      BY <2>1, <3>1, <3>2
    <3>4. j - i \in 1..(Len(getters) - i) /\ i + (j - i) = j
      BY <2>2, <3>3
    <3>5. getters'[j - i] = r
      BY <2>3, <3>2, <3>4
    <3> QED BY <2>3, <3>1, <3>4, <3>5
  <2>5. Woken' = WokenIn(q) \cup {getters[i]} /\ getters[i] \notin WokenIn(q)
    BY <2>1, <2>2 DEF Woken, WokenIn
  <2> QED BY <2>4, <2>5, FS_AddElement
<1> QED BY <1>1, <1>2 DEF WakeNext

\* Nobody begins to wait, and no wakeup is used up.
LEMMA Quiet ==
  ASSUME WInv, UNCHANGED <<pool, getters>>,
         \A r \in Reqs : qt'[r] = "waiting" => qt[r] = "waiting",
         \A r \in Reqs : qt'[r] \in {"woken", "passing"} <=> qt[r] \in {"woken", "passing"}
  PROVE  WInv'
<1>1. Woken' = Woken /\ InPool' = InPool
  BY DEF Woken, InPool
<1> QED BY <1>1 DEF WInv, WakeupsSuffice

\* A device back in the pool comes with a wakeup of its own.
LEMMA PutBackWInv ==
  ASSUME IInv, WInv, NEW r \in Reqs, NEW q \in [Reqs -> QtStates], dev[r] \in Devices,
         PutBack(dev[r], q), qt[r] = "done",
         q[r] \notin {"waiting", "woken", "passing"}, \A s \in Reqs \ {r} : q[s] = qt[s]
  PROVE  WInv'
<1>1. WokenIn(q) = Woken /\ \A s \in Reqs : q[s] = "waiting" => qt[s] = "waiting"
  BY DEF WokenIn, Woken
<1>2. /\ \A s \in Reqs : qt'[s] = "waiting" =>
           q[s] = "waiting" /\ \E i \in DOMAIN getters' : getters'[i] = s
      /\ IsFiniteSet(Woken')
      /\ (\E s \in Reqs : qt'[s] = "waiting") => Cardinality(Woken') = Cardinality(Woken) + 1
  <2>1. getters \in Seq(Reqs) /\ WakeNext(q) /\ IsFiniteSet(WokenIn(q))
    BY <1>1 DEF IInv, PoolTypeOK, PutBack, WInv
  <2>2. \A s \in Reqs : q[s] = "waiting" => \E i \in DOMAIN getters : getters[i] = s
    BY <1>1 DEF WInv, WakeupsSuffice
  <2> QED BY <1>1, <2>1, <2>2, WakeNextWakes
<1>3. InPool' = InPool \cup {dev[r]} /\ IsFiniteSet(InPool)
  <2>1. pool' = [pool EXCEPT ![dev[r]] = @ + 1] /\ pool \in [Devices -> Nat]
    BY DEF PutBack, IInv, PoolTypeOK
  <2>2. InPool \in SUBSET Devices
    BY DEF InPool
  <2> QED BY <2>1, <2>2, FS_Subset, PoolAssumption DEF InPool
<1>4. /\ Cardinality(InPool') <= Cardinality(InPool) + 1
      /\ Cardinality(InPool) \in Nat /\ Cardinality(InPool') \in Nat /\ Cardinality(Woken) \in Nat
  <2>1. IsFiniteSet(InPool') /\ IsFiniteSet(Woken)
    BY <1>3, FS_AddElement DEF WInv
  <2>2. /\ Cardinality(InPool) \in Nat /\ Cardinality(InPool') \in Nat
        /\ Cardinality(Woken) \in Nat
    BY <1>3, <2>1, FS_CardinalityType
  <2>3. Cardinality(InPool') = Cardinality(InPool) \/ Cardinality(InPool') = Cardinality(InPool) + 1
    BY <1>3, FS_AddElement
  <2> QED BY <2>2, <2>3
<1>5. (\E s \in Reqs : qt'[s] = "waiting") => Cardinality(InPool') <= Cardinality(Woken')
  <2>1. ASSUME \E s \in Reqs : qt'[s] = "waiting"
        PROVE  Cardinality(InPool') <= Cardinality(Woken')
    <3>1. \E s \in Reqs : qt[s] = "waiting"
      BY <1>1, <1>2, <2>1
    <3>2. Cardinality(InPool) <= Cardinality(Woken)
      BY <3>1 DEF WInv, WakeupsSuffice
    <3> QED BY <1>2, <1>4, <2>1, <3>2
  <2> QED BY <2>1
<1> QED BY <1>2, <1>5 DEF WInv, WakeupsSuffice

\* Who takes a device uses up at most one wakeup; who finds none waits.
LEMMA GetDeviceWInv ==
  ASSUME IInv, WInv, NEW r \in Reqs, GetDevice(r)
  PROVE  WInv'
<1>1. /\ qt[r] \in {"ready", "woken"} /\ qt \in [Reqs -> QtStates]
      /\ pool \in [Devices -> Nat] /\ getters \in Seq(Reqs)
  BY DEF GetDevice, IInv, PoolTypeOK
<1>2. /\ IsFiniteSet(Woken) /\ Cardinality(Woken) \in Nat
      /\ IsFiniteSet(InPool) /\ Cardinality(InPool) \in Nat
  <2>1. InPool \in SUBSET Devices
    BY DEF InPool
  <2> QED BY <2>1, FS_Subset, FS_CardinalityType, PoolAssumption DEF WInv
<1>3. ASSUME NEW l \in {"done", "waiting"}, qt' = [qt EXCEPT ![r] = l]
      PROVE  /\ Woken' = Woken \ {r} /\ IsFiniteSet(Woken') /\ Cardinality(Woken') \in Nat
             /\ Cardinality(Woken') >= Cardinality(Woken) - 1
             /\ qt[r] = "ready" => Woken' = Woken
  <2>1. Woken' = Woken \ {r} /\ (qt[r] = "ready" => Woken' = Woken)
    BY <1>1, <1>3 DEF Woken
  <2>2. IsFiniteSet(Woken') /\ Cardinality(Woken') \in Nat
    BY <1>2, <2>1, FS_RemoveElement, FS_CardinalityType
  <2> QED BY <1>2, <2>1, <2>2, FS_RemoveElement
<1>4. CASE \E d \in Devices : /\ pool[d] > 0 /\ pool' = [pool EXCEPT ![d] = @ - 1]
                              /\ qt' = [qt EXCEPT ![r] = "done"] /\ UNCHANGED getters
  <2>1. PICK d \in Devices : /\ pool[d] > 0 /\ pool' = [pool EXCEPT ![d] = @ - 1]
                             /\ qt' = [qt EXCEPT ![r] = "done"] /\ UNCHANGED getters
    BY <1>4
  <2>2. InPool' = InPool \ {d} /\ d \in InPool
    <3>1. pool[d] = 1
      BY <2>1 DEF IInv, DeviceConserved
    <3> QED BY <1>1, <2>1, <3>1 DEF InPool
  <2>3. Cardinality(InPool') = Cardinality(InPool) - 1
    BY <1>2, <2>2, FS_RemoveElement
  <2>4. \A s \in Reqs : qt'[s] = "waiting" => qt[s] = "waiting"
    BY <1>1, <2>1
  <2>5. /\ IsFiniteSet(Woken') /\ Cardinality(Woken') \in Nat
        /\ Cardinality(Woken') >= Cardinality(Woken) - 1
    BY <1>3, <2>1
  <2>6. (\E s \in Reqs : qt'[s] = "waiting") => Cardinality(InPool') <= Cardinality(Woken')
    <3>1. (\E s \in Reqs : qt'[s] = "waiting") => Cardinality(InPool) <= Cardinality(Woken)
      BY <2>4 DEF WInv, WakeupsSuffice
    <3> QED BY <1>2, <2>3, <2>5, <3>1
  <2> QED BY <2>1, <2>4, <2>5, <2>6 DEF WInv, WakeupsSuffice
<1>5. CASE /\ \A d \in Devices : pool[d] = 0
           /\ qt' = [qt EXCEPT ![r] = "waiting"] /\ getters' = Append(getters, r)
           /\ UNCHANGED pool
  <2>1. InPool' = {}
    BY <1>5 DEF InPool
  <2>2. Cardinality(InPool') <= Cardinality(Woken') /\ IsFiniteSet(Woken')
    BY <1>3, <1>5, <2>1, FS_EmptySet
  <2>3. ASSUME NEW s \in Reqs, qt'[s] = "waiting"
        PROVE  \E i \in DOMAIN getters' : getters'[i] = s
    <3>1. /\ Len(getters) \in Nat /\ Len(getters') = Len(getters) + 1
          /\ DOMAIN getters = 1..Len(getters) /\ DOMAIN getters' = 1..Len(getters')
          /\ \A i \in 1..Len(getters) : getters'[i] = getters[i]
          /\ getters'[Len(getters) + 1] = r
      BY <1>1, <1>5, AppendProperties
    <3>2. CASE s = r
      BY <3>1, <3>2
    <3>3. CASE s # r
      <4>1. qt[s] = "waiting"
        BY <1>1, <1>5, <2>3, <3>3
      <4>2. PICK i \in DOMAIN getters : getters[i] = s
        BY <4>1 DEF WInv, WakeupsSuffice
      <4> QED BY <3>1, <4>2
    <3> QED BY <3>2, <3>3
  <2> QED BY <2>2, <2>3 DEF WInv, WakeupsSuffice
<1> QED BY <1>4, <1>5 DEF GetDevice, TakeOrWait

\* A cancelled getter leaves the queue, or passes its wakeup on.
LEMMA GetCancelledWInv ==
  ASSUME IInv, WInv, NEW r \in Reqs, GetCancelled(r)
  PROVE  WInv'
<1> DEFINE q == [qt EXCEPT ![r] = "cancelled"]
<1>1. /\ q \in [Reqs -> QtStates] /\ qt \in [Reqs -> QtStates] /\ getters \in Seq(Reqs)
      /\ pool' = pool
  BY DEF IInv, PoolTypeOK, QtStates, GetCancelled
<1>2. /\ IsFiniteSet(Woken) /\ Cardinality(Woken) \in Nat
      /\ IsFiniteSet(InPool) /\ Cardinality(InPool) \in Nat /\ InPool' = InPool
  <2>1. InPool \in SUBSET Devices
    BY DEF InPool
  <2>2. InPool' = InPool
    BY <1>1 DEF InPool
  <2> QED BY <2>1, <2>2, FS_Subset, FS_CardinalityType, PoolAssumption DEF WInv
<1>3. CASE qt[r] = "dropped" /\ RemoveGetter(r) /\ qt' = q
  <2>1. Woken' = Woken /\ \A s \in Reqs : qt'[s] = "waiting" => qt[s] = "waiting" /\ s # r
    BY <1>1, <1>3 DEF Woken
  <2>2. ASSUME NEW s \in Reqs, qt'[s] = "waiting"
        PROVE  \E k \in DOMAIN getters' : getters'[k] = s
    <3>1. PICK j \in DOMAIN getters : getters[j] = s
      BY <2>1, <2>2 DEF WInv, WakeupsSuffice
    <3>2. CASE getters' = getters
      BY <3>1, <3>2
    <3>3. CASE \E i \in DOMAIN getters :
                 /\ getters[i] = r
                 /\ getters' = SubSeq(getters, 1, i - 1) \o SubSeq(getters, i + 1, Len(getters))
      <4>1. PICK i \in DOMAIN getters :
              /\ getters[i] = r
              /\ getters' = SubSeq(getters, 1, i - 1) \o SubSeq(getters, i + 1, Len(getters))
        BY <3>3
      <4> DEFINE a == SubSeq(getters, 1, i - 1)
                 b == SubSeq(getters, i + 1, Len(getters))
      <4>2. /\ i \in 1..Len(getters) /\ j \in 1..Len(getters) /\ Len(getters) \in Nat /\ i # j
            /\ \A k \in 1..Len(getters) : getters[k] \in Reqs
        BY <1>1, <2>1, <2>2, <3>1, <4>1
      <4>3. /\ a \in Seq(Reqs) /\ Len(a) = i - 1
            /\ \A k \in 1..(i - 1) : a[k] = getters[k]
        <5>1. \A k \in 1..(i - 1) : getters[k] \in Reqs
          BY <4>2
        <5>2. /\ a \in Seq(Reqs) /\ Len(a) = IF 1 <= i - 1 THEN (i - 1) - 1 + 1 ELSE 0
              /\ \A k \in 1..((i - 1) - 1 + 1) : a[k] = getters[1 + k - 1]
          BY <4>2, <5>1, SubSeqProperties
        <5> HIDE DEF a
        <5> QED BY <4>2, <5>2
      <4>4. /\ b \in Seq(Reqs) /\ Len(b) = Len(getters) - i
            /\ \A k \in 1..(Len(getters) - i) : b[k] = getters[i + k]
        <5>1. \A k \in (i + 1)..Len(getters) : getters[k] \in Reqs
          BY <4>2
        <5>2. /\ b \in Seq(Reqs)
              /\ Len(b) = IF i + 1 <= Len(getters) THEN Len(getters) - (i + 1) + 1 ELSE 0
              /\ \A k \in 1..(Len(getters) - (i + 1) + 1) : b[k] = getters[(i + 1) + k - 1]
          BY <4>2, <5>1, SubSeqProperties
        <5> HIDE DEF b
        <5> QED BY <4>2, <5>2
      <4>5. getters' = a \o b
        BY <4>1
      <4> HIDE DEF a, b
      <4>6. /\ Len(getters') = Len(getters) - 1 /\ DOMAIN getters' = 1..Len(getters')
            /\ \A k \in 1..(Len(getters) - 1) :
                 getters'[k] = IF k <= i - 1 THEN a[k] ELSE b[k - (i - 1)]
        <5>1. /\ getters' \in Seq(Reqs) /\ Len(getters') = Len(a) + Len(b)
              /\ \A k \in 1..(Len(a) + Len(b)) :
                   getters'[k] = IF k <= Len(a) THEN a[k] ELSE b[k - Len(a)]
          BY <4>3, <4>4, <4>5, ConcatProperties
        <5>2. Len(a) + Len(b) = Len(getters) - 1
          BY <4>2, <4>3, <4>4
        <5> QED BY <4>3, <5>1, <5>2
      <4>7. CASE j < i
        <5>1. j \in 1..(Len(getters) - 1) /\ j <= i - 1 /\ j \in 1..(i - 1)
          BY <4>2, <4>7
        <5>2. getters'[j] = s
          BY <3>1, <4>3, <4>6, <5>1
        <5> QED BY <4>6, <5>1, <5>2
      <4>8. CASE j > i
        <5>1. /\ j - 1 \in 1..(Len(getters) - 1) /\ ~(j - 1 <= i - 1)
              /\ (j - 1) - (i - 1) = j - i /\ j - i \in 1..(Len(getters) - i)
              /\ i + (j - i) = j
          <6>1. i \in Int /\ j \in Int /\ Len(getters) \in Int
            BY <4>2
          <6>2. 1 <= i /\ i < j /\ j <= Len(getters)
            BY <4>2, <4>8, <6>1
          <6> QED BY ONLY <6>1, <6>2
        <5>2. getters'[j - 1] = b[j - i] /\ b[j - i] = getters[j]
          BY <4>4, <4>6, <5>1
        <5> QED BY <3>1, <4>6, <5>1, <5>2
      <4> QED BY <4>2, <4>7, <4>8
    <3> QED BY <1>3, <3>2, <3>3 DEF RemoveGetter
  <2>3. (\E s \in Reqs : qt'[s] = "waiting") => Cardinality(InPool') <= Cardinality(Woken')
    BY <1>2, <2>1 DEF WInv, WakeupsSuffice
  <2> QED BY <1>2, <2>1, <2>2, <2>3 DEF WInv, WakeupsSuffice
<1>4. ASSUME qt[r] = "passing"
      PROVE  /\ WokenIn(q) = Woken \ {r} /\ IsFiniteSet(WokenIn(q))
             /\ Cardinality(WokenIn(q)) = Cardinality(Woken) - 1
             /\ Cardinality(WokenIn(q)) \in Nat
             /\ \A s \in Reqs : q[s] = "waiting" => qt[s] = "waiting"
  <2>1. /\ WokenIn(q) = Woken \ {r} /\ r \in Woken
        /\ \A s \in Reqs : q[s] = "waiting" => qt[s] = "waiting"
    BY <1>1, <1>4 DEF WokenIn, Woken
  <2>2. IsFiniteSet(WokenIn(q)) /\ Cardinality(WokenIn(q)) = Cardinality(Woken) - 1
    BY <1>2, <2>1, FS_RemoveElement
  <2> QED BY <2>1, <2>2, FS_CardinalityType
<1>5. CASE qt[r] = "passing" /\ WakeNext(q)
  <2>1. \A s \in Reqs : q[s] = "waiting" => \E i \in DOMAIN getters : getters[i] = s
    BY <1>4, <1>5 DEF WInv, WakeupsSuffice
  <2> HIDE DEF q
  <2>2. /\ \A s \in Reqs : qt'[s] = "waiting" =>
             q[s] = "waiting" /\ \E i \in DOMAIN getters' : getters'[i] = s
        /\ IsFiniteSet(Woken')
        /\ (\E s \in Reqs : qt'[s] = "waiting") =>
             Cardinality(Woken') = Cardinality(WokenIn(q)) + 1
    BY <1>1, <1>4, <1>5, <2>1, WakeNextWakes
  <2>3. (\E s \in Reqs : qt'[s] = "waiting") => Cardinality(InPool) <= Cardinality(Woken)
    BY <1>4, <1>5, <2>2 DEF WInv, WakeupsSuffice
  <2>4. (\E s \in Reqs : qt'[s] = "waiting") => Cardinality(InPool') <= Cardinality(Woken')
    BY <1>2, <1>4, <1>5, <2>2, <2>3
  <2> QED BY <2>2, <2>4 DEF WInv, WakeupsSuffice
<1>6. CASE qt[r] = "passing" /\ (\A d \in Devices : pool[d] = 0) /\ qt' = q
             /\ UNCHANGED getters
  <2>1. InPool' = {} /\ Woken' = WokenIn(q)
    BY <1>1, <1>6 DEF InPool, Woken, WokenIn
  <2>2. Cardinality(InPool') <= Cardinality(Woken') /\ IsFiniteSet(Woken')
    BY <1>4, <1>6, <2>1, FS_EmptySet
  <2>3. \A s \in Reqs : qt'[s] = "waiting" => \E i \in DOMAIN getters' : getters'[i] = s
    BY <1>4, <1>6 DEF WInv, WakeupsSuffice
  <2> QED BY <2>2, <2>3 DEF WInv, WakeupsSuffice
<1> QED BY <1>3, <1>5, <1>6 DEF GetCancelled

LEMMA NextWInv ==
  ASSUME IInv, WInv, [Next]_vars
  PROVE  WInv'
<1>1. ASSUME NEW r \in Reqs, QueueStep(r) PROVE WInv'
  BY <1>1, GetDeviceWInv, GetCancelledWInv DEF QueueStep
<1>2. ASSUME NEW r \in Reqs, Reap(r) \/ Finish(r) PROVE WInv'
  <2>1. CASE Reap(r) /\ qt[r] = "cancelled"
    <3>1. UNCHANGED <<pool, getters, qt>>
      BY <2>1 DEF Reap
    <3> QED BY <3>1, Quiet
  <2>2. CASE Reap(r) /\ qt[r] = "done"
    <3> DEFINE q == [qt EXCEPT ![r] = "cancelled"]
    <3>1. /\ q \in [Reqs -> QtStates] /\ q[r] = "cancelled" /\ \A s \in Reqs \ {r} : q[s] = qt[s]
          /\ dev[r] \in Devices /\ PutBack(dev[r], q)
      BY <2>2 DEF IInv, PoolTypeOK, QtStates, Reap, Stages, Over
    <3> HIDE DEF q
    <3> QED BY <2>2, <3>1, PutBackWInv
  <2>3. CASE Finish(r)
    <3>1. PutBack(dev[r], qt) /\ pc[r] \in {"evaluating", "stopping"}
      BY <2>3 DEF Finish
    <3>2. qt[r] = "done" /\ dev[r] \in Devices /\ qt \in [Reqs -> QtStates]
      BY <3>1 DEF IInv, Stages, Over, PoolTypeOK
    <3> QED BY <3>1, <3>2, PutBackWInv
  <2> QED BY <1>2, <2>1, <2>2, <2>3 DEF Reap
<1>3. ASSUME NEW r \in Reqs, Arrive(r) PROVE WInv'
  <2>1. UNCHANGED <<pool, getters>> /\ qt[r] = "none" /\ qt' = [qt EXCEPT ![r] = "ready"]
    BY <1>3 DEF Arrive, IInv, Stages
  <2> QED BY <2>1, Quiet DEF IInv, PoolTypeOK
<1>4. ASSUME NEW r \in Reqs, AbandonQueue(r) PROVE WInv'
  <2>1. UNCHANGED <<pool, getters>> /\ qt' = CancelGet(r)
    BY <1>4 DEF AbandonQueue
  <2>2. \/ qt' = qt
        \/ qt[r] = "waiting" /\ qt' = [qt EXCEPT ![r] = "dropped"]
        \/ qt[r] = "woken" /\ qt' = [qt EXCEPT ![r] = "passing"]
    BY <2>1 DEF CancelGet
  <2> QED BY <2>1, <2>2, Quiet DEF IInv, PoolTypeOK
<1>5. ASSUME NEW r \in Reqs,
             \/ Refuse(r) \/ Disconnect(r) \/ Watch(r) \/ Decide(r) \/ StartEval(r)
             \/ AbandonEval(r) \/ EvalStep(r)
      PROVE  WInv'
  <2>1. UNCHANGED <<pool, getters, qt>>
    BY <1>5 DEF Refuse, Disconnect, Watch, Decide, StartEval, AbandonEval, EvalStep,
         PassEnds, PassTimeout, PassTimedOut, EvalCancelled
  <2> QED BY <2>1, Quiet
<1>6. CASE OrphanEnds \/ UNCHANGED vars
  <2>1. UNCHANGED <<pool, getters, qt>>
    BY <1>6 DEF OrphanEnds, vars
  <2> QED BY <2>1, Quiet
<1> QED BY <1>1, <1>2, <1>3, <1>4, <1>5, <1>6 DEF Next, HandlerStep, Terminated

\* A free device and a waiting getter never just face each other, for any
\* number of requests and any finite number of devices.
THEOREM WakeupsArrive == Spec => []NoLostWakeup
<1>1. IInv /\ WInv => NoLostWakeup
  <2>1. SUFFICES ASSUME IInv, WInv, \E r \in Reqs : qt[r] = "waiting",
                        \E d \in Devices : pool[d] > 0
                 PROVE  Woken # {}
    BY DEF NoLostWakeup, Woken
  <2>2. InPool # {} /\ IsFiniteSet(InPool)
    <3>1. InPool \in SUBSET Devices
      BY DEF InPool
    <3> QED BY <2>1, <3>1, FS_Subset, PoolAssumption DEF InPool
  <2>3. Cardinality(InPool) \in Nat /\ Cardinality(InPool) # 0
    BY <2>2, FS_EmptySet, FS_CardinalityType
  <2>4. Cardinality(InPool) <= Cardinality(Woken)
    BY <2>1 DEF WInv, WakeupsSuffice
  <2> QED BY <2>3, <2>4, FS_EmptySet
<1>2. IInv /\ WInv /\ [Next]_vars => IInv' /\ WInv'
  BY NextIInv, NextWInv
<1> QED BY <1>1, <1>2, InitIInv, InitWInv, PTL DEF Spec
=============================================================================
