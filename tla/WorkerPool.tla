----------------------------- MODULE WorkerPool -----------------------------
(***************************************************************************)
(* The evaluation worker (worker/server.py): the devices of one machine in *)
(* an asyncio.Queue, and one handler of POST /run per request.  A handler  *)
(* is up to three coroutines: itself, the task that gets a device or the   *)
(* task that evaluates, and the watcher of the client's connection.  Every *)
(* await at which another coroutine can run is a boundary between actions. *)
(*                                                                         *)
(* pool counts the copies of a device in the queue: a device put back      *)
(* twice would count two.                                                  *)
(***************************************************************************)
EXTENDS Naturals, Sequences, FiniteSets

CONSTANTS Reqs,     \* requests, each sent once
          Devices,
          NoDev,
          Deaf      \* requests whose subprocesses may outlive 5 s after SIGTERM

ASSUME PoolAssumption ==
  /\ NoDev \notin Devices \cup Reqs /\ Deaf \subseteq Reqs
  /\ IsFiniteSet(Devices)

VARIABLES
  pool,     \* copies of each device in the queue
  getters,  \* the queue's waiting getters, in order
  pc,       \* where each handler is
  qt,       \* its queue.get() task
  dev,      \* the device its get() returned or its handler holds
  conn,     \* the client is connected
  seen,     \* the watcher of the current stage saw the client gone
  ev,       \* its evaluation task
  pass,     \* the subprocess the evaluation task is at
  procs     \* evaluation subprocesses alive: <<request, pass, device>>
vars == <<pool, getters, pc, qt, dev, conn, seen, ev, pass, procs>>

Passes == {"ref", "kernel"}
Pcs == {"new", "queued", "granted", "ungranted", "reap", "evaluating",
        "stopping", "served", "gone", "refused"}
QtStates == {"none", "ready", "waiting", "woken", "dropped", "passing",
             "done", "cancelled"}
EvStates == {"none", "run", "term", "done", "cancel", "cancelled"}

Init ==
  /\ pool = [d \in Devices |-> 1]
  /\ getters = <<>>
  /\ pc = [r \in Reqs |-> "new"]
  /\ qt = [r \in Reqs |-> "none"]
  /\ dev = [r \in Reqs |-> NoDev]
  /\ conn = [r \in Reqs |-> TRUE]
  /\ seen = [r \in Reqs |-> FALSE]
  /\ ev = [r \in Reqs |-> "none"]
  /\ pass = [r \in Reqs |-> "kernel"]
  /\ procs = {}

-----------------------------------------------------------------------------
(* asyncio.Queue *)

\* Queue._wakeup_next: getters whose future is done are skipped.
WakeNext(q) ==
  LET Live == {i \in DOMAIN getters : q[getters[i]] = "waiting"}
  IN  \/ Live = {} /\ getters' = <<>> /\ qt' = q
      \/ \E i \in Live :
           /\ \A j \in Live : i <= j
           /\ getters' = SubSeq(getters, i + 1, Len(getters))
           /\ qt' = [q EXCEPT ![getters[i]] = "woken"]

\* Queue.put_nowait
PutBack(d, q) ==
  /\ pool' = [pool EXCEPT ![d] = @ + 1]
  /\ WakeNext(q)

\* Faulty variant: a woken getter takes a device it does not check for.
TakeUnchecked(r) ==
  \E d \in Devices :
    /\ pool' = [pool EXCEPT ![d] = IF @ = 0 THEN 0 ELSE @ - 1]
    /\ dev' = [dev EXCEPT ![r] = d]
    /\ qt' = [qt EXCEPT ![r] = "done"]
    /\ UNCHANGED getters

\* Queue.get past its emptiness test: take a device, or wait at the end.
TakeOrWait(r) ==
  \/ \E d \in Devices :
       /\ pool[d] > 0
       /\ pool' = [pool EXCEPT ![d] = @ - 1]
       /\ dev' = [dev EXCEPT ![r] = d]
       /\ qt' = [qt EXCEPT ![r] = "done"]
       /\ UNCHANGED getters
  \/ /\ \A d \in Devices : pool[d] = 0
     /\ qt' = [qt EXCEPT ![r] = "waiting"]
     /\ getters' = Append(getters, r)
     /\ UNCHANGED <<pool, dev>>

\* The task of queue.get() runs for the first time, or again after a wakeup:
\* in between a newcomer may have taken the device.
GetDevice(r) ==
  /\ qt[r] \in {"ready", "woken"}
  /\ TakeOrWait(r)
  /\ UNCHANGED <<pc, conn, seen, ev, pass, procs>>

\* Task.cancel() on queue.get(): its future is cancelled at once when it is
\* pending; a getter already woken must pass the wakeup on.
CancelGet(r) ==
  CASE qt[r] = "waiting" -> [qt EXCEPT ![r] = "dropped"]
    [] qt[r] = "woken"   -> [qt EXCEPT ![r] = "passing"]
    [] OTHER             -> qt

\* deque.remove, its ValueError suppressed
RemoveGetter(r) ==
  \/ \E i \in DOMAIN getters :
       /\ getters[i] = r
       /\ getters' = SubSeq(getters, 1, i - 1)
                       \o SubSeq(getters, i + 1, Len(getters))
  \/ (\A i \in DOMAIN getters : getters[i] # r) /\ UNCHANGED getters

\* Faulty variant: a cancelled getter keeps the wakeup it was given.
GetCancelledSilently(r) ==
  /\ qt[r] \in {"dropped", "passing"}
  /\ RemoveGetter(r)
  /\ qt' = [qt EXCEPT ![r] = "cancelled"]
  /\ UNCHANGED <<pool, pc, dev, conn, seen, ev, pass, procs>>

\* The except branch of Queue.get.
GetCancelled(r) ==
  /\ \/ /\ qt[r] = "dropped"
        /\ RemoveGetter(r)
        /\ qt' = [qt EXCEPT ![r] = "cancelled"]
     \/ /\ qt[r] = "passing"
        /\ \/ /\ \E d \in Devices : pool[d] > 0
              /\ WakeNext([qt EXCEPT ![r] = "cancelled"])
           \/ /\ \A d \in Devices : pool[d] = 0
              /\ qt' = [qt EXCEPT ![r] = "cancelled"]
              /\ UNCHANGED getters
  /\ UNCHANGED <<pool, pc, dev, conn, seen, ev, pass, procs>>

-----------------------------------------------------------------------------
(* The handler of POST /run *)

\* Faulty variant: the device a cancelled get() had already taken is dropped.
ReapLosesDevice(r) ==
  /\ pc[r] = "reap" /\ qt[r] \in {"done", "cancelled"}
  /\ pc' = [pc EXCEPT ![r] = "gone"]
  /\ dev' = [dev EXCEPT ![r] = NoDev]
  /\ qt' = [qt EXCEPT ![r] = "cancelled"]
  /\ UNCHANGED <<pool, getters, conn, seen, ev, pass, procs>>

\* The drift guard: the code on disk is no longer the code in memory.
Refuse(r) ==
  /\ pc[r] = "new"
  /\ pc' = [pc EXCEPT ![r] = "refused"]
  /\ UNCHANGED <<pool, getters, qt, dev, conn, seen, ev, pass, procs>>

Arrive(r) ==
  /\ pc[r] = "new"
  /\ pc' = [pc EXCEPT ![r] = "queued"]
  /\ qt' = [qt EXCEPT ![r] = "ready"]
  /\ UNCHANGED <<pool, getters, dev, conn, seen, ev, pass, procs>>

\* asyncio.wait returns; what is done now decides, and awaiting the cancelled
\* watcher lets other coroutines run before the decision is acted upon.
Decide(r) ==
  /\ pc[r] = "queued"
  /\ \/ qt[r] = "done" /\ pc' = [pc EXCEPT ![r] = "granted"]
     \/ qt[r] # "done" /\ seen[r] /\ pc' = [pc EXCEPT ![r] = "ungranted"]
  /\ UNCHANGED <<pool, getters, qt, dev, conn, seen, ev, pass, procs>>

AbandonQueue(r) ==
  /\ pc[r] = "ungranted"
  /\ pc' = [pc EXCEPT ![r] = "reap"]
  /\ qt' = CancelGet(r)
  /\ UNCHANGED <<pool, getters, dev, conn, seen, ev, pass, procs>>

\* The awaited get() was cancelled, or it had taken a device all the same.
Reap(r) ==
  /\ pc[r] = "reap" /\ qt[r] \in {"done", "cancelled"}
  /\ pc' = [pc EXCEPT ![r] = "gone"]
  /\ dev' = [dev EXCEPT ![r] = NoDev]
  /\ \/ /\ qt[r] = "done"
        /\ PutBack(dev[r], [qt EXCEPT ![r] = "cancelled"])
     \/ /\ qt[r] = "cancelled"
        /\ UNCHANGED <<pool, getters, qt>>
  /\ UNCHANGED <<conn, seen, ev, pass, procs>>

\* Stage 2. With a sticky baseline the reference pass is skipped; a package
\* that cannot be unpacked or has no task.yaml ends the task at once.
StartEval(r) ==
  /\ pc[r] = "granted"
  /\ pc' = [pc EXCEPT ![r] = "evaluating"]
  /\ seen' = [seen EXCEPT ![r] = FALSE]
  /\ \/ /\ ev' = [ev EXCEPT ![r] = "done"]
        /\ UNCHANGED <<pass, procs>>
     \/ \E p \in Passes :
          /\ ev' = [ev EXCEPT ![r] = "run"]
          /\ pass' = [pass EXCEPT ![r] = p]
          /\ procs' = procs \cup {<<r, p, dev[r]>>}
  /\ UNCHANGED <<pool, getters, qt, dev, conn>>

\* Faulty variant: a disconnect releases the device before the cancelled
\* evaluation has been awaited.
AbandonEvalUnawaited(r) ==
  /\ pc[r] = "evaluating" /\ seen[r] /\ ev[r] \in {"run", "term"}
  /\ ev' = [ev EXCEPT ![r] = "cancel"]
  /\ pc' = [pc EXCEPT ![r] = "gone"]
  /\ dev' = [dev EXCEPT ![r] = NoDev]
  /\ PutBack(dev[r], qt)
  /\ UNCHANGED <<conn, seen, pass, procs>>

AbandonEval(r) ==
  /\ pc[r] = "evaluating" /\ seen[r] /\ ev[r] \in {"run", "term"}
  /\ ev' = [ev EXCEPT ![r] = "cancel"]
  /\ pc' = [pc EXCEPT ![r] = "stopping"]
  /\ UNCHANGED <<pool, getters, qt, dev, conn, seen, pass, procs>>

\* Faulty variant: the device goes back only when the client was answered.
FinishServedOnly(r) ==
  /\ \/ pc[r] = "evaluating" /\ ev[r] = "done"
     \/ pc[r] = "stopping" /\ ev[r] = "cancelled"
  /\ pc' = [pc EXCEPT ![r] = IF ev[r] = "done" THEN "served" ELSE "gone"]
  /\ dev' = [dev EXCEPT ![r] = NoDev]
  /\ IF ev[r] = "done" THEN PutBack(dev[r], qt)
     ELSE UNCHANGED <<pool, getters, qt>>
  /\ UNCHANGED <<conn, seen, ev, pass, procs>>

\* The finally block: reached with a result or after an awaited cancellation.
Finish(r) ==
  /\ \/ pc[r] = "evaluating" /\ ev[r] = "done"
     \/ pc[r] = "stopping" /\ ev[r] = "cancelled"
  /\ pc' = [pc EXCEPT ![r] = IF ev[r] = "done" THEN "served" ELSE "gone"]
  /\ dev' = [dev EXCEPT ![r] = NoDev]
  /\ PutBack(dev[r], qt)
  /\ UNCHANGED <<conn, seen, ev, pass, procs>>

-----------------------------------------------------------------------------
(* The connection and the evaluation task *)

Disconnect(r) ==
  /\ conn[r]
  /\ conn' = [conn EXCEPT ![r] = FALSE]
  /\ UNCHANGED <<pool, getters, pc, qt, dev, seen, ev, pass, procs>>

\* _watch_disconnect returns.
Watch(r) ==
  /\ pc[r] \in {"queued", "evaluating"} /\ ~seen[r] /\ ~conn[r]
  /\ seen' = [seen EXCEPT ![r] = TRUE]
  /\ UNCHANGED <<pool, getters, pc, qt, dev, conn, ev, pass, procs>>

Proc(r) == <<r, pass[r], dev[r]>>

\* The pass returned to _run_phases: the kernel pass follows the reference
\* pass whatever that returned.
NextPass(r, left) ==
  \/ /\ pass[r] = "ref"
     /\ pass' = [pass EXCEPT ![r] = "kernel"]
     /\ ev' = [ev EXCEPT ![r] = "run"]
     /\ procs' = left \cup {<<r, "kernel", dev[r]>>}
  \/ /\ pass[r] = "kernel"
     /\ ev' = [ev EXCEPT ![r] = "done"]
     /\ procs' = left
     /\ UNCHANGED pass

\* What is left of a subprocess 5 s after SIGTERM; nothing is killed then.
AfterTerm(r) == {procs \ {Proc(r)}} \cup (IF r \in Deaf THEN {procs} ELSE {})

PassEnds(r) ==
  /\ ev[r] = "run"
  /\ NextPass(r, procs \ {Proc(r)})
  /\ UNCHANGED <<pool, getters, pc, qt, dev, conn, seen>>

\* wait_for expired: SIGTERM to the group, then up to 5 s for it to end.
PassTimeout(r) ==
  /\ ev[r] = "run"
  /\ ev' = [ev EXCEPT ![r] = "term"]
  /\ UNCHANGED <<pool, getters, pc, qt, dev, conn, seen, pass, procs>>

PassTimedOut(r) ==
  /\ ev[r] = "term"
  /\ \E left \in AfterTerm(r) : NextPass(r, left)
  /\ UNCHANGED <<pool, getters, pc, qt, dev, conn, seen>>

\* The except CancelledError branch: SIGTERM, up to 5 s, and re-raise.
EvalCancelled(r) ==
  /\ ev[r] = "cancel"
  /\ ev' = [ev EXCEPT ![r] = "cancelled"]
  /\ procs' \in AfterTerm(r)
  /\ UNCHANGED <<pool, getters, pc, qt, dev, conn, seen, pass>>

\* A subprocess that outlived its SIGTERM ends by itself.
OrphanEnds ==
  /\ \E x \in procs :
       /\ ~(ev[x[1]] \in {"run", "term", "cancel"} /\ x[2] = pass[x[1]])
       /\ procs' = procs \ {x}
  /\ UNCHANGED <<pool, getters, pc, qt, dev, conn, seen, ev, pass>>

-----------------------------------------------------------------------------
HandlerStep(r) ==
  \/ Decide(r) \/ AbandonQueue(r) \/ Reap(r) \/ StartEval(r)
  \/ AbandonEval(r) \/ Finish(r)
QueueStep(r) == GetDevice(r) \/ GetCancelled(r)
EvalStep(r) ==
  PassEnds(r) \/ PassTimeout(r) \/ PassTimedOut(r) \/ EvalCancelled(r)

\* Every request was answered or refused, its client may still hang up.
Terminated ==
  /\ \A r \in Reqs : pc[r] \in {"served", "gone", "refused"}
  /\ procs = {} /\ \A r \in Reqs : ~conn[r]
  /\ UNCHANGED vars

Next ==
  \/ \E r \in Reqs :
       \/ Refuse(r) \/ Arrive(r) \/ Disconnect(r) \/ Watch(r)
       \/ HandlerStep(r) \/ QueueStep(r) \/ EvalStep(r)
  \/ OrphanEnds
  \/ Terminated

Spec == Init /\ [][Next]_vars

\* The event loop runs what is ready, a subprocess ends or meets its timeout,
\* and the watcher polls every two seconds.  Nothing makes a client stay.
Fairness ==
  \A r \in Reqs :
    /\ WF_vars(HandlerStep(r)) /\ WF_vars(QueueStep(r))
    /\ WF_vars(EvalStep(r)) /\ WF_vars(Watch(r))
FairSpec == Spec /\ Fairness
=============================================================================
