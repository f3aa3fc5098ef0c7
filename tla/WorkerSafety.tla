---------------------------- MODULE WorkerSafety ----------------------------
(***************************************************************************)
(* What must hold of the worker's devices.                                 *)
(***************************************************************************)
EXTENDS WorkerPool

\* Types of the queue, the handlers and the subprocesses.
PoolTypeOK ==
  /\ pool \in [Devices -> Nat]
  /\ getters \in Seq(Reqs)
  /\ pc \in [Reqs -> Pcs]
  /\ qt \in [Reqs -> QtStates]
  /\ dev \in [Reqs -> Devices \cup {NoDev}]
  /\ conn \in [Reqs -> BOOLEAN]
  /\ seen \in [Reqs -> BOOLEAN]
  /\ ev \in [Reqs -> EvStates]
  /\ pass \in [Reqs -> Passes]
  /\ procs \subseteq Reqs \X Passes \X Devices

\* No disconnect, cancellation or race of the two loses a device or puts it
\* back twice: each is in the queue once, or with exactly one request, and
\* an answered request holds none.
DeviceConserved ==
  /\ \A d \in Devices :
       \/ pool[d] = 1 /\ \A r \in Reqs : dev[r] # d
       \/ pool[d] = 0 /\ \E r \in Reqs : dev[r] = d
  /\ \A r, s \in Reqs : dev[r] = dev[s] /\ dev[r] # NoDev => r = s
  /\ \A r \in Reqs : pc[r] \in {"served", "gone", "refused"} => dev[r] = NoDev

\* A device that is handed out has no subprocess of an earlier request on it,
\* but for one that outlived its SIGTERM by more than 5 s: the device goes back
\* only after the cancelled or timed-out evaluation was awaited.
ProcsUnderHolder ==
  \A x \in procs : x[1] \notin Deaf => dev[x[1]] = x[3]

\* The docstring of run(), server.py:294-299: a client killed mid-flight must
\* not leave an orphan evaluation on a device that others are given.
NoOrphanOnDevice ==
  \A x, y \in procs : x[3] = y[3] => x[1] = y[1]

\* A device in the queue and a waiting getter never just face each other: a
\* woken getter is on its way, also when another one was cancelled meanwhile.
NoLostWakeup ==
  /\ \E r \in Reqs : qt[r] = "waiting"
  /\ \E d \in Devices : pool[d] > 0
  => \E r \in Reqs : qt[r] \in {"woken", "passing"}

-----------------------------------------------------------------------------
holder == [d \in Devices |->
             IF \E r \in Reqs : dev[r] = d
               THEN CHOOSE r \in Reqs : dev[r] = d ELSE NoDev]
Abstract == INSTANCE DevicePool WITH
  Free <- NoDev, holder <- holder,
  over <- {r \in Reqs : pc[r] \in {"served", "gone", "refused"}}

\* The handlers, with their races, implement the pool that reserves and frees
\* devices in single steps.
PoolRefines == Abstract!Spec

\* Every request that was accepted is answered or found abandoned: no
\* disconnect of another client and no barging past the wakeup strands it.
EveryRequestEnds ==
  \A r \in Reqs : (pc[r] = "queued") ~> (pc[r] \in {"served", "gone"})

-----------------------------------------------------------------------------
(* Why no wakeup is lost: the inductive strengthening. *)

Woken == {r \in Reqs : qt[r] \in {"woken", "passing"}}
InPool == {d \in Devices : pool[d] > 0}

\* A getter that waits stands in the queue of getters, and as long as one does
\* there is a wakeup under way for each device in the pool: barging takes a
\* device and no wakeup, a cancelled getter passes its own on.
WakeupsSuffice ==
  /\ \A r \in Reqs : qt[r] = "waiting" => \E i \in DOMAIN getters : getters[i] = r
  /\ (\E r \in Reqs : qt[r] = "waiting") => Cardinality(InPool) <= Cardinality(Woken)
=============================================================================
