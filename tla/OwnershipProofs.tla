-------------------------- MODULE OwnershipProofs ---------------------------
(***************************************************************************)
(* No session owns two tasks, a running script keeps its claim and is      *)
(* alone, for every set of sessions and tasks, every window and any number *)
(* of deaths at any write.                                                 *)
(*                                                                         *)
(* Nothing is assumed of how long scripts run or of who loads a record     *)
(* when: the properties name the two ways a claim is lost (overtaken and   *)
(* aged), and the theorems say that there is no third.  Listed = Tasks,    *)
(* for the first theorem: every task is under ar_tasks/, where the scan    *)
(* finds it.                                                               *)
(*                                                                         *)
(* The argument.  A save that is not outdated writes back the owner that   *)
(* is on disk, so that a heartbeat never gives a task to a session again.  *)
(* The index leads to what a session owns whenever it is about to claim    *)
(* (Led), so that the claim releases it.  From its claim on a session is   *)
(* the owner of its task and the task is fresh (Drives): whoever loads the *)
(* record meanwhile is refused, and whoever loaded it before saves an      *)
(* outdated copy.                                                          *)
(***************************************************************************)
EXTENDS Ownership, FiniteSetTheorems, TLAPS

\* One step of one session.
Step(s) ==
  \/ Hook(s) \/ OpenStep(s) \/ BodyStep(s) \/ ScriptDies(s) \/ SessionDies(s)
  \/ \E t \in Tasks : Open(s, t)

-----------------------------------------------------------------------------
(* What a step writes *)

\* What a step of a session may do to the histories.
Marks(s) == /\ overtaken \subseteq overtaken' /\ overtaken' \subseteq overtaken \cup {task[s]}
            /\ overtaken' \subseteq Tasks /\ aged' = aged

\* The copy that was saved was not outdated, or else its task is overtaken.
Seen(s) == task[s] \notin overtaken' =>
             /\ copy[s].owner = rec[task[s]].owner
             /\ Fresh(rec[task[s]]) => Fresh(copy[s])

LEMMA SavedIs ==
  ASSUME NEW o \in Sessions \cup {None}
  PROVE  Saved(o) \in Record /\ Saved(o).owner = o /\ Saved(o).age = 0
BY OwnershipAssumption DEF OwnershipAssumption, Saved, Record

LEMMA SaveWrites ==
  ASSUME OwnershipType, NEW t \in Tasks, NEW o \in Sessions \cup {None}, Save(t, o)
  PROVE  /\ rec' \in [Tasks -> Record] /\ rec'[t].owner = o /\ rec'[t].age = 0
         /\ \A u \in Tasks \ {t} : rec'[u] = rec[u]
<1>1. rec' = [rec EXCEPT ![t] = Saved(o)]
  BY DEF Save
<1> QED BY <1>1, SavedIs DEF OwnershipType

\* A save of what was loaded: the task is overtaken if the copy is outdated.
LEMMA CopyWrites ==
  ASSUME OwnershipType, NEW s \in Sessions, task[s] \in Tasks,
         NEW o \in Sessions \cup {None}, SaveCopy(s, o)
  PROVE  /\ Save(task[s], o) /\ rec' \in [Tasks -> Record]
         /\ copy' \in [Sessions -> Record]
         /\ \A r \in Sessions \ {s} : copy'[r] = copy[r]
         /\ Marks(s) /\ Seen(s)
<1>1. Save(task[s], o) /\ copy' = [copy EXCEPT ![s] = Saved(None)]
  BY DEF SaveCopy
<1>2. Marks(s) /\ Seen(s)
  BY DEF SaveCopy, Marks, Seen, Outdated, OwnershipType
<1> QED BY <1>1, <1>2, SavedIs, SaveWrites DEF OwnershipType

\* A session writes nothing of another one but the record.
Others(s) ==
  \A r \in Sessions \ {s} : /\ pc'[r] = pc[r] /\ task'[r] = task[r]
                            /\ copy'[r] = copy[r] /\ index'[r] = index[r]

\* The types of what one session has.
Typed(s) ==
  /\ index' \in [Sessions -> Tasks \cup {None}]
  /\ pc' \in [Sessions -> Pcs]
  /\ task' \in [Sessions -> Tasks \cup {None}]
  /\ copy' \in [Sessions -> Record]
  /\ pc'[s] \notin {"idle", "ready", "dead"} => task'[s] \in Tasks
  /\ Marks(s)

LEMMA Unmarked ==
  ASSUME OwnershipType, NEW s \in Sessions, UNCHANGED hist
  PROVE  Marks(s)
BY DEF hist, Marks, OwnershipType

\* Each action: where the session goes and with what in hand.
LEMMA LoadWrites ==
  ASSUME OwnershipType, NEW s \in Sessions, NEW t \in Tasks, Load(s, t)
  PROVE  /\ copy' \in [Sessions -> Record] /\ copy'[s] = rec[t]
         /\ \A r \in Sessions \ {s} : copy'[r] = copy[r]
BY DEF Load, OwnershipType

LEMMA GotoWrites ==
  ASSUME OwnershipType, NEW s \in Sessions, NEW l \in Pcs, Goto(s, l)
  PROVE  pc' \in [Sessions -> Pcs] /\ pc'[s] = l /\ \A r \in Sessions \ {s} : pc'[r] = pc[r]
BY DEF Goto, OwnershipType

LEMMA ForgetWrites ==
  ASSUME OwnershipType, NEW s \in Sessions, Forget(s)
  PROVE  /\ task' \in [Sessions -> Tasks \cup {None}] /\ copy' \in [Sessions -> Record]
         /\ task'[s] = None
         /\ \A r \in Sessions \ {s} : task'[r] = task[r] /\ copy'[r] = copy[r]
BY SavedIs DEF Forget, OwnershipType

LEMMA ResolveWrites ==
  ASSUME OwnershipType, NEW s \in Sessions, Resolve(s)
  PROVE  /\ pc[s] = "idle" /\ rec' = rec /\ Typed(s) /\ Others(s)
         /\ \/ /\ pc'[s] = "hook" /\ Load(s, task'[s]) /\ copy'[s] = rec[task'[s]]
               /\ task'[s] \in Tasks /\ index'[s] = task'[s] /\ rec[task'[s]].owner = s
            \/ pc'[s] = "ready" /\ Matches(s) = {}
<1>1. pc[s] = "idle" /\ rec' = rec /\ Marks(s)
  BY Unmarked DEF Resolve
<1>2. CASE PointedRight(s) /\ task' = [task EXCEPT ![s] = index[s]]
            /\ Load(s, index[s]) /\ Goto(s, "hook") /\ UNCHANGED index
  <2>1. index[s] \in Tasks /\ rec[index[s]].owner = s
    BY <1>2 DEF PointedRight, OwnershipType
  <2>2. task' \in [Sessions -> Tasks \cup {None}] /\ task'[s] = index[s]
        /\ \A r \in Sessions \ {s} : task'[r] = task[r]
    BY <1>2, <2>1 DEF OwnershipType
  <2> QED BY <1>1, <1>2, <2>1, <2>2, LoadWrites, GotoWrites DEF Typed, Others, Pcs, OwnershipType
<1>3. ASSUME NEW t \in Scanned(s), index' = [index EXCEPT ![s] = t],
             task' = [task EXCEPT ![s] = t], Load(s, t), Goto(s, "hook")
      PROVE  /\ Typed(s) /\ Others(s)
             /\ pc'[s] = "hook" /\ Load(s, task'[s]) /\ copy'[s] = rec[task'[s]]
             /\ task'[s] \in Tasks /\ index'[s] = task'[s] /\ rec[task'[s]].owner = s
  <2>1. t \in Tasks /\ rec[t].owner = s
    BY OwnershipAssumption DEF OwnershipAssumption, Scanned, Matches
  <2>2. task' \in [Sessions -> Tasks \cup {None}] /\ task'[s] = t
        /\ \A r \in Sessions \ {s} : task'[r] = task[r]
    BY <1>3, <2>1 DEF OwnershipType
  <2>3. index' \in [Sessions -> Tasks \cup {None}] /\ index'[s] = t
        /\ \A r \in Sessions \ {s} : index'[r] = index[r]
    BY <1>3, <2>1 DEF OwnershipType
  <2> QED BY <1>1, <1>3, <2>1, <2>2, <2>3, LoadWrites, GotoWrites DEF Typed, Others, Pcs
<1>4. CASE Matches(s) = {} /\ index' = [index EXCEPT ![s] = None] /\ Goto(s, "ready")
            /\ UNCHANGED <<task, copy>>
  <2>1. index' \in [Sessions -> Tasks \cup {None}]
        /\ \A r \in Sessions \ {s} : index'[r] = index[r]
    BY <1>4 DEF OwnershipType
  <2> QED BY <1>1, <1>4, <2>1, GotoWrites DEF Typed, Others, Pcs, OwnershipType
<1> QED BY <1>1, <1>2, <1>3, <1>4 DEF Resolve

LEMMA HeartbeatWrites ==
  ASSUME OwnershipType, NEW s \in Sessions, Heartbeat(s)
  PROVE  /\ pc[s] = "hook" /\ pc'[s] = "ready" /\ Typed(s) /\ Others(s) /\ index' = index
         /\ task[s] \in Tasks /\ Save(task[s], copy[s].owner) /\ Seen(s)
<1>1. pc[s] = "hook" /\ index' = index /\ SaveCopy(s, copy[s].owner) /\ task[s] \in Tasks
      /\ copy[s].owner \in Sessions \cup {None}
  BY DEF Heartbeat, OwnershipType, Record
<1> QED BY <1>1, CopyWrites, ForgetWrites, GotoWrites
        DEF Heartbeat, Typed, Others, Pcs, OwnershipType

LEMMA OpenWrites ==
  ASSUME OwnershipType, NEW s \in Sessions, NEW t \in Tasks, Open(s, t)
  PROVE  /\ pc[s] = "ready" /\ pc'[s] = "opening" /\ Typed(s) /\ Others(s)
         /\ rec' = rec /\ index' = index
         /\ Load(s, t) /\ task'[s] = t /\ copy'[s] = rec[t]
<1>1. pc[s] = "ready" /\ rec' = rec /\ index' = index /\ Marks(s)
  BY Unmarked DEF Open
<1>2. task' \in [Sessions -> Tasks \cup {None}] /\ task'[s] = t
      /\ \A r \in Sessions \ {s} : task'[r] = task[r]
  BY DEF Open, OwnershipType
<1> QED BY <1>1, <1>2, LoadWrites, GotoWrites DEF Open, Typed, Others, Pcs, OwnershipType

LEMMA CheckWrites ==
  ASSUME OwnershipType, NEW s \in Sessions, Check(s)
  PROVE  /\ pc[s] = "opening" /\ Typed(s) /\ Others(s) /\ index' = index
         /\ \/ pc'[s] = "idle" /\ rec' = rec
            \/ /\ pc'[s] = "claim" /\ ~Refused(s) /\ task'[s] = task[s]
               /\ \/ /\ index[s] \in Tasks /\ index[s] # task[s] /\ rec[index[s]].owner = s
                     /\ Save(index[s], None)
                  \/ /\ index[s] = None \/ index[s] = task[s] \/ rec[index[s]].owner # s
                     /\ rec' = rec
<1>1. pc[s] = "opening" /\ index' = index /\ task[s] \in Tasks /\ index[s] \in Tasks \cup {None}
      /\ Marks(s)
  BY Unmarked DEF Check, OwnershipType
<1>2. CASE Goto(s, "idle") /\ Forget(s) /\ UNCHANGED rec
  BY <1>1, <1>2, ForgetWrites, GotoWrites DEF Typed, Others, Pcs, OwnershipType
<1>3. CASE ~Refused(s) /\ Goto(s, "claim") /\ UNCHANGED <<task, copy>>
            /\ IF index[s] # None /\ index[s] # task[s] /\ rec[index[s]].owner = s
                 THEN Save(index[s], None) ELSE UNCHANGED rec
  BY <1>1, <1>3, GotoWrites DEF Typed, Others, Pcs, OwnershipType
<1> QED BY <1>2, <1>3 DEF Check

LEMMA ClaimWrites ==
  ASSUME OwnershipType, NEW s \in Sessions,
         SaveOwner(s) \/ WriteIndex(s) \/ TouchLoad(s) \/ TouchSave(s)
  PROVE  /\ Typed(s) /\ Others(s) /\ task'[s] = task[s] /\ task[s] \in Tasks
         /\ \/ pc[s] = "claim" /\ pc'[s] = "claimed" /\ Save(task[s], s) /\ Seen(s)
            \/ pc[s] = "claimed" /\ pc'[s] = "indexed" /\ rec' = rec
            \/ /\ pc[s] = "indexed" /\ pc'[s] = "beat" /\ rec' = rec
               /\ Load(s, task[s]) /\ copy'[s] = rec[task[s]]
            \/ /\ pc[s] = "beat" /\ pc'[s] = "running"
               /\ Save(task[s], copy[s].owner) /\ Seen(s)
<1>0. copy[s].owner \in Sessions \cup {None}
  BY DEF OwnershipType, Record
<1>1. CASE SaveOwner(s)
  <2>1. pc[s] = "claim" /\ SaveCopy(s, s) /\ UNCHANGED <<index, task>>
        /\ Goto(s, "claimed") /\ task[s] \in Tasks
    BY <1>1 DEF SaveOwner, OwnershipType
  <2> QED BY <2>1, CopyWrites, GotoWrites DEF Typed, Others, Pcs, OwnershipType
<1>2. CASE WriteIndex(s)
  <2>1. pc[s] = "claimed" /\ UNCHANGED <<rec, task, copy>> /\ Goto(s, "indexed")
        /\ Marks(s)
    BY <1>2, Unmarked DEF WriteIndex
  <2>2. /\ index' \in [Sessions -> Tasks \cup {None}]
        /\ \A r \in Sessions \ {s} : index'[r] = index[r]
    BY <1>2 DEF WriteIndex, OwnershipType
  <2> QED BY <2>1, <2>2, GotoWrites DEF Typed, Others, Pcs, OwnershipType
<1>3. CASE TouchLoad(s)
  <2>1. pc[s] = "indexed" /\ UNCHANGED <<rec, index, task>> /\ Goto(s, "beat")
        /\ Load(s, task[s]) /\ task[s] \in Tasks /\ Marks(s)
    BY <1>3, Unmarked DEF TouchLoad, OwnershipType
  <2> QED BY <2>1, GotoWrites, LoadWrites DEF Typed, Others, Pcs, OwnershipType
<1>4. CASE TouchSave(s)
  <2>1. pc[s] = "beat" /\ SaveCopy(s, copy[s].owner) /\ UNCHANGED <<index, task>>
        /\ Goto(s, "running") /\ task[s] \in Tasks
    BY <1>4 DEF TouchSave, OwnershipType
  <2> QED BY <1>0, <2>1, CopyWrites, GotoWrites DEF Typed, Others, Pcs, OwnershipType
<1> QED BY <1>1, <1>2, <1>3, <1>4

LEMMA BodyWrites ==
  ASSUME OwnershipType, NEW s \in Sessions, BodyStep(s)
  PROVE  /\ Typed(s) /\ Others(s)
         /\ \/ /\ pc[s] = "running" /\ pc'[s] = "running" /\ task'[s] = task[s]
               /\ Save(task[s], rec[task[s]].owner)
            \/ pc[s] = "running" /\ pc'[s] = "idle" /\ rec' = rec
            \/ /\ pc[s] = "running" /\ pc'[s] = "release" /\ rec' = rec
               /\ task'[s] = task[s] /\ Load(s, task[s]) /\ copy'[s] = rec[task[s]]
            \/ /\ pc[s] = "release" /\ pc'[s] = "idle" /\ task[s] \in Tasks
               /\ rec' = rec \/ (Save(task[s], None) /\ Seen(s))
<1>1. CASE Commit(s)
  <2>1. pc[s] = "running" /\ Save(task[s], rec[task[s]].owner)
        /\ UNCHANGED <<index, pc, task, copy>> /\ Marks(s)
    BY <1>1, Unmarked DEF Commit
  <2> QED BY <2>1 DEF Typed, Others, OwnershipType
<1>2. CASE ExitOk(s)
  <2>1. pc[s] = "running" /\ UNCHANGED <<rec, index>> /\ Forget(s) /\ Goto(s, "idle")
        /\ Marks(s)
    BY <1>2, Unmarked DEF ExitOk
  <2> QED BY <2>1, ForgetWrites, GotoWrites DEF Typed, Others, Pcs, OwnershipType
<1>3. CASE ExitError(s)
  <2>1. pc[s] = "running" /\ UNCHANGED <<rec, index, task>> /\ Goto(s, "release")
        /\ Load(s, task[s]) /\ task[s] \in Tasks /\ Marks(s)
    BY <1>3, Unmarked DEF ExitError, OwnershipType
  <2> QED BY <2>1, GotoWrites, LoadWrites DEF Typed, Others, Pcs, OwnershipType
<1>4. CASE Release(s)
  <2>1. pc[s] = "release" /\ Forget(s) /\ Goto(s, "idle") /\ task[s] \in Tasks
    BY <1>4 DEF Release, OwnershipType
  <2>2. /\ index' \in [Sessions -> Tasks \cup {None}]
        /\ \A r \in Sessions \ {s} : index'[r] = index[r]
    BY <1>4 DEF Release, OwnershipType
  <2>3. Marks(s) /\ (rec' = rec \/ (Save(task[s], None) /\ Seen(s)))
    <3>1. CASE UNCHANGED <<rec, hist>>
      BY <3>1, Unmarked
    <3>2. CASE SaveCopy(s, None)
      BY <2>1, <3>2, CopyWrites
    <3> QED BY <1>4, <3>1, <3>2 DEF Release
  <2> QED BY <2>1, <2>2, <2>3, ForgetWrites, GotoWrites DEF Typed, Others, Pcs
<1> QED BY <1>1, <1>2, <1>3, <1>4 DEF BodyStep

LEMMA DeathWrites ==
  ASSUME OwnershipType, NEW s \in Sessions, ScriptDies(s) \/ SessionDies(s)
  PROVE  Typed(s) /\ Others(s) /\ rec' = rec /\ pc'[s] \in {"idle", "dead"}
<1>1. UNCHANGED <<rec, index>> /\ Marks(s) /\ Forget(s)
      /\ \E l \in {"idle", "dead"} : Goto(s, l)
  BY Unmarked DEF ScriptDies, SessionDies
<1> QED BY <1>1, ForgetWrites, GotoWrites DEF Typed, Others, Pcs, OwnershipType

\* Time only ages the records.
LEMMA TickWrites ==
  ASSUME OwnershipType, Tick
  PROVE  /\ rec' \in [Tasks -> Record]
         /\ \A t \in Tasks : rec'[t].owner = rec[t].owner
         /\ \A s \in Sessions : pc[s] \in {"idle", "ready", "running", "dead"}
         /\ \A s \in Sessions :
              pc[s] = "running" /\ task[s] \notin aged' => Fresh(rec'[task[s]])
         /\ aged \subseteq aged' /\ aged' \subseteq Tasks
         /\ UNCHANGED <<index, pc, task, copy, overtaken>>
<1>1. ASSUME NEW t \in Tasks
      PROVE  rec'[t] \in Record /\ rec'[t].owner = rec[t].owner
  <2>1. rec[t] \in Record
    BY DEF OwnershipType
  <2>2. rec'[t] = [rec[t] EXCEPT !.age = IF @ < Window THEN @ + 1 ELSE @]
    BY DEF Tick
  <2> QED BY <2>1, <2>2, OwnershipAssumption DEF OwnershipAssumption, Record
<1>2. DOMAIN rec' = Tasks /\ rec' = [t \in Tasks |-> rec'[t]]
  BY DEF Tick
<1>3. rec' \in [Tasks -> Record]
  BY <1>1, <1>2
<1>4. \A s \in Sessions : pc[s] = "running" => task[s] \in Tasks
  BY DEF OwnershipType
<1>5. /\ aged \subseteq aged' /\ aged' \subseteq Tasks
      /\ \A s \in Sessions :
           pc[s] = "running" /\ task[s] \notin aged' => Fresh(rec'[task[s]])
  BY <1>4 DEF Tick, OwnershipType
<1> QED BY <1>1, <1>3, <1>5 DEF Tick

-----------------------------------------------------------------------------
(* The types and the owner on disk *)

LEMMA TypeStart == Init => OwnershipType
BY SavedIs DEF Init, OwnershipType, Pcs

\* What a step of a session writes to the records.
LEMMA StepWrites ==
  ASSUME OwnershipType, NEW s \in Sessions, Step(s)
  PROVE  /\ Typed(s) /\ Others(s) /\ rec' \in [Tasks -> Record]
         /\ \/ rec' = rec
            \/ /\ pc[s] \in {"hook", "beat"} /\ task[s] \in Tasks
               /\ Save(task[s], copy[s].owner) /\ copy[s].owner \in Sessions \cup {None}
               /\ Seen(s)
            \/ /\ pc[s] = "opening" /\ pc'[s] = "claim" /\ task'[s] = task[s]
               /\ index[s] \in Tasks /\ rec[index[s]].owner = s /\ Save(index[s], None)
            \/ /\ pc[s] = "claim" /\ pc'[s] = "claimed" /\ task'[s] = task[s]
               /\ task[s] \in Tasks /\ Save(task[s], s) /\ Seen(s)
            \/ /\ pc[s] = "running" /\ pc'[s] = "running" /\ task'[s] = task[s]
               /\ task[s] \in Tasks /\ Save(task[s], rec[task[s]].owner)
            \/ /\ pc[s] = "release" /\ pc'[s] = "idle"
               /\ task[s] \in Tasks /\ Save(task[s], None) /\ Seen(s)
<1>0. /\ copy[s].owner \in Sessions \cup {None}
      /\ \A t \in Tasks : rec[t].owner \in Sessions \cup {None}
      /\ rec' = rec => rec' \in [Tasks -> Record]
      /\ pc[s] = "running" => task[s] \in Tasks
  BY DEF OwnershipType, Record
<1>1. CASE Resolve(s) \/ \E t \in Tasks : Open(s, t)
  BY <1>0, <1>1, ResolveWrites, OpenWrites
<1>2. CASE Heartbeat(s)
  BY <1>0, <1>2, HeartbeatWrites, SaveWrites
<1>3. CASE Check(s)
  BY <1>0, <1>3, CheckWrites, SaveWrites
<1>4. CASE OpenStep(s) /\ ~Check(s)
  BY <1>0, <1>4, ClaimWrites, SaveWrites DEF OpenStep
<1>5. CASE BodyStep(s)
  BY <1>0, <1>5, BodyWrites, SaveWrites
<1>6. CASE ScriptDies(s) \/ SessionDies(s)
  BY <1>0, <1>6, DeathWrites
<1> QED BY <1>1, <1>2, <1>3, <1>4, <1>5, <1>6 DEF Step, Hook

\* As long as nothing is overtaken only a claim gives a task to a session.
LEMMA OwnerWrites ==
  ASSUME OwnershipType, NEW s \in Sessions, Step(s), overtaken' = {}
  PROVE  \/ \A t \in Tasks : rec'[t].owner = rec[t].owner
         \/ /\ pc[s] = "opening" /\ pc'[s] = "claim" /\ task'[s] = task[s]
            /\ index[s] \in Tasks /\ rec[index[s]].owner = s /\ rec'[index[s]].owner = None
            /\ \A t \in Tasks \ {index[s]} : rec'[t] = rec[t]
         \/ /\ pc[s] = "claim" /\ pc'[s] = "claimed" /\ task'[s] = task[s]
            /\ task[s] \in Tasks /\ rec'[task[s]].owner = s
            /\ \A t \in Tasks \ {task[s]} : rec'[t] = rec[t]
         \/ /\ pc[s] = "release" /\ pc'[s] = "idle"
            /\ task[s] \in Tasks /\ rec'[task[s]].owner = None
            /\ \A t \in Tasks \ {task[s]} : rec'[t] = rec[t]
<1>1. \A t \in Tasks : rec[t].owner \in Sessions \cup {None}
  BY DEF OwnershipType, Record
<1>2. Seen(s) => copy[s].owner = rec[task[s]].owner
  BY DEF Seen
<1> QED BY <1>1, <1>2, StepWrites, SaveWrites

LEMMA TypeStep ==
  ASSUME OwnershipType, [Next]_vars
  PROVE  OwnershipType'
<1>1. ASSUME NEW s \in Sessions, Step(s) PROVE OwnershipType'
  <2>1. Typed(s) /\ Others(s) /\ rec' \in [Tasks -> Record]
    BY <1>1, StepWrites
  <2> QED BY <2>1 DEF Typed, Others, OwnershipType, Marks
<1>2. CASE Tick
  BY <1>2, TickWrites DEF OwnershipType
<1>3. CASE UNCHANGED vars
  BY <1>3 DEF vars, hist, OwnershipType
<1> QED BY <1>1, <1>2, <1>3 DEF Next, Step

\* What is overtaken or aged stays so.
LEMMA Sticky ==
  ASSUME OwnershipType, [Next]_vars
  PROVE  overtaken \subseteq overtaken' /\ aged \subseteq aged'
<1>1. ASSUME NEW s \in Sessions, Step(s)
      PROVE  overtaken \subseteq overtaken' /\ aged \subseteq aged'
  BY <1>1, StepWrites DEF Typed, Marks
<1>2. CASE Tick
  BY <1>2, TickWrites
<1>3. CASE UNCHANGED vars
  BY <1>3 DEF vars, hist
<1> QED BY <1>1, <1>2, <1>3 DEF Next, Step

-----------------------------------------------------------------------------
(* No session owns two tasks *)

LEMMA LedStart == Init => AllLed
BY SavedIs, OwnershipAssumption DEF OwnershipAssumption, Init, AllLed, Led

\* What a session owns after a step that gives it nothing.
LEMMA LedAlone ==
  ASSUME NEW s \in Sessions, Led(s), pc'[s] = pc[s], index'[s] = index[s], task'[s] = task[s],
         \A t \in Tasks : rec'[t].owner = s => rec[t].owner = s
  PROVE  Led(s)'
BY DEF Led

LEMMA LedStep ==
  ASSUME Listed = Tasks, OwnershipType, AllLed, overtaken' = {}, [Next]_vars
  PROVE  AllLed'
<1>1. ASSUME NEW s \in Sessions, Step(s) PROVE AllLed'
  <2>1. Others(s)
    BY <1>1, StepWrites
  <2>2. ASSUME NEW r \in Sessions \ {s} PROVE Led(r)'
    <3>1. \A t \in Tasks : rec'[t].owner = r => rec[t].owner = r
      BY <1>1, OwnerWrites, OwnershipAssumption DEF OwnershipAssumption
    <3> QED BY <2>1, <3>1, LedAlone DEF Others, AllLed
  <2>3. Led(s)'
    <3>0. Led(s)
      BY DEF AllLed
    <3>1. CASE Resolve(s)
      <4>1. rec' = rec
        BY <3>1, ResolveWrites
      <4>2. CASE pc'[s] = "hook"
        BY <3>0, <3>1, <4>1, <4>2, ResolveWrites DEF Led
      <4>3. CASE pc'[s] = "ready" /\ Matches(s) = {}
        BY <3>0, <4>1, <4>3 DEF Led, Matches
      <4> QED BY <3>1, <4>2, <4>3, ResolveWrites
    <3>2. CASE Heartbeat(s)
      <4>1. \A t \in Tasks : rec'[t].owner = rec[t].owner
        BY <1>1, <3>2, HeartbeatWrites, OwnerWrites
      <4> QED BY <3>0, <3>2, <4>1, HeartbeatWrites DEF Led
    <3>3. CASE \E t \in Tasks : Open(s, t)
      BY <3>0, <3>3, OpenWrites DEF Led
    <3>4. CASE Check(s)
      <4>1. CASE pc'[s] = "idle" /\ rec' = rec
        BY <3>0, <4>1 DEF Led
      <4>2. CASE /\ pc'[s] = "claim" /\ task'[s] = task[s] /\ index[s] \in Tasks
                 /\ index[s] # task[s] /\ Save(index[s], None)
        <5>1. pc[s] = "opening"
          BY <3>4, CheckWrites
        <5>2. \A t \in Tasks : rec'[t].owner # s
          BY <3>0, <4>2, <5>1, SaveWrites, OwnershipAssumption
             DEF OwnershipAssumption, Led
        <5> QED BY <4>2, <5>2 DEF Led
      <4>3. CASE /\ pc'[s] = "claim" /\ task'[s] = task[s] /\ rec' = rec
                 /\ index[s] = None \/ index[s] = task[s] \/ rec[index[s]].owner # s
        <5>1. pc[s] = "opening"
          BY <3>4, CheckWrites
        <5>2. \A t \in Tasks : rec[t].owner = s => t = task[s]
          BY <3>0, <4>3, <5>1, OwnershipAssumption DEF OwnershipAssumption, Led
        <5> QED BY <4>3, <5>2 DEF Led
      <4> QED BY <3>4, <4>1, <4>2, <4>3, CheckWrites
    <3>5. CASE OpenStep(s) /\ ~Check(s)
      <4>1. pc'[s] \notin {"hook", "ready", "opening", "claim"}
        BY <3>5, ClaimWrites DEF OpenStep
      <4>2. CASE pc[s] = "claim" /\ Save(task[s], s)
        <5>1. \A t \in Tasks : rec'[t].owner = s => t = task[s]
          <6>1. task[s] \in Tasks
            BY <4>2 DEF OwnershipType
          <6> QED BY <3>0, <4>2, <6>1, SaveWrites DEF Led
        <5> QED BY <4>1, <5>1 DEF Led
      <4>3. CASE pc[s] # "claim"
        <5>1. \A t \in Tasks : rec'[t].owner = rec[t].owner
          BY <1>1, <3>5, <4>3, ClaimWrites, OwnerWrites DEF OpenStep
        <5> QED BY <3>0, <4>1, <5>1 DEF Led
      <4> QED BY <3>5, <4>2, <4>3, ClaimWrites DEF OpenStep
    <3>6. CASE BodyStep(s) \/ ScriptDies(s) \/ SessionDies(s)
      <4>1. pc'[s] \notin {"hook", "ready", "opening", "claim"}
        BY <3>6, BodyWrites, DeathWrites
      <4>2. \A t \in Tasks : rec'[t].owner = s => rec[t].owner = s
        BY <1>1, <4>1, OwnerWrites, OwnershipAssumption, <3>6, BodyWrites, DeathWrites
           DEF OwnershipAssumption
      <4> QED BY <3>0, <4>1, <4>2 DEF Led
    <3> QED BY <1>1, <3>1, <3>2, <3>3, <3>4, <3>5, <3>6 DEF Step, Hook
  <2>4. ASSUME NEW r \in Sessions PROVE Led(r)'
    BY <2>2, <2>3
  <2> QED BY <2>4 DEF AllLed
<1>2. CASE Tick
  BY <1>2, TickWrites DEF AllLed, Led
<1>3. CASE UNCHANGED vars
  BY <1>3 DEF vars, hist, AllLed, Led
<1> QED BY <1>1, <1>2, <1>3 DEF Next, Step

\* No session is the owner of two tasks, whenever its scripts die.
THEOREM OneTaskEach ==
  ASSUME Listed = Tasks
  PROVE  Spec => []SingleTask
<1> DEFINE Inv == OwnershipType /\ (overtaken = {} => AllLed)
<1>1. Inv => SingleTask
  <2>1. SUFFICES ASSUME AllLed, NEW s \in Sessions
                 PROVE  Cardinality({t \in Tasks : rec[t].owner = s}) <= 1
    BY DEF SingleTask
  <2> DEFINE own == {t \in Tasks : rec[t].owner = s}
  <2>2. CASE own = {}
    BY <2>2, FS_EmptySet
  <2>3. CASE own # {}
    <3>1. \E u \in Tasks : own = {u}
      BY <2>1, <2>3 DEF AllLed, Led
    <3> QED BY <3>1, FS_Singleton
  <2> QED BY <2>2, <2>3
<1>2. Inv /\ [Next]_vars => Inv'
  BY TypeStep, LedStep, Sticky
<1>3. Init => Inv
  BY TypeStart, LedStart
<1> QED BY <1>1, <1>2, <1>3, PTL DEF Spec

-----------------------------------------------------------------------------
(* A running script keeps its claim and is alone *)

LEMMA DriveStart == Init => AllDrive
BY DEF Init, AllDrive, Drives

\* What a step of the session itself makes of its claim.
LEMMA OwnClaim ==
  ASSUME Window > 0, OwnershipType, NEW s \in Sessions, Drives(s), Step(s)
  PROVE  Drives(s)'
<1> DEFINE kept == task[s] \notin overtaken' \cup aged'
<1>1. Typed(s)
  BY StepWrites
<1>2. CASE Resolve(s)
  BY <1>2, ResolveWrites DEF Drives
<1>3. CASE Heartbeat(s)
  BY <1>3, HeartbeatWrites DEF Drives
<1>4. CASE \E t \in Tasks : Open(s, t)
  BY <1>4, OpenWrites DEF Drives
<1>5. CASE Check(s)
  <2>1. pc'[s] = "claim" => ~Refused(s)'
    BY <1>5 DEF Check, Refused, Goto, OwnershipType, Forget
  <2> QED BY <1>5, <2>1, CheckWrites DEF Drives
<1>6. CASE OpenStep(s) /\ ~Check(s)
  <2>1. SaveOwner(s) \/ WriteIndex(s) \/ TouchLoad(s) \/ TouchSave(s)
    BY <1>6 DEF OpenStep
  <2>2. /\ task'[s] = task[s] /\ task[s] \in Tasks
        /\ overtaken \subseteq overtaken' /\ aged' = aged
    BY <1>1, <2>1, ClaimWrites DEF Typed, Marks
  <2>3. CASE pc[s] = "claim" /\ pc'[s] = "claimed" /\ Save(task[s], s)
    BY <2>2, <2>3, SaveWrites DEF Drives, Fresh
  <2>4. CASE pc[s] = "claimed" /\ pc'[s] = "indexed" /\ rec' = rec
    BY <2>2, <2>4 DEF Drives, Fresh
  <2>5. CASE pc[s] = "indexed" /\ pc'[s] = "beat" /\ rec' = rec /\ copy'[s] = rec[task[s]]
    BY <2>2, <2>5 DEF Drives, Fresh
  <2>6. CASE pc[s] = "beat" /\ pc'[s] = "running" /\ Save(task[s], copy[s].owner)
    <3>1. kept => copy[s].owner = s
      BY <2>2, <2>6 DEF Drives
    <3> QED BY <2>2, <2>6, <3>1, SaveWrites DEF Drives, Fresh
  <2> QED BY <2>1, <2>3, <2>4, <2>5, <2>6, ClaimWrites
<1>7. CASE BodyStep(s)
  <2>1. overtaken \subseteq overtaken' /\ aged' = aged
    BY <1>1 DEF Typed, Marks
  <2>2. CASE /\ pc[s] = "running" /\ pc'[s] = "running" /\ task'[s] = task[s]
             /\ Save(task[s], rec[task[s]].owner)
    <3>1. task[s] \in Tasks /\ rec[task[s]].owner \in Sessions \cup {None}
      BY <2>2 DEF OwnershipType, Record
    <3> QED BY <2>1, <2>2, <3>1, SaveWrites DEF Drives, Fresh
  <2>3. CASE pc'[s] = "idle"
    BY <2>3 DEF Drives
  <2>4. CASE /\ pc[s] = "running" /\ pc'[s] = "release"
             /\ task'[s] = task[s] /\ copy'[s] = rec[task[s]]
    BY <2>1, <2>4 DEF Drives
  <2> QED BY <1>7, <2>2, <2>3, <2>4, BodyWrites
<1>8. CASE ScriptDies(s) \/ SessionDies(s)
  BY <1>8, DeathWrites DEF Drives
<1> QED BY <1>2, <1>3, <1>4, <1>5, <1>6, <1>7, <1>8 DEF Step, Hook

\* A step of another session leaves the record of a task that is driven alone,
\* or the task is overtaken.
LEMMA OthersClaim ==
  ASSUME OwnershipType, AllDrive, NEW s \in Sessions, NEW q \in Sessions \ {s}, Step(s)
  PROVE  Drives(q)'
<1>1. /\ Drives(q) /\ Drives(s) /\ q \in Sessions
      /\ pc'[q] = pc[q] /\ task'[q] = task[q] /\ copy'[q] = copy[q]
      /\ overtaken \subseteq overtaken' /\ aged' = aged
  BY StepWrites DEF AllDrive, Others, Typed, Marks
<1>2. ASSUME pc[q] \in {"claimed", "indexed", "beat", "running"},
             task[q] \notin overtaken' \cup aged'
      PROVE  rec'[task[q]] = rec[task[q]]
  <2>1. /\ task[q] \in Tasks /\ rec[task[q]].owner = q /\ Fresh(rec[task[q]])
        /\ task[q] \notin overtaken \cup aged
    BY <1>1, <1>2 DEF Drives, OwnershipType
  <2>2. \A t \in Tasks, o \in Sessions \cup {None} :
          Save(t, o) /\ t # task[q] => rec'[task[q]] = rec[task[q]]
    BY <2>1, SaveWrites
  <2>3. ASSUME task[s] = task[q], Seen(s)
        PROVE  copy[s].owner = q /\ Fresh(copy[s])
    BY <1>2, <2>1, <2>3 DEF Seen
  <2>4. q # None /\ q # s /\ None \notin Sessions
    BY <1>1, OwnershipAssumption DEF OwnershipAssumption
  <2>5. pc[s] \in {"hook", "beat", "release"} /\ Seen(s) => task[s] # task[q]
    BY <1>1, <2>1, <2>3, <2>4 DEF Drives
  <2>6. pc[s] = "claim" /\ Seen(s) => task[s] # task[q]
    BY <1>1, <2>3, <2>4 DEF Drives, Refused
  <2>7. pc[s] = "running" => task[s] # task[q]
    BY <1>1, <2>1, <2>4 DEF Drives
  <2>8. pc[s] = "opening" /\ rec[index[s]].owner = s => index[s] # task[q]
    BY <2>1, <2>4
  <2>9. \A t \in Tasks : rec[t].owner \in Sessions \cup {None}
    BY DEF OwnershipType, Record
  <2> QED BY <2>2, <2>5, <2>6, <2>7, <2>8, <2>9, StepWrites
<1> QED BY <1>1, <1>2 DEF Drives, Refused

LEMMA DriveStep ==
  ASSUME Window > 0, OwnershipType, AllDrive, [Next]_vars
  PROVE  AllDrive'
<1>1. ASSUME NEW s \in Sessions, Step(s) PROVE AllDrive'
  <2>1. ASSUME NEW q \in Sessions PROVE Drives(q)'
    BY <1>1, OwnClaim, OthersClaim DEF AllDrive
  <2> QED BY <2>1 DEF AllDrive
<1>2. CASE Tick
  <2>1. ASSUME NEW s \in Sessions PROVE Drives(s)'
    <3>1. pc[s] = "running" => task[s] \in Tasks
      BY DEF OwnershipType
    <3> QED BY <1>2, <3>1, TickWrites DEF AllDrive, Drives
  <2> QED BY <2>1 DEF AllDrive
<1>3. CASE UNCHANGED vars
  BY <1>3 DEF vars, hist, AllDrive, Drives, Refused
<1> QED BY <1>1, <1>2, <1>3 DEF Next, Step

LEMMA AlwaysDrives ==
  ASSUME Window > 0
  PROVE  Spec => []AllDrive
<1>1. OwnershipType /\ AllDrive /\ [Next]_vars => OwnershipType' /\ AllDrive'
  BY TypeStep, DriveStep
<1> QED BY <1>1, TypeStart, DriveStart, PTL DEF Spec

\* The task of a running script names its session, unless its record went
\* stale under the script or a save undid the claim.
THEOREM ClaimIsKept ==
  ASSUME Window > 0
  PROVE  Spec => []LiveOwnerKept
<1>1. AllDrive => LiveOwnerKept
  BY DEF AllDrive, Drives, LiveOwnerKept
<1> QED BY <1>1, AlwaysDrives, PTL

\* No two scripts run on one task at once, but for the same two ways.
THEOREM WriterIsAlone ==
  ASSUME Window > 0
  PROVE  Spec => []OneLiveWriter
<1>1. AllDrive => OneLiveWriter
  BY DEF AllDrive, Drives, OneLiveWriter
<1> QED BY <1>1, AlwaysDrives, PTL
=============================================================================
