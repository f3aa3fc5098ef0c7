----------------------------- MODULE Ownership ------------------------------
(***************************************************************************)
(* Who drives a task (phase_machine/state_store.py: owner, heartbeat and   *)
(* session index; Task.__enter__ and __exit__; resume.py).  Every writer   *)
(* of state.json loads the whole record, changes it and saves the whole    *)
(* record: the load and the save are separate actions here, so that other  *)
(* sessions run in between.  Only owner and last_touched are kept of a     *)
(* record; TaskRecord has the rest.                                        *)
(***************************************************************************)
EXTENDS Naturals, FiniteSets

CONSTANTS Sessions, Tasks, None,
          Listed,     \* tasks under ar_tasks/, the others were put elsewhere
          Window,     \* heartbeat_fresh_seconds, in ticks
          MaxDeaths,  \* bound on the deaths of sessions and scripts
          MaxOvertaken, \* bound: with so many tasks overtaken, no session loads
                        \* while another one is between a load and its save
          MaxAged       \* bound on the tasks that go stale under a script

ASSUME OwnershipAssumption ==
  /\ None \notin Sessions \cup Tasks
  /\ Listed \subseteq Tasks
  /\ Window \in Nat

VARIABLES
  rec,    \* state.json of each task: owner and age of last_touched
  index,  \* .session_tasks: the task each session points at
  pc,     \* what each session is at
  task,   \* the task it is working on
  copy,   \* the record it loaded
  deaths,
  overtaken, \* history: tasks saved by a session after another one changed
             \* the record it had loaded
  aged       \* history: tasks whose record went stale under a running script
hist == <<overtaken, aged>>
vars == <<rec, index, pc, task, copy, deaths, hist>>

Record == [owner : Sessions \cup {None}, age : 0..Window]
Pcs == {"idle", "hook", "ready", "opening", "claim", "claimed", "indexed",
        "beat", "running", "release", "dead"}

Fresh(r) == r.age < Window
Saved(owner) == [owner |-> owner, age |-> 0]

Init ==
  /\ rec = [t \in Tasks |-> Saved(None)]
  /\ index = [s \in Sessions |-> None]
  /\ pc = [s \in Sessions |-> "idle"]
  /\ task = [s \in Sessions |-> None]
  /\ copy = [s \in Sessions |-> Saved(None)]
  /\ deaths = 0
  /\ overtaken = {} /\ aged = {}

Goto(s, l) == pc' = [pc EXCEPT ![s] = l]

\* load_state, as every read-modify-write begins.
Load(s, t) ==
  /\ \/ Cardinality(overtaken) < MaxOvertaken
     \/ \A r \in Sessions \ {s} :
          pc[r] \notin {"hook", "opening", "claim", "beat", "release"}
  /\ copy' = [copy EXCEPT ![s] = rec[t]]

\* save_state of a record: last_touched is now.
Save(t, owner) == rec' = [rec EXCEPT ![t] = Saved(owner)]

\* Another session has changed the owner, or let a stale record beat, since
\* this one loaded it.
Outdated(s) ==
  LET now == rec[task[s]] IN
    now.owner # copy[s].owner \/ (Fresh(now) /\ ~Fresh(copy[s]))

\* save_state of what was loaded some steps ago, which is then done with.
SaveCopy(s, owner) ==
  /\ Save(task[s], owner)
  /\ copy' = [copy EXCEPT ![s] = Saved(None)]
  /\ overtaken' = IF Outdated(s) THEN overtaken \cup {task[s]} ELSE overtaken
  /\ UNCHANGED aged

\* Nothing of the session is kept between two tool calls.
Forget(s) ==
  /\ task' = [task EXCEPT ![s] = None]
  /\ copy' = [copy EXCEPT ![s] = Saved(None)]

-----------------------------------------------------------------------------
(* The hook before a tool call: current_session_task_dir, touch_heartbeat  *)

\* The matches of the scan: listed tasks that name the session.
Matches(s) == {t \in Listed : rec[t].owner = s}

\* The most recently touched of them.
Scanned(s) == {t \in Matches(s) : \A u \in Matches(s) : rec[t].age <= rec[u].age}

PointedRight(s) == index[s] # None /\ rec[index[s]].owner = s

\* A stale index entry is cleared, a match of the scan is written to it.
Resolve(s) ==
  /\ pc[s] = "idle"
  /\ \/ /\ PointedRight(s)
        /\ task' = [task EXCEPT ![s] = index[s]]
        /\ Load(s, index[s]) /\ Goto(s, "hook")
        /\ UNCHANGED index
     \/ /\ ~PointedRight(s)
        /\ \/ \E t \in Scanned(s) :
                /\ index' = [index EXCEPT ![s] = t]
                /\ task' = [task EXCEPT ![s] = t]
                /\ Load(s, t) /\ Goto(s, "hook")
           \/ /\ Matches(s) = {}
              /\ index' = [index EXCEPT ![s] = None]
              /\ Goto(s, "ready")
              /\ UNCHANGED <<task, copy>>
  /\ UNCHANGED <<rec, deaths, hist>>

\* touch_heartbeat saves what it loaded.
Heartbeat(s) ==
  /\ pc[s] = "hook"
  /\ SaveCopy(s, copy[s].owner)
  /\ Forget(s) /\ Goto(s, "ready")
  /\ UNCHANGED <<index, deaths>>

-----------------------------------------------------------------------------
(* open_task of an agent: set_task_dir, then touch_heartbeat               *)

Open(s, t) ==
  /\ pc[s] = "ready"
  /\ task' = [task EXCEPT ![s] = t]
  /\ Load(s, t) /\ Goto(s, "opening")
  /\ UNCHANGED <<rec, index, deaths, hist>>

\* Faulty variant: a live owner in another session is not asked for.
RefusedNever(s) == FALSE

\* Faulty variant: whoever owns a task keeps it, heartbeat or not.
RefusedForever(s) == copy[s].owner \notin {None, s}

Refused(s) == copy[s].owner \notin {None, s} /\ Fresh(copy[s])

\* Faulty variant: the prior task keeps its owner.
CheckKeepsPrior(s) ==
  /\ pc[s] = "opening"
  /\ IF Refused(s) THEN Goto(s, "idle") /\ Forget(s)
                   ELSE Goto(s, "claim") /\ UNCHANGED <<task, copy>>
  /\ UNCHANGED <<rec, index, deaths, hist>>

\* Refused, or the prior task of the session, by its index, is released.
Check(s) ==
  /\ pc[s] = "opening"
  /\ \/ /\ Refused(s)
        /\ Goto(s, "idle") /\ Forget(s)
        /\ UNCHANGED rec
     \/ /\ ~Refused(s)
        /\ Goto(s, "claim")
        /\ LET prior == index[s] IN
             IF prior # None /\ prior # task[s] /\ rec[prior].owner = s
               THEN Save(prior, None) ELSE UNCHANGED rec
        /\ UNCHANGED <<task, copy>>
  /\ UNCHANGED <<index, deaths, hist>>

SaveOwner(s) ==
  /\ pc[s] = "claim"
  /\ SaveCopy(s, s)
  /\ Goto(s, "claimed")
  /\ UNCHANGED <<index, task, deaths>>

WriteIndex(s) ==
  /\ pc[s] = "claimed"
  /\ index' = [index EXCEPT ![s] = task[s]]
  /\ Goto(s, "indexed")
  /\ UNCHANGED <<rec, task, copy, deaths, hist>>

TouchLoad(s) ==
  /\ pc[s] = "indexed"
  /\ Load(s, task[s]) /\ Goto(s, "beat")
  /\ UNCHANGED <<rec, index, task, deaths, hist>>

TouchSave(s) ==
  /\ pc[s] = "beat"
  /\ SaveCopy(s, copy[s].owner)
  /\ Goto(s, "running")
  /\ UNCHANGED <<index, task, deaths>>

-----------------------------------------------------------------------------
(* The body of the script and Task.__exit__                                *)

\* A transaction of the script: some time later it loads and saves the record.
\* The two are close together; the long part, an evaluation, is before them.
Commit(s) ==
  /\ pc[s] = "running"
  /\ Save(task[s], rec[task[s]].owner)
  /\ UNCHANGED <<index, pc, task, copy, deaths, hist>>

\* A clean exit keeps the claim.
ExitOk(s) ==
  /\ pc[s] = "running"
  /\ Forget(s) /\ Goto(s, "idle")
  /\ UNCHANGED <<rec, index, deaths, hist>>

\* An exception: clear_active_task(expected_task_dir=task_dir).
ExitError(s) ==
  /\ pc[s] = "running"
  /\ Load(s, task[s]) /\ Goto(s, "release")
  /\ UNCHANGED <<rec, index, task, deaths, hist>>

\* expected_task_dir is the target, so whoever owns it is cleared.
Release(s) ==
  /\ pc[s] = "release"
  /\ IF copy[s].owner = None THEN UNCHANGED <<rec, hist>> ELSE SaveCopy(s, None)
  /\ index' = [index EXCEPT ![s] =
                 IF copy[s].owner \in {None, s} THEN None ELSE @]
  /\ Forget(s) /\ Goto(s, "idle")
  /\ UNCHANGED deaths

-----------------------------------------------------------------------------
(* Deaths and time *)

\* A script or a hook is killed, its session goes on.
ScriptDies(s) ==
  /\ deaths < MaxDeaths /\ deaths' = deaths + 1
  /\ pc[s] \notin {"idle", "ready", "dead"}
  /\ Forget(s) /\ Goto(s, "idle")
  /\ UNCHANGED <<rec, index, hist>>

SessionDies(s) ==
  /\ deaths < MaxDeaths /\ deaths' = deaths + 1
  /\ pc[s] # "dead"
  /\ Forget(s) /\ Goto(s, "dead")
  /\ UNCHANGED <<rec, index, hist>>

\* Everything but the body of a script is short against the window.
Tick ==
  /\ \A s \in Sessions : pc[s] \in {"idle", "ready", "running", "dead"}
  /\ \E t \in Tasks : rec[t].age < Window
  /\ rec' = [t \in Tasks |-> [rec[t] EXCEPT !.age = IF @ < Window THEN @ + 1 ELSE @]]
  /\ aged' = aged \cup {t \in Tasks : /\ ~Fresh(rec'[t])
                                     /\ \E s \in Sessions : pc[s] = "running" /\ task[s] = t}
  /\ Cardinality(aged') <= MaxAged
  /\ UNCHANGED <<index, pc, task, copy, deaths, overtaken>>

Hook(s) == Resolve(s) \/ Heartbeat(s)
OpenStep(s) == Check(s) \/ SaveOwner(s) \/ WriteIndex(s) \/ TouchLoad(s) \/ TouchSave(s)
BodyStep(s) == Commit(s) \/ ExitOk(s) \/ ExitError(s) \/ Release(s)

Next ==
  \/ \E s \in Sessions :
       \/ Hook(s) \/ OpenStep(s) \/ BodyStep(s) \/ ScriptDies(s) \/ SessionDies(s)
       \/ \E t \in Tasks : Open(s, t)
  \/ Tick

Spec == Init /\ [][Next]_vars

\* A living session goes on to its next tool call and tries each task now and
\* then; a script ends; time passes.
Fairness ==
  /\ SF_vars(Tick)
  /\ \A s \in Sessions :
       /\ WF_vars(Hook(s)) /\ WF_vars(OpenStep(s))
       /\ WF_vars(ExitOk(s) \/ ExitError(s)) /\ WF_vars(Release(s))
       /\ \A t \in Tasks : SF_vars(Open(s, t))
FairSpec == Spec /\ Fairness

-----------------------------------------------------------------------------
\* The single-task-per-session invariant of set_task_dir
\* (state_store.py:463-468): no session is the owner of two tasks, also when
\* its scripts die between the record and the index, as long as no save has
\* undone what another session wrote in between.
SingleTask ==
  overtaken = {} =>
    \A s \in Sessions : Cardinality({t \in Tasks : rec[t].owner = s}) <= 1

\* The refusal of set_task_dir (state_store.py:478): the task of a running
\* script names its session.  There are two ways to lose the claim and no
\* third: the record goes stale under the script, or a save undoes it.
LiveOwnerKept ==
  \A s \in Sessions :
    pc[s] = "running" /\ task[s] \notin overtaken \cup aged => rec[task[s]].owner = s

\* config.yaml:314: a session whose script is running is not raced by another
\* one that resumed its task, but for the same two ways.
OneLiveWriter ==
  \A r, s \in Sessions :
    /\ pc[r] = "running" /\ pc[s] = "running" /\ task[r] = task[s]
    /\ task[s] \notin overtaken \cup aged
    => r = s

\* is_task_active, state_store.py:645: the tasks of a dead session go stale,
\* and a living session gets them.
DeadOwnerReplaced ==
  \A s \in Sessions :
    pc[s] = "dead" ~> \/ \A t \in Tasks : rec[t].owner # s
                      \/ \A r \in Sessions : pc[r] = "dead"

-----------------------------------------------------------------------------
(* Why: the inductive strengthening. *)

OwnershipType ==
  /\ rec \in [Tasks -> Record]
  /\ index \in [Sessions -> Tasks \cup {None}]
  /\ pc \in [Sessions -> Pcs]
  /\ task \in [Sessions -> Tasks \cup {None}]
  /\ copy \in [Sessions -> Record]
  /\ \A s \in Sessions : pc[s] \notin {"idle", "ready", "dead"} => task[s] \in Tasks
  /\ overtaken \subseteq Tasks /\ aged \subseteq Tasks

\* The index of a session leads to what it owns, but for a session that died
\* after it saved the owner: the scan of its next tool call makes up for it.
Led(s) ==
  /\ \A t, u \in Tasks : rec[t].owner = s /\ rec[u].owner = s => t = u
  /\ pc[s] \in {"hook", "ready", "opening"} => \A t \in Tasks : rec[t].owner = s => t = index[s]
  /\ pc[s] = "claim" => \A t \in Tasks : rec[t].owner = s => t = task[s]

AllLed == \A s \in Sessions : Led(s)

\* From its claim to the end of its script a session is the owner of its task
\* and the task is fresh.  Another session that is about to write it would
\* therefore undo something: it has loaded an owner or an age of before.
Drives(s) ==
  LET kept == task[s] \notin overtaken \cup aged IN
    /\ pc[s] = "hook" => copy[s].owner = s
    /\ pc[s] = "claim" => ~Refused(s)
    /\ pc[s] \in {"claimed", "indexed", "beat", "running"} /\ kept =>
         rec[task[s]].owner = s /\ Fresh(rec[task[s]])
    /\ pc[s] \in {"beat", "release"} /\ kept => copy[s].owner = s

AllDrive == \A s \in Sessions : Drives(s)
=============================================================================
