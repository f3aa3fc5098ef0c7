----------------------------- MODULE BatchLock ------------------------------
(***************************************************************************)
(* The lock file of a batch directory (batch/run.py: acquire_lock,         *)
(* release_lock).  A runner is one run.py process: it starts once and ends *)
(* once.  Creating the file, writing the pid into it, reading it and       *)
(* removing it are separate calls of the file system.  A file that was     *)
(* removed while its maker held it open is another file than the one at    *)
(* the path, so a file carries its maker.                                  *)
(***************************************************************************)
EXTENDS Naturals, FiniteSets

CONSTANTS Runners, None,
          Staggered  \* bound: no two runners are inside acquire_lock at once

ASSUME LockAssumption ==
  /\ None \notin Runners /\ None \notin [maker : Runners, pid : Runners \cup {None}]
  /\ Staggered \in BOOLEAN

VARIABLES
  lock,  \* .batch.lock: None when there is none, else its maker and pid
  at,    \* where each runner is in acquire_lock
  tries  \* creations that failed
lockVars == <<lock, at, tries>>

Acquiring == {"create", "wrote", "read", "unlink"}
File(maker, pid) == [maker |-> maker, pid |-> pid]
\* _pid_alive of a runner.
Alive(r) == at[r] \notin {"off", "out", "dead"}

LockInit ==
  /\ lock = None
  /\ at = [r \in Runners |-> "off"]
  /\ tries = [r \in Runners |-> 0]

Go(r, place) == at' = [at EXCEPT ![r] = place]

Start(r) ==
  /\ at[r] = "off"
  /\ Staggered => \A q \in Runners : at[q] \notin Acquiring
  /\ Go(r, "create")
  /\ UNCHANGED <<lock, tries>>

\* O_CREAT | O_EXCL: the empty file is there before its pid is.
CreateAnyway(r) ==
  /\ at[r] = "create"
  /\ lock' = File(r, None)
  /\ Go(r, "wrote")
  /\ UNCHANGED tries

Create(r) ==
  /\ at[r] = "create"
  /\ IF lock = None THEN lock' = File(r, None) /\ Go(r, "wrote")
                    ELSE Go(r, "read") /\ UNCHANGED lock
  /\ UNCHANGED tries

\* Written through the descriptor: lost when the path names another file.
WritePid(r) ==
  /\ at[r] = "wrote"
  /\ lock' = IF lock # None /\ lock.maker = r THEN File(r, r) ELSE lock
  /\ Go(r, "holding")
  /\ UNCHANGED tries

\* The pid of the file; no file or no number in it is pid -1.
LivePid == lock # None /\ lock.pid # None /\ Alive(lock.pid)

\* A live owner ends the attempt, and so does the second failure.
Read(r) ==
  /\ at[r] = "read"
  /\ IF LivePid \/ tries[r] = 1 THEN Go(r, "out") ELSE Go(r, "unlink")
  /\ UNCHANGED <<lock, tries>>

Unlink(r) ==
  /\ at[r] = "unlink"
  /\ lock' = None
  /\ tries' = [tries EXCEPT ![r] = @ + 1]
  /\ Go(r, "create")

\* The finally clause of main: whatever is at the path is removed.
ReleaseLock(r) ==
  /\ at[r] = "holding"
  /\ lock' = None
  /\ Go(r, "out")
  /\ UNCHANGED tries

\* Killed: the file stays.
Die(r) ==
  /\ Alive(r)
  /\ Go(r, "dead")
  /\ UNCHANGED <<lock, tries>>

Acquire(r) == Create(r) \/ WritePid(r) \/ Read(r) \/ Unlink(r)

-----------------------------------------------------------------------------
\* acquire_lock: two runners never drive one batch directory.  They may: a
\* file is read before its maker has written the pid into it, or removed
\* after another runner has replaced it.
LockExclusive ==
  \A q, r \in Runners : at[q] = "holding" /\ at[r] = "holding" => q = r

\* The file names its holder, no other runner holds the lock or has made a
\* file, and none has yet to remove one that it found stale.
Secure(q) ==
  /\ at[q] = "holding" /\ lock = File(q, q)
  /\ \A r \in Runners \ {q} : at[r] \notin {"wrote", "holding", "unlink"}

\* What acquire_lock and release_lock do guarantee: a lock once held like that
\* stays so until its holder ends, whatever runners start, read, wait or are
\* killed around it, and however many of them are inside acquire_lock at once.
LockHolds ==
  [][\A q \in Runners : Secure(q) /\ at'[q] = "holding" => Secure(q)']_lockVars

LockType ==
  at \in [Runners -> {"off", "out", "dead", "holding"} \cup Acquiring]
=============================================================================
