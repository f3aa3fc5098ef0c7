----------------------------- MODULE WorkerHost -----------------------------
(***************************************************************************)
(* Starting and stopping workers on one machine (ar_cli.py worker --start  *)
(* and --stop, the lifespan of worker/server.py), and what that does to    *)
(* the evaluations of workers that are alive: their temporary directories  *)
(* are named by a prefix all workers of a machine share, and their         *)
(* subprocesses, in sessions of their own, survive the worker.             *)
(***************************************************************************)
EXTENDS Naturals

CONSTANTS Daemons,   \* worker processes, each started once
          Ports,
          Devices,
          Evals,     \* evaluations, each run once
          None

VARIABLES
  port,     \* the --port of each daemon
  st,       \* state of its process
  cli,      \* the ar_cli process that started it
  serving,  \* the daemon an evaluation runs in
  device,   \* the device its subprocess uses
  dir,      \* whether its temporary directory exists
  met       \* history: the workers that were alive together with each daemon
vars == <<port, st, cli, serving, device, dir, met>>

Alive(d) == st[d] \notin {"none", "dead", "crashed"}
Listener(p) == {d \in Daemons : st[d] = "listening" /\ port[d] = p}
Live(e) == device[e] # None
Of(d) == {e \in Evals : serving[e] = d /\ Live(e)}

Init ==
  /\ port = [d \in Daemons |-> None]
  /\ st = [d \in Daemons |-> "none"]
  /\ cli = [d \in Daemons |-> "none"]
  /\ serving = [e \in Evals |-> None]
  /\ device = [e \in Evals |-> None]
  /\ dir = [e \in Evals |-> FALSE]
  /\ met = [d \in Daemons |-> {}]

-----------------------------------------------------------------------------
(* worker --start --bg *)

Start(d) ==
  /\ st[d] = "none"
  /\ \E p \in Ports : port' = [port EXCEPT ![d] = p]
  /\ st' = [st EXCEPT ![d] = "booting"]
  /\ cli' = [cli EXCEPT ![d] = "polling"]
  /\ met' = [c \in Daemons |-> IF c = d THEN {b \in Daemons : Alive(b)}
                               ELSE IF Alive(c) THEN met[c] \cup {d} ELSE met[c]]
  /\ UNCHANGED <<serving, device, dir>>

\* Faulty variant: the janitor runs once the port is bound and served.
BindThenClean(d) ==
  /\ st[d] \in {"booted", "listening"}
  /\ st' = [st EXCEPT ![d] = "listening"]
  /\ dir' = [e \in Evals |-> FALSE]
  /\ UNCHANGED <<port, cli, serving, device, met>>

\* lifespan: the janitor removes every ar_run_* directory of the machine.
\* uvicorn runs it before it binds the port.
Boot(d) ==
  /\ st[d] = "booting"
  /\ st' = [st EXCEPT ![d] = "booted"]
  /\ dir' = [e \in Evals |-> FALSE]
  /\ UNCHANGED <<port, cli, serving, device, met>>

Bind(d) ==
  /\ st[d] = "booted"
  /\ st' = [st EXCEPT ![d] = IF Listener(port[d]) = {}
                                  THEN "listening" ELSE "crashed"]
  /\ UNCHANGED <<port, cli, serving, device, dir, met>>

\* The start command: is the process alive, and then, does the port answer.
Poll(d) ==
  /\ cli[d] = "polling"
  /\ cli' = [cli EXCEPT ![d] = IF Alive(d) THEN "probing" ELSE "failed"]
  /\ UNCHANGED <<port, st, serving, device, dir, met>>

Probe(d) ==
  /\ cli[d] = "probing"
  /\ cli' = [cli EXCEPT ![d] = IF Listener(port[d]) # {} THEN "ready" ELSE "polling"]
  /\ UNCHANGED <<port, st, serving, device, dir, met>>

GiveUp(d) ==
  /\ cli[d] = "polling"
  /\ cli' = [cli EXCEPT ![d] = "failed"]
  /\ UNCHANGED <<port, st, serving, device, dir, met>>

-----------------------------------------------------------------------------
(* worker --stop *)

\* SIGTERM to the listener: uvicorn closes the port and waits for the
\* requests it is serving.
Stop(d) ==
  /\ st[d] = "listening"
  /\ st' = [st EXCEPT ![d] = IF Of(d) = {} THEN "dead" ELSE "draining"]
  /\ UNCHANGED <<port, cli, serving, device, dir, met>>

\* Still alive after 20 polls of 250 ms: SIGKILL.  The subprocesses, each in
\* a session of its own, live on.
Kill(d) ==
  /\ st[d] = "draining"
  /\ st' = [st EXCEPT ![d] = "dead"]
  /\ UNCHANGED <<port, cli, serving, device, dir, met>>

-----------------------------------------------------------------------------
(* Evaluations *)

\* Each daemon fills its own pool with all the devices it was given.
Begin(e, d, n) ==
  /\ serving[e] = None /\ st[d] = "listening"
  /\ \A f \in Of(d) : device[f] # n
  /\ serving' = [serving EXCEPT ![e] = d]
  /\ device' = [device EXCEPT ![e] = n]
  /\ dir' = [dir EXCEPT ![e] = TRUE]
  /\ UNCHANGED <<port, st, cli, met>>

\* The subprocess ends and the handler removes the directory; a drained
\* daemon exits.  An orphan just ends.
End(e) ==
  LET d == serving[e] IN
  /\ Live(e)
  /\ device' = [device EXCEPT ![e] = None]
  /\ dir' = [dir EXCEPT ![e] = IF Alive(d) THEN FALSE ELSE @]
  /\ st' = IF st[d] = "draining" /\ Of(d) = {e}
             THEN [st EXCEPT ![d] = "dead"] ELSE st
  /\ UNCHANGED <<port, cli, serving, met>>

-----------------------------------------------------------------------------
\* Every daemon and every evaluation is over.
Done ==
  /\ \A d \in Daemons : st[d] \in {"dead", "crashed"} /\ cli[d] \in {"ready", "failed"}
  /\ \A e \in Evals : ~Live(e)
  /\ UNCHANGED vars

Next ==
  \/ \E d \in Daemons : Start(d) \/ Boot(d) \/ Bind(d) \/ Poll(d) \/ Probe(d)
                          \/ GiveUp(d) \/ Stop(d) \/ Kill(d)
  \/ \E e \in Evals, d \in Daemons, n \in Devices : Begin(e, d, n)
  \/ \E e \in Evals : End(e)
  \/ Done

Spec == Init /\ [][Next]_vars

-----------------------------------------------------------------------------
\* Claims that a second start on a machine refutes.  The comment at server.py:96:
\* what the janitor removes comes from a previous (crashed) worker.
JanitorSparesLive ==
  \A e \in Evals : Live(e) /\ Alive(serving[e]) => dir[e]

\* One subprocess at a time on a device, across workers of the machine and
\* restarts of a worker.
DeviceNotShared ==
  \A e, f \in Evals : Live(e) /\ device[e] = device[f] => e = f

\* The comment at ar_cli.py:188: the poll gives a clear failure message
\* "instead of fork succeeded, daemon crashed silently": when the start command
\* says ready, the daemon it started is the one that listens.
ReadyIsMine ==
  \A d \in Daemons : cli[d] = "ready" => st[d] \notin {"booting", "booted", "crashed"}

Swept(d) == st[d] \notin {"none", "booting"}      \* its janitor has run
Served(d) == st[d] \in {"listening", "draining", "dead"}

\* Who is to blame when they fail, whenever and wherever workers are started: a
\* directory in use is gone only after the start of a worker that was up
\* together with the one using it; ready for a worker that does not listen means
\* one it met had its port; and an evaluation shares its device only with one of
\* a worker its own met, or with the orphan of a worker that was killed.
OnlyMeetingHarms ==
  /\ \A e \in Evals : Live(e) /\ Alive(serving[e]) /\ ~dir[e] =>
       \E c \in met[serving[e]] : Swept(c)
  /\ \A d \in Daemons : cli[d] = "ready" /\ st[d] \in {"booting", "booted", "crashed"} =>
       \E c \in met[d] : Served(c) /\ port[c] = port[d]
  /\ \A e, f \in Evals :
       Live(e) /\ device[e] = device[f] /\ e # f
       /\ Alive(serving[e]) /\ Alive(serving[f]) => serving[f] \in met[serving[e]]
=============================================================================
