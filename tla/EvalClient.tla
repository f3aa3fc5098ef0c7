----------------------------- MODULE EvalClient -----------------------------
(***************************************************************************)
(* Remote evaluation as task_config/eval_client.py sees it: a client takes *)
(* the worker that reported most free slots, posts its package and waits a *)
(* time computed from the worst case of the evaluation itself.             *)
(*                                                                         *)
(* Time is counted in ticks, as the age of what runs.  A worker is the     *)
(* FIFO of its waiting requests and its running evaluations; WorkerPool    *)
(* has its handlers in detail.                                             *)
(***************************************************************************)
EXTENDS Integers, FiniteSets, SequencesExt

CONSTANTS Clients,
          Workers,    \* worker URLs, numbered in the order they are listed
          Slots,      \* devices of a worker
          PassTime,   \* request.timeout, the bound of one pass
          TermTime,   \* the wait after SIGTERM when a pass is cut
          Slack       \* the constant in the client's timeout

VARIABLES
  st,       \* what each client does
  sticky,   \* its request carries a baseline: the reference pass is skipped
  url,      \* the worker it chose
  age,      \* how long ago it posted its request
  queued,   \* the worker had no device for it at once
  line,     \* requests waiting at each worker
  passAge,  \* how long the running pass of its evaluation has run
  left      \* passes its evaluation still has to run
vars == <<st, sticky, url, age, queued, line, passAge, left>>

NoWorker == 0
Init ==
  /\ st = [c \in Clients |-> "idle"]
  /\ sticky \in [Clients -> BOOLEAN]
  /\ url = [c \in Clients |-> NoWorker]
  /\ age = [c \in Clients |-> 0]
  /\ queued = [c \in Clients |-> FALSE]
  /\ line = [w \in Workers |-> <<>>]
  /\ passAge = [c \in Clients |-> 0]
  /\ left = [c \in Clients |-> 0]

Running(w) == {c \in Clients : st[c] = "running" /\ url[c] = w}

\* `free` of GET /status: the size of the device queue.
Free(w) == Slots - Cardinality(Running(w))

\* The reachable worker with most free slots, the first of them on a tie.
Best(w, up) ==
  /\ w \in up
  /\ \A v \in up : Free(v) < Free(w) \/ (Free(v) = Free(w) /\ w <= v)

\* _select_worker: any worker may fail to answer its status request.
Select(c) ==
  /\ st[c] = "idle"
  /\ \E up \in SUBSET Workers :
       \/ /\ up = {}
          /\ st' = [st EXCEPT ![c] = "infra"]
          /\ UNCHANGED url
       \/ \E w \in up :
            /\ Best(w, up)
            /\ st' = [st EXCEPT ![c] = "chosen"]
            /\ url' = [url EXCEPT ![c] = w]
  /\ UNCHANGED <<sticky, age, queued, line, passAge, left>>

Passes(c) == IF sticky[c] THEN 1 ELSE 2

BeginEval(c) ==
  /\ passAge' = [passAge EXCEPT ![c] = 0]
  /\ left' = [left EXCEPT ![c] = Passes(c)]

\* The package is built and posted: by now the worker may have become busy,
\* or stale, or have died.
Post(c) ==
  /\ st[c] = "chosen"
  /\ age' = [age EXCEPT ![c] = 0]
  /\ \/ /\ st' = [st EXCEPT ![c] = "infra"]
        /\ UNCHANGED <<queued, line, passAge, left>>
     \/ /\ Free(url[c]) > 0
        /\ st' = [st EXCEPT ![c] = "running"]
        /\ BeginEval(c)
        /\ UNCHANGED <<queued, line>>
     \/ /\ Free(url[c]) = 0
        /\ st' = [st EXCEPT ![c] = "waiting"]
        /\ queued' = [queued EXCEPT ![c] = TRUE]
        /\ line' = [line EXCEPT ![url[c]] = Append(@, c)]
        /\ UNCHANGED <<passAge, left>>
  /\ UNCHANGED <<sticky, url>>

\* A device is free again: the first request in line gets it.
Dequeue(w) ==
  /\ line[w] # <<>> /\ Free(w) > 0
  /\ LET c == Head(line[w]) IN
       /\ line' = [line EXCEPT ![w] = Tail(@)]
       /\ st' = [st EXCEPT ![c] = "running"]
       /\ BeginEval(c)
  /\ UNCHANGED <<sticky, url, age, queued>>

\* A pass ends, by itself or cut: the next one starts or the answer is age.
EndPass(c) ==
  /\ st[c] = "running"
  /\ left' = [left EXCEPT ![c] = @ - 1]
  /\ IF left[c] = 1
       THEN st' = [st EXCEPT ![c] = "answered"]
       ELSE UNCHANGED st
  /\ passAge' = [passAge EXCEPT ![c] = 0]
  /\ UNCHANGED <<sticky, url, age, queued, line>>

\* Faulty variant: the reference pass is forgotten in the timeout.
PatienceOnePass(c) == PassTime + Slack

\* The timeout of _multipart_post.
Patience(c) == PassTime * Passes(c) + Slack

\* urlopen gives up: the worker sees a disconnect, answers 499 and frees the
\* device or leaves the line; the client reports INFRA_FAIL.
TimeOut(c) ==
  /\ st[c] \in {"waiting", "running"} /\ age[c] >= Patience(c)
  /\ st' = [st EXCEPT ![c] = "infra"]
  /\ IF st[c] = "running" THEN UNCHANGED line
     ELSE \E i \in DOMAIN line[url[c]] :
            /\ line[url[c]][i] = c
            /\ line' = [line EXCEPT ![url[c]] = RemoveAt(@, i)]
  /\ UNCHANGED <<sticky, url, age, queued, passAge, left>>

\* No pass outlives its own timeout, no client its own.
Tick ==
  /\ \E c \in Clients : st[c] \in {"waiting", "running"}
  /\ \A c \in Clients : st[c] = "running" => passAge[c] < PassTime + TermTime
  /\ \A c \in Clients : st[c] \in {"waiting", "running"} => age[c] < Patience(c)
  /\ \A w \in Workers : line[w] = <<>> \/ Free(w) = 0
  /\ age' = [c \in Clients |-> IF st[c] \in {"waiting", "running"}
                                THEN age[c] + 1 ELSE age[c]]
  /\ passAge' = [c \in Clients |-> IF st[c] = "running"
                                    THEN passAge[c] + 1 ELSE passAge[c]]
  /\ UNCHANGED <<st, sticky, url, queued, line, left>>

\* Every client has its result.
Done == (\A c \in Clients : st[c] \in {"answered", "infra"}) /\ UNCHANGED vars

Next ==
  \/ Done
  \/ \E c \in Clients : Select(c) \/ Post(c) \/ EndPass(c) \/ TimeOut(c)
  \/ \E w \in Workers : Dequeue(w)
  \/ Tick

Spec == Init /\ [][Next]_vars

-----------------------------------------------------------------------------
\* A request that found a free device is never given up while its evaluation
\* keeps its bounds: the client's timeout covers every pass and the time it
\* takes to cut it.
PatientWhenServed ==
  \A c \in Clients : st[c] = "running" /\ ~queued[c] => age[c] < Patience(c)

\* The comment at eval_client.py:188-192: the client waits for the worst case,
\* so that it does not disconnect in the middle of its evaluation.
NeverGivenUpMidEval ==
  \A c \in Clients : st[c] = "running" => age[c] < Patience(c)
=============================================================================
