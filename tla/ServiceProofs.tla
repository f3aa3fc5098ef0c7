--------------------------- MODULE ServiceProofs ----------------------------
(***************************************************************************)
(* The clients and the hosts of the evaluation service, for every number   *)
(* of clients, workers, devices and evaluations and every timeout within   *)
(* ServiceAssumption.                                                      *)
(*                                                                         *)
(* Clients.  Patience covers every pass and what it takes to cut it, but   *)
(* only counting from the start of the evaluation, so what is proved of    *)
(* an age is proved of the requests that never stood in line.              *)
(*                                                                         *)
(* Hosts.  The start-up code removes the directories of all workers of the *)
(* machine and takes any answer on its port for its own.  Whom that can    *)
(* harm is bounded: whatever a worker comes upon was started by a worker   *)
(* that was up together with it, which `met` records.                      *)
(***************************************************************************)
EXTENDS MCService, TLAPS

vars == <<part, clientVars, hostVars>>

-----------------------------------------------------------------------------
(* Clients *)

PassBound == PassTime + TermTime

ClientTypes ==
  /\ st \in [Clients -> {"idle", "chosen", "waiting", "running", "answered", "infra"}]
  /\ sticky \in [Clients -> BOOLEAN]
  /\ url \in [Clients -> Workers \cup {Client!NoWorker}]
  /\ age \in [Clients -> Nat] /\ passAge \in [Clients -> Nat]
  /\ queued \in [Clients -> BOOLEAN]
  /\ line \in [Workers -> Seq(Clients)]
  /\ left \in [Clients -> 0..2]

\* Who stands in line has been told to wait, and is never taken for a request
\* that was served at once.
LineIsQueued ==
  \A w \in Workers : \A i \in 1..Len(line[w]) :
    queued[line[w][i]] /\ url[line[w][i]] \in Workers

Served(c) == st[c] = "running" /\ ~queued[c]

\* A running evaluation has a pass to end, which is within its bound.
PassInBound ==
  \A c \in Clients : st[c] = "running" =>
    left[c] \in 1..Client!Passes(c) /\ passAge[c] <= PassBound

\* The request of a client that was served at once is as old as the passes it
\* has ended and the one it is in.
AgeInBound ==
  \A c \in Clients : Served(c) =>
    IF left[c] = Client!Passes(c) THEN age[c] <= passAge[c]
                                  ELSE age[c] <= PassBound + passAge[c]

HasWorker ==
  \A c \in Clients : st[c] \in {"chosen", "waiting", "running"} => url[c] \in Workers

ClientInv ==
  ClientTypes /\ LineIsQueued /\ HasWorker /\ PassInBound /\ AgeInBound

LEMMA PassesValue ==
  ASSUME ClientTypes, NEW c \in Clients
  PROVE  Client!Passes(c) \in 1..2
BY DEF Client!Passes

\* What the bounds give: the worst case is within the patience.
LEMMA BoundIsPatient ==
  ClientInv => PatientWhenServed
<1> SUFFICES ASSUME ClientInv, NEW c \in Clients, st[c] = "running", ~queued[c]
             PROVE  age[c] < Client!Patience(c)
  BY DEF PatientWhenServed, Client!PatientWhenServed
<1>1. /\ left[c] \in 1..Client!Passes(c) /\ passAge[c] <= PassBound
      /\ IF left[c] = Client!Passes(c) THEN age[c] <= passAge[c]
                                       ELSE age[c] <= PassBound + passAge[c]
      /\ age[c] \in Nat /\ passAge[c] \in Nat
  BY DEF ClientInv, PassInBound, AgeInBound, Served, ClientTypes
<1>2. PassTime \in Nat /\ TermTime \in Nat /\ Slack \in Nat /\ 2 * TermTime < Slack
  BY ServiceAssumption
<1>3. CASE sticky[c]
  <2>1. Client!Passes(c) = 1 /\ Client!Patience(c) = PassTime + Slack
    BY <1>2, <1>3 DEF Client!Passes, Client!Patience
  <2> QED BY <1>1, <1>2, <2>1 DEF PassBound
<1>4. CASE ~sticky[c]
  <2>1. Client!Passes(c) = 2 /\ Client!Patience(c) = PassTime + PassTime + Slack
    BY <1>2, <1>4 DEF Client!Passes, Client!Patience
  <2> QED BY <1>1, <1>2, <2>1 DEF PassBound
<1> QED BY <1>3, <1>4

LEMMA ClientInit == Client!Init => ClientInv
<1> SUFFICES ASSUME Client!Init PROVE ClientInv
  OBVIOUS
<1> USE DEF Client!Init
<1>1. ClientTypes
  BY DEF ClientTypes, Client!NoWorker
<1>2. LineIsQueued
  BY DEF LineIsQueued
<1>3. HasWorker /\ PassInBound /\ AgeInBound
  BY DEF HasWorker, PassInBound, AgeInBound, Served
<1> QED BY <1>1, <1>2, <1>3 DEF ClientInv

\* Taking one request out of a line leaves the others in it.
LEMMA LineWithout ==
  ASSUME NEW S, NEW s \in Seq(S), NEW i \in 1..Len(s)
  PROVE  /\ Client!RemoveAt(s, i) \in Seq(S)
         /\ \A j \in 1..Len(Client!RemoveAt(s, i)) :
              \E k \in 1..Len(s) : Client!RemoveAt(s, i)[j] = s[k]
<1> DEFINE a == SubSeq(s, 1, i - 1)  b == SubSeq(s, i + 1, Len(s))
<1>1. a \in Seq(S) /\ Len(a) = i - 1 /\ \A j \in 1..Len(a) : a[j] = s[j]
  OBVIOUS
<1>2. b \in Seq(S) /\ Len(b) = Len(s) - i /\ \A j \in 1..Len(b) : b[j] = s[i + j]
  OBVIOUS
<1>3. Client!RemoveAt(s, i) = a \o b
  BY DEF Client!RemoveAt
<1> HIDE DEF a, b
<1>4. ASSUME NEW j \in 1..Len(a \o b)
      PROVE  \E k \in 1..Len(s) : (a \o b)[j] = s[k]
  <2>1. CASE j \in 1..Len(a)
    BY <1>1, <1>2, <2>1
  <2>2. CASE j \notin 1..Len(a)
    <3>1. (a \o b)[j] = b[j - Len(a)] /\ j - Len(a) \in 1..Len(b)
      BY <1>1, <1>2, <2>2
    <3>2. i + (j - Len(a)) \in 1..Len(s)
      BY <1>1, <1>2, <3>1
    <3> QED BY <1>2, <3>1, <3>2
  <2> QED BY <2>1, <2>2
<1> QED BY <1>1, <1>2, <1>3, <1>4

\* Every step of a client, a worker or the clock keeps the bounds.
LEMMA ClientStep == ClientInv /\ [Client!Next]_clientVars => ClientInv'
<1> SUFFICES ASSUME ClientInv, [Client!Next]_clientVars
             PROVE  ClientInv'
  OBVIOUS
<1> USE ServiceAssumption DEF ClientInv
<1>1. ASSUME NEW c \in Clients, Client!Select(c) PROVE ClientInv'
  <2>1. ClientTypes' /\ HasWorker'
    BY <1>1 DEF Client!Select, Client!Best, ClientTypes, HasWorker
  <2>2. st'[c] # "running" /\ \A d \in Clients : d # c => st'[d] = st[d]
    BY <1>1 DEF Client!Select, ClientTypes
  <2>3. UNCHANGED <<sticky, age, queued, line, passAge, left>>
    BY <1>1 DEF Client!Select
  <2>5. LineIsQueued'
    <3>1. \A d : url[d] \in Workers /\ d \in Clients => url'[d] \in Workers
      BY <1>1 DEF Client!Select, Client!Best, ClientTypes
    <3>2. \A w \in Workers : \A i \in 1..Len(line[w]) : line[w][i] \in Clients
      BY DEF ClientTypes
    <3> QED BY <2>3, <3>1, <3>2 DEF LineIsQueued
  <2>4. PassInBound' /\ AgeInBound'
    BY <2>2, <2>3 DEF LineIsQueued, PassInBound, AgeInBound, Served, Client!Passes
  <2> QED BY <2>1, <2>4, <2>5
<1>2. ASSUME NEW c \in Clients, Client!Post(c) PROVE ClientInv'
  <2>0. url[c] \in Workers
    BY <1>2 DEF Client!Post, HasWorker
  <2>1. CASE st' = [st EXCEPT ![c] = "infra"] /\ UNCHANGED <<queued, line, passAge, left>>
    <3>1. ClientTypes' /\ HasWorker'
      BY <1>2, <2>1 DEF Client!Post, ClientTypes, HasWorker
    <3>2. LineIsQueued' /\ PassInBound' /\ AgeInBound'
      BY <1>2, <2>1 DEF Client!Post, ClientTypes, LineIsQueued, PassInBound, AgeInBound,
                        Served, Client!Passes
    <3> QED BY <3>1, <3>2
  <2>2. CASE st' = [st EXCEPT ![c] = "running"] /\ Client!BeginEval(c) /\ UNCHANGED <<queued, line>>
    <3>1. ClientTypes'
      BY <1>2, <2>2, PassesValue DEF Client!Post, ClientTypes, Client!BeginEval
    <3>2. HasWorker' /\ LineIsQueued'
      BY <1>2, <2>0, <2>2 DEF Client!Post, ClientTypes, HasWorker, LineIsQueued
    <3>3. /\ age'[c] = 0 /\ passAge'[c] = 0 /\ left'[c] = Client!Passes(c)
          /\ sticky' = sticky
          /\ \A d \in Clients : d # c =>
               /\ st'[d] = st[d] /\ age'[d] = age[d] /\ passAge'[d] = passAge[d]
               /\ left'[d] = left[d] /\ queued'[d] = queued[d]
      BY <1>2, <2>2 DEF Client!Post, ClientTypes, Client!BeginEval
    <3>4. PassInBound'
      BY <3>3, PassesValue DEF PassInBound, PassBound, Client!Passes
    <3>5. AgeInBound'
      BY <3>3 DEF AgeInBound, Served, Client!Passes
    <3> QED BY <3>1, <3>2, <3>4, <3>5
  <2>3. CASE /\ st' = [st EXCEPT ![c] = "waiting"]
             /\ queued' = [queued EXCEPT ![c] = TRUE]
             /\ line' = [line EXCEPT ![url[c]] = Append(@, c)]
             /\ UNCHANGED <<passAge, left>>
    <3>1. ClientTypes'
      BY <1>2, <2>0, <2>3 DEF Client!Post, ClientTypes
    <3>2. HasWorker'
      BY <1>2, <2>0, <2>3 DEF Client!Post, ClientTypes, HasWorker
    <3>3. LineIsQueued'
      <4> SUFFICES ASSUME NEW w \in Workers, NEW i \in 1..Len(line'[w])
                   PROVE  queued'[line'[w][i]] /\ url'[line'[w][i]] \in Workers
        BY DEF LineIsQueued
      <4>1. line[w] \in Seq(Clients) /\ line'[w] \in Seq(Clients)
        BY <3>1 DEF ClientTypes
      <4>2. CASE w = url[c] /\ i = Len(line[w]) + 1
        BY <1>2, <2>0, <2>3, <4>1, <4>2 DEF ClientTypes, Client!Post
      <4>3. CASE ~(w = url[c] /\ i = Len(line[w]) + 1)
        <5>1. i \in 1..Len(line[w]) /\ line'[w][i] = line[w][i]
          <6>1. CASE w = url[c]
            <7>1. line'[w] = Append(line[w], c)
              BY <2>0, <2>3, <6>1 DEF ClientTypes
            <7> QED BY <4>1, <4>3, <6>1, <7>1
          <6>2. CASE w # url[c]
            BY <2>0, <2>3, <6>2 DEF ClientTypes
          <6> QED BY <6>1, <6>2
        <5>2. queued[line[w][i]] /\ line[w][i] \in Clients /\ url[line[w][i]] \in Workers
          BY <4>1, <5>1 DEF LineIsQueued
        <5> QED BY <1>2, <2>3, <5>1, <5>2 DEF ClientTypes, Client!Post
      <4> QED BY <4>2, <4>3
    <3>4. PassInBound' /\ AgeInBound'
      BY <1>2, <2>3 DEF Client!Post, ClientTypes, PassInBound, AgeInBound, Served,
                        Client!Passes
    <3> QED BY <3>1, <3>2, <3>3, <3>4
  <2> QED BY <1>2, <2>1, <2>2, <2>3 DEF Client!Post
<1>3. ASSUME NEW c \in Clients, Client!EndPass(c) PROVE ClientInv'
  <2>0. left[c] \in 1..Client!Passes(c) /\ Client!Passes(c) \in 1..2 /\ passAge[c] <= PassBound
    BY <1>3, PassesValue DEF Client!EndPass, PassInBound
  <2>1. ClientTypes'
    BY <1>3, <2>0 DEF Client!EndPass, ClientTypes
  <2>9. HasWorker' /\ LineIsQueued'
    BY <1>3 DEF Client!EndPass, ClientTypes, HasWorker, LineIsQueued
  <2>2. /\ left'[c] = left[c] - 1 /\ passAge'[c] = 0
        /\ (left[c] = 1) <=> (st'[c] # "running")
        /\ UNCHANGED <<sticky, url, age, queued, line>>
        /\ \A d \in Clients : d # c =>
             /\ st'[d] = st[d] /\ passAge'[d] = passAge[d] /\ left'[d] = left[d]
    BY <1>3, <2>0 DEF Client!EndPass, ClientTypes
  <2>3. PassInBound'
    BY <2>0, <2>2 DEF PassInBound, PassBound, Client!Passes
  <2>4. AgeInBound'
    <3> SUFFICES ASSUME NEW d \in Clients, Served(d)'
                 PROVE  IF left'[d] = Client!Passes(d) THEN age[d] <= passAge'[d]
                                                       ELSE age[d] <= PassBound + passAge'[d]
      BY <2>2 DEF AgeInBound, Client!Passes
    <3>1. CASE d # c
      BY <2>2, <3>1 DEF AgeInBound, Served
    <3>2. CASE d = c
      <4>1. left[c] = 2 /\ Client!Passes(c) = 2 /\ left'[c] = 1
        BY <2>0, <2>2, <3>2 DEF Served
      <4>2. Served(c)
        BY <1>3, <2>2, <3>2 DEF Served, Client!EndPass
      <4>3. age[c] <= passAge[c]
        BY <4>1, <4>2 DEF AgeInBound
      <4> QED BY <2>0, <2>2, <3>2, <4>1, <4>3 DEF PassBound, ClientTypes
    <3> QED BY <3>1, <3>2
  <2> QED BY <2>1, <2>3, <2>4, <2>9
<1>4. ASSUME NEW c \in Clients, Client!TimeOut(c) PROVE ClientInv'
  <2>0. url[c] \in Workers
    BY <1>4 DEF Client!TimeOut, HasWorker
  <2>1. ClientTypes' /\ LineIsQueued'
    <3>1. CASE UNCHANGED line
      BY <1>4, <3>1 DEF Client!TimeOut, ClientTypes, LineIsQueued
    <3>2. ASSUME NEW i \in DOMAIN line[url[c]],
                 line' = [line EXCEPT ![url[c]] = Client!RemoveAt(@, i)]
          PROVE  ClientTypes' /\ LineIsQueued'
      <4> DEFINE s == line[url[c]]
      <4>1. s \in Seq(Clients) /\ i \in 1..Len(s)
        BY <2>0, <3>2 DEF ClientTypes
      <4>0. s = line[url[c]]
        OBVIOUS
      <4> HIDE DEF s
      <4>2. /\ Client!RemoveAt(s, i) \in Seq(Clients)
            /\ \A j \in 1..Len(Client!RemoveAt(s, i)) :
                 \E k \in 1..Len(s) : Client!RemoveAt(s, i)[j] = s[k]
        BY <4>1, LineWithout
      <4>3. ClientTypes'
        BY <1>4, <2>0, <3>2, <4>0, <4>2 DEF Client!TimeOut, ClientTypes
      <4>4. ASSUME NEW w \in Workers, NEW j \in 1..Len(line'[w])
            PROVE  queued'[line'[w][j]] /\ url'[line'[w][j]] \in Workers
        <5>1. CASE w = url[c]
          <6>1. line'[w] = Client!RemoveAt(s, i)
            BY <2>0, <3>2, <4>0, <5>1 DEF ClientTypes
          <6>2. PICK k \in 1..Len(s) : line'[w][j] = s[k]
            BY <4>2, <4>4, <6>1
          <6> QED BY <1>4, <2>0, <4>0, <6>2 DEF Client!TimeOut, LineIsQueued
        <5>2. CASE w # url[c]
          BY <1>4, <3>2, <4>4, <5>2 DEF Client!TimeOut, LineIsQueued, ClientTypes
        <5> QED BY <5>1, <5>2
      <4> QED BY <4>3, <4>4 DEF LineIsQueued
    <3> QED BY <1>4, <3>1, <3>2 DEF Client!TimeOut
  <2>2. /\ st'[c] # "running" /\ \A d \in Clients : d # c => st'[d] = st[d]
        /\ UNCHANGED <<sticky, url, age, queued, passAge, left>>
        /\ st'[c] = "infra"
    BY <1>4 DEF Client!TimeOut, ClientTypes
  <2>3. HasWorker' /\ PassInBound' /\ AgeInBound'
    BY <2>2 DEF HasWorker, PassInBound, AgeInBound, Served, Client!Passes
  <2> QED BY <2>1, <2>3
<1>5. ASSUME NEW w \in Workers, Client!Dequeue(w) PROVE ClientInv'
  <2> DEFINE c == Head(line[w])
  <2>1. line[w] \in Seq(Clients) /\ line[w] # <<>>
    BY <1>5 DEF Client!Dequeue, ClientTypes
  <2>2. /\ c \in Clients /\ queued[c] /\ url[c] \in Workers
        /\ Tail(line[w]) \in Seq(Clients) /\ Client!Passes(c) \in 1..2
    <3>1. c \in Clients /\ queued[c] /\ url[c] \in Workers
      BY <2>1 DEF LineIsQueued
    <3> QED BY <2>1, <3>1, PassesValue
  <2>3. /\ line' = [line EXCEPT ![w] = Tail(@)]
        /\ st' = [st EXCEPT ![c] = "running"]
        /\ Client!BeginEval(c)
        /\ UNCHANGED <<sticky, url, age, queued>>
    BY <1>5 DEF Client!Dequeue
  <2> HIDE DEF c
  <2>4. ClientTypes'
    BY <2>2, <2>3 DEF ClientTypes, Client!BeginEval
  <2>5. LineIsQueued'
    <3> SUFFICES ASSUME NEW v \in Workers, NEW i \in 1..Len(line'[v])
                 PROVE  queued[line'[v][i]] /\ url[line'[v][i]] \in Workers
      BY <2>3 DEF LineIsQueued
    <3>1. CASE v = w
      <4>1. line'[v] = Tail(line[w])
        BY <2>3, <3>1 DEF ClientTypes
      <4>2. line'[v][i] = line[w][i + 1] /\ i + 1 \in 1..Len(line[w])
        BY <2>1, <4>1
      <4> QED BY <4>2 DEF LineIsQueued
    <3>2. CASE v # w
      BY <2>3, <3>2 DEF LineIsQueued, ClientTypes
    <3> QED BY <3>1, <3>2
  <2>6. /\ queued'[c] /\ passAge'[c] = 0 /\ left'[c] = Client!Passes(c)
        /\ \A d \in Clients : d # c =>
             /\ st'[d] = st[d] /\ passAge'[d] = passAge[d] /\ left'[d] = left[d]
    BY <2>2, <2>3 DEF ClientTypes, Client!BeginEval
  <2>7. PassInBound' /\ AgeInBound'
    BY <2>3, <2>6, PassesValue DEF PassInBound, AgeInBound, Served, PassBound, Client!Passes
  <2>8. HasWorker'
    BY <2>2, <2>3, <2>6 DEF HasWorker
  <2> QED BY <2>4, <2>5, <2>7, <2>8
<1>6. CASE Client!Tick
  <2>1. ClientTypes' /\ HasWorker' /\ LineIsQueued'
    BY <1>6 DEF Client!Tick, ClientTypes, HasWorker, LineIsQueued
  <2>2. /\ UNCHANGED <<st, sticky, queued, left>>
        /\ \A c \in Clients : st[c] = "running" =>
             /\ passAge[c] < PassBound
             /\ age'[c] = age[c] + 1 /\ passAge'[c] = passAge[c] + 1
             /\ age[c] \in Nat /\ passAge[c] \in Nat
    BY <1>6 DEF Client!Tick, ClientTypes, PassBound
  <2>3. PassBound \in Nat
    BY DEF PassBound
  <2>4. PassInBound'
    BY <2>2, <2>3 DEF PassInBound, Client!Passes
  <2>5. AgeInBound'
    BY <2>2, <2>3 DEF AgeInBound, Served, Client!Passes
  <2> QED BY <2>1, <2>4, <2>5
<1>7. CASE Client!Done \/ UNCHANGED clientVars
  BY <1>7 DEF Client!Done, Client!vars, clientVars, ClientTypes, LineIsQueued, HasWorker,
              PassInBound, AgeInBound, Served, Client!Passes
<1> QED BY <1>1, <1>2, <1>3, <1>4, <1>5, <1>6, <1>7 DEF Client!Next

\* A client whose request found a free device waits for its worst case: however
\* long its passes take within their bounds and whatever the other clients do,
\* it does not disconnect in the middle (eval_client.py:183-193).
THEOREM ServedIsAwaited == Spec => []PatientWhenServed
<1>1. Init => ClientInv
  BY ClientInit DEF Init
<1>2. ClientInv /\ [Next]_vars => ClientInv'
  <2> SUFFICES ASSUME ClientInv, [Next]_vars PROVE [Client!Next]_clientVars
    BY ClientStep
  <2> QED BY DEF Next, vars
<1>3. Spec => []ClientInv
  BY <1>1, <1>2, PTL DEF Spec, vars
<1> QED BY <1>3, BoundIsPatient, PTL

-----------------------------------------------------------------------------
(* Hosts *)

HostTypes ==
  /\ port \in [Daemons -> Ports \cup {None}]
  /\ process \in [Daemons -> {"none", "booting", "booted", "listening", "draining",
                              "dead", "crashed"}]
  /\ cli \in [Daemons -> {"none", "polling", "probing", "ready", "failed"}]
  /\ serving \in [Evals -> Daemons \cup {None}]
  /\ device \in [Evals -> Devices \cup {None}]
  /\ dir \in [Evals -> BOOLEAN]
  /\ met \in [Daemons -> SUBSET Daemons]

\* A live evaluation has a worker that has listened, and its device for itself
\* in there.
Placed ==
  /\ \A e \in Evals : Host!Live(e) => serving[e] \in Daemons /\ Host!Served(serving[e])
  /\ \A e, f \in Evals :
       Host!Live(e) /\ device[e] = device[f] /\ serving[e] = serving[f] => e = f

\* Workers that are up together have met, and met only workers that were started.
Acquainted ==
  /\ \A c, d \in Daemons : Host!Alive(c) /\ Host!Alive(d) => c = d \/ c \in met[d]
  /\ \A d \in Daemons : \A c \in met[d] : process[c] # "none"

\* It met a worker that has listened on its port, one whose janitor has run.
Outrun(d) == \E c \in met[d] : Host!Served(c) /\ port[c] = port[d]
SweptOver(d) == \E c \in met[d] : Host!Swept(c)

\* What a start command says, and why a worker may have crashed.
CliFollows ==
  \A d \in Daemons :
    /\ cli[d] # "none" => process[d] # "none"
    /\ process[d] = "crashed" => Outrun(d)
    /\ cli[d] = "ready" /\ process[d] \in {"booting", "booted"} => Outrun(d)

DirsKept ==
  \A e \in Evals :
    Host!Live(e) /\ Host!Alive(serving[e]) /\ ~dir[e] => SweptOver(serving[e])

HostInv == HostTypes /\ Placed /\ Acquainted /\ CliFollows /\ DirsKept

LEMMA HostInit == Host!Init => HostInv
<1> SUFFICES ASSUME Host!Init PROVE HostInv
  OBVIOUS
<1> USE DEF Host!Init, Host!Alive, Host!Live
<1>1. HostTypes
  BY DEF HostTypes
<1>2. Placed /\ Acquainted /\ CliFollows /\ DirsKept
  BY DEF Placed, Acquainted, CliFollows, DirsKept
<1> QED BY <1>1, <1>2 DEF HostInv

\* The workers that were met, their ports and how far they came only grow.
Onward ==
  /\ \A d \in Daemons : met[d] \subseteq met'[d] \/ process[d] = "none"
  /\ \A c \in Daemons : process[c] # "none" => port'[c] = port[c] /\ process'[c] # "none"
  /\ \A c \in Daemons : Host!Served(c) => Host!Served(c)'
  /\ \A c \in Daemons : Host!Swept(c) => Host!Swept(c)'

LEMMA BlameStays ==
  ASSUME HostInv, Onward, NEW d \in Daemons, process[d] # "none"
  PROVE  /\ Outrun(d) => Outrun(d)'
         /\ SweptOver(d) => SweptOver(d)'
<1>1. met[d] \subseteq met'[d] /\ met[d] \subseteq Daemons /\ port'[d] = port[d]
  BY DEF Onward, HostInv, HostTypes
<1>2. \A c \in met[d] : process[c] # "none"
  BY DEF HostInv, Acquainted
<1>3. ASSUME Outrun(d) PROVE Outrun(d)'
  <2>1. PICK c \in met[d] : Host!Served(c) /\ port[c] = port[d]
    BY <1>3 DEF Outrun
  <2>2. Host!Served(c)' /\ port'[c] = port'[d] /\ c \in met'[d]
    BY <1>1, <1>2, <2>1 DEF Onward
  <2> QED BY <2>2 DEF Outrun
<1>4. ASSUME SweptOver(d) PROVE SweptOver(d)'
  <2>1. PICK c \in met[d] : Host!Swept(c)
    BY <1>4 DEF SweptOver
  <2>2. Host!Swept(c)' /\ c \in met'[d]
    BY <1>1, <2>1 DEF Onward
  <2> QED BY <2>2 DEF SweptOver
<1> QED BY <1>3, <1>4

\* A step of the process of one worker that was started.
LEMMA ProcessMoves ==
  ASSUME HostInv, NEW d \in Daemons, NEW s,
         process' = [process EXCEPT ![d] = s], Host!Alive(d),
         \/ process[d] = "booting" /\ s = "booted"
         \/ process[d] = "booted" /\ s = "listening"
         \/ process[d] = "booted" /\ s = "crashed" /\ Outrun(d)
         \/ process[d] \in {"listening", "draining"} /\ s \in {"draining", "dead"},
         UNCHANGED <<port, cli, serving, device, met>>,
         dir' = dir \/ (dir' = [e \in Evals |-> FALSE] /\ s = "booted")
  PROVE  HostInv'
<1> USE DEF HostInv
<1>1. HostTypes'
  BY DEF HostTypes
<1>2. process'[d] = s /\ \A c \in Daemons : c # d => process'[c] = process[c]
  BY DEF HostTypes
<1>3. \A c \in Daemons : Host!Alive(c)' => Host!Alive(c)
  BY <1>2 DEF Host!Alive
<1>4. Onward
  BY <1>2 DEF Onward, Host!Served, Host!Swept
<1>5. Placed'
  BY <1>4 DEF Placed, Host!Live, Onward
<1>6. Acquainted'
  <2>1. \A c \in Daemons : process[c] # "none" => process'[c] # "none"
    BY <1>4 DEF Onward
  <2>2. \A c \in Daemons : \A b \in met[c] : b \in Daemons
    BY DEF HostTypes
  <2> QED BY <1>3, <2>1, <2>2 DEF Acquainted
<1>7. CliFollows'
  <2> SUFFICES ASSUME NEW c \in Daemons
               PROVE  /\ cli[c] # "none" => process'[c] # "none"
                      /\ process'[c] = "crashed" => Outrun(c)'
                      /\ cli[c] = "ready" /\ process'[c] \in {"booting", "booted"} => Outrun(c)'
    BY DEF CliFollows
  <2>1. process[c] # "none" => (Outrun(c) => Outrun(c)')
    BY <1>4, BlameStays
  <2>2. CASE c = d
    BY <1>2, <2>1, <2>2 DEF CliFollows, Host!Alive
  <2>3. CASE c # d
    BY <1>2, <2>1, <2>3 DEF CliFollows
  <2> QED BY <2>2, <2>3
<1>8. DirsKept'
  <2> SUFFICES ASSUME NEW e \in Evals, Host!Live(e), Host!Alive(serving[e])', ~dir'[e]
               PROVE  SweptOver(serving[e])'
    BY DEF DirsKept, Host!Live
  <2>1. serving[e] \in Daemons
    BY DEF Placed
  <2>2. Host!Alive(serving[e]) /\ process[serving[e]] # "none"
    BY <1>3, <2>1 DEF Host!Alive
  <2>3. CASE dir' = dir
    <3>1. SweptOver(serving[e])
      BY <2>2, <2>3 DEF DirsKept
    <3> QED BY <1>4, <2>1, <2>2, <3>1, BlameStays
  <2>4. CASE s = "booted" /\ serving[e] # d
    <3>1. d \in met[serving[e]]
      BY <2>1, <2>2, <2>4 DEF Acquainted
    <3>2. Host!Swept(d)'
      BY <1>2, <2>4 DEF Host!Swept
    <3> QED BY <3>1, <3>2 DEF SweptOver
  <2>5. CASE s = "booted" /\ serving[e] = d
    <3>1. process[d] = "booting" /\ Host!Served(d)
      BY <2>5 DEF Placed
    <3> QED BY <3>1 DEF Host!Served
  <2> QED BY <2>3, <2>4, <2>5
<1> QED BY <1>1, <1>5, <1>6, <1>7, <1>8

\* A step that leaves the processes as they are.
LEMMA ProcessesStay ==
  ASSUME HostInv, HostTypes', UNCHANGED <<port, process, met>>, Placed',
         \A d \in Daemons :
           \/ cli'[d] = cli[d]
           \/ cli[d] # "none" /\ (cli'[d] = "ready" => Host!Listener(port[d]) # {}),
         \A e \in Evals :
           \/ device'[e] = None \/ dir'[e]
           \/ device'[e] = device[e] /\ serving'[e] = serving[e] /\ dir'[e] = dir[e]
  PROVE  HostInv'
<1> USE DEF HostInv
<1>1. Acquainted'
  BY DEF Acquainted, Host!Alive
<1>2. \A d \in Daemons : (Outrun(d)' <=> Outrun(d)) /\ (SweptOver(d)' <=> SweptOver(d))
  BY DEF Outrun, SweptOver, Host!Served, Host!Swept
<1>3. ASSUME NEW d \in Daemons, cli'[d] = "ready", process[d] \in {"booting", "booted"}
      PROVE  Outrun(d)
  <2>1. CASE cli[d] = "ready"
    BY <1>3, <2>1 DEF CliFollows
  <2>2. CASE cli[d] # "ready"
    <3>1. PICK c \in Daemons : process[c] = "listening" /\ port[c] = port[d]
      BY <1>3, <2>2 DEF Host!Listener
    <3>2. c \in met[d]
      BY <1>3, <3>1 DEF Acquainted, Host!Alive
    <3> QED BY <3>1, <3>2 DEF Outrun, Host!Served
  <2> QED BY <2>1, <2>2
<1>4. CliFollows'
  BY <1>2, <1>3 DEF CliFollows
<1>5. DirsKept'
  <2> SUFFICES ASSUME NEW e \in Evals, Host!Live(e)', Host!Alive(serving[e])', ~dir'[e]
               PROVE  SweptOver(serving[e])'
    BY DEF DirsKept
  <2>1. /\ device'[e] = device[e] /\ serving'[e] = serving[e] /\ dir'[e] = dir[e]
        /\ Host!Live(e)
    BY DEF Host!Live
  <2>2. serving[e] \in Daemons /\ Host!Alive(serving[e])
    BY <2>1 DEF Placed, Host!Alive
  <2>3. SweptOver(serving[e])
    BY <2>1, <2>2 DEF DirsKept
  <2> QED BY <1>2, <2>1, <2>2, <2>3
<1> QED BY <1>1, <1>4, <1>5

\* Every step of a worker, a start command or an evaluation keeps the invariant.
LEMMA HostStep == HostInv /\ [Host!Next]_hostVars => HostInv'
<1> SUFFICES ASSUME HostInv, [Host!Next]_hostVars
             PROVE  HostInv'
  OBVIOUS
<1> USE ServiceAssumption DEF HostInv
<1>1. ASSUME NEW d \in Daemons, Host!Start(d) PROVE HostInv'
  <2>1. /\ process[d] = "none" /\ ~Host!Alive(d)
        /\ process' = [process EXCEPT ![d] = "booting"] /\ cli' = [cli EXCEPT ![d] = "polling"]
        /\ UNCHANGED <<serving, device, dir>>
    BY <1>1 DEF Host!Start, Host!Alive
  <2>2. PICK p \in Ports : port' = [port EXCEPT ![d] = p]
    BY <1>1 DEF Host!Start
  <2>3. /\ met'[d] = {b \in Daemons : Host!Alive(b)}
        /\ \A c \in Daemons : c # d =>
             met'[c] = IF Host!Alive(c) THEN met[c] \cup {d} ELSE met[c]
        /\ met' \in [Daemons -> SUBSET Daemons]
    BY <1>1 DEF Host!Start, HostTypes
  <2>4. HostTypes'
    BY <2>1, <2>2, <2>3 DEF HostTypes
  <2>5. /\ process'[d] = "booting" /\ cli'[d] = "polling"
        /\ \A c \in Daemons : c # d =>
             process'[c] = process[c] /\ cli'[c] = cli[c] /\ port'[c] = port[c]
    BY <2>1, <2>2 DEF HostTypes
  <2>6. Onward
    BY <2>1, <2>3, <2>5 DEF Onward, Host!Served, Host!Swept
  <2>7. \A e \in Evals : Host!Live(e) => serving[e] \in Daemons /\ serving[e] # d
    BY <2>1 DEF Placed, Host!Served
  <2>8. Placed'
    BY <2>1, <2>6 DEF Placed, Host!Live, Onward
  <2>9. Acquainted'
    <3>1. \A b, c \in Daemons :
            Host!Alive(b)' /\ Host!Alive(c)' => b = c \/ b \in met'[c]
      BY <2>3, <2>5 DEF Acquainted, Host!Alive
    <3>2. \A c \in Daemons : \A b \in met'[c] : process'[b] # "none"
      BY <2>3, <2>5 DEF Acquainted, Host!Alive, HostTypes
    <3> QED BY <3>1, <3>2 DEF Acquainted
  <2>10. CliFollows'
    <3> SUFFICES ASSUME NEW c \in Daemons
                 PROVE  /\ cli'[c] # "none" => process'[c] # "none"
                        /\ process'[c] = "crashed" => Outrun(c)'
                        /\ cli'[c] = "ready" /\ process'[c] \in {"booting", "booted"}
                             => Outrun(c)'
      BY DEF CliFollows
    <3>1. CASE c = d
      BY <2>5, <3>1
    <3>2. CASE c # d
      <4>1. process[c] # "none" => (Outrun(c) => Outrun(c)')
        BY <2>6, BlameStays
      <4> QED BY <2>5, <3>2, <4>1 DEF CliFollows
    <3> QED BY <3>1, <3>2
  <2>11. DirsKept'
    <3> SUFFICES ASSUME NEW e \in Evals, Host!Live(e), Host!Alive(serving[e])', ~dir[e]
                 PROVE  SweptOver(serving[e])'
      BY <2>1 DEF DirsKept, Host!Live
    <3>1. Host!Alive(serving[e])
      BY <2>1, <2>5, <2>7 DEF Host!Alive
    <3>2. SweptOver(serving[e]) /\ process[serving[e]] # "none"
      BY <3>1 DEF DirsKept, Host!Alive
    <3> QED BY <2>1, <2>6, <2>7, <3>2, BlameStays
  <2> QED BY <2>4, <2>8, <2>9, <2>10, <2>11
<1>2. ASSUME NEW d \in Daemons, Host!Boot(d) PROVE HostInv'
  <2>1. Host!Alive(d)
    BY <1>2 DEF Host!Boot, Host!Alive
  <2> QED BY <1>2, <2>1, ProcessMoves DEF Host!Boot
<1>3. ASSUME NEW d \in Daemons, Host!Bind(d) PROVE HostInv'
  <2>1. Host!Alive(d)
    BY <1>3 DEF Host!Bind, Host!Alive
  <2>2. CASE Host!Listener(port[d]) = {}
    BY <1>3, <2>1, <2>2, ProcessMoves DEF Host!Bind
  <2>3. CASE Host!Listener(port[d]) # {}
    <3>1. PICK c \in Daemons : process[c] = "listening" /\ port[c] = port[d]
      BY <2>3 DEF Host!Listener
    <3>2. c \in met[d]
      BY <1>3, <2>1, <3>1 DEF Acquainted, Host!Alive, Host!Bind
    <3>3. Outrun(d)
      BY <3>1, <3>2 DEF Outrun, Host!Served
    <3> QED BY <1>3, <2>1, <2>3, <3>3, ProcessMoves DEF Host!Bind
  <2> QED BY <2>2, <2>3
<1>4. ASSUME NEW d \in Daemons, Host!Stop(d) PROVE HostInv'
  <2>1. Host!Alive(d)
    BY <1>4 DEF Host!Stop, Host!Alive
  <2>2. PICK s : s = IF Host!Of(d) = {} THEN "dead" ELSE "draining"
    OBVIOUS
  <2> QED BY <1>4, <2>1, <2>2, ProcessMoves DEF Host!Stop
<1>5. ASSUME NEW d \in Daemons, Host!Kill(d) PROVE HostInv'
  <2>1. Host!Alive(d)
    BY <1>5 DEF Host!Kill, Host!Alive
  <2> QED BY <1>5, <2>1, ProcessMoves DEF Host!Kill
<1>6. ASSUME NEW d \in Daemons, Host!Poll(d) \/ Host!Probe(d) \/ Host!GiveUp(d)
      PROVE  HostInv'
  <2>1. HostTypes' /\ UNCHANGED <<port, process, serving, device, dir, met>>
    BY <1>6 DEF Host!Poll, Host!Probe, Host!GiveUp, HostTypes
  <2>2. \A c \in Daemons : c # d => cli'[c] = cli[c]
    BY <1>6 DEF Host!Poll, Host!Probe, Host!GiveUp, HostTypes
  <2>3. cli[d] # "none" /\ (cli'[d] = "ready" => Host!Listener(port[d]) # {})
    BY <1>6 DEF Host!Poll, Host!Probe, Host!GiveUp, HostTypes
  <2>4. Placed'
    BY <2>1 DEF Placed, Host!Live, Host!Served
  <2> QED BY <2>1, <2>2, <2>3, <2>4, ProcessesStay
<1>7. ASSUME NEW e \in Evals, NEW d \in Daemons, NEW n \in Devices, Host!Begin(e, d, n)
      PROVE  HostInv'
  <2>1. HostTypes' /\ UNCHANGED <<port, process, cli, met>> /\ process[d] = "listening"
    BY <1>7 DEF Host!Begin, HostTypes
  <2>2. /\ dir'[e] /\ serving'[e] = d /\ device'[e] = n
        /\ \A f \in Evals : f # e =>
             dir'[f] = dir[f] /\ device'[f] = device[f] /\ serving'[f] = serving[f]
    BY <1>7 DEF Host!Begin, HostTypes
  <2>3. \A f \in Evals : serving[f] = d /\ device[f] # None => device[f] # n
    BY <1>7 DEF Host!Begin, Host!Of, Host!Live
  <2>4. Placed'
    BY <2>1, <2>2, <2>3 DEF Placed, Host!Live, Host!Served
  <2> QED BY <2>1, <2>2, <2>4, ProcessesStay
<1>8. ASSUME NEW e \in Evals, Host!End(e) PROVE HostInv'
  <2>1. PICK d : d = serving[e]
    OBVIOUS
  <2>2. d \in Daemons /\ Host!Served(d)
    BY <1>8, <2>1 DEF Host!End, Placed
  <2>3. /\ device' = [device EXCEPT ![e] = None]
        /\ UNCHANGED <<port, cli, serving, met>>
        /\ \/ process' = process
           \/ process[d] = "draining" /\ process' = [process EXCEPT ![d] = "dead"]
        /\ dir' \in [Evals -> BOOLEAN]
        /\ \A f \in Evals : f # e => dir'[f] = dir[f]
    BY <1>8, <2>1 DEF Host!End, HostTypes
  <2>4. /\ device'[e] = None
        /\ \A f \in Evals : f # e => device'[f] = device[f]
    BY <2>3 DEF HostTypes
  <2>5. HostTypes'
    BY <2>3 DEF HostTypes
  <2>6. \A c \in Daemons : process'[c] = process[c] \/ (process[c] = "draining" /\ process'[c] = "dead")
    BY <2>3 DEF HostTypes
  <2>7. Onward
    BY <2>3, <2>6 DEF Onward, Host!Served, Host!Swept
  <2>8. Placed'
    BY <2>3, <2>4, <2>7 DEF Placed, Host!Live, Onward
  <2>9. \A c \in Daemons : Host!Alive(c)' => Host!Alive(c)
    BY <2>6 DEF Host!Alive
  <2>10. Acquainted'
    <3>1. \A c \in Daemons : \A b \in met[c] : b \in Daemons
      BY DEF HostTypes
    <3> QED BY <2>3, <2>6, <2>9, <3>1 DEF Acquainted
  <2>11. CliFollows'
    <3>1. \A c \in Daemons : process[c] # "none" => (Outrun(c) => Outrun(c)')
      BY <2>7, BlameStays
    <3> QED BY <2>3, <2>6, <3>1 DEF CliFollows
  <2>12. DirsKept'
    <3> SUFFICES ASSUME NEW f \in Evals, Host!Live(f)', Host!Alive(serving[f])', ~dir'[f]
                 PROVE  SweptOver(serving[f])'
      BY <2>3 DEF DirsKept
    <3>1. f # e /\ Host!Live(f) /\ ~dir[f]
      BY <2>3, <2>4 DEF Host!Live
    <3>2. serving[f] \in Daemons /\ Host!Alive(serving[f])
      BY <2>3, <2>9, <3>1 DEF Placed
    <3>3. SweptOver(serving[f]) /\ process[serving[f]] # "none"
      BY <3>1, <3>2 DEF DirsKept, Host!Alive
    <3> QED BY <2>3, <2>7, <3>2, <3>3, BlameStays
  <2> QED BY <2>5, <2>8, <2>10, <2>11, <2>12
<1>9. CASE Host!Done \/ UNCHANGED hostVars
  <2>1. UNCHANGED <<port, process, cli, serving, device, dir, met>>
    BY <1>9 DEF Host!Done, Host!vars, hostVars
  <2>2. HostTypes' /\ Placed'
    BY <2>1 DEF HostTypes, Placed, Host!Live, Host!Served
  <2> QED BY <2>1, <2>2, ProcessesStay
<1> QED BY <1>1, <1>2, <1>3, <1>4, <1>5, <1>6, <1>7, <1>8, <1>9 DEF Host!Next

\* Wherever and whenever workers are started: a directory in use is removed, a
\* start command is answered by another worker and a device is shared by two
\* live workers only if the workers concerned were up together (server.py:95,
\* ar_cli.py:188).
THEOREM StartsOnlyHarmTheMet == Spec => []StartsAreSafe
<1>1. Init => HostInv
  BY HostInit DEF Init
<1>2. HostInv /\ [Next]_vars => HostInv'
  <2> SUFFICES ASSUME HostInv, [Next]_vars PROVE [Host!Next]_hostVars
    BY HostStep
  <2> QED BY DEF Next, vars
<1>3. HostInv => StartsAreSafe
  <2> SUFFICES ASSUME HostInv PROVE Host!OnlyMeetingHarms
    BY DEF StartsAreSafe
  <2>1. \A e \in Evals : Host!Live(e) /\ Host!Alive(serving[e]) /\ ~dir[e] =>
          \E c \in met[serving[e]] : Host!Swept(c)
    BY DEF HostInv, DirsKept, SweptOver
  <2>2. \A d \in Daemons : cli[d] = "ready" /\ process[d] \in {"booting", "booted", "crashed"} =>
          \E c \in met[d] : Host!Served(c) /\ port[c] = port[d]
    BY DEF HostInv, CliFollows, Outrun
  <2>3. \A e, f \in Evals :
          Host!Live(e) /\ device[e] = device[f] /\ e # f
          /\ Host!Alive(serving[e]) /\ Host!Alive(serving[f]) => serving[f] \in met[serving[e]]
    BY DEF HostInv, Placed, Acquainted, Host!Live
  <2> QED BY <2>1, <2>2, <2>3 DEF Host!OnlyMeetingHarms
<1> QED BY <1>1, <1>2, <1>3, PTL DEF Spec, vars
=============================================================================
