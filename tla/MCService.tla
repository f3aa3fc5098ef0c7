----------------------------- MODULE MCService ------------------------------
(***************************************************************************)
(* The two sides of the evaluation service on one instance for TLC: the    *)
(* clients and their timeouts, and the workers of one machine.  They share *)
(* no state; `part` says which of the two this behaviour runs, the other   *)
(* one stays in its initial state.                                         *)
(***************************************************************************)
EXTENDS Naturals, Sequences, FiniteSets, TLC

CONSTANTS Clients, Workers, Slots, PassTime, TermTime, Slack,
          Daemons, Ports, Devices, Evals, None

\* The client's slack is 60 s (eval_client.py:193), a cut pass is waited for 5 s
\* (eval_runner.py:150, 415), and there are at most two of them.
ASSUME ServiceAssumption ==
  /\ {PassTime, TermTime, Slack} \subseteq Nat /\ 2 * TermTime < Slack
  /\ None \notin Daemons \cup Devices

VARIABLES part,
  st, sticky, url, age, queued, line, passAge, left,
  port, process, cli, serving, device, dir, met

Client == INSTANCE EvalClient
Host == INSTANCE WorkerHost WITH st <- process

clientVars == <<st, sticky, url, age, queued, line, passAge, left>>
hostVars == <<port, process, cli, serving, device, dir, met>>

Init == part \in {"client", "host"} /\ Client!Init /\ Host!Init

Next ==
  \/ part = "client" /\ Client!Next /\ UNCHANGED <<part, hostVars>>
  \/ part = "host" /\ Host!Next /\ UNCHANGED <<part, clientVars>>

Spec == Init /\ [][Next]_<<part, clientVars, hostVars>>

\* A client whose request found a free device waits for its worst case
\* (eval_client.py:183-193).
PatientWhenServed == Client!PatientWhenServed

\* Only a worker that was up together with another one takes its directories, its
\* port or its devices (server.py:95, ar_cli.py:188).
StartsAreSafe == Host!OnlyMeetingHarms

\* The cfg numbers clients and daemons alike: one permutation serves both parts.
Symmetric ==
  Permutations(Daemons) \cup Permutations(Ports)
  \cup Permutations(Evals)
=============================================================================
