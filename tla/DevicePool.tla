----------------------------- MODULE DevicePool -----------------------------
(***************************************************************************)
(* What the worker promises of its devices: each has at most one holder, a *)
(* request holds at most one device, once, and holds none when it is over. *)
(***************************************************************************)
CONSTANTS Reqs, Devices, Free

VARIABLES holder,   \* the request a device is reserved for
          over      \* requests that were answered, abandoned or refused

Init ==
  /\ holder = [d \in Devices |-> Free]
  /\ over = {}

Acquire(r, d) ==
  /\ r \notin over /\ holder[d] = Free
  /\ \A e \in Devices : holder[e] # r
  /\ holder' = [holder EXCEPT ![d] = r]
  /\ UNCHANGED over

\* A request ends and what it held is free again in the same step.
End(r) ==
  /\ r \notin over
  /\ over' = over \cup {r}
  /\ holder' = [d \in Devices |-> IF holder[d] = r THEN Free ELSE holder[d]]

Next == \E r \in Reqs : End(r) \/ \E d \in Devices : Acquire(r, d)

Spec == Init /\ [][Next]_<<holder, over>>
=============================================================================
