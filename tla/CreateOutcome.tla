--------------------------- MODULE CreateOutcome ---------------------------
(***************************************************************************)
(* What the server owes a phone that asked it to create a trip and never   *)
(* learnt the answer: each trip it asked for is either created or refused  *)
(* for good, and once refused no copy of the request creates it, however   *)
(* late it comes.  TripCreation implements this with an idempotency record *)
(* that expires.                                                           *)
(***************************************************************************)
CONSTANT Trips

VARIABLE outcome    \* of each trip: OPEN, CREATED, REFUSED

Init == outcome = [t \in Trips |-> "OPEN"]

Create(t) == /\ outcome[t] = "OPEN"
             /\ outcome' = [outcome EXCEPT ![t] = "CREATED"]

Refuse(t) == /\ outcome[t] = "OPEN"
             /\ outcome' = [outcome EXCEPT ![t] = "REFUSED"]

Next == \E t \in Trips : Create(t) \/ Refuse(t)

Spec == Init /\ [][Next]_outcome
=============================================================================
