--------------------------- MODULE MCTripCreation ---------------------------
(* Instances of TripCreation for TLC.                                      *)
EXTENDS TripCreation

(* One create through every fault and expiry.                              *)
Once == [presses |-> {1}, faults |-> 2, time |-> 3]
(* A second create over a first that is still undecided.                   *)
Twice == [presses |-> {1, 2}, faults |-> 1, time |-> 2]
Pressed == {Once, Twice}
=============================================================================
