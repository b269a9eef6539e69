----------------------------- MODULE MCTripSync -----------------------------
(* Instances of TripSync for TLC.                                          *)
EXTENDS TripSync

CONSTANTS host, guest, a1, a2

(* The guest takes the first photo, the host the second. *)
ByBoth == [a \in Assets |-> IF a = a1 THEN guest ELSE host]

(* The guest takes both, so that a batch of one leaves one for later. *)
ByGuest == [a \in Assets |-> guest]

(* A version only grows and is only compared with the one a pass observed, *)
(* so that two states that agree on the comparisons have the same future.  *)
Observed == <<now, [db EXCEPT !.trip.version = 0], staged, photo, work, upload,
              [m \in Members |-> <<[pass[m] EXCEPT !.version = 0],
                                   pass[m].version = db.trip.version>>],
              inbox, faults>>
=============================================================================
