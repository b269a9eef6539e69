--------------------------- MODULE MCTripMedia ---------------------------
(* Instances of TripMedia for TLC: a small crew, a clock just long enough  *)
(* to pass the scheduled end, the hard deadline and one cleanup after it.  *)
EXTENDS TripMedia, TLC

CONSTANTS h, g1, g2, p1, p2

(* The host is told apart by its role; guests and photos are alike.        *)
CrewSymmetry == Permutations(Members \ {Owner}) \cup Permutations(Assets)

(* Two things no later step and no property tells apart: the version,      *)
(* which is compared for equality only while an acknowledgement may always *)
(* carry the current one or an older one, and the final pass of a member   *)
(* who has left, which is read of participants alone.                      *)
Essential ==
    LET gone == {m \in Members : db.member[m].left}
    IN  <<now, staged,
          [db EXCEPT !.trip.version = 1,
                     !.member = [m \in gone |-> [@[m] EXCEPT !.drained = FALSE]] @@ @]>>
=============================================================================
