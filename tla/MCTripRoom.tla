----------------------------- MODULE MCTripRoom -----------------------------
(* Instances of TripRoom for TLC.                                          *)
EXTENDS TripRoom, TLC

CONSTANTS host, guest, friend, h1, h2, g1, g2, f1, a1

(* Every phone belongs to the account its name begins with.                *)
Accounts == [p \in Phones |-> CASE p \in {h1, h2} -> host
                                [] p \in {g1, g2} -> guest
                                [] OTHER -> friend]

Only(f) == [p \in Phones |-> IF p \in DOMAIN f THEN f[p] ELSE 0]

(* The guest's readiness commands are lost, refused, and arrive late.      *)
Flaky == [sent |-> Only(h1 :> 3 @@ g1 :> 3), lost |-> Only(g1 :> 2),
          leavers |-> {}, assets |-> {}]
(* The guest replaces its phone, as a pending and as an active member.     *)
GuestReplaced == [sent |-> Only(h1 :> 3 @@ g1 :> 2 @@ g2 :> 1), lost |-> Only(<<>>),
                  leavers |-> {guest}, assets |-> Assets]
(* The host replaces its phone, approved by itself or by the guest.        *)
HostReplaced == [sent |-> Only(h1 :> 3 @@ h2 :> 1 @@ g1 :> 2), lost |-> Only(<<>>),
                 leavers |-> {host}, assets |-> {}]
Passing == {Flaky, GuestReplaced, HostReplaced}

(* A version only grows and is only compared: how far behind the room's it *)
(* is, up to two steps, decides every comparison. What a command saw is    *)
(* looked at while its version is current, and a recorded command counts   *)
(* while some copy of it is alive.                                         *)
Behind(version) == IF room.version - version > 1 THEN 2 ELSE room.version - version
Aged(c) == IF c = None \/ c.version = 0 THEN c
           ELSE [c EXCEPT !.version = Behind(c.version),
                          !.saw = IF c.version = room.version THEN @ ELSE None]
Copies == late \cup UNION {{client[p].waiting, client[p].journal, client[p].joining}
                            \cup client[p].dropped : p \in Phones}
Observed ==
  <<[room EXCEPT !.version = 0,
                 !.done = {c.id : c \in {d \in Copies \ {None} : d.id \in room.done}}],
    [p \in Phones |-> [client[p] EXCEPT !.waiting = Aged(@), !.journal = Aged(@)]],
    [p \in Phones |-> IF shown[p] = None THEN None
                      ELSE <<Behind(shown[p].version), Startable(shown[p])>>],
    keys, {Aged(c) : c \in late}, limit>>
=============================================================================
