------------------------ MODULE TripDelivery_proofs ------------------------
(***************************************************************************)
(* Proofs about what a trip of TripMedia delivers: who leaves by finishing *)
(* holds every photo shared with it, COMPLETE means nobody missed any, and *)
(* an announced preview is followed by its original.                       *)
(*                                                                         *)
(* A transaction goes through several tables (a state read may end the     *)
(* trip, then settle its reader, which may complete the trip), so the      *)
(* invariant is a predicate Sound(w) of a database w: each of depart(),    *)
(* end(), settle() and the row updates is shown to keep it, and a handler  *)
(* keeps it because it is made of those.                                   *)
(***************************************************************************)
EXTENDS TripMedia_proofs

(* The course of the trip: a lobby has not started, an ended trip is empty *)
(* of members, and one that is COMPLETE marked nobody incomplete.          *)
Course(w) ==
    /\ w.trip.state = "LOBBY" => ~Started(w)
    /\ w.trip.state \in Terminal => InTrip(w) = {}
    /\ w.trip.state = "COMPLETE" => \A m \in Members : ~w.member[m].incomplete

(* Nobody departs in the future, is marked incomplete before it has left,  *)
(* or waits for a key once approved.                                       *)
Crew(w) ==
    \A m \in Members : /\ w.member[m].leavingAt <= now
                       /\ w.member[m].incomplete => w.member[m].left
                       /\ w.member[m].state = "PENDING_KEY" => w.member[m].approvedAt = Unset

(* Uploads are of a started trip; they commit together with their asset,   *)
(* and are retired only past the hard deadline.                            *)
Uploads(w) ==
    \A a \in Assets :
       /\ w.session[a].state # "NONE" => Started(w) /\ w.session[a].createdAt <= now
       /\ w.session[a].state = "COMMITTED" <=> w.asset[a] # "NONE"
       /\ w.session[a].state = "EXPIRED" => HardDeleteAt <= now

(* Member m has not cut its queue before the upload of a began.            *)
Awaited(w, a, m) ==
    \/ w.member[m].leavingAt = Unset
    \/ w.member[m].leavingAt >= w.session[a].createdAt
    \/ w.trip.state = "ENDING" /\ w.member[m].leavingAt >= w.trip.endingAt

(* Member m was approved before photo a was taken and its upload began.    *)
Admitted(w, a, m) == /\ w.member[m].approvedAt <= w.session[a].capturedAt
                     /\ w.member[m].approvedAt < w.session[a].createdAt

(* Photo a once shared is owed to m.                                       *)
Owed(w, a, m) == /\ Participates(w, m)
                 /\ Admitted(w, a, m)
                 /\ Awaited(w, a, m)

(* Member m finished after the upload of a, which was shared with it.      *)
Served(w, a, m) == /\ w.member[m].left /\ ~w.member[m].incomplete
                   /\ w.session[a].state # "NONE"
                   /\ w.session[a].createdAt < w.member[m].leavingAt
                   /\ w.member[m].approvedAt # Unset
                   /\ Admitted(w, a, m)

(* What stands between photo a and member m.                               *)
Pair(w, a, m) ==
    /\ w.delivery[a][m] # "NONE" => w.member[m].state = "ACTIVE" /\ w.asset[a] # "NONE"
    /\ m \in w.preview[a] =>
          /\ w.member[m].state = "ACTIVE" /\ w.session[a].state # "NONE"
          /\ w.member[m].approvedAt <= w.session[a].capturedAt
          /\ ~w.member[m].left => Awaited(w, a, m)
    /\ Owed(w, a, m) /\ w.asset[a] # "NONE" => w.delivery[a][m] # "NONE"
    /\ now < HardDeleteAt =>
          /\ w.delivery[a][m] = "READY" => ~w.member[m].left
          /\ w.delivery[a][m] = "EXPIRED" => w.member[m].incomplete
          /\ Served(w, a, m) => w.asset[a] # "NONE" /\ w.delivery[a][m] = "SAVED_LOCALLY"

Sound(w) == /\ Course(w) /\ Crew(w) /\ Uploads(w)
            /\ \A a \in Assets, m \in Members : Pair(w, a, m)

-----------------------------------------------------------------------------
(***************************************************************************)
(* What the lifecycle operators write.                                     *)
(***************************************************************************)
(* The columns of one photo and one member.                                *)
LEMMA Cells ==
    ASSUME NEW w \in Tables, NEW a \in Assets, NEW m \in Members
    PROVE  /\ w.trip \in TripRow /\ w.member[m] \in Row /\ w.session[a] \in SessionRow
           /\ w.asset[a] \in AssetState /\ w.delivery[a][m] \in DeliveryState
           /\ w.preview[a] \in SUBSET Members
  BY DEF Tables

(* From row to s nothing changed but what a departure or a call home does. *)
SameRow(row, s) == /\ s.state = row.state /\ s.approvedAt = row.approvedAt
                   /\ s.pausedAt = row.pausedAt /\ s.pauses = row.pauses

Gone(row, s, marked) == /\ s.left /\ s.incomplete = marked /\ s.drained = row.drained
                        /\ s.leavingAt = IF row.leavingAt = Unset THEN now
                                         ELSE row.leavingAt

Answers(row) == row.state # "NONE" /\ ~row.left /\ row.leavingAt = Unset

Called(row, s) == /\ s.left = row.left /\ s.incomplete = row.incomplete
                  /\ IF Answers(row) THEN s.leavingAt = now /\ ~s.drained ELSE s = row

SameMedia(w, x) == x.session = w.session /\ x.asset = w.asset /\ x.preview = w.preview

Closes(w, S) == InTrip(w) \ S = {} /\ w.trip.state \notin Terminal

(* x is w after the departure of the members of S.                         *)
Departs(w, S, forced, x) ==
    /\ SameMedia(w, x)
    /\ \A m \in Members : /\ SameRow(w.member[m], x.member[m])
                          /\ m \notin S => x.member[m] = w.member[m]
                          /\ m \in S => Gone(w.member[m], x.member[m], forced /\ Started(w))
    /\ \A a \in Assets, m \in Members :
          x.delivery[a][m] = IF m \in S /\ w.delivery[a][m] = "READY" THEN "EXPIRED"
                             ELSE w.delivery[a][m]
    /\ InTrip(x) = InTrip(w) \ S
    /\ x.trip.startedAt = w.trip.startedAt
    /\ ~Closes(w, S) => x.trip.state = w.trip.state /\ x.trip.endingAt = w.trip.endingAt
    /\ Closes(w, S) =>
          /\ x.trip.state = IF ~Started(w) THEN "CANCELLED"
                            ELSE IF \E m \in Members : x.member[m].incomplete
                                 THEN "INCOMPLETE_EXPIRED" ELSE "COMPLETE"
          /\ x.trip.endingAt = IF Started(w) /\ w.trip.endingAt = Unset THEN now
                               ELSE w.trip.endingAt

(* x is w, a started trip, after its end.                                  *)
Ends(w, x) ==
    /\ SameMedia(w, x) /\ x.delivery = w.delivery /\ InTrip(x) = InTrip(w)
    /\ x.trip.state = "ENDING" /\ x.trip.endingAt = now
    /\ x.trip.startedAt = w.trip.startedAt
    /\ \A m \in Members : /\ SameRow(w.member[m], x.member[m])
                          /\ Called(w.member[m], x.member[m])

(* depart() is such a departure.                                           *)
LEMMA DepartDeparts ==
    ASSUME NEW w \in Tables, NEW S \in SUBSET Members, NEW forced \in BOOLEAN
    PROVE  Departs(w, S, forced, Depart(w, S, forced))
<1> DEFINE x == Depart(w, S, forced)
           rows == DepartedRows(w, S, forced)
           marked == forced /\ Started(w)
<1>1. /\ SameMedia(w, x) /\ x.delivery = Waived(w, S) /\ x.member = rows
      /\ x.trip = Reduced(w, S, InTrip(w) \ S, \E m \in Members : rows[m].incomplete)
  BY DEF Depart, Tables, SameMedia
<1>2. w.trip \in TripRow
  BY Columns
<1>3. ASSUME NEW m \in Members
      PROVE  /\ SameRow(w.member[m], rows[m])
             /\ m \notin S => rows[m] = w.member[m]
             /\ m \in S => Gone(w.member[m], rows[m], marked)
             /\ rows[m].left <=> m \in S \/ w.member[m].left
  <2>1. w.member[m] \in Row
    BY Columns
  <2> HIDE DEF marked
  <2> QED
    BY <2>1 DEF DepartedRows, Row, SameRow, Gone, marked
<1>4. \A a \in Assets, m \in Members :
         x.delivery[a][m] = IF m \in S /\ w.delivery[a][m] = "READY" THEN "EXPIRED"
                            ELSE w.delivery[a][m]
  BY <1>1 DEF Waived
<1> HIDE DEF x, rows
<1>5. InTrip(x) = InTrip(w) \ S
  BY <1>1, <1>3 DEF InTrip, SameRow
<1>6. x.trip.startedAt = w.trip.startedAt
  BY <1>1, <1>2 DEF Reduced, TripRow
<1>7. Closes(w, S) =>
        /\ x.trip.state = IF ~Started(w) THEN "CANCELLED"
                          ELSE IF \E m \in Members : x.member[m].incomplete
                               THEN "INCOMPLETE_EXPIRED" ELSE "COMPLETE"
        /\ x.trip.endingAt = IF Started(w) /\ w.trip.endingAt = Unset THEN now
                             ELSE w.trip.endingAt
  BY <1>1, <1>2 DEF Reduced, TripRow, Closes
<1>8. ~Closes(w, S) => x.trip.state = w.trip.state /\ x.trip.endingAt = w.trip.endingAt
  BY <1>1, <1>2 DEF Reduced, TripRow, Closes
<1>9. \A m \in Members : /\ SameRow(w.member[m], x.member[m])
                         /\ m \notin S => x.member[m] = w.member[m]
                         /\ m \in S => Gone(w.member[m], x.member[m], marked)
  BY <1>1, <1>3
<1>10. SameMedia(w, x)
  BY <1>1
<1>11. Departs(w, S, forced, x)
  BY <1>4, <1>5, <1>6, <1>7, <1>8, <1>9, <1>10 DEF Departs
<1> QED
  BY <1>11 DEF x

(* end() is such an end.                                                   *)
LEMMA EndEnds ==
    ASSUME NEW w \in Tables, ~Ended(w), Started(w)
    PROVE  Ends(w, End(w))
<1> DEFINE x == End(w)
<1>1. /\ SameMedia(w, x) /\ x.delivery = w.delivery /\ x.member = CalledHome(w)
      /\ x.trip = [w.trip EXCEPT !.state = "ENDING", !.endingAt = now, !.version = @ + 1]
  BY DEF End, Tables, SameMedia
<1>2. /\ x.trip.state = "ENDING" /\ x.trip.endingAt = now
      /\ x.trip.startedAt = w.trip.startedAt
  BY <1>1, Columns DEF TripRow
<1> HIDE DEF x
<1>3. ASSUME NEW m \in Members
      PROVE  SameRow(w.member[m], x.member[m]) /\ Called(w.member[m], x.member[m])
  <2> DEFINE row == w.member[m]
             home == [row EXCEPT !.leavingAt = now, !.drained = FALSE]
  <2>1. row \in Row
    BY Columns
  <2>2. x.member[m] = IF Answers(row) THEN home ELSE row
    BY <1>1 DEF CalledHome, Answers
  <2>3. /\ SameRow(row, home) /\ home.left = row.left /\ home.incomplete = row.incomplete
        /\ home.leavingAt = now /\ ~home.drained
    BY <2>1 DEF Row, SameRow
  <2> HIDE DEF home
  <2> QED
    BY <2>2, <2>3 DEF Called, SameRow
<1>4. InTrip(x) = InTrip(w)
  BY <1>3 DEF InTrip, SameRow, Called
<1>5. Ends(w, x)
  BY <1>1, <1>2, <1>3, <1>4 DEF Ends
<1> QED
  BY <1>5 DEF x

-----------------------------------------------------------------------------
(***************************************************************************)
(* What the lifecycle operators keep.                                      *)
(***************************************************************************)
(* Nothing of m's is outstanding, so that it may leave as having finished. *)
Cleared(w, m) ==
    \/ ~Started(w) \/ w.member[m].state = "PENDING_KEY"
    \/ /\ w.member[m].leavingAt # Unset
       /\ PendingUploads(w, m) = {} /\ PendingDownloads(w, m) = {}

(* A departing member's pairs: what it finished it holds.                  *)
LEMMA DepartPair ==
    ASSUME NEW w \in Tables, Sound(w), NEW S \in SUBSET Members, NEW forced \in BOOLEAN,
           now \in Nat, S \subseteq InTrip(w), NEW m \in Members, NEW a \in Assets,
           m \in S => forced \/ Cleared(w, m)
    PROVE  Pair(Depart(w, S, forced), a, m)
<1> SUFFICES ASSUME NEW x, x = Depart(w, S, forced)
             PROVE  Pair(x, a, m)
  OBVIOUS
<1>0. Departs(w, S, forced, x)
  BY DepartDeparts
<1>1. /\ x.session = w.session /\ x.asset = w.asset /\ x.preview = w.preview
      /\ x.delivery[a][m] = IF m \in S /\ w.delivery[a][m] = "READY" THEN "EXPIRED"
                            ELSE w.delivery[a][m]
      /\ InTrip(x) = InTrip(w) \ S
  BY <1>0 DEF Departs, SameMedia
<1>2. /\ Pair(w, a, m)
      /\ w.session[a].state # "NONE" => Started(w) /\ w.session[a].createdAt <= now
      /\ w.session[a].state = "COMMITTED" <=> w.asset[a] # "NONE"
      /\ w.session[a].state = "EXPIRED" => HardDeleteAt <= now
      /\ w.member[m].incomplete => w.member[m].left
      /\ w.member[m].state = "PENDING_KEY" => w.member[m].approvedAt = Unset
  BY DEF Sound, Uploads, Crew
<1>3. /\ w.member[m] \in Row /\ w.session[a] \in SessionRow
      /\ w.delivery[a][m] \in DeliveryState
  BY Cells
<1>4. CASE m \notin S
  <2>1. x.member[m] = w.member[m]
    BY <1>0, <1>4 DEF Departs
  <2>2. x.delivery[a][m] = w.delivery[a][m]
    BY <1>1, <1>4
  <2>3. CASE Closes(w, S)
    <3>1. m \notin InTrip(w) /\ m \notin InTrip(x)
      BY <1>1, <1>4, <2>3 DEF Closes
    <3>2. w.member[m].state = "ACTIVE" => w.member[m].left
      BY <3>1 DEF InTrip
    <3> QED
      BY <1>1, <1>2, <2>1, <2>2, <3>1, <3>2 DEF Pair, Owed, Admitted, Served, Participates
  <2>4. CASE ~Closes(w, S)
    <3>1. x.trip.state = w.trip.state /\ x.trip.endingAt = w.trip.endingAt
      BY <1>0, <2>4 DEF Departs
    <3>2. m \in InTrip(x) <=> m \in InTrip(w)
      BY <1>1, <1>4
    <3> QED
      BY <1>1, <1>2, <2>1, <2>2, <3>1, <3>2 DEF Pair, Owed, Admitted, Served, Participates, Awaited
  <2> QED
    BY <2>3, <2>4
<1>5. CASE m \in S
  <2>1. /\ x.member[m].state = w.member[m].state
        /\ x.member[m].approvedAt = w.member[m].approvedAt
        /\ x.member[m].left /\ x.member[m].incomplete = (forced /\ Started(w))
        /\ x.member[m].leavingAt = IF w.member[m].leavingAt = Unset THEN now
                                   ELSE w.member[m].leavingAt
    BY <1>0, <1>5 DEF Departs, SameRow, Gone
  <2>2. m \notin InTrip(x) /\ m \in InTrip(w) /\ ~w.member[m].left
    BY <1>1, <1>5 DEF InTrip
  <2>3. x.delivery[a][m] # "READY"
    BY <1>1, <1>3, <1>5 DEF DeliveryState
  <2>4. x.delivery[a][m] # "NONE" <=> w.delivery[a][m] # "NONE"
    BY <1>1
  <2>5. ASSUME now < HardDeleteAt, x.delivery[a][m] = "EXPIRED"
        PROVE  x.member[m].incomplete
    <3>1. w.delivery[a][m] = "READY"
      BY <1>1, <1>2, <2>2, <2>5 DEF Pair
    <3>2. w.asset[a] # "NONE" /\ w.member[m].state = "ACTIVE" /\ Started(w)
      BY <1>2, <3>1 DEF Pair
    <3>3. CASE forced
      BY <2>1, <3>2, <3>3
    <3>4. CASE ~forced
      BY <1>5, <3>1, <3>2, <3>4 DEF Cleared, PendingDownloads
    <3> QED
      BY <3>3, <3>4
  <2>6. ASSUME now < HardDeleteAt, Served(x, a, m)
        PROVE  x.asset[a] # "NONE" /\ x.delivery[a][m] = "SAVED_LOCALLY"
    <3> DEFINE row == w.member[m]
               s == w.session[a]
    <3>1. Started(w) /\ s.createdAt <= now /\ s.state # "NONE"
      BY <1>1, <1>2, <2>6 DEF Served, Admitted
    <3>2. /\ ~forced /\ row.approvedAt # Unset
          /\ row.approvedAt <= s.capturedAt /\ row.approvedAt < s.createdAt
      BY <1>1, <2>1, <2>6, <3>1 DEF Served, Admitted
    <3>3. /\ row.leavingAt # Unset
          /\ PendingUploads(w, m) = {} /\ PendingDownloads(w, m) = {}
      BY <1>2, <1>5, <3>1, <3>2 DEF Cleared
    <3>4. s.createdAt < row.leavingAt
      BY <1>1, <2>1, <2>6, <3>3 DEF Served, Admitted
    <3>5. s.state = "COMMITTED"
      <4>1. s.createdAt <= QueueCutoff(w, m)
        BY <1>3, <3>3, <3>4 DEF QueueCutoff, SessionRow, Row, Time
      <4>2. s.state # "CREATED"
        BY <3>3, <4>1 DEF PendingUploads
      <4>3. s.state # "EXPIRED"
        BY <1>2, <2>6, TimeAssumption
      <4> QED
        BY <1>3, <3>1, <4>2, <4>3 DEF SessionRow
    <3>6. Owed(w, a, m) /\ w.asset[a] # "NONE"
      BY <1>2, <1>3, <2>2, <3>2, <3>4, <3>5
         DEF Owed, Admitted, Participates, InTrip, Awaited, SessionRow, Row, Time
    <3>7. w.delivery[a][m] \notin {"NONE", "READY"}
      BY <1>2, <3>3, <3>6 DEF Pair, PendingDownloads
    <3>8. w.delivery[a][m] # "EXPIRED"
      BY <1>2, <2>2, <2>6 DEF Pair
    <3> QED
      BY <1>1, <1>3, <3>6, <3>7, <3>8 DEF DeliveryState
  <2> QED
    BY <1>1, <1>2, <2>1, <2>2, <2>3, <2>4, <2>5, <2>6 DEF Pair, Owed, Admitted, Participates
<1> QED
  BY <1>4, <1>5

(* Departures leave the tables sound, and so does an end ...               *)
LEMMA DepartSound ==
    ASSUME NEW w \in Tables, Sound(w), NEW S \in SUBSET Members, NEW forced \in BOOLEAN,
           now \in Nat, S \subseteq InTrip(w), \A m \in S : forced \/ Cleared(w, m)
    PROVE  Sound(Depart(w, S, forced))
<1> SUFFICES ASSUME NEW x, x = Depart(w, S, forced)
             PROVE  Sound(x)
  OBVIOUS
<1>1. Departs(w, S, forced, x)
  BY DepartDeparts
<1>2. Course(w) /\ Crew(w) /\ Uploads(w)
  BY DEF Sound
<1>3. \A a \in Assets, m \in Members : Pair(x, a, m)
  BY DepartPair
<1>4. ASSUME NEW m \in Members
      PROVE  /\ x.member[m].leavingAt <= now
             /\ x.member[m].incomplete => x.member[m].left
             /\ x.member[m].state = "PENDING_KEY" => x.member[m].approvedAt = Unset
  <2>1. /\ w.member[m].leavingAt <= now
        /\ w.member[m].incomplete => w.member[m].left
        /\ w.member[m].state = "PENDING_KEY" => w.member[m].approvedAt = Unset
    BY <1>2 DEF Crew
  <2>2. CASE m \in S
    <3>1. SameRow(w.member[m], x.member[m]) /\ Gone(w.member[m], x.member[m], forced /\ Started(w))
      BY <1>1, <2>2 DEF Departs
    <3> QED
      BY <2>1, <3>1 DEF SameRow, Gone
  <2>3. CASE m \notin S
    <3>1. x.member[m] = w.member[m]
      BY <1>1, <2>3 DEF Departs
    <3> QED
      BY <2>1, <3>1
  <2> QED
    BY <2>2, <2>3
<1>5. Uploads(x)
  BY <1>1, <1>2 DEF Uploads, Departs, SameMedia, Started
<1>6. CASE Closes(w, S)
  <2>1. InTrip(x) = {} /\ x.trip.state # "LOBBY"
    BY <1>1, <1>6 DEF Departs, Closes
  <2>2. x.trip.state = "COMPLETE" => \A m \in Members : ~x.member[m].incomplete
    BY <1>1, <1>6 DEF Departs
  <2> QED
    BY <1>3, <1>4, <1>5, <2>1, <2>2 DEF Sound, Course, Crew
<1>7. CASE ~Closes(w, S)
  <2>1. /\ x.trip.state = w.trip.state /\ InTrip(x) = InTrip(w) \ S
        /\ Started(x) = Started(w)
    BY <1>1, <1>7 DEF Departs, Started
  <2>2. ASSUME x.trip.state = "COMPLETE", NEW m \in Members PROVE ~x.member[m].incomplete
    <3>1. S = {} /\ ~w.member[m].incomplete
      BY <1>2, <2>1, <2>2 DEF Course, Terminal
    <3>2. x.member[m] = w.member[m]
      BY <1>1, <3>1 DEF Departs
    <3> QED
      BY <3>1, <3>2
  <2>3. Course(x)
    BY <1>2, <2>1, <2>2 DEF Course
  <2> QED
    BY <1>3, <1>4, <1>5, <2>3 DEF Sound, Crew
<1> QED
  BY <1>6, <1>7

(* ... of a trip whatever its state.                                       *)
LEMMA EndSound ==
    ASSUME NEW w \in Tables, Sound(w), now \in Nat
    PROVE  Sound(End(w))
<1>1. CASE Ended(w)
  BY <1>1 DEF End
<1>2. CASE ~Ended(w) /\ ~Started(w)
  <2>1. InTrip(w) \in SUBSET Members /\ \A m \in InTrip(w) : Cleared(w, m)
    BY <1>2 DEF InTrip, Cleared
  <2> QED
    BY <1>2, <2>1, DepartSound DEF End
<1>3. CASE ~Ended(w) /\ Started(w)
  <2> SUFFICES ASSUME NEW x, x = End(w) PROVE Sound(x)
    OBVIOUS
  <2>1. Ends(w, x)
    BY <1>3, EndEnds
  <2>2. Course(w) /\ Crew(w) /\ Uploads(w)
    BY DEF Sound
  <2>3. ASSUME NEW m \in Members
        PROVE  /\ x.member[m].leavingAt <= now
               /\ x.member[m].incomplete => x.member[m].left
               /\ x.member[m].state = "PENDING_KEY" => x.member[m].approvedAt = Unset
    <3>1. SameRow(w.member[m], x.member[m]) /\ Called(w.member[m], x.member[m])
      BY <2>1 DEF Ends
    <3> QED
      BY <2>2, <3>1 DEF Crew, SameRow, Called
  <2>4. Uploads(x)
    BY <2>1, <2>2 DEF Uploads, Ends, SameMedia, Started
  <2>5. Course(x)
    BY <2>1 DEF Course, Ends, Terminal
  <2>6. ASSUME NEW a \in Assets, NEW m \in Members PROVE Pair(x, a, m)
    <3>1. /\ Pair(w, a, m)
          /\ w.session[a].state # "NONE" => w.session[a].createdAt <= now
          /\ w.member[m].leavingAt <= now
      BY <2>2 DEF Sound, Uploads, Crew
    <3>2. /\ x.session = w.session /\ x.asset = w.asset /\ x.preview = w.preview
          /\ x.delivery = w.delivery /\ InTrip(x) = InTrip(w)
          /\ x.trip.state = "ENDING" /\ x.trip.endingAt = now
      BY <2>1 DEF Ends, SameMedia
    <3>3. SameRow(w.member[m], x.member[m]) /\ Called(w.member[m], x.member[m])
      BY <2>1 DEF Ends
    <3>4. w.member[m] \in Row /\ w.session[a] \in SessionRow
      BY Cells
    <3>5. ASSUME w.session[a].state # "NONE", ~w.member[m].left, w.member[m].state = "ACTIVE"
          PROVE  Awaited(x, a, m) <=> Awaited(w, a, m)
      <4>1. w.trip.state # "ENDING"
        BY <1>3 DEF Ended
      <4> QED
        BY <3>1, <3>2, <3>3, <3>4, <3>5, <4>1 DEF Awaited, Called, Answers, SessionRow, Row, Time
    <3>6. w.asset[a] # "NONE" => w.session[a].state # "NONE"
      BY <2>2 DEF Uploads
    <3>7. ASSUME Owed(x, a, m), x.asset[a] # "NONE" PROVE x.delivery[a][m] # "NONE"
      <4>1. Owed(w, a, m)
        BY <3>2, <3>3, <3>5, <3>6, <3>7 DEF Owed, Admitted, Participates, InTrip, SameRow
      <4> QED
        BY <3>1, <3>2, <3>7, <4>1 DEF Pair
    <3>8. ASSUME Served(x, a, m) PROVE Served(w, a, m)
      BY <3>2, <3>3, <3>8 DEF Served, Admitted, SameRow, Called, Answers
    <3>9. m \in x.preview[a] =>
             /\ x.member[m].state = "ACTIVE" /\ x.session[a].state # "NONE"
             /\ ~x.member[m].left => Awaited(x, a, m)
      BY <3>1, <3>2, <3>3, <3>5 DEF Pair, SameRow, Called
    <3> QED
      BY <3>1, <3>2, <3>3, <3>7, <3>8, <3>9 DEF Pair, SameRow, Called
  <2> QED
    BY <2>3, <2>4, <2>5, <2>6 DEF Sound, Crew
<1> QED
  BY <1>1, <1>2, <1>3

(* x differs from w in columns nothing here depends on, or calls members   *)
(* home.                                                                   *)
Touches(w, x) ==
    /\ SameMedia(w, x) /\ x.delivery = w.delivery
    /\ x.trip.state = w.trip.state /\ x.trip.startedAt = w.trip.startedAt
    /\ x.trip.endingAt = w.trip.endingAt
    /\ \A m \in Members :
         LET row == w.member[m]  s == x.member[m] IN
         /\ s.state = row.state /\ s.approvedAt = row.approvedAt
         /\ s.left = row.left /\ s.incomplete = row.incomplete
         /\ \/ s.leavingAt = row.leavingAt
            \/ row.leavingAt = Unset /\ ~row.left /\ s.leavingAt = now

(* Such changes leave the tables sound.                                    *)
LEMMA TouchSound ==
    ASSUME NEW w \in Tables, Sound(w), NEW x \in Tables, Touches(w, x), now \in Nat
    PROVE  Sound(x)
<1>1. Course(w) /\ Crew(w) /\ Uploads(w)
  BY DEF Sound
<1>2. InTrip(x) = InTrip(w) /\ Started(x) = Started(w)
  BY DEF InTrip, Touches, Started
<1>3. Course(x)
  BY <1>1, <1>2 DEF Course, Touches
<1>4. Crew(x)
  BY <1>1 DEF Crew, Touches
<1>5. Uploads(x)
  BY <1>1, <1>2 DEF Uploads, Touches, SameMedia
<1>6. ASSUME NEW a \in Assets, NEW m \in Members PROVE Pair(x, a, m)
  <2>1. /\ Pair(w, a, m)
        /\ w.session[a].state # "NONE" => w.session[a].createdAt <= now
        /\ w.asset[a] # "NONE" => w.session[a].state # "NONE"
        /\ w.member[m].incomplete => w.member[m].left
    BY <1>1 DEF Sound, Uploads, Crew
  <2>2. /\ x.session = w.session /\ x.asset = w.asset /\ x.preview = w.preview
        /\ x.delivery = w.delivery
        /\ x.trip.state = w.trip.state /\ x.trip.endingAt = w.trip.endingAt
    BY DEF Touches, SameMedia
  <2>3. /\ x.member[m].state = w.member[m].state
        /\ x.member[m].approvedAt = w.member[m].approvedAt
        /\ x.member[m].left = w.member[m].left
        /\ x.member[m].incomplete = w.member[m].incomplete
        /\ \/ x.member[m].leavingAt = w.member[m].leavingAt
           \/ /\ w.member[m].leavingAt = Unset /\ ~w.member[m].left
              /\ x.member[m].leavingAt = now
    BY DEF Touches
  <2>4. w.member[m] \in Row /\ w.session[a] \in SessionRow
    BY Cells
  <2>5. ASSUME w.session[a].state # "NONE" PROVE Awaited(x, a, m) = Awaited(w, a, m)
    BY <2>1, <2>2, <2>3, <2>4, <2>5 DEF Awaited, SessionRow, Row, Time
  <2>6. ASSUME Owed(x, a, m), x.asset[a] # "NONE" PROVE x.delivery[a][m] # "NONE"
    <3>1. Owed(w, a, m)
      BY <1>2, <2>1, <2>2, <2>3, <2>5, <2>6 DEF Owed, Admitted, Participates
    <3> QED
      BY <2>1, <2>2, <2>6, <3>1 DEF Pair
  <2>7. ASSUME now < HardDeleteAt, Served(x, a, m)
        PROVE  x.asset[a] # "NONE" /\ x.delivery[a][m] = "SAVED_LOCALLY"
    BY <2>1, <2>2, <2>3, <2>7 DEF Served, Admitted, Pair
  <2> QED
    BY <2>1, <2>2, <2>3, <2>5, <2>6, <2>7 DEF Pair
<1> QED
  BY <1>3, <1>4, <1>5, <1>6 DEF Sound

(* settle() lets a member depart only once nothing of its own is           *)
(* outstanding.                                                            *)
LEMMA SettleSound ==
    ASSUME NEW w \in Tables, Sound(w), NEW m \in Members, now \in Nat,
           w.member[m].state \in {"PENDING_KEY", "ACTIVE"}
    PROVE  Sound(Settle(w, m))
<1>1. CASE Settle(w, m) = w
  BY <1>1
<1>2. CASE Settle(w, m) # w
  <2>1. /\ Settle(w, m) = Depart(w, {m}, FALSE) /\ ~w.member[m].left
        /\ w.member[m].leavingAt # Unset
        /\ PendingUploads(w, m) = {} /\ PendingDownloads(w, m) = {}
    BY <1>2 DEF Settle
  <2>2. Cleared(w, m) /\ {m} \subseteq InTrip(w) /\ {m} \in SUBSET Members
    BY <2>1 DEF Cleared, InTrip
  <2> QED
    BY <2>1, <2>2, DepartSound
<1> QED
  BY <1>1, <1>2

(* end() keeps the state of every row.                                     *)
LEMMA EndStates ==
    ASSUME NEW w \in Tables, NEW m \in Members
    PROVE  End(w).member[m].state = w.member[m].state
<1>1. CASE Ended(w)
  BY <1>1 DEF End
<1>2. CASE ~Ended(w) /\ ~Started(w)
  <2>1. Departs(w, InTrip(w), FALSE, Depart(w, InTrip(w), FALSE))
    BY DepartDeparts DEF InTrip
  <2> QED
    BY <1>2, <2>1 DEF End, Departs, SameRow
<1>3. CASE ~Ended(w) /\ Started(w)
  BY <1>3, EndEnds DEF Ends, SameRow
<1> QED
  BY <1>1, <1>2, <1>3

(* A read of the state leaves the tables sound.                            *)
LEMMA ReadStateSound ==
    ASSUME NEW w \in Tables, Sound(w), NEW m \in Members, now \in Nat, now \in Time,
           w.member[m].state \in {"PENDING_KEY", "ACTIVE"}
    PROVE  Sound(ReadState(w, m))
<1> DEFINE x == IF w.trip.state = "ACTIVE" /\ EndsAt <= now THEN End(w) ELSE w
<1>1. /\ x \in Tables /\ Sound(x)
      /\ x.member[m].state \in {"PENDING_KEY", "ACTIVE"}
  BY EndType, EndSound, EndStates
<1>2. ReadState(w, m) = Settle(x, m)
  BY DEF ReadState
<1> HIDE DEF x
<1> QED
  BY <1>1, <1>2, SettleSound

-----------------------------------------------------------------------------
(***************************************************************************)
(* What the steps keep.                                                    *)
(***************************************************************************)
(* A request that first writes w and then reads its state.                 *)
LEMMA ReadingSound ==
    ASSUME NEW w \in Tables, Sound(w), NEW m \in Members, now \in Nat, now \in Time,
           w.member[m].state \in {"PENDING_KEY", "ACTIVE"}, db' = ReadState(w, m)
    PROVE  Sound(db')
  BY ReadStateSound

(* A new row for a member who is in the trip.                              *)
LEMMA RowTouches ==
    ASSUME NEW w \in Tables, NEW m \in Members, NEW row \in Row, NEW trip \in TripRow,
           trip.state = w.trip.state, trip.startedAt = w.trip.startedAt,
           trip.endingAt = w.trip.endingAt,
           row.state = w.member[m].state, row.approvedAt = w.member[m].approvedAt,
           row.left = w.member[m].left, row.incomplete = w.member[m].incomplete,
           \/ row.leavingAt = w.member[m].leavingAt
           \/ w.member[m].leavingAt = Unset /\ ~w.member[m].left /\ row.leavingAt = now
    PROVE  Touches(w, [w EXCEPT !.member[m] = row, !.trip = trip])
<1> DEFINE x == [w EXCEPT !.member[m] = row, !.trip = trip]
<1>1. SameMedia(w, x) /\ x.delivery = w.delivery /\ x.trip = trip
  BY DEF Tables, SameMedia
<1>2. \A o \in Members : x.member[o] = IF o = m THEN row ELSE w.member[o]
  BY DEF Tables
<1> HIDE DEF x
<1>3. Touches(w, x)
  BY <1>1, <1>2 DEF Touches
<1> QED
  BY <1>3 DEF x

(* The lifecycle requests of the members.                                  *)
LEMMA LifecycleSound ==
    ASSUME TypeOK, Sound(db), NEW m \in Members,
           \/ EndTrip \/ ReadTransferState(m) \/ Leave(m) \/ LeaveNow(m)
           \/ Pause(m) \/ Resume(m) \/ \E v \in Int : Drained(m, v)
    PROVE  Sound(db')
<1>1. db \in Tables /\ Owner \in Members /\ now \in Nat /\ now \in Time
  BY MembersAssumption DEF TypeOK, Time
<1>2. /\ db.member[m] \in Row /\ Bumped(db) \in TripRow /\ db.trip \in TripRow
      /\ Bumped(db).state = db.trip.state /\ Bumped(db).startedAt = db.trip.startedAt
      /\ Bumped(db).endingAt = db.trip.endingAt
  BY <1>1, Columns, BumpedType DEF Bumped, TripRow
<1>3. ASSUME NEW row \in Row, NEW trip \in TripRow, trip = db.trip \/ trip = Bumped(db),
             row.state = db.member[m].state, row.approvedAt = db.member[m].approvedAt,
             row.left = db.member[m].left, row.incomplete = db.member[m].incomplete,
             \/ row.leavingAt = db.member[m].leavingAt
             \/ db.member[m].leavingAt = Unset /\ ~db.member[m].left /\ row.leavingAt = now,
             Lockable(m),
             db' = ReadState([db EXCEPT !.member[m] = row, !.trip = trip], m)
      PROVE  Sound(db')
  <2> DEFINE x == [db EXCEPT !.member[m] = row, !.trip = trip]
  <2>1. x \in Tables
    BY <1>1, UpdateType
  <2>2. Touches(db, x)
    BY <1>1, <1>2, <1>3, RowTouches
  <2>3. db' = ReadState(x, m)
    BY <1>3
  <2> HIDE DEF x
  <2>4. Sound(x) /\ x.member[m].state \in {"PENDING_KEY", "ACTIVE"}
    BY <1>1, <1>3, <2>1, <2>2, TouchSound DEF Touches, Lockable
  <2> QED
    BY <1>1, <2>1, <2>3, <2>4, ReadingSound
<1>4. CASE EndTrip
  <2>1. /\ End(db) \in Tables /\ Sound(End(db)) /\ db' = ReadState(End(db), Owner)
        /\ End(db).member[Owner].state \in {"PENDING_KEY", "ACTIVE"}
    BY <1>1, <1>4, EndType, EndSound, EndStates DEF EndTrip, Lockable, Install
  <2> QED
    BY <1>1, <2>1, ReadingSound
<1>5. CASE ReadTransferState(m)
  BY <1>1, <1>5, ReadingSound DEF ReadTransferState, Lockable, Install
<1>6. ASSUME NEW forced \in BOOLEAN, Lockable(m), ~db.member[m].left,
             forced \/ Cleared(db, m), db' = ReadState(Depart(db, {m}, forced), m)
      PROVE  Sound(db')
  <2>1. {m} \subseteq InTrip(db) /\ {m} \in SUBSET Members
    BY <1>6 DEF InTrip, Lockable
  <2>2. Sound(Depart(db, {m}, forced)) /\ Depart(db, {m}, forced) \in Tables
    BY <1>1, <1>6, <2>1, DepartSound, DepartType
  <2>3. Departs(db, {m}, forced, Depart(db, {m}, forced))
    BY <1>1, <2>1, DepartDeparts
  <2>4. Depart(db, {m}, forced).member[m].state \in {"PENDING_KEY", "ACTIVE"}
    BY <1>6, <2>3 DEF Departs, SameRow, Lockable
  <2> QED
    BY <1>1, <1>6, <2>2, <2>4, ReadingSound
<1>7. CASE Leave(m)
  <2> DEFINE row == [db.member[m] EXCEPT !.leavingAt = now, !.drained = FALSE]
  <2>1. /\ row \in Row /\ row.left = db.member[m].left /\ row.state = db.member[m].state
        /\ row.approvedAt = db.member[m].approvedAt /\ row.leavingAt = now
        /\ row.incomplete = db.member[m].incomplete
    BY <1>1, <1>2 DEF Row
  <2>2. Lockable(m) /\ ~db.member[m].left
    BY <1>7 DEF Leave
  <2>3. CASE /\ db.trip.state = "LOBBY" \/ db.member[m].state = "PENDING_KEY"
             /\ db' = ReadState(Depart(db, {m}, FALSE), m)
    <3>1. Cleared(db, m)
      BY <2>3 DEF Cleared, Sound, Course
    <3> QED
      BY <1>6, <2>2, <2>3, <3>1
  <2>4. CASE /\ db.member[m].leavingAt = Unset
             /\ db' = ReadState([db EXCEPT !.member[m] = row, !.trip = Bumped(db)], m)
    <3> HIDE DEF row
    <3> QED
      BY <1>2, <1>3, <2>1, <2>2, <2>4
  <2> QED
    BY <1>7, <2>3, <2>4 DEF Leave, Install
<1>8. CASE LeaveNow(m)
  BY <1>6, <1>8 DEF LeaveNow, Install
<1>9. CASE Pause(m)
  <2> DEFINE row == [db.member[m] EXCEPT !.pausedAt = now]
  <2>1. /\ row \in Row /\ row.left = db.member[m].left /\ row.state = db.member[m].state
        /\ row.approvedAt = db.member[m].approvedAt
        /\ row.leavingAt = db.member[m].leavingAt
        /\ row.incomplete = db.member[m].incomplete
    BY <1>1, <1>2 DEF Row
  <2>2. /\ Lockable(m)
        /\ db' = ReadState([db EXCEPT !.member[m] = row, !.trip = Bumped(db)], m)
    BY <1>9 DEF Pause, Install
  <2> HIDE DEF row
  <2> QED
    BY <1>2, <1>3, <2>1, <2>2
<1>10. CASE Resume(m)
  <2> DEFINE window == [from |-> db.member[m].pausedAt, until |-> now]
             row == [db.member[m] EXCEPT !.pauses = @ \cup {window}, !.pausedAt = Unset]
  <2>1. window \in [from : Time, until : Time]
    BY <1>1, <1>2 DEF Row
  <2>2. db.member[m].pauses \cup {window} \in SUBSET [from : Time, until : Time]
    BY <1>2, <2>1 DEF Row
  <2>3. /\ row \in Row /\ row.left = db.member[m].left /\ row.state = db.member[m].state
        /\ row.approvedAt = db.member[m].approvedAt
        /\ row.leavingAt = db.member[m].leavingAt
        /\ row.incomplete = db.member[m].incomplete
    BY <1>2, <2>2, UnsetIsTime DEF Row
  <2>4. /\ Lockable(m)
        /\ db' = ReadState([db EXCEPT !.member[m] = row, !.trip = Bumped(db)], m)
    BY <1>10 DEF Resume, Install
  <2> HIDE DEF row
  <2> QED
    BY <1>2, <1>3, <2>3, <2>4
<1>11. ASSUME NEW v \in Int, Drained(m, v) PROVE Sound(db')
  <2> DEFINE row == [db.member[m] EXCEPT !.drained = TRUE]
             x == [db EXCEPT !.member[m] = row]
  <2>1. /\ row \in Row /\ row.left = db.member[m].left /\ row.state = db.member[m].state
        /\ row.approvedAt = db.member[m].approvedAt
        /\ row.leavingAt = db.member[m].leavingAt
        /\ row.incomplete = db.member[m].incomplete
    BY <1>1, <1>2 DEF Row
  <2>2. x = [db EXCEPT !.member[m] = row, !.trip = db.trip]
    BY <1>1 DEF Tables
  <2>3. Lockable(m) /\ (db' = ReadState(x, m) \/ db' = ReadState(db, m))
    BY <1>11 DEF Drained, Install
  <2> HIDE DEF row
  <2>4. CASE db' = ReadState(x, m)
    BY <1>2, <1>3, <2>1, <2>2, <2>3, <2>4
  <2>5. CASE db' = ReadState(db, m)
    BY <1>1, <2>3, <2>5, ReadingSound DEF Lockable
  <2> QED
    BY <2>3, <2>4, <2>5
<1> QED
  BY <1>4, <1>5, <1>7, <1>8, <1>9, <1>10, <1>11

(* The commands of admission.                                              *)
LEMMA AdmissionSound ==
    ASSUME TypeOK, Sound(db), Admission
    PROVE  Sound(db')
<1>1. /\ db \in Tables /\ db.member \in [Members -> Row] /\ db.trip \in TripRow
      /\ now \in Nat
  BY Columns DEF TypeOK
<1>2. Course(db) /\ Crew(db) /\ Uploads(db) /\ \A a \in Assets, m \in Members : Pair(db, a, m)
  BY DEF Sound
(* A change of m's row in a trip whose admission is open.                  *)
<1>3. ASSUME NEW m \in Members, AdmissionOpen,
             SameMedia(db, db'), db'.delivery = db.delivery,
             db'.trip.state = db.trip.state, db'.trip.startedAt = db.trip.startedAt,
             db'.trip.endingAt = db.trip.endingAt,
             \A o \in Members \ {m} : db'.member[o] = db.member[o],
             db.member[m].state \in {"NONE", "PENDING_KEY"},
             ~db'.member[m].left, ~db'.member[m].incomplete, db'.member[m].leavingAt <= now,
             db'.member[m].state = "PENDING_KEY" => db'.member[m].approvedAt = Unset,
             db'.member[m].state = "ACTIVE" => db'.member[m].approvedAt = now
      PROVE  Sound(db')
  <2>1. Course(db')
    BY <1>2, <1>3 DEF Course, AdmissionOpen, Started, Terminal
  <2>2. Crew(db')
    BY <1>2, <1>3 DEF Crew
  <2>3. Uploads(db')
    BY <1>2, <1>3 DEF Uploads, SameMedia, Started
  <2>4. ASSUME NEW a \in Assets, NEW o \in Members PROVE Pair(db', a, o)
    <3>1. /\ Pair(db, a, o) /\ db'.session = db.session /\ db'.asset = db.asset
          /\ db'.preview = db.preview /\ db'.delivery = db.delivery
      BY <1>2, <1>3 DEF SameMedia
    <3>2. CASE o # m
      <4>1. db'.member[o] = db.member[o]
        BY <1>3, <3>2
      <4> QED
        BY <1>3, <3>1, <4>1
           DEF Pair, Owed, Admitted, Served, Awaited, Participates, InTrip
    <3>3. CASE o = m
      <4>1. db.delivery[a][o] = "NONE" /\ o \notin db.preview[a]
        BY <1>3, <3>1, <3>3 DEF Pair
      <4>2. /\ db.session[a].state # "NONE" => db.session[a].createdAt <= now
            /\ db.session[a].createdAt \in Int
        BY <1>1, <1>2, Cells DEF Uploads, SessionRow, Time
      <4>3. db.asset[a] # "NONE" => db.session[a].state # "NONE"
        BY <1>2 DEF Uploads
      <4>4. ~(Owed(db', a, o) /\ db'.asset[a] # "NONE")
        BY <1>1, <1>3, <3>1, <3>3, <4>2, <4>3 DEF Owed, Admitted, Participates
      <4> QED
        BY <1>3, <3>1, <3>3, <4>1, <4>4 DEF Pair, Served, Admitted
    <3> QED
      BY <3>2, <3>3
  <2> QED
    BY <2>1, <2>2, <2>3, <2>4 DEF Sound
<1>4. ASSUME NEW m \in Members, RequestJoin(m) PROVE Sound(db')
  <2> DEFINE row == [NoMember EXCEPT !.state = "PENDING_KEY"]
  <2>1. /\ SameMedia(db, db') /\ db'.delivery = db.delivery
        /\ db'.trip = [db.trip EXCEPT !.memberCount = @ + 1, !.version = @ + 1]
        /\ \A o \in Members : db'.member[o] = IF o = m THEN row ELSE db.member[o]
    BY <1>1, <1>4 DEF RequestJoin, Install, Tables, SameMedia
  <2>2. /\ db'.trip.state = db.trip.state /\ db'.trip.startedAt = db.trip.startedAt
        /\ db'.trip.endingAt = db.trip.endingAt
    BY <1>1, <2>1 DEF TripRow
  <2>3. /\ ~row.left /\ ~row.incomplete /\ row.leavingAt <= now /\ row.state = "PENDING_KEY"
        /\ row.approvedAt = Unset
    BY <1>1 DEF NoMember, Unset
  <2>4. AdmissionOpen /\ db.member[m].state = "NONE"
    BY <1>4 DEF RequestJoin
  <2> HIDE DEF row
  <2> QED
    BY <1>3, <2>1, <2>2, <2>3, <2>4
<1>5. ASSUME NEW m \in Members, ApproveJoin(m) PROVE Sound(db')
  <2> DEFINE row == [db.member[m] EXCEPT !.state = "ACTIVE", !.approvedAt = now]
  <2>1. /\ SameMedia(db, db') /\ db'.delivery = db.delivery /\ db'.trip = Bumped(db)
        /\ \A o \in Members : db'.member[o] = IF o = m THEN row ELSE db.member[o]
    BY <1>1, <1>5 DEF ApproveJoin, Install, Tables, SameMedia
  <2>2. /\ db'.trip.state = db.trip.state /\ db'.trip.startedAt = db.trip.startedAt
        /\ db'.trip.endingAt = db.trip.endingAt
    BY <1>1, <2>1 DEF TripRow, Bumped
  <2>3. AdmissionOpen /\ db.member[m].state = "PENDING_KEY" /\ ~db.member[m].left
    BY <1>5 DEF ApproveJoin, InTrip
  <2>4. /\ row.left = db.member[m].left /\ row.incomplete = db.member[m].incomplete
        /\ row.leavingAt = db.member[m].leavingAt /\ row.state = "ACTIVE"
        /\ row.approvedAt = now
    BY <1>1 DEF Row
  <2>5. ~db.member[m].incomplete /\ db.member[m].leavingAt <= now
    BY <1>2, <2>3 DEF Crew
  <2> HIDE DEF row
  <2> QED
    BY <1>3, <2>1, <2>2, <2>3, <2>4, <2>5
<1>6. ASSUME NEW m \in Members, RejectJoin(m) PROVE Sound(db')
  <2> DEFINE row == [db.member[m] EXCEPT !.state = "REJECTED"]
  <2>1. /\ SameMedia(db, db') /\ db'.delivery = db.delivery
        /\ db'.trip = [db.trip EXCEPT !.memberCount = @ - 1, !.version = @ + 1]
        /\ \A o \in Members : db'.member[o] = IF o = m THEN row ELSE db.member[o]
    BY <1>1, <1>6 DEF RejectJoin, Install, Tables, SameMedia
  <2>2. /\ db'.trip.state = db.trip.state /\ db'.trip.startedAt = db.trip.startedAt
        /\ db'.trip.endingAt = db.trip.endingAt
    BY <1>1, <2>1 DEF TripRow
  <2>3. AdmissionOpen /\ db.member[m].state = "PENDING_KEY" /\ ~db.member[m].left
    BY <1>6 DEF RejectJoin, InTrip
  <2>4. /\ row.left = db.member[m].left /\ row.incomplete = db.member[m].incomplete
        /\ row.leavingAt = db.member[m].leavingAt /\ row.state = "REJECTED"
    BY <1>1 DEF Row
  <2>5. ~db.member[m].incomplete /\ db.member[m].leavingAt <= now
    BY <1>2, <2>3 DEF Crew
  <2> HIDE DEF row
  <2> QED
    BY <1>3, <2>1, <2>2, <2>3, <2>4, <2>5
<1>7. CASE StartTrip
  <2>1. /\ SameMedia(db, db') /\ db'.delivery = db.delivery /\ db'.member = db.member
        /\ db'.trip = [db.trip EXCEPT !.state = "ACTIVE", !.startedAt = now, !.version = @ + 1]
        /\ db.trip.state = "LOBBY"
    BY <1>1, <1>7 DEF StartTrip, Install, Tables, SameMedia
  <2>2. /\ db'.trip.state = "ACTIVE" /\ db'.trip.startedAt = now
        /\ db'.trip.endingAt = db.trip.endingAt
    BY <1>1, <2>1 DEF TripRow
  <2>3. Course(db')
    BY <2>2 DEF Course, Terminal
  <2>4. Crew(db')
    BY <1>2, <2>1 DEF Crew
  <2>5. Started(db')
    BY <1>1, <2>2 DEF Started, Unset
  <2>6. Uploads(db')
    BY <1>2, <2>1, <2>5 DEF Uploads, SameMedia
  <2>7. \A a \in Assets, m \in Members : Pair(db', a, m)
    BY <1>2, <2>1, <2>2 DEF Pair, Owed, Admitted, Served, Awaited, Participates, InTrip, SameMedia
  <2> QED
    BY <2>3, <2>4, <2>6, <2>7 DEF Sound
<1> QED
  BY <1>4, <1>5, <1>6, <1>7 DEF Admission

(* The hard expiry, which comes only past the deadline.                    *)
LEMMA ExpireSound ==
    ASSUME TypeOK, Sound(db), Expire
    PROVE  Sound(db')
<1> DEFINE w == IF db.trip.state # "ENDING" THEN End(db) ELSE db
           trip == [w.trip EXCEPT !.state = "INCOMPLETE_EXPIRED", !.version = @ + 1]
           x == [w EXCEPT !.member = PastDeadline(w), !.slots = {}, !.trip = trip]
<1>1. w \in Tables /\ Sound(w) /\ now \in Nat
  BY EndType, EndSound DEF TypeOK, Time
<1>2. db' = w \/ (db' = x /\ HardDeleteAt <= now)
  BY DEF Expire, Install
<1> HIDE DEF w
<1>3. CASE db' = x /\ HardDeleteAt <= now
  <2>1. /\ SameMedia(w, x) /\ x.delivery = w.delivery /\ x.member = PastDeadline(w)
        /\ x.trip = trip
    BY <1>1 DEF Tables, SameMedia
  <2>2. x.trip.state = "INCOMPLETE_EXPIRED" /\ x.trip.startedAt = w.trip.startedAt
    BY <1>1, <2>1, Columns DEF TripRow
  <2> HIDE DEF x
  <2>3. Course(w) /\ Crew(w) /\ Uploads(w) /\ \A a \in Assets, m \in Members : Pair(w, a, m)
    BY <1>1 DEF Sound
  <2>4. ASSUME NEW m \in Members
        PROVE  /\ SameRow(w.member[m], x.member[m])
               /\ x.member[m].left \/ w.member[m].state = "NONE"
               /\ x.member[m].leavingAt <= now
               /\ x.member[m].incomplete => x.member[m].left
    <3> DEFINE row == w.member[m]
               past == [row EXCEPT !.left = TRUE, !.leavingAt = IF @ = Unset THEN now ELSE @]
    <3>1. row \in Row
      BY <1>1, Columns
    <3>2. x.member[m] = IF row.state # "NONE" /\ ~row.left THEN past ELSE row
      BY <2>1 DEF PastDeadline
    <3>3. /\ SameRow(row, past) /\ past.left /\ past.incomplete = row.incomplete
          /\ past.leavingAt \in {row.leavingAt, now}
      BY <3>1 DEF Row, SameRow
    <3>4. row.leavingAt <= now /\ (row.incomplete => row.left)
      BY <2>3 DEF Crew
    <3> HIDE DEF row, past
    <3>5. /\ SameRow(row, x.member[m]) /\ (x.member[m].left \/ row.state = "NONE")
          /\ x.member[m].leavingAt <= now
          /\ x.member[m].incomplete => x.member[m].left
      BY <1>1, <3>2, <3>3, <3>4 DEF SameRow
    <3> QED
      BY <3>5 DEF row
  <2>5. InTrip(x) = {}
    BY <2>4 DEF InTrip, SameRow
  <2>6. Course(x)
    BY <2>2, <2>5 DEF Course
  <2>7. Crew(x)
    BY <2>3, <2>4 DEF Crew, SameRow
  <2>8. Uploads(x)
    BY <2>1, <2>2, <2>3 DEF Uploads, SameMedia, Started
  <2>9. ASSUME NEW a \in Assets, NEW m \in Members PROVE Pair(x, a, m)
    <3>1. ~Owed(x, a, m)
      BY <2>5 DEF Owed, Admitted, Participates
    <3>2. Pair(w, a, m) /\ SameRow(w.member[m], x.member[m])
      BY <2>3, <2>4
    <3>3. m \in x.preview[a] => x.member[m].left
      BY <2>1, <2>4, <3>2 DEF Pair, SameMedia
    <3>4. ~(now < HardDeleteAt)
      BY <1>1, <1>3, TimeAssumption
    <3> QED
      BY <2>1, <3>1, <3>2, <3>3, <3>4 DEF Pair, SameMedia, SameRow
  <2> QED
    BY <1>3, <2>6, <2>7, <2>8, <2>9 DEF Sound
<1> QED
  BY <1>1, <1>2, <1>3

(* Of row only its pauses or its acknowledgement may have changed in s.    *)
Touched(row, s) ==
    /\ s.state = row.state /\ s.approvedAt = row.approvedAt /\ s.left = row.left
    /\ s.incomplete = row.incomplete /\ s.leavingAt = row.leavingAt

(* A media step that moves photo a alone, its rows and trip unchanged.     *)
LEMMA PhotoSound ==
    ASSUME TypeOK, Sound(db), NEW a \in Assets, db'.trip = db.trip,
           \A m \in Members : Touched(db.member[m], db'.member[m]),
           \A b \in Assets \ {a} : /\ db'.session[b] = db.session[b]
                                   /\ db'.asset[b] = db.asset[b]
                                   /\ db'.preview[b] = db.preview[b]
                                   /\ db'.delivery[b] = db.delivery[b],
           \A m \in Members : Pair(db', a, m),
           db'.session[a].state # "NONE" => Started(db) /\ db'.session[a].createdAt <= now,
           db'.session[a].state = "COMMITTED" <=> db'.asset[a] # "NONE",
           db'.session[a].state = "EXPIRED" => HardDeleteAt <= now
    PROVE  Sound(db')
<1>1. Course(db) /\ Crew(db) /\ Uploads(db) /\ \A b \in Assets, m \in Members : Pair(db, b, m)
  BY DEF Sound
<1>2. InTrip(db') = InTrip(db) /\ Started(db') = Started(db)
  BY DEF InTrip, Touched, Started
<1>3. Course(db') /\ Crew(db')
  BY <1>1, <1>2 DEF Course, Crew, Touched
<1>4. Uploads(db')
  BY <1>1, <1>2 DEF Uploads
<1>5. ASSUME NEW b \in Assets, NEW m \in Members PROVE Pair(db', b, m)
  <2>1. CASE b = a
    BY <2>1
  <2>2. CASE b # a
    <3>1. /\ db'.session[b] = db.session[b] /\ db'.asset[b] = db.asset[b]
          /\ db'.preview[b] = db.preview[b] /\ db'.delivery[b] = db.delivery[b]
      BY <2>2
    <3>2. Touched(db.member[m], db'.member[m]) /\ Pair(db, b, m)
      BY <1>1
    <3> QED
      BY <1>2, <3>1, <3>2 DEF Pair, Owed, Admitted, Served, Awaited, Participates, Touched
  <2> QED
    BY <2>1, <2>2
<1> QED
  BY <1>3, <1>4, <1>5 DEF Sound

(* The media requests of the phones and cleanup's two retirements.         *)
LEMMA MediaSound ==
    ASSUME TypeOK, Sound(db), NEW m \in Members, NEW a \in Assets,
           \/ \E c \in 0 .. now + ClockAhead : CreateUpload(m, a, c)
           \/ RenewUpload(m, a) \/ PublishPreview(m, a) \/ Commit(m, a) \/ Saved(m, a)
           \/ RetireAsset(a) \/ RetireUpload(a)
    PROVE  Sound(db')
<1>1. /\ db \in Tables /\ db.member \in [Members -> Row] /\ db.session \in [Assets -> SessionRow]
      /\ db.asset \in [Assets -> AssetState] /\ db.preview \in [Assets -> SUBSET Members]
      /\ db.delivery \in [Assets -> [Members -> DeliveryState]] /\ now \in Nat
  BY DEF TypeOK, Tables
<1>2. /\ \A o \in Members : /\ Pair(db, a, o) /\ Touched(db.member[o], db.member[o])
                            /\ db.member[o].leavingAt <= now
      /\ db.session[a].state # "NONE" => Started(db) /\ db.session[a].createdAt <= now
      /\ db.session[a].state = "COMMITTED" <=> db.asset[a] # "NONE"
      /\ db.session[a].state = "EXPIRED" => HardDeleteAt <= now
  BY DEF Sound, Uploads, Crew, Touched
<1>s. db.session[a] \in SessionRow
  BY <1>1
<1>3. ASSUME NEW c \in 0 .. now + ClockAhead, CreateUpload(m, a, c) PROVE Sound(db')
  <2> DEFINE row == [db.member[m] EXCEPT !.drained = FALSE]
  <2>1. /\ db'.trip = db.trip /\ db'.asset = db.asset /\ db'.preview = db.preview
        /\ db'.delivery = db.delivery
        /\ db'.session[a].state = "CREATED" /\ db'.session[a].createdAt = now
        /\ \A b \in Assets \ {a} : db'.session[b] = db.session[b]
        /\ \A o \in Members : db'.member[o] = IF o = m THEN row ELSE db.member[o]
    BY <1>1, <1>3 DEF CreateUpload, Install, Tables
  <2>2. Touched(db.member[m], row)
    BY <1>1 DEF Row, Touched
  <2> HIDE DEF row
  <2>3. \A o \in Members : Touched(db.member[o], db'.member[o])
    BY <1>2, <2>1, <2>2
  <2>4. db.session[a].state = "NONE" /\ Started(db) /\ db.asset[a] = "NONE"
    BY <1>2, <1>3 DEF CreateUpload, MayTransfer
  <2>5. ASSUME NEW o \in Members PROVE Pair(db', a, o)
    <3>1. db.delivery[a][o] = "NONE" /\ o \notin db.preview[a]
      BY <1>2, <2>4 DEF Pair
    <3>2. ~Served(db', a, o)
      BY <1>1, <1>2, <2>1, <2>3 DEF Served, Admitted, Touched, Row, Time
    <3> QED
      BY <2>1, <2>4, <3>1, <3>2 DEF Pair
  <2> QED
    BY <1>1, <2>1, <2>3, <2>4, <2>5, PhotoSound
<1>4. ASSUME db'.trip = db.trip, db'.member = db.member,
             \A b \in Assets \ {a} : /\ db'.session[b] = db.session[b]
                                     /\ db'.asset[b] = db.asset[b]
                                     /\ db'.preview[b] = db.preview[b]
                                     /\ db'.delivery[b] = db.delivery[b],
             db'.session[a].createdAt = db.session[a].createdAt,
             \A o \in Members : Pair(db', a, o), db.session[a].state # "NONE",
             db'.session[a].state = "COMMITTED" <=> db'.asset[a] # "NONE",
             db'.session[a].state = "EXPIRED" => HardDeleteAt <= now
      PROVE  Sound(db')
  BY <1>1, <1>2, <1>4, PhotoSound
<1>5. CASE RenewUpload(m, a)
  <2>1. /\ db'.trip = db.trip /\ db'.member = db.member /\ db'.asset = db.asset
        /\ db'.preview = db.preview /\ db'.delivery = db.delivery
        /\ \A b \in Assets \ {a} : db'.session[b] = db.session[b]
        /\ db'.session[a] = [db.session[a] EXCEPT !.expiresAt = GrantExpiry]
        /\ db.session[a].state = "CREATED"
    BY <1>1, <1>5 DEF RenewUpload, Install, Tables
  <2>2. /\ db'.session[a].state = db.session[a].state
        /\ db'.session[a].createdAt = db.session[a].createdAt
        /\ db'.session[a].capturedAt = db.session[a].capturedAt
    BY <1>s, <2>1 DEF SessionRow
  <2>3. \A o \in Members : Pair(db', a, o)
    BY <1>2, <2>1, <2>2 DEF Pair, Owed, Admitted, Served, Awaited, Participates, InTrip
  <2> QED
    BY <1>2, <1>4, <2>1, <2>2, <2>3
<1>6. CASE PublishPreview(m, a)
  <2>1. /\ db'.trip = db.trip /\ db'.member = db.member /\ db'.asset = db.asset
        /\ db'.session = db.session /\ db'.delivery = db.delivery
        /\ db'.preview = [db.preview EXCEPT ![a] = db.preview[a] \cup Recipients(db, a)]
        /\ db.session[a].state # "NONE"
    BY <1>1, <1>6 DEF PublishPreview, Install, Tables
  <2>2. /\ db'.preview[a] = db.preview[a] \cup Recipients(db, a)
        /\ \A b \in Assets \ {a} : db'.preview[b] = db.preview[b]
    BY <1>1, <2>1
  <2>3. ASSUME NEW o \in Members PROVE Pair(db', a, o)
    <3>1. o \in Recipients(db, a) =>
             /\ db.member[o].state = "ACTIVE" /\ Awaited(db, a, o)
             /\ db.member[o].approvedAt <= db.session[a].capturedAt
      BY DEF Recipients, Awaited, Participates
    <3> QED
      BY <1>2, <2>1, <2>2, <3>1 DEF Pair, Owed, Admitted, Served, Awaited, Participates, InTrip
  <2> QED
    BY <1>2, <1>4, <2>1, <2>2, <2>3
<1>7. CASE Commit(m, a)
  <2> DEFINE rows == [r \in Members |-> IF r \notin Recipients(db, a) THEN "NONE"
                                        ELSE IF r = m THEN "SAVED_LOCALLY" ELSE "READY"]
  <2>1. /\ db'.trip = db.trip /\ db'.member = db.member /\ db'.preview = db.preview
        /\ db'.asset = [db.asset EXCEPT ![a] = "COMMITTED"]
        /\ db'.delivery = [db.delivery EXCEPT ![a] = rows]
        /\ db'.session = [db.session EXCEPT ![a] = [db.session[a] EXCEPT !.state = "COMMITTED"]]
        /\ db.session[a].state = "CREATED" /\ now < HardDeleteAt
    BY <1>1, <1>7 DEF Commit, UploadOpen, MayTransfer, Install, Tables
  <2> HIDE DEF rows
  <2>2. /\ db'.asset[a] = "COMMITTED" /\ db'.delivery[a] = rows
        /\ db'.session[a] = [db.session[a] EXCEPT !.state = "COMMITTED"]
        /\ \A b \in Assets \ {a} : /\ db'.session[b] = db.session[b]
                                   /\ db'.asset[b] = db.asset[b]
                                   /\ db'.delivery[b] = db.delivery[b]
    BY <1>1, <2>1
  <2>3. /\ db'.session[a].state = "COMMITTED"
        /\ db'.session[a].createdAt = db.session[a].createdAt
        /\ db'.session[a].capturedAt = db.session[a].capturedAt
    BY <1>s, <2>2 DEF SessionRow
  <2>4. ASSUME NEW o \in Members PROVE Pair(db', a, o)
    <3>1. /\ rows[o] # "EXPIRED"
          /\ rows[o] # "NONE" <=> o \in Recipients(db, a)
      BY DEF rows
    <3>2. o \in Recipients(db, a) => db.member[o].state = "ACTIVE" /\ ~db.member[o].left
      BY DEF Recipients, Participates, InTrip
    <3>3. Owed(db', a, o) => o \in Recipients(db, a)
      <4>1. db.session[a].capturedAt \in Int /\ db.member[o].approvedAt \in Int
        BY <1>1, Cells DEF SessionRow, Row, Time
      <4> QED
        BY <2>1, <2>3, <4>1 DEF Owed, Admitted, Recipients, Awaited, Participates, InTrip
    <3>4. Served(db', a, o) => Served(db, a, o)
      BY <2>1, <2>3 DEF Served, Admitted
    <3>5. ~Served(db, a, o)
      BY <1>2, <2>1 DEF Pair
    <3>6. o \in db.preview[a] => /\ db.member[o].state = "ACTIVE"
                                 /\ db.member[o].approvedAt <= db.session[a].capturedAt
                                 /\ ~db.member[o].left => Awaited(db', a, o)
      BY <1>2, <2>1, <2>3 DEF Pair, Awaited
    <3> QED
      BY <2>1, <2>2, <2>3, <3>1, <3>2, <3>3, <3>4, <3>5, <3>6 DEF Pair
  <2> QED
    BY <1>4, <2>1, <2>2, <2>3, <2>4
<1>8. CASE Saved(m, a)
  <2> DEFINE saved == [db.delivery[a] EXCEPT ![m] = "SAVED_LOCALLY"]
  <2>1. /\ db'.trip = db.trip /\ db'.member = db.member /\ db'.preview = db.preview
        /\ db'.session = db.session
        /\ db'.delivery = [db.delivery EXCEPT ![a] = saved]
        /\ db'.asset \in {db.asset, [db.asset EXCEPT ![a] = "PURGE_PENDING"]}
        /\ db.delivery[a][m] = "READY" /\ db.asset[a] = "COMMITTED"
    BY <1>1, <1>8 DEF Saved, Install, Tables
  <2>2. /\ db'.delivery[a][m] = "SAVED_LOCALLY" /\ db'.asset[a] # "NONE"
        /\ \A o \in Members \ {m} : db'.delivery[a][o] = db.delivery[a][o]
        /\ \A b \in Assets \ {a} : /\ db'.asset[b] = db.asset[b]
                                   /\ db'.delivery[b] = db.delivery[b]
    BY <1>1, <2>1
  <2>3. ASSUME NEW o \in Members PROVE Pair(db', a, o)
    <3>1. CASE o = m
      BY <1>2, <2>1, <2>2, <3>1 DEF Pair, Owed, Admitted, Served, Awaited, Participates, InTrip
    <3>2. CASE o # m
      BY <1>2, <2>1, <2>2, <3>2 DEF Pair, Owed, Admitted, Served, Awaited, Participates, InTrip
    <3> QED
      BY <3>1, <3>2
  <2>4. db.session[a].state = "COMMITTED"
    BY <1>2, <2>1
  <2> QED
    BY <1>4, <2>1, <2>2, <2>3, <2>4
<1>9. CASE RetireAsset(a)
  <2>1. /\ db'.trip = db.trip /\ db'.member = db.member /\ db'.preview = db.preview
        /\ db'.session = db.session
        /\ db'.asset[a] \in {"PURGED", "EXPIRED"} /\ db.asset[a] # "NONE"
        /\ \A b \in Assets \ {a} : /\ db'.asset[b] = db.asset[b]
                                   /\ db'.delivery[b] = db.delivery[b]
    BY <1>1, <1>9 DEF RetireAsset, Tables
  <2>2. \A o \in Members : \/ db'.delivery[a][o] = db.delivery[a][o]
                           \/ /\ db.delivery[a][o] = "READY" /\ db'.delivery[a][o] = "EXPIRED"
                              /\ HardDeleteAt <= now
    BY <1>1, <1>9 DEF RetireAsset, Tables
  <2>3. ASSUME NEW o \in Members PROVE Pair(db', a, o)
    <3>1. CASE db'.delivery[a][o] = db.delivery[a][o]
      BY <1>2, <2>1, <3>1 DEF Pair, Owed, Admitted, Served, Awaited, Participates, InTrip
    <3>2. CASE /\ db.delivery[a][o] = "READY" /\ db'.delivery[a][o] = "EXPIRED"
               /\ HardDeleteAt <= now
      <4>1. ~(now < HardDeleteAt)
        BY <1>1, <3>2, TimeAssumption
      <4> QED
        BY <1>2, <2>1, <3>2, <4>1 DEF Pair, Awaited
    <3> QED
      BY <2>2, <3>1, <3>2
  <2>4. db.session[a].state = "COMMITTED"
    BY <1>2, <2>1
  <2> QED
    BY <1>4, <2>1, <2>3, <2>4
<1>10. CASE RetireUpload(a)
  <2>1. /\ db'.trip = db.trip /\ db'.member = db.member /\ db'.preview = db.preview
        /\ db'.asset = db.asset /\ db'.delivery = db.delivery
        /\ \A b \in Assets \ {a} : db'.session[b] = db.session[b]
        /\ db'.session[a] = [db.session[a] EXCEPT !.state = "EXPIRED"]
        /\ db.session[a].state = "CREATED" /\ HardDeleteAt <= now
    BY <1>1, <1>10 DEF RetireUpload, Tables
  <2>2. /\ db'.session[a].state = "EXPIRED"
        /\ db'.session[a].createdAt = db.session[a].createdAt
        /\ db'.session[a].capturedAt = db.session[a].capturedAt
    BY <1>s, <2>1 DEF SessionRow
  <2>3. ~(now < HardDeleteAt) /\ db.asset[a] = "NONE"
    BY <1>1, <1>2, <2>1, TimeAssumption
  <2>4. \A o \in Members : Pair(db', a, o)
    BY <1>2, <2>1, <2>2, <2>3 DEF Pair, Awaited
  <2> QED
    BY <1>4, <2>1, <2>2, <2>3, <2>4
<1> QED
  BY <1>3, <1>5, <1>6, <1>7, <1>8, <1>9, <1>10

(* The clock alone.                                                        *)
LEMMA ClockSound ==
    ASSUME TypeOK, Sound(db), UNCHANGED db, now' \in Nat, now <= now'
    PROVE  Sound(db)'
<1>1. /\ db \in Tables /\ now \in Nat
      /\ Course(db) /\ Crew(db) /\ Uploads(db) /\ \A a \in Assets, m \in Members : Pair(db, a, m)
  BY DEF TypeOK, Sound
<1>2. Course(db)'
  BY <1>1 DEF Course, InTrip, Started
<1>3. Crew(db)'
  <2>1. \A m \in Members : db.member[m].leavingAt \in Int
    BY <1>1, Columns DEF Row, Time
  <2> QED
    BY <1>1, <2>1 DEF Crew
<1>4. Uploads(db)'
  <2>1. \A a \in Assets : db.session[a].createdAt \in Int
    BY <1>1 DEF Tables, SessionRow, Time
  <2> QED
    BY <1>1, <2>1, TimeAssumption DEF Uploads, Started
<1>5. (\A a \in Assets, m \in Members : Pair(db, a, m))'
  <2> SUFFICES ASSUME NEW a \in Assets, NEW m \in Members PROVE Pair(db, a, m)'
    OBVIOUS
  <2>1. Pair(db, a, m) /\ (now' < HardDeleteAt => now < HardDeleteAt)
    BY <1>1, TimeAssumption
  <2> QED
    BY <2>1 DEF Pair, Owed, Admitted, Served, Awaited, Participates, InTrip
<1> QED
  BY <1>2, <1>3, <1>4, <1>5 DEF Sound

(* Soundness is kept by every step.                                        *)
LEMMA StepSound ==
    ASSUME TypeOK, Sound(db), [Next]_vars
    PROVE  Sound(db)'
<1>1. now \in Nat /\ Owner \in Members
  BY MembersAssumption DEF TypeOK
<1>2. ASSUME now' = now, Sound(db') PROVE Sound(db)'
  <2>1. Course(db') /\ Crew(db') /\ Uploads(db') /\ \A a \in Assets, m \in Members : Pair(db', a, m)
    BY <1>2 DEF Sound
  <2>2. Course(db)' /\ Crew(db)' /\ Uploads(db)'
    BY <1>2, <2>1 DEF Course, Crew, Uploads, InTrip, Started
  <2>3. (\A a \in Assets, m \in Members : Pair(db, a, m))'
    BY <1>2, <2>1 DEF Pair, Owed, Admitted, Served, Awaited, Participates, InTrip
  <2> QED
    BY <2>2, <2>3 DEF Sound
<1>3. CASE Tick \/ UNCHANGED vars \/ \E a \in Assets, v \in Variants : PutObject(a, v)
  BY <1>1, <1>3, ClockSound DEF Tick, vars, PutObject
<1>4. CASE Admission
  <2>1. now' = now
    BY <1>4 DEF Admission, RequestJoin, ApproveJoin, RejectJoin, StartTrip, Install
  <2> QED
    BY <1>2, <1>4, <2>1, AdmissionSound
<1>5. CASE UserCommand
  <2>1. now' = now
    BY <1>5 DEF UserCommand, EndTrip, Leave, LeaveNow, Pause, Resume, Install
  <2> QED
    BY <1>1, <1>2, <1>5, <2>1, LifecycleSound DEF UserCommand
<1>6. CASE PhoneRequest
  <2>1. PICK m \in Members :
          \/ ReadTransferState(m)
          \/ \E v \in {db.trip.version - 1, db.trip.version} : Drained(m, v)
          \/ \E a \in Assets : \/ \E c \in 0 .. now + ClockAhead : CreateUpload(m, a, c)
                               \/ RenewUpload(m, a) \/ PublishPreview(m, a)
                               \/ Commit(m, a) \/ Saved(m, a)
    BY <1>6 DEF PhoneRequest
  <2>2. {db.trip.version - 1, db.trip.version} \subseteq Int
    BY Columns DEF TypeOK, TripRow
  <2>3. now' = now
    BY <2>1 DEF ReadTransferState, Drained, CreateUpload, RenewUpload, PublishPreview, Commit,
                Saved, Install
  <2> QED
    BY <1>2, <2>1, <2>2, <2>3, LifecycleSound, MediaSound
<1>7. CASE Cleanup
  <2>1. now' = now
    BY <1>7 DEF Cleanup, Expire, RetireAsset, RetireUpload, Install
  <2> QED
    BY <1>1, <1>2, <1>7, <2>1, ExpireSound, MediaSound DEF Cleanup
<1> QED
  BY <1>3, <1>4, <1>5, <1>6, <1>7 DEF Next

(* The tables are sound in every reachable state.                          *)
THEOREM SoundInductive == Spec => []Sound(db)
<1>1. Init => Sound(db)
  <2> SUFFICES ASSUME Init PROVE Sound(db)
    OBVIOUS
  <2>1. \A m \in Members : db.member[m] =
           IF m = Owner THEN [NoMember EXCEPT !.state = "ACTIVE", !.approvedAt = 0] ELSE NoMember
    BY DEF Init
  <2>2. \A m \in Members : /\ db.member[m].leavingAt = Unset /\ ~db.member[m].left
                           /\ ~db.member[m].incomplete
                           /\ db.member[m].state # "PENDING_KEY"
    <3> DEFINE host == [NoMember EXCEPT !.state = "ACTIVE", !.approvedAt = 0]
    <3>1. /\ NoMember.leavingAt = Unset /\ ~NoMember.left /\ ~NoMember.incomplete
          /\ NoMember.state # "PENDING_KEY"
      BY DEF NoMember
    <3>2. /\ host.leavingAt = Unset /\ ~host.left /\ ~host.incomplete
          /\ host.state # "PENDING_KEY"
      BY DEF NoMember
    <3>3. \A m \in Members : db.member[m] = IF m = Owner THEN host ELSE NoMember
      BY <2>1
    <3> HIDE DEF host
    <3> QED
      BY <3>1, <3>2, <3>3
  <2>3. Course(db) /\ Crew(db)
    BY <2>2 DEF Init, Course, Crew, Started, Terminal, Unset
  <2>4. Uploads(db) /\ \A a \in Assets, m \in Members : Pair(db, a, m)
    BY <2>2 DEF Init, Uploads, Pair, Served, Admitted, NoSession
  <2> QED
    BY <2>3, <2>4 DEF Sound
<1>2. TypeOK /\ Sound(db) /\ [Next]_vars => Sound(db)'
  BY StepSound
<1> QED
  BY <1>1, <1>2, TypeCorrect, PTL DEF Spec

(* A member who left by finishing missed nothing: whatever was taken and   *)
(* shared between its approval and its departure is in its gallery, in     *)
(* whatever order uploads, departures, ends and waivers came.              *)
THEOREM GracefulLeaversMissNothing == Spec => []GracefulLeaverMissesNothing
<1>1. Sound(db) => GracefulLeaverMissesNothing
  <2> SUFFICES ASSUME Sound(db), NEW m \in Members, NEW a \in Assets,
                      db.member[m].left, ~db.member[m].incomplete, now < HardDeleteAt,
                      db.asset[a] # "NONE", db.member[m].approvedAt # Unset,
                      Admitted(db, a, m), db.session[a].createdAt < db.member[m].leavingAt
               PROVE  db.delivery[a][m] = "SAVED_LOCALLY"
    BY DEF GracefulLeaverMissesNothing, Admitted
  <2>1. Pair(db, a, m) /\ db.session[a].state # "NONE"
    BY DEF Sound, Uploads
  <2> QED
    BY <2>1 DEF Pair, Served, Admitted
<1> QED
  BY <1>1, SoundInductive, PTL

(* Before the hard deadline a trip is COMPLETE only if every delivery it   *)
(* ever made is a receipt and nobody was marked incomplete: a forced       *)
(* departure or a waived delivery keeps the trip from that state.          *)
THEOREM CompletionIsHonest == Spec => []HonestCompletion
<1>1. TypeOK /\ Sound(db) => HonestCompletion
  <2> SUFFICES ASSUME TypeOK, Sound(db), db.trip.state = "COMPLETE", now < HardDeleteAt,
                      NEW m \in Members
               PROVE  /\ ~db.member[m].incomplete
                      /\ \A a \in Assets : db.delivery[a][m] \in {"NONE", "SAVED_LOCALLY"}
    BY DEF HonestCompletion
  <2>1. ~db.member[m].incomplete /\ m \notin InTrip(db)
    BY DEF Sound, Course, Terminal
  <2>2. ASSUME NEW a \in Assets PROVE db.delivery[a][m] \in {"NONE", "SAVED_LOCALLY"}
    <3>1. Pair(db, a, m) /\ db.delivery[a][m] \in DeliveryState
      BY Cells DEF Sound, TypeOK
    <3>2. db.delivery[a][m] # "EXPIRED"
      BY <2>1, <3>1 DEF Pair
    <3>3. db.delivery[a][m] # "READY"
      BY <2>1, <3>1 DEF Pair, InTrip
    <3> QED
      BY <3>1, <3>2, <3>3 DEF DeliveryState
  <2> QED
    BY <2>1, <2>2
<1> QED
  BY <1>1, TypeCorrect, SoundInductive, PTL

(* Whoever was shown a preview and still takes part when the photo is      *)
(* committed is sent the original: the two fan-outs, computed at different *)
(* times, agree on it.                                                     *)
THEOREM PreviewsHonoured == Spec => []PreviewsAreHonoured
<1>1. Sound(db) => PreviewsAreHonoured
  <2> SUFFICES ASSUME Sound(db), NEW a \in Assets, NEW m \in Members,
                      db.asset[a] = "COMMITTED", m \in db.preview[a], Participates(db, m),
                      db.member[m].approvedAt < db.session[a].createdAt
               PROVE  db.delivery[a][m] # "NONE"
    BY DEF PreviewsAreHonoured
  <2>1. Pair(db, a, m) /\ ~db.member[m].left
    BY DEF Sound, Participates, InTrip
  <2>2. Owed(db, a, m)
    BY <2>1 DEF Pair, Owed, Admitted
  <2> QED
    BY <2>1, <2>2 DEF Pair
<1> QED
  BY <1>1, SoundInductive, PTL
=============================================================================
