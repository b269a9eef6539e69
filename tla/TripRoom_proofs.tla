-------------------------- MODULE TripRoom_proofs --------------------------
(***************************************************************************)
(* Proofs about TripRoom, for every set of accounts, phones and photos,    *)
(* every bound on what is sent and lost, and any number of seats and uses. *)
(***************************************************************************)
EXTENDS TripRoom, TLAPS

States == {"LOBBY", "ACTIVE", "ENDING", "OVER"}
Deliveries == {"NONE", "READY", "SAVED", "EXPIRED"}
Ids == Phones \X Nat

Rooms ==
  [state : States, past : BOOLEAN, version : Nat \ {0},
   member : [Users -> Memberships],
   envelope : [Phones -> Envelopes \cup {None}],
   request : [Phones -> Requests],
   revoked : SUBSET Phones, uses : Nat, saved : BOOLEAN, done : SUBSET Ids,
   covers : [Assets -> SUBSET Users],
   delivery : [Assets -> [Phones -> Deliveries]]]

Rosters == [Users -> Memberships \cup {None}]
Views == [version : Nat, state : States, roster : Rosters]

Commands ==
  [id : Ids,
   kind : {"JOIN", "APPROVE", "REJECT", "READINESS", "START", "SAVE_INVITE",
           "REQUEST", "RESOLVE"},
   by : Phones, about : Users \cup Phones \cup {None},
   value : Phones \cup BOOLEAN \cup {None},
   saw : Rosters \cup {None}, version : Nat]

(* A command names what its kind is about.                                 *)
WellFormed(c) ==
  /\ c.kind \in {"APPROVE", "REJECT"} => c.about \in Users
  /\ c.kind = "APPROVE" => c.value \in Phones
  /\ c.kind \in {"READINESS", "RESOLVE"} => c.value \in BOOLEAN
  /\ c.kind = "RESOLVE" => c.about \in Phones

Issued == {c \in Commands : WellFormed(c)}

Clients ==
  [journal : Issued \cup {None}, joining : Issued \cup {None},
   waiting : Issued \cup {None}, told : BOOLEAN \cup {None},
   dropped : SUBSET Issued, sent : Nat, lost : Nat]

(* The copies of a phone's commands that may still be sent or arrive.      *)
Held(me) == {me.journal, me.joining, me.waiting}

(* What was seen at a version is what the room holds while that version is *)
(* current.                                                                *)
Timely(r, version, roster) ==
  /\ version <= r.version
  /\ version = r.version => roster = Roster(r)

TimelyCommand(r, c) ==
  c # None /\ c.kind = "START" => Timely(r, c.version, c.saw)

(* Envelopes and memberships agree: whoever has a row uses a phone of its  *)
(* own, an active member's phone has an envelope, and no phone has one     *)
(* before its account is approved.                                         *)
Sealed(r) ==
  /\ \A u \in Users : r.member[u].state # "NONE" =>
       r.member[u].phone \in Phones /\ UserOf[r.member[u].phone] = u
  /\ \A u \in Users : r.member[u].state = "ACTIVE" =>
       r.envelope[r.member[u].phone] # None
  /\ \A p \in Phones : r.envelope[p] # None =>
       r.member[UserOf[p]].state \in {"ACTIVE", "LEFT"}

RoomOK(r) == r \in Rooms /\ Sealed(r)

Typed ==
  /\ client \in [Phones -> Clients]
  /\ late \in SUBSET Issued
  /\ shown \in [Phones -> Views \cup {None}]
  /\ keys \in SUBSET Phones
  /\ limit \in Limits
  /\ \A p \in Phones : /\ client[p].sent <= limit.sent[p]
                       /\ client[p].lost <= limit.lost[p]

InTime ==
  /\ None \notin late
  /\ \A c \in late : TimelyCommand(room, c)
  /\ \A p \in Phones : \A c \in Held(client[p]) : TimelyCommand(room, c)
  /\ \A p \in Phones : shown[p] # None =>
       Timely(room, shown[p].version, shown[p].roster)

RoomInv == RoomOK(room) /\ Typed /\ InTime

(* From r to x: the version grows whenever the roster changes, and the     *)
(* state becomes ACTIVE only as started says.                              *)
Moves(r, x, started) ==
  /\ RoomOK(x)
  /\ x.version >= r.version
  /\ x.version = r.version => Roster(x) = Roster(r)
  /\ r.state = "LOBBY" /\ x.state = "ACTIVE" =>
       started /\ Roster(x) = Roster(r)

-----------------------------------------------------------------------------
(* A command that answers OK met none of its problems, of which there are  *)
(* never more than eight.                                                  *)
LEMMA NoProblem ==
  ASSUME NEW n \in 1..8, NEW tests, DOMAIN tests = 1..n,
         \A i \in 1..n : tests[i][1] => tests[i][2] # "OK",
         FirstProblem(tests) = "OK"
  PROVE  \A i \in 1..n : ~tests[i][1]
<1> DEFINE First1(m) == /\ tests[m][1]
                        /\ \A j \in 1..(m - 1) : ~tests[j][1]
           Decided(k) == \/ \A j \in 1..k : ~tests[j][1]
                         \/ \E m \in 1..k : First1(m)
<1>1. Decided(0)
  OBVIOUS
<1>2. ASSUME NEW k \in 1..n, Decided(k - 1)
      PROVE  Decided(k)
  <2>1. CASE \E m \in 1..(k - 1) : First1(m)
    BY <2>1
  <2>2. CASE \A j \in 1..(k - 1) : ~tests[j][1]
    BY <2>2
  <2> QED
    BY <1>2, <2>1, <2>2
<1>3. Decided(n)
  <2> HIDE DEF Decided
  <2>1. \A k \in 1..n : Decided(k - 1) => Decided(k)
    BY <1>2
  <2>2. Decided(1) /\ (n >= 2 => Decided(2)) /\ (n >= 3 => Decided(3))
    BY <1>1, <2>1
  <2>3. (n >= 4 => Decided(4)) /\ (n >= 5 => Decided(5)) /\ (n >= 6 => Decided(6))
    BY <2>1, <2>2
  <2>4. (n >= 7 => Decided(7)) /\ (n >= 8 => Decided(8))
    BY <2>1, <2>3
  <2> QED
    BY <2>2, <2>3, <2>4
<1>4. CASE \E m \in 1..n : First1(m)
  <2>1. PICK m \in 1..n : First1(m) /\ FirstProblem(tests) = tests[m][2]
    BY <1>4 DEF FirstProblem
  <2> QED
    BY <2>1
<1> QED
  BY <1>3, <1>4

-----------------------------------------------------------------------------
(* What each command that answers OK has been found to satisfy.            *)

(* The caller is an active member on the phone it uses.                    *)
LEMMA CallerPassed ==
  ASSUME NEW r, NEW c, CallerProblem(r, c) = "OK"
  PROVE  /\ c.by \notin r.revoked
         /\ r.member[UserOf[c.by]].state = "ACTIVE"
         /\ r.member[UserOf[c.by]].phone = c.by
<1> DEFINE m == r.member[UserOf[c.by]]
           tests == <<
         <<c.by \in r.revoked, "DEVICE_REVOKED">>,
         <<m.state # "ACTIVE", "NOT_FOUND">>,
         <<m.phone # c.by, "DEVICE_NOT_PARTICIPANT">>,
         <<c.kind # "READINESS" /\ UserOf[c.by] # Host, "TRIP_OWNER_REQUIRED">> >>
<1>1. FirstProblem(tests) = "OK"
  BY DEF CallerProblem
<1>2. ~tests[1][1] /\ ~tests[2][1] /\ ~tests[3][1]
  <2>1. DOMAIN tests = 1..4
    OBVIOUS
  <2>2. /\ tests[1][1] => tests[1][2] # "OK"
        /\ tests[2][1] => tests[2][2] # "OK"
        /\ tests[3][1] => tests[3][2] # "OK"
        /\ tests[4][1] => tests[4][2] # "OK"
    OBVIOUS
  <2>3. 1..4 = {1, 2, 3, 4}
    OBVIOUS
  <2> HIDE DEF tests
  <2> QED
    BY <1>1, <2>1, <2>2, <2>3, NoProblem
<1> QED
  BY <1>2

(* Only an account without a row joins, from a phone that is not revoked.  *)
LEMMA JoinPassed ==
  ASSUME NEW r, NEW c, JoinProblem(r, c) = "OK"
  PROVE  /\ c.by \notin r.revoked
         /\ r.member[UserOf[c.by]].state = "NONE"
<1> DEFINE tests == <<
         <<c.by \in r.revoked, "DEVICE_REVOKED">>,
         <<~InviteLive(r), "INVITE_INVALID">>,
         <<r.member[UserOf[c.by]].state \notin {"NONE", "LEFT"}, "CONFLICT">>,
         <<Cardinality(Seated(r)) >= MaxMembers, "TRIP_FULL">>,
         <<Host \notin Members(r) \/ r.member[Host].phone \in r.revoked, "INTERNAL_ERROR">>,
         <<r.member[UserOf[c.by]].state = "LEFT", "CONFLICT">> >>
<1>1. FirstProblem(tests) = "OK"
  BY DEF JoinProblem
<1>2. ~tests[1][1] /\ ~tests[3][1] /\ ~tests[6][1]
  <2>1. DOMAIN tests = 1..6
    OBVIOUS
  <2>2. /\ tests[1][1] => tests[1][2] # "OK"
        /\ tests[2][1] => tests[2][2] # "OK"
        /\ tests[3][1] => tests[3][2] # "OK"
        /\ tests[4][1] => tests[4][2] # "OK"
        /\ tests[5][1] => tests[5][2] # "OK"
        /\ tests[6][1] => tests[6][2] # "OK"
    OBVIOUS
  <2>3. 1..6 = {1, 2, 3, 4, 5, 6}
    OBVIOUS
  <2> HIDE DEF tests
  <2> QED
    BY <1>1, <2>1, <2>2, <2>3, NoProblem
<1> QED
  BY <1>2

(* Only a pending membership is approved.                                  *)
LEMMA ApprovePassed ==
  ASSUME NEW r, NEW c, ApproveProblem(r, c) = "OK"
  PROVE  r.member[c.about].state = "PENDING"
<1> DEFINE m == r.member[c.about]
           tests == <<
         <<CallerProblem(r, c) # "OK", CallerProblem(r, c)>>,
         <<r.past, "TRIP_STATE_CONFLICT">>,
         <<r.state \notin {"LOBBY", "ACTIVE"}, "MEMBERSHIP_FROZEN">>,
         <<m.state = "NONE", "NOT_FOUND">>,
         <<m.state # "PENDING", "CONFLICT">>,
         <<m.phone \in r.revoked, "DEVICE_REVOKED">>,
         <<m.state = "PENDING" /\ r.envelope[m.phone] # None, "INTERNAL_ERROR">> >>
<1>1. FirstProblem(tests) = "OK"
  BY DEF ApproveProblem
<1>2. ~tests[5][1]
  <2>1. DOMAIN tests = 1..7
    OBVIOUS
  <2>2. /\ tests[1][1] => tests[1][2] # "OK"
        /\ tests[2][1] => tests[2][2] # "OK"
        /\ tests[3][1] => tests[3][2] # "OK"
        /\ tests[4][1] => tests[4][2] # "OK"
        /\ tests[5][1] => tests[5][2] # "OK"
        /\ tests[6][1] => tests[6][2] # "OK"
        /\ tests[7][1] => tests[7][2] # "OK"
    OBVIOUS
  <2>3. 1..7 = {1, 2, 3, 4, 5, 6, 7}
    OBVIOUS
  <2> HIDE DEF tests
  <2> QED
    BY <1>1, <2>1, <2>2, <2>3, NoProblem
<1> QED
  BY <1>2

(* Only a pending membership is refused.                                   *)
LEMMA RejectPassed ==
  ASSUME NEW r, NEW c, RejectProblem(r, c) = "OK"
  PROVE  r.member[c.about].state = "PENDING"
<1> DEFINE m == r.member[c.about]
           tests == <<
         <<CallerProblem(r, c) # "OK", CallerProblem(r, c)>>,
         <<r.past, "TRIP_STATE_CONFLICT">>,
         <<r.state \notin {"LOBBY", "ACTIVE"}, "MEMBERSHIP_FROZEN">>,
         <<m.state = "NONE", "NOT_FOUND">>,
         <<m.state # "PENDING", "CONFLICT">> >>
<1>1. FirstProblem(tests) = "OK"
  BY DEF RejectProblem
<1>2. ~tests[5][1]
  <2>1. DOMAIN tests = 1..5
    OBVIOUS
  <2>2. /\ tests[1][1] => tests[1][2] # "OK"
        /\ tests[2][1] => tests[2][2] # "OK"
        /\ tests[3][1] => tests[3][2] # "OK"
        /\ tests[4][1] => tests[4][2] # "OK"
        /\ tests[5][1] => tests[5][2] # "OK"
    OBVIOUS
  <2>3. 1..5 = {1, 2, 3, 4, 5}
    OBVIOUS
  <2> HIDE DEF tests
  <2> QED
    BY <1>1, <2>1, <2>2, <2>3, NoProblem
<1> QED
  BY <1>2

(* Readiness is set by an active member before the trip ends.              *)
LEMMA ReadinessPassed ==
  ASSUME NEW r, NEW c, ReadinessProblem(r, c) = "OK"
  PROVE  /\ c.by \notin r.revoked
         /\ r.member[UserOf[c.by]].state = "ACTIVE"
         /\ r.member[UserOf[c.by]].phone = c.by
         /\ r.state \in {"LOBBY", "ACTIVE"}
<1> DEFINE tests == <<
         <<CallerProblem(r, c) # "OK", CallerProblem(r, c)>>,
         <<r.past, "TRIP_STATE_CONFLICT">>,
         <<r.state \notin {"LOBBY", "ACTIVE"}, "MEMBERSHIP_FROZEN">> >>
<1>1. FirstProblem(tests) = "OK"
  BY DEF ReadinessProblem
<1>2. ~tests[1][1] /\ ~tests[3][1]
  <2>1. DOMAIN tests = 1..3
    OBVIOUS
  <2>2. /\ tests[1][1] => tests[1][2] # "OK"
        /\ tests[2][1] => tests[2][2] # "OK"
        /\ tests[3][1] => tests[3][2] # "OK"
    OBVIOUS
  <2>3. 1..3 = {1, 2, 3}
    OBVIOUS
  <2> HIDE DEF tests
  <2> QED
    BY <1>1, <2>1, <2>2, <2>3, NoProblem
<1> QED
  BY <1>2, CallerPassed

(* A trip is started from its lobby, at the version the command names.     *)
LEMMA StartPassed ==
  ASSUME NEW r, NEW c, StartProblem(r, c) = "OK"
  PROVE  r.state = "LOBBY" /\ c.version = r.version
<1> DEFINE tests == <<
         <<CallerProblem(r, c) # "OK", CallerProblem(r, c)>>,
         <<r.state # "LOBBY", "TRIP_STATE_CONFLICT">>,
         <<c.version # r.version, "VERSION_CONFLICT">>,
         <<Seated(r) # Members(r), "PENDING_JOIN_REQUESTS">>,
         <<~KeyDirectoryComplete(r), "KEY_ENVELOPE_MISSING">>,
         <<\E u \in Seated(r) : r.member[u].phone \in r.revoked, "DEVICE_REVOKED">>,
         <<\E u \in Seated(r) : ~r.member[u].ready,
           "PHOTO_LIBRARY_ACCESS_REQUIRED">> >>
<1>1. FirstProblem(tests) = "OK"
  BY DEF StartProblem
<1>2. ~tests[2][1] /\ ~tests[3][1]
  <2>1. DOMAIN tests = 1..7
    OBVIOUS
  <2>2. /\ tests[1][1] => tests[1][2] # "OK"
        /\ tests[2][1] => tests[2][2] # "OK"
        /\ tests[3][1] => tests[3][2] # "OK"
        /\ tests[4][1] => tests[4][2] # "OK"
        /\ tests[5][1] => tests[5][2] # "OK"
        /\ tests[6][1] => tests[6][2] # "OK"
        /\ tests[7][1] => tests[7][2] # "OK"
    OBVIOUS
  <2>3. 1..7 = {1, 2, 3, 4, 5, 6, 7}
    OBVIOUS
  <2> HIDE DEF tests
  <2> QED
    BY <1>1, <2>1, <2>2, <2>3, NoProblem
<1> QED
  BY <1>2

(* Whoever changes a trip's continuity holds a seat in it.                 *)
LEMMA ContinuityPassed ==
  ASSUME NEW r, NEW c, ContinuityProblem(r, c) = "OK"
  PROVE  /\ c.by \notin r.revoked
         /\ r.member[UserOf[c.by]].state \in {"PENDING", "ACTIVE"}
<1> DEFINE m == r.member[UserOf[c.by]]
           tests == <<
         <<c.by \in r.revoked, "AUTH_INVALID">>,
         <<m.state \notin {"PENDING", "ACTIVE"}, "NOT_FOUND">>,
         <<~Open(r) \/ (m.state = "PENDING" /\ c.kind # "REQUEST"),
           "TRIP_STATE_CONFLICT">> >>
<1>1. FirstProblem(tests) = "OK"
  BY DEF ContinuityProblem
<1>2. ~tests[1][1] /\ ~tests[2][1]
  <2>1. DOMAIN tests = 1..3
    OBVIOUS
  <2>2. /\ tests[1][1] => tests[1][2] # "OK"
        /\ tests[2][1] => tests[2][2] # "OK"
        /\ tests[3][1] => tests[3][2] # "OK"
    OBVIOUS
  <2>3. 1..3 = {1, 2, 3}
    OBVIOUS
  <2> HIDE DEF tests
  <2> QED
    BY <1>1, <2>1, <2>2, <2>3, NoProblem
<1> QED
  BY <1>2

(* So does whoever asks for a phone.                                       *)
LEMMA RequestPassed ==
  ASSUME NEW r, NEW c, RequestProblem(r, c) = "OK"
  PROVE  /\ c.by \notin r.revoked
         /\ r.member[UserOf[c.by]].state \in {"PENDING", "ACTIVE"}
<1> DEFINE tests == <<
         <<ContinuityProblem(r, c) # "OK", ContinuityProblem(r, c)>>,
         <<~AlreadyAsked(r, c) /\ c.version # r.version, "VERSION_CONFLICT">> >>
<1>1. FirstProblem(tests) = "OK"
  BY DEF RequestProblem
<1>2. ~tests[1][1]
  <2>1. DOMAIN tests = 1..2
    OBVIOUS
  <2>2. /\ tests[1][1] => tests[1][2] # "OK"
        /\ tests[2][1] => tests[2][2] # "OK"
    OBVIOUS
  <2>3. 1..2 = {1, 2}
    OBVIOUS
  <2> HIDE DEF tests
  <2> QED
    BY <1>1, <2>1, <2>2, <2>3, NoProblem
<1> QED
  BY <1>2, ContinuityPassed

(* A phone is replaced for an active member still on the phone its request *)
(* was made from.                                                          *)
LEMMA ResolvePassed ==
  ASSUME NEW r, NEW c, ResolveProblem(r, c) = "OK",
         ~AlreadyResolved(r, c)
  PROVE  /\ r.request[c.about].state = "PENDING"
         /\ c.about \notin r.revoked
         /\ r.member[UserOf[c.about]].state = "ACTIVE"
         /\ r.member[UserOf[c.about]].phone = r.request[c.about].previous
<1> DEFINE m == r.member[UserOf[c.about]]
           tests == <<
         <<ContinuityProblem(r, c) # "OK", ContinuityProblem(r, c)>>,
         <<AlreadyResolved(r, c), "OK">>,
         <<c.version # r.version, "VERSION_CONFLICT">>,
         <<~Nominated(r, c.by), "DEVICE_NOT_PARTICIPANT">>,
         <<r.request[c.about].state # "PENDING", "CONFLICT">>,
         <<~MayResolve(c), "TRIP_OWNER_REQUIRED">>,
         <<m.state # "ACTIVE" \/ m.phone # r.request[c.about].previous, "CONFLICT">>,
         <<c.about \in r.revoked, "DEVICE_REVOKED">> >>
<1>1. FirstProblem(tests) = "OK"
  BY DEF ResolveProblem
<1>2. ~tests[5][1] /\ ~tests[7][1] /\ ~tests[8][1]
  <2>1. DOMAIN tests = 1..8
    OBVIOUS
  <2>2. /\ tests[1][1] => tests[1][2] # "OK"
        /\ tests[2][1] => tests[2][2] # "OK"
        /\ tests[3][1] => tests[3][2] # "OK"
        /\ tests[4][1] => tests[4][2] # "OK"
        /\ tests[5][1] => tests[5][2] # "OK"
        /\ tests[6][1] => tests[6][2] # "OK"
        /\ tests[7][1] => tests[7][2] # "OK"
        /\ tests[8][1] => tests[8][2] # "OK"
    OBVIOUS
  <2>3. 1..8 = {1, 2, 3, 4, 5, 6, 7, 8}
    OBVIOUS
  <2> HIDE DEF tests
  <2> QED
    BY <1>1, <2>1, <2>2, <2>3, NoProblem
<1> QED
  BY <1>2

-----------------------------------------------------------------------------
(* Each command that passes leaves sound rows and moves the version.       *)

(* The roster is a function of the memberships.                            *)
LEMMA RosterFollows ==
  ASSUME NEW r, NEW x, x.member = r.member
  PROVE  Roster(x) = Roster(r)
  BY DEF Roster, Seated

(* What the fields of a sound room hold.                                   *)
LEMMA Fields ==
  ASSUME NEW r \in Rooms
  PROVE  /\ r.version \in Nat \ {0} /\ r.state \in States
         /\ r.member \in [Users -> Memberships]
         /\ \A u \in Users : r.member[u] \in Memberships
         /\ r.envelope \in [Phones -> Envelopes \cup {None}]
         /\ r.request \in [Phones -> Requests]
         /\ \A p \in Phones : r.request[p] \in Requests
         /\ r.revoked \in SUBSET Phones /\ r.done \in SUBSET Ids
         /\ r.uses \in Nat
         /\ r.delivery \in [Assets -> [Phones -> Deliveries]]
  BY DEF Rooms

(* requestJoin gives a row to an account that had none.                    *)
LEMMA JoinMoves ==
  ASSUME NEW r, RoomOK(r), NEW c \in Issued, JoinProblem(r, c) = "OK"
  PROVE  Moves(r, Join(r, c), FALSE)
<1> DEFINE u == UserOf[c.by]
           row == [state |-> "PENDING", phone |-> c.by, ready |-> FALSE]
           x == Join(r, c)
<1>1. /\ c.by \in Phones /\ u \in Users /\ c.id \in Ids
  BY RoomAssumption DEF Issued, Commands
<1>2. r.member[u].state = "NONE"
  BY JoinPassed
<1>3. /\ r \in Rooms /\ Sealed(r)
  BY DEF RoomOK
<1>4. /\ x = [r EXCEPT !.member = [r.member EXCEPT ![u] = row],
                       !.uses = r.uses + 1, !.version = r.version + 1,
                       !.done = r.done \cup {c.id}]
  BY <1>3 DEF Join, Keep, Bump, Rooms
<1> HIDE DEF x
<1>5. row \in Memberships
  BY <1>1 DEF Memberships
<1>6. /\ x.member = [r.member EXCEPT ![u] = row]
      /\ x.envelope = r.envelope /\ x.state = r.state
      /\ x.version = r.version + 1
  BY <1>3, <1>4 DEF Rooms
<1>7. x \in Rooms
  <2>1. /\ x.member \in [Users -> Memberships]
        /\ x.uses \in Nat /\ x.version \in Nat \ {0} /\ x.done \in SUBSET Ids
    BY <1>1, <1>3, <1>4, <1>5, Fields DEF Rooms
  <2> HIDE DEF row
  <2> QED
    BY <1>3, <1>4, <2>1 DEF Rooms
<1>8. Sealed(x)
  BY <1>1, <1>2, <1>3, <1>6, Fields, RoomAssumption DEF Sealed, Memberships
<1> QED
  BY <1>3, <1>6, <1>7, <1>8, Fields DEF Moves, RoomOK, x

(* approveJoinRequest gives the phone of a pending member its envelope.    *)
LEMMA ApproveMoves ==
  ASSUME NEW r, RoomOK(r), NEW c \in Issued, c.kind = "APPROVE",
         ApproveProblem(r, c) = "OK"
  PROVE  Moves(r, Approve(r, c), FALSE)
<1> DEFINE u == c.about
           row == [r.member[u] EXCEPT !.state = "ACTIVE"]
           p == r.member[u].phone
           e == [sender |-> c.by, sealedFor |-> c.value]
           x == Approve(r, c)
<1>1. /\ c.by \in Phones /\ u \in Users /\ c.id \in Ids /\ c.value \in Phones
  BY DEF Issued, Commands, WellFormed
<1>2. r.member[u].state = "PENDING"
  BY ApprovePassed
<1>3. /\ r \in Rooms /\ Sealed(r) /\ r.member[u] \in Memberships
  BY <1>1, Fields DEF RoomOK
<1>4. /\ p \in Phones /\ UserOf[p] = u
      /\ \A q \in Phones : UserOf[q] = u => r.envelope[q] = None
  BY <1>1, <1>2, <1>3 DEF Sealed
<1>5. /\ e \in Envelopes /\ e # None
  BY <1>1, RoomAssumption DEF Envelopes
<1>6. /\ row \in Memberships /\ row.state = "ACTIVE"
      /\ row.phone = p
  BY <1>3 DEF Memberships
<1> HIDE DEF e, row, p
<1>7. /\ x = [r EXCEPT !.member = [r.member EXCEPT ![u] = row],
                       !.envelope = [r.envelope EXCEPT ![p] = e],
                       !.version = r.version + 1,
                       !.done = r.done \cup {c.id}]
  BY <1>1, <1>3 DEF Approve, Keep, Bump, Rooms, e, row, p
<1> HIDE DEF x
<1>8. /\ x.member = [r.member EXCEPT ![u] = row]
      /\ x.envelope = [r.envelope EXCEPT ![p] = e] /\ x.state = r.state
      /\ x.version = r.version + 1 /\ x.done = r.done \cup {c.id}
  BY <1>3, <1>7 DEF Rooms
<1>9. x \in Rooms
  <2>1. /\ x.member \in [Users -> Memberships]
        /\ x.version \in Nat \ {0} /\ x.done \in SUBSET Ids
    BY <1>1, <1>3, <1>6, <1>8, Fields
  <2>2. x.envelope \in [Phones -> Envelopes \cup {None}]
    BY <1>3, <1>4, <1>5, <1>8, Fields
  <2> QED
    BY <1>3, <1>7, <2>1, <2>2 DEF Rooms
<1>10. Sealed(x)
  <2>1. \A v \in Users : x.member[v] = IF v = u THEN row ELSE r.member[v]
    BY <1>1, <1>3, <1>8, Fields
  <2>2. \A q \in Phones : x.envelope[q] = IF q = p THEN e ELSE r.envelope[q]
    BY <1>3, <1>4, <1>8, Fields
  <2> QED
    BY <1>1, <1>3, <1>4, <1>5, <1>6, <2>1, <2>2, RoomAssumption DEF Sealed
<1> QED
  BY <1>3, <1>8, <1>9, <1>10, Fields DEF Moves, RoomOK, x

(* rejectJoinRequest refuses a pending member, whose phone has no envelope. *)
LEMMA RejectMoves ==
  ASSUME NEW r, RoomOK(r), NEW c \in Issued, c.kind = "REJECT",
         RejectProblem(r, c) = "OK"
  PROVE  Moves(r, Reject(r, c), FALSE)
<1> DEFINE u == c.about
           row == [r.member[u] EXCEPT !.state = "REJECTED"]
           x == Reject(r, c)
<1>1. u \in Users /\ c.id \in Ids
  BY DEF Issued, Commands, WellFormed
<1>2. r.member[u].state = "PENDING"
  BY RejectPassed
<1>3. /\ r \in Rooms /\ Sealed(r) /\ r.member[u] \in Memberships
  BY <1>1, Fields DEF RoomOK
<1>4. /\ row \in Memberships /\ row.state = "REJECTED"
      /\ row.phone = r.member[u].phone
  BY <1>3 DEF Memberships
<1> HIDE DEF row
<1>5. x = [r EXCEPT !.member = [r.member EXCEPT ![u] = row],
                    !.version = r.version + 1, !.done = r.done \cup {c.id}]
  BY <1>1, <1>3 DEF Reject, Keep, Bump, Rooms, row
<1> HIDE DEF x
<1>6. /\ x.member = [r.member EXCEPT ![u] = row]
      /\ x.envelope = r.envelope /\ x.state = r.state
      /\ x.version = r.version + 1 /\ x.done = r.done \cup {c.id}
  BY <1>3, <1>5 DEF Rooms
<1>7. x \in Rooms
  <2>1. /\ x.member \in [Users -> Memberships]
        /\ x.version \in Nat \ {0} /\ x.done \in SUBSET Ids
    BY <1>1, <1>3, <1>4, <1>6, Fields
  <2> QED
    BY <1>3, <1>5, <2>1 DEF Rooms
<1>8. Sealed(x)
  <2>1. \A v \in Users : x.member[v] = IF v = u THEN row ELSE r.member[v]
    BY <1>1, <1>3, <1>6, Fields
  <2> QED
    BY <1>1, <1>2, <1>3, <1>4, <1>6, <2>1, RoomAssumption DEF Sealed
<1> QED
  BY <1>3, <1>6, <1>7, <1>8, Fields DEF Moves, RoomOK, x

(* setTripReadiness changes one flag, or nothing.                          *)
LEMMA ReadinessMoves ==
  ASSUME NEW r, RoomOK(r), NEW c \in Issued, c.kind = "READINESS",
         ReadinessProblem(r, c) = "OK"
  PROVE  Moves(r, SetReadiness(r, c), FALSE)
<1> DEFINE u == UserOf[c.by]
           row == [r.member[u] EXCEPT !.ready = c.value]
           x == SetReadiness(r, c)
<1>1. u \in Users /\ c.id \in Ids /\ c.value \in BOOLEAN
  BY RoomAssumption DEF Issued, Commands, WellFormed
<1>2. /\ r \in Rooms /\ Sealed(r) /\ r.member[u] \in Memberships
  BY <1>1, Fields DEF RoomOK
<1>3. /\ row \in Memberships /\ row.state = r.member[u].state
      /\ row.phone = r.member[u].phone
  BY <1>1, <1>2 DEF Memberships
<1> HIDE DEF row
<1>4. CASE r.member[u].ready = c.value
  <2>1. x = [r EXCEPT !.done = r.done \cup {c.id}]
    BY <1>4 DEF SetReadiness, Keep
  <2> HIDE DEF x
  <2>2. /\ x.member = r.member /\ x.envelope = r.envelope /\ x.state = r.state
        /\ x.version = r.version /\ x.done = r.done \cup {c.id}
    BY <1>2, <2>1 DEF Rooms
  <2>3. x \in Rooms
    <3>1. x.done \in SUBSET Ids
      BY <1>1, <1>2, <2>2, Fields
    <3> QED
      BY <1>2, <2>1, <3>1 DEF Rooms
  <2>4. Sealed(x)
    BY <1>2, <2>2 DEF Sealed
  <2> QED
    BY <1>2, <2>2, <2>3, <2>4, Fields, RosterFollows DEF Moves, RoomOK, x
<1>5. CASE r.member[u].ready # c.value
  <2>1. x = [r EXCEPT !.member = [r.member EXCEPT ![u] = row],
                      !.version = r.version + 1, !.done = r.done \cup {c.id}]
    BY <1>1, <1>2, <1>5 DEF SetReadiness, Keep, Bump, Rooms, row
  <2> HIDE DEF x
  <2>2. /\ x.member = [r.member EXCEPT ![u] = row]
        /\ x.envelope = r.envelope /\ x.state = r.state
        /\ x.version = r.version + 1 /\ x.done = r.done \cup {c.id}
    BY <1>2, <2>1 DEF Rooms
  <2>3. x \in Rooms
    <3>1. /\ x.member \in [Users -> Memberships]
          /\ x.version \in Nat \ {0} /\ x.done \in SUBSET Ids
      BY <1>1, <1>2, <1>3, <2>2, Fields
    <3> QED
      BY <1>2, <2>1, <3>1 DEF Rooms
  <2>4. Sealed(x)
    <3>1. \A v \in Users : x.member[v] = IF v = u THEN row ELSE r.member[v]
      BY <1>1, <1>2, <2>2, Fields
    <3> QED
      BY <1>1, <1>2, <1>3, <2>2, <3>1 DEF Sealed
  <2> QED
    BY <1>2, <2>2, <2>3, <2>4, Fields DEF Moves, RoomOK, x
<1> QED
  BY <1>4, <1>5

(* startTrip changes the state and no membership.                          *)
LEMMA StartMoves ==
  ASSUME NEW r, RoomOK(r), NEW c \in Issued
  PROVE  Moves(r, Start(r, c), TRUE)
<1> DEFINE x == Start(r, c)
<1>1. r \in Rooms /\ Sealed(r) /\ c.id \in Ids
  BY DEF RoomOK, Issued, Commands
<1>2. x = [r EXCEPT !.state = "ACTIVE", !.version = r.version + 1,
                    !.done = r.done \cup {c.id}]
  BY <1>1 DEF Start, Keep, Bump, Rooms
<1> HIDE DEF x
<1>3. /\ x.member = r.member /\ x.envelope = r.envelope
      /\ x.version = r.version + 1 /\ x.done = r.done \cup {c.id}
  BY <1>1, <1>2 DEF Rooms
<1>4. x \in Rooms
  <2>1. /\ x.version \in Nat \ {0} /\ x.done \in SUBSET Ids
    BY <1>1, <1>3, Fields
  <2> QED
    BY <1>1, <1>2, <2>1 DEF Rooms, States
<1>5. Sealed(x)
  BY <1>1, <1>3 DEF Sealed
<1> QED
  BY <1>1, <1>3, <1>4, <1>5, Fields, RosterFollows DEF Moves, RoomOK, x

(* Saving the invite changes neither state nor memberships.                *)
LEMMA SaveInviteMoves ==
  ASSUME NEW r, RoomOK(r), NEW c
  PROVE  Moves(r, SaveInvite(r, c), FALSE)
<1> DEFINE n == IF r.uses < MaxUses THEN r.uses ELSE 0
           x == SaveInvite(r, c)
<1>1. r \in Rooms /\ Sealed(r)
  BY DEF RoomOK
<1>2. x = [r EXCEPT !.saved = TRUE, !.uses = n, !.version = r.version + 1]
  BY <1>1 DEF SaveInvite, Bump, Rooms
<1>3. n \in Nat
  BY <1>1, Fields
<1> HIDE DEF x, n
<1>4. /\ x.member = r.member /\ x.envelope = r.envelope
      /\ x.version = r.version + 1 /\ x.state = r.state
  BY <1>1, <1>2 DEF Rooms
<1>5. x \in Rooms
  <2>1. r.version + 1 \in Nat \ {0}
    BY <1>1, Fields
  <2> QED
    BY <1>1, <1>2, <1>3, <2>1 DEF Rooms
<1>6. Sealed(x)
  BY <1>1, <1>4 DEF Sealed
<1> QED
  BY <1>1, <1>4, <1>5, <1>6, Fields DEF Moves, RoomOK, x

(* A pending membership that moves leaves no envelope behind.              *)
LEMMA MovePendingMoves ==
  ASSUME NEW r, RoomOK(r), NEW c \in Issued,
         r.member[UserOf[c.by]].state = "PENDING"
  PROVE  Moves(r, MovePending(r, c), FALSE)
<1> DEFINE u == UserOf[c.by]
           row == [r.member[u] EXCEPT !.phone = c.by, !.ready = FALSE]
           gone == r.revoked \cup {r.member[u].phone}
           x == MovePending(r, c)
<1>1. c.by \in Phones /\ u \in Users
  BY RoomAssumption DEF Issued, Commands
<1>2. /\ r \in Rooms /\ Sealed(r) /\ r.member[u] \in Memberships
  BY <1>1, Fields DEF RoomOK
<1>3. /\ row \in Memberships /\ row.state = "PENDING" /\ row.phone = c.by
  BY <1>1, <1>2 DEF Memberships
<1>4. gone \in SUBSET Phones
  BY <1>1, <1>2, Fields DEF Sealed
<1> HIDE DEF row, gone
<1>5. x = [r EXCEPT !.member = [r.member EXCEPT ![u] = row],
                    !.revoked = gone, !.version = r.version + 1]
  BY <1>1, <1>2 DEF MovePending, Bump, Rooms, Memberships, row, gone
<1> HIDE DEF x
<1>6. /\ x.member = [r.member EXCEPT ![u] = row]
      /\ x.envelope = r.envelope /\ x.state = r.state
      /\ x.version = r.version + 1
  BY <1>2, <1>5 DEF Rooms
<1>7. x \in Rooms
  <2>1. /\ x.member \in [Users -> Memberships] /\ x.version \in Nat \ {0}
    BY <1>1, <1>2, <1>3, <1>6, Fields
  <2> QED
    BY <1>2, <1>4, <1>5, <2>1 DEF Rooms
<1>8. Sealed(x)
  <2>1. \A v \in Users : x.member[v] = IF v = u THEN row ELSE r.member[v]
    BY <1>1, <1>2, <1>6, Fields
  <2> QED
    BY <1>1, <1>2, <1>3, <1>6, <2>1, RoomAssumption DEF Sealed
<1> QED
  BY <1>2, <1>6, <1>7, <1>8, Fields DEF Moves, RoomOK, x

(* Cancelling the other requests of an account keeps their type.           *)
LEMMA CancelledType ==
  ASSUME NEW r \in Rooms, NEW u
  PROVE  /\ Cancelled(r, u) \in [Phones -> Requests]
         /\ \A p \in Phones : Cancelled(r, u)[p] \in Requests
<1>1. ASSUME NEW p \in Phones
      PROVE  [r.request[p] EXCEPT !.state = "CANCELLED"] \in Requests
  BY Fields DEF Requests
<1> QED
  BY <1>1, Fields DEF Cancelled

(* Asking for approval of a phone changes requests only.                   *)
LEMMA AskForPhoneMoves ==
  ASSUME NEW r, RoomOK(r), NEW c \in Issued
  PROVE  Moves(r, AskForPhone(r, c), FALSE)
<1> DEFINE u == UserOf[c.by]
           ask == [state |-> "PENDING", previous |-> r.member[u].phone,
                   approver |-> None]
           asked == [Cancelled(r, u) EXCEPT ![c.by] = ask]
           x == AskForPhone(r, c)
<1>1. c.by \in Phones /\ u \in Users
  BY RoomAssumption DEF Issued, Commands
<1>2. /\ r \in Rooms /\ Sealed(r) /\ r.member[u] \in Memberships
  BY <1>1, Fields DEF RoomOK
<1>3. ask \in Requests
  BY <1>2 DEF Memberships, Requests
<1> HIDE DEF ask
<1>4. asked \in [Phones -> Requests]
  BY <1>2, <1>3, CancelledType
<1> HIDE DEF asked
<1>5. x = [r EXCEPT !.request = asked, !.version = r.version + 1]
  BY <1>2 DEF AskForPhone, Bump, Rooms, asked, ask
<1> HIDE DEF x
<1>6. /\ x.member = r.member /\ x.envelope = r.envelope
      /\ x.version = r.version + 1 /\ x.state = r.state
  BY <1>2, <1>5 DEF Rooms
<1>7. x \in Rooms
  <2>1. r.version + 1 \in Nat \ {0}
    BY <1>2, Fields
  <2> QED
    BY <1>2, <1>4, <1>5, <2>1 DEF Rooms
<1>8. Sealed(x)
  BY <1>2, <1>6 DEF Sealed
<1> QED
  BY <1>2, <1>6, <1>7, <1>8, Fields DEF Moves, RoomOK, x

(* REQUEST_DEVICE replays, moves a pending membership or asks.             *)
LEMMA RequestMoves ==
  ASSUME NEW r, RoomOK(r), NEW c \in Issued, RequestProblem(r, c) = "OK"
  PROVE  Moves(r, RequestPhone(r, c), FALSE)
<1>1. r.version \in Nat
  BY Fields DEF RoomOK
<1>2. Moves(r, r, FALSE)
  BY <1>1 DEF Moves
<1> QED
  BY <1>2, MovePendingMoves, AskForPhoneMoves DEF RequestPhone

(* What a new phone is owed keeps its type.                                *)
LEMMA ReissuedType ==
  ASSUME NEW r \in Rooms, NEW p, NEW q
  PROVE  Reissued(r, p, q) \in [Assets -> [Phones -> Deliveries]]
  BY Fields DEF Reissued, Deliveries

(* An approved replacement gives an active member's new phone an envelope. *)
LEMMA ReplaceMoves ==
  ASSUME NEW r, RoomOK(r), NEW c \in Issued, c.kind = "RESOLVE",
         r.member[UserOf[c.about]].state = "ACTIVE",
         r.member[UserOf[c.about]].phone = r.request[c.about].previous
  PROVE  Moves(r, Bump(ReplacePhone(r, c)), FALSE)
<1> DEFINE u == UserOf[c.about]
           p == c.about
           old == r.request[p].previous
           row == [r.member[u] EXCEPT !.phone = p, !.ready = FALSE]
           e == [sender |-> c.by, sealedFor |-> p]
           gone == r.revoked \cup {old}
           owed == Reissued(r, p, old)
           yes == [r.request[p] EXCEPT !.state = "APPROVED", !.approver = c.by]
           asked == [Cancelled(r, u) EXCEPT ![p] = yes]
           x == Bump(ReplacePhone(r, c))
<1>1. c.by \in Phones /\ p \in Phones /\ u \in Users
  BY RoomAssumption DEF Issued, Commands, WellFormed
<1>2. /\ r \in Rooms /\ Sealed(r) /\ r.member[u] \in Memberships
      /\ r.request[p] \in Requests
  BY <1>1, Fields DEF RoomOK
<1>3. /\ e \in Envelopes /\ e # None
  BY <1>1, RoomAssumption DEF Envelopes
<1>4. /\ row \in Memberships /\ row.state = "ACTIVE" /\ row.phone = p
  BY <1>1, <1>2 DEF Memberships
<1>5. gone \in SUBSET Phones
  BY <1>1, <1>2, Fields DEF Sealed
<1>6. owed \in [Assets -> [Phones -> Deliveries]]
  BY <1>2, ReissuedType
<1>7. yes \in Requests
  BY <1>1, <1>2 DEF Requests
<1> HIDE DEF row, e, gone, owed, yes
<1>8. asked \in [Phones -> Requests]
  BY <1>2, <1>7, CancelledType
<1> HIDE DEF asked
<1>9. x = [r EXCEPT !.member = [r.member EXCEPT ![u] = row],
                    !.envelope = [r.envelope EXCEPT ![p] = e],
                    !.revoked = gone, !.delivery = owed, !.request = asked,
                    !.version = r.version + 1]
  <2> DEFINE new == [[r.member EXCEPT ![u].phone = p] EXCEPT ![u].ready = FALSE]
             y == [r EXCEPT !.envelope = [r.envelope EXCEPT ![p] = e],
                            !.member = new, !.revoked = gone,
                            !.delivery = owed, !.request = asked]
  <2>1. ReplacePhone(r, c) = y
    BY <1>1, <1>2 DEF ReplacePhone, Rooms, e, gone, owed, yes, asked
  <2>2. new = [r.member EXCEPT ![u] = row]
    BY <1>1, <1>2, Fields DEF Memberships, row
  <2>3. x = [y EXCEPT !.version = r.version + 1]
    BY <1>2, <2>1 DEF Bump, Rooms
  <2> DEFINE env == [r.envelope EXCEPT ![p] = e]
  <2> HIDE DEF new, env, x
  <2>4. y = [r EXCEPT !.envelope = env, !.member = new, !.revoked = gone,
                      !.delivery = owed, !.request = asked]
    BY DEF env
  <2> HIDE DEF y
  <2>5. x = [r EXCEPT !.member = new, !.envelope = env, !.revoked = gone,
                      !.delivery = owed, !.request = asked,
                      !.version = r.version + 1]
    BY <1>2, <2>3, <2>4 DEF Rooms
  <2> QED
    BY <2>2, <2>5 DEF env
<1> HIDE DEF x
<1>10. /\ x.member = [r.member EXCEPT ![u] = row]
       /\ x.envelope = [r.envelope EXCEPT ![p] = e]
       /\ x.version = r.version + 1 /\ x.state = r.state
  BY <1>2, <1>9 DEF Rooms
<1>11. x \in Rooms
  <2>1. /\ x.member \in [Users -> Memberships] /\ x.version \in Nat \ {0}
    BY <1>1, <1>2, <1>4, <1>10, Fields
  <2>2. x.envelope \in [Phones -> Envelopes \cup {None}]
    BY <1>1, <1>2, <1>3, <1>10, Fields
  <2> QED
    BY <1>2, <1>5, <1>6, <1>8, <1>9, <2>1, <2>2 DEF Rooms
<1>12. Sealed(x)
  <2>1. \A v \in Users : x.member[v] = IF v = u THEN row ELSE r.member[v]
    BY <1>1, <1>2, <1>10, Fields
  <2>2. \A q \in Phones : x.envelope[q] = IF q = p THEN e ELSE r.envelope[q]
    BY <1>1, <1>2, <1>10, Fields
  <2> QED
    BY <1>1, <1>2, <1>3, <1>4, <2>1, <2>2, RoomAssumption DEF Sealed
<1> QED
  BY <1>2, <1>10, <1>11, <1>12, Fields DEF Moves, RoomOK, x

(* APPROVE_DEVICE and REJECT_DEVICE.                                       *)
LEMMA ResolveMoves ==
  ASSUME NEW r, RoomOK(r), NEW c \in Issued, c.kind = "RESOLVE",
         ResolveProblem(r, c) = "OK"
  PROVE  Moves(r, Resolve(r, c), FALSE)
<1>1. r \in Rooms /\ Sealed(r) /\ r.version \in Nat
  BY Fields DEF RoomOK
<1>2. CASE AlreadyResolved(r, c)
  BY <1>1, <1>2 DEF Moves, Resolve, RoomOK
<1>3. CASE ~AlreadyResolved(r, c) /\ c.value
  <2>1. Resolve(r, c) = Bump(ReplacePhone(r, c))
    BY <1>3 DEF Resolve
  <2> QED
    BY <1>3, <2>1, ResolvePassed, ReplaceMoves
<1>4. CASE ~AlreadyResolved(r, c) /\ ~c.value
  <2> DEFINE p == c.about
             no == [r.request[p] EXCEPT !.state = "REJECTED", !.approver = c.by]
             asked == [r.request EXCEPT ![p] = no]
             x == Resolve(r, c)
  <2>1. c.by \in Phones /\ p \in Phones /\ r.request[p] \in Requests
    BY <1>1, Fields DEF Issued, Commands, WellFormed
  <2>2. no \in Requests
    BY <2>1 DEF Requests
  <2> HIDE DEF no
  <2>3. asked \in [Phones -> Requests]
    BY <1>1, <2>2, Fields
  <2> HIDE DEF asked
  <2>4. x = [r EXCEPT !.request = asked, !.version = r.version + 1]
    BY <1>1, <1>4, <2>1 DEF Resolve, Bump, Rooms, Requests, asked, no
  <2> HIDE DEF x
  <2>5. /\ x.member = r.member /\ x.envelope = r.envelope
        /\ x.version = r.version + 1 /\ x.state = r.state
    BY <1>1, <2>4 DEF Rooms
  <2>6. x \in Rooms
    <3>1. r.version + 1 \in Nat \ {0}
      BY <1>1
    <3> QED
      BY <1>1, <2>3, <2>4, <3>1 DEF Rooms
  <2>7. Sealed(x)
    BY <1>1, <2>5 DEF Sealed
  <2> QED
    BY <1>1, <2>5, <2>6, <2>7 DEF Moves, RoomOK, x
<1> QED
  BY <1>2, <1>3, <1>4

(* A step that starts nothing is allowed where one may start.              *)
LEMMA MovesAnyway ==
  ASSUME NEW r, NEW x, Moves(r, x, FALSE), NEW started
  PROVE  Moves(r, x, started)
  BY DEF Moves

(* Nothing happened.                                                       *)
LEMMA StaysPut ==
  ASSUME NEW r, RoomOK(r), NEW started
  PROVE  Moves(r, r, started)
<1>1. r.version \in Nat
  BY Fields DEF RoomOK
<1> QED
  BY <1>1 DEF Moves

(* A request that is handled: refused, or one of the commands above.       *)
LEMMA ExecuteMoves ==
  ASSUME NEW r, RoomOK(r), NEW c \in Issued
  PROVE  Moves(r, Execute(r, c).room, c.kind = "START" /\ c.version = r.version)
<1> DEFINE started == c.kind = "START" /\ c.version = r.version
<1> HIDE DEF started
<1>1. Moves(r, r, started)
  BY StaysPut
<1>2. ASSUME NEW problem, NEW x, problem = "OK" => Moves(r, x, started)
      PROVE  Moves(r, Handled(r, problem, x).room, started)
  BY <1>1, <1>2 DEF Handled
<1>3. Moves(r, Run(r, c).room, started)
  <2>1. CASE c.kind = "JOIN"
    BY <1>2, <2>1, JoinMoves, MovesAnyway DEF Run
  <2>2. CASE c.kind = "APPROVE"
    BY <1>2, <2>2, ApproveMoves, MovesAnyway DEF Run
  <2>3. CASE c.kind = "REJECT"
    BY <1>2, <2>3, RejectMoves, MovesAnyway DEF Run
  <2>4. CASE c.kind = "READINESS"
    BY <1>2, <2>4, ReadinessMoves, MovesAnyway DEF Run
  <2>5. CASE c.kind = "START"
    <3>1. ASSUME StartProblem(r, c) = "OK"
          PROVE  Moves(r, Start(r, c), started)
      BY <2>5, <3>1, StartPassed, StartMoves DEF started
    <3> QED
      BY <1>2, <2>5, <3>1 DEF Run
  <2>6. CASE c.kind = "SAVE_INVITE"
    BY <1>2, <2>6, SaveInviteMoves, MovesAnyway DEF Run
  <2>7. CASE c.kind = "REQUEST"
    BY <1>2, <2>7, RequestMoves, MovesAnyway DEF Run
  <2>8. CASE c.kind = "RESOLVE"
    BY <1>2, <2>8, ResolveMoves, MovesAnyway DEF Run
  <2>9. c.kind \in {"JOIN", "APPROVE", "REJECT", "READINESS", "START",
                    "SAVE_INVITE", "REQUEST", "RESOLVE"}
    BY DEF Issued, Commands
  <2> QED
    BY <2>1, <2>2, <2>3, <2>4, <2>5, <2>6, <2>7, <2>8, <2>9
<1> QED
  BY <1>1, <1>3 DEF Execute, Replayed, started

(* A member with a seat leaves it.                                         *)
LEMMA DepartMoves ==
  ASSUME NEW r, RoomOK(r), NEW u \in Seated(r)
  PROVE  Moves(r, Departed(r, u), FALSE)
<1> DEFINE row == [r.member[u] EXCEPT !.state = "LEFT"]
           st == IF Seated(r) = {u} THEN "OVER" ELSE r.state
           owed == [a \in Assets |-> [p \in Phones |->
              IF p = r.member[u].phone /\ r.delivery[a][p] = "READY"
              THEN "EXPIRED" ELSE r.delivery[a][p]]]
           x == Departed(r, u)
<1>1. /\ u \in Users /\ r.member[u].state \in {"PENDING", "ACTIVE"}
  BY DEF Seated
<1>2. /\ r \in Rooms /\ Sealed(r) /\ r.member[u] \in Memberships
  BY <1>1, Fields DEF RoomOK
<1>3. /\ row \in Memberships /\ row.state = "LEFT"
      /\ row.phone = r.member[u].phone
  BY <1>2 DEF Memberships
<1>4. st \in States /\ (st = "ACTIVE" => r.state = "ACTIVE")
  BY <1>2, Fields DEF States
<1>5. owed \in [Assets -> [Phones -> Deliveries]]
  BY <1>2, Fields DEF Deliveries
<1> HIDE DEF row, st, owed
<1>6. x = [r EXCEPT !.member = [r.member EXCEPT ![u] = row], !.state = st,
                    !.delivery = owed, !.version = r.version + 1]
  BY <1>1, <1>2 DEF Departed, Bump, Rooms, row, st, owed
<1> HIDE DEF x
<1>7. /\ x.member = [r.member EXCEPT ![u] = row]
      /\ x.envelope = r.envelope /\ x.state = st
      /\ x.version = r.version + 1
  BY <1>2, <1>6 DEF Rooms
<1>8. x \in Rooms
  <2>1. /\ x.member \in [Users -> Memberships] /\ x.version \in Nat \ {0}
    BY <1>1, <1>2, <1>3, <1>7, Fields
  <2> QED
    BY <1>2, <1>4, <1>5, <1>6, <2>1 DEF Rooms
<1>9. Sealed(x)
  <2>1. \A v \in Users : x.member[v] = IF v = u THEN row ELSE r.member[v]
    BY <1>1, <1>2, <1>7, Fields
  <2> QED
    BY <1>1, <1>2, <1>3, <1>7, <2>1, RoomAssumption DEF Sealed
<1> QED
  BY <1>2, <1>4, <1>7, <1>8, <1>9, Fields DEF Moves, RoomOK, x

(* A step that touches neither memberships, envelopes nor version, and     *)
(* starts nothing.                                                         *)
LEMMA SameCrewMoves ==
  ASSUME NEW r, RoomOK(r), NEW x \in Rooms, x.member = r.member,
         x.envelope = r.envelope, x.version >= r.version,
         x.state = "ACTIVE" => r.state = "ACTIVE"
  PROVE  Moves(r, x, FALSE)
<1>1. Sealed(x)
  BY DEF RoomOK, Sealed
<1> QED
  BY <1>1, RosterFollows DEF Moves, RoomOK

(* What the lifecycle and the transfers of the trip do to its rows.        *)
LEMMA OtherMoves ==
  ASSUME RoomOK(room),
         \/ \E a \in Assets : ShareAsset(a)
         \/ \E a \in Assets, p \in Phones : SaveAsset(a, p)
         \/ EndTrip
         \/ EndTimePasses
  PROVE  Moves(room, room', FALSE)
<1>1. room \in Rooms
  BY DEF RoomOK
<1>2. ASSUME NEW a \in Assets, ShareAsset(a)
      PROVE  Moves(room, room', FALSE)
  <2>1. PICK source \in Members(room) :
          room' = [room EXCEPT
            !.covers = [room.covers EXCEPT ![a] = Members(room)],
            !.delivery = [room.delivery EXCEPT ![a] =
              [p \in Phones |->
                IF Nominated(room, p) /\ UserOf[p] \in Members(room) \ {source}
                THEN "READY" ELSE "NONE"]]]
    BY <1>1, <1>2 DEF ShareAsset, Rooms
  <2> DEFINE owed == [p \in Phones |->
                IF Nominated(room, p) /\ UserOf[p] \in Members(room) \ {source}
                THEN "READY" ELSE "NONE"]
             all == [room.delivery EXCEPT ![a] = owed]
             cov == [room.covers EXCEPT ![a] = Members(room)]
  <2>2. owed \in [Phones -> Deliveries]
    BY DEF Deliveries
  <2>3. Members(room) \in SUBSET Users
    BY DEF Members
  <2> HIDE DEF owed
  <2>4. /\ all \in [Assets -> [Phones -> Deliveries]]
        /\ cov \in [Assets -> SUBSET Users]
    BY <1>1, <2>2, <2>3 DEF Rooms
  <2>5. room' = [room EXCEPT !.covers = cov, !.delivery = all]
    BY <2>1 DEF owed
  <2> HIDE DEF all, cov
  <2>6. /\ room'.member = room.member /\ room'.envelope = room.envelope
        /\ room'.version = room.version /\ room'.state = room.state
        /\ room' \in Rooms
    BY <1>1, <2>4, <2>5 DEF Rooms
  <2>7. room'.version >= room.version
    BY <1>1, <2>6, Fields
  <2> QED
    BY <2>6, <2>7, SameCrewMoves
<1>3. ASSUME NEW a \in Assets, NEW p \in Phones, SaveAsset(a, p)
      PROVE  Moves(room, room', FALSE)
  <2> DEFINE all == [room.delivery EXCEPT ![a] =
                       [room.delivery[a] EXCEPT ![p] = "SAVED"]]
  <2>1. room' = [room EXCEPT !.delivery = all]
    BY <1>1, <1>3 DEF SaveAsset, Rooms
  <2>2. all \in [Assets -> [Phones -> Deliveries]]
    BY <1>1 DEF Rooms, Deliveries
  <2> HIDE DEF all
  <2>3. /\ room'.member = room.member /\ room'.envelope = room.envelope
        /\ room'.version = room.version /\ room'.state = room.state
        /\ room' \in Rooms
    BY <1>1, <2>1, <2>2 DEF Rooms
  <2>4. room'.version >= room.version
    BY <1>1, <2>3, Fields
  <2> QED
    BY <2>3, <2>4, SameCrewMoves
<1>4. ASSUME EndTrip
      PROVE  Moves(room, room', FALSE)
  <2>1. /\ room' = [room EXCEPT !.state = "ENDING", !.version = room.version + 1]
        /\ room.state = "ACTIVE" /\ room.version \in Nat /\ room.version + 1 \in Nat \ {0}
    BY <1>1, <1>4, Fields DEF EndTrip, Bump, Rooms
  <2>2. /\ room'.member = room.member /\ room'.envelope = room.envelope
        /\ room'.version = room.version + 1 /\ room'.state = "ENDING"
        /\ room' \in Rooms
    BY <1>1, <2>1 DEF Rooms, States
  <2>3. room'.version >= room.version
    BY <2>1, <2>2
  <2> QED
    BY <2>1, <2>2, <2>3, SameCrewMoves
<1>5. ASSUME EndTimePasses
      PROVE  Moves(room, room', FALSE)
  <2>1. room' = [room EXCEPT !.past = TRUE] /\ room.version \in Nat
    BY <1>1, <1>5, Fields DEF EndTimePasses
  <2>2. /\ room'.member = room.member /\ room'.envelope = room.envelope
        /\ room'.version = room.version /\ room'.state = room.state
        /\ room' \in Rooms
    BY <1>1, <2>1 DEF Rooms
  <2>3. room'.version >= room.version
    BY <2>1, <2>2
  <2> QED
    BY <2>2, <2>3, SameCrewMoves
<1> QED
  BY <1>2, <1>3, <1>4, <1>5

-----------------------------------------------------------------------------
(* The phones: what they send was seen in time.                            *)

(* What was timely stays timely.                                           *)
LEMMA TimePasses ==
  ASSUME NEW r, RoomOK(r), NEW x, NEW started, Moves(r, x, started),
         NEW version \in Nat, NEW roster, Timely(r, version, roster)
  PROVE  Timely(x, version, roster)
<1>1. r.version \in Nat /\ x.version \in Nat
  BY Fields DEF RoomOK, Moves
<1> QED
  BY <1>1 DEF Timely, Moves

(* The body of StartedAsSeen.                                              *)
Seen ==
  room.state = "LOBBY" /\ room'.state = "ACTIVE" =>
    \E c \in late \cup {client[p].waiting : p \in Phones} :
      /\ c # None /\ c.kind = "START" /\ c.saw = Roster(room)
      /\ Roster(room') = Roster(room)

(* A step that moves the room and leaves only timely records is sound.     *)
LEMMA Keeps ==
  ASSUME RoomInv, NEW started, Moves(room, room', started),
         client' \in [Phones -> Clients], late' \in SUBSET Issued,
         shown' \in [Phones -> Views \cup {None}], keys' \in SUBSET Phones,
         limit' = limit,
         \A p \in Phones : /\ client'[p].sent <= limit.sent[p]
                           /\ client'[p].lost <= limit.lost[p],
         None \notin late',
         \A c \in late' : TimelyCommand(room, c),
         \A p \in Phones : \A c \in Held(client'[p]) : TimelyCommand(room, c),
         \A p \in Phones : shown'[p] # None =>
           Timely(room, shown'[p].version, shown'[p].roster)
  PROVE  RoomInv'
<1>1. RoomOK(room')
  BY DEF Moves
<1>2. Typed'
  BY DEF RoomInv, Typed
<1>3. RoomOK(room)
  BY DEF RoomInv
<1>4. ASSUME NEW c \in Issued, TimelyCommand(room, c)
      PROVE  TimelyCommand(room', c)
  <2>1. c.version \in Nat
    BY DEF Issued, Commands
  <2> QED
    BY <1>3, <1>4, <2>1, TimePasses DEF TimelyCommand
<1>5. \A c \in late' : TimelyCommand(room', c)
  BY <1>4
<1>6. ASSUME NEW p \in Phones, NEW c \in Held(client'[p])
      PROVE  TimelyCommand(room', c)
  <2>1. c \in Issued \cup {None}
    BY DEF Held, Clients
  <2>2. CASE c = None
    BY <2>2 DEF TimelyCommand
  <2> QED
    BY <1>4, <2>1, <2>2
<1>7. ASSUME NEW p \in Phones, shown'[p] # None
      PROVE  Timely(room', shown'[p].version, shown'[p].roster)
  <2>1. shown'[p].version \in Nat
    BY <1>7 DEF Views
  <2> QED
    BY <1>3, <1>7, <2>1, TimePasses
<1> QED
  BY <1>1, <1>2, <1>5, <1>6, <1>7 DEF RoomInv, InTime

(* A step of the room alone.                                               *)
LEMMA RoomSteps ==
  ASSUME RoomInv, Moves(room, room', FALSE),
         UNCHANGED <<client, shown, keys, late, limit>>
  PROVE  RoomInv' /\ Seen
<1>1. Seen
  BY DEF Moves, Seen
<1>2. RoomInv'
  BY Keeps DEF RoomInv, Typed, InTime
<1> QED
  BY <1>1, <1>2

(* A phone's records change to timely ones, and a request may be put on    *)
(* the way.                                                                *)
LEMMA ClientSteps ==
  ASSUME RoomInv, NEW started, Moves(room, room', started),
         NEW p \in Phones, NEW me \in Clients,
         me.sent <= limit.sent[p], me.lost <= limit.lost[p],
         \A c \in Held(me) : TimelyCommand(room, c),
         client' = [client EXCEPT ![p] = me],
         \A c \in late' : c \in late \/ (c = client[p].waiting /\ c # None),
         UNCHANGED <<shown, keys, limit>>
  PROVE  RoomInv'
<1>1. /\ client \in [Phones -> Clients] /\ late \in SUBSET Issued
      /\ shown \in [Phones -> Views \cup {None}] /\ keys \in SUBSET Phones
      /\ \A q \in Phones : /\ client[q].sent <= limit.sent[q]
                           /\ client[q].lost <= limit.lost[q]
  BY DEF RoomInv, Typed
<1>2. \A q \in Phones : client'[q] = IF q = p THEN me ELSE client[q]
  BY <1>1
<1>3. client[p].waiting \in Issued \cup {None} /\ client[p].waiting \in Held(client[p])
  BY <1>1 DEF Clients, Held
<1>4. late' \in SUBSET Issued /\ None \notin late'
  BY <1>1, <1>3 DEF RoomInv, InTime
<1>5. \A c \in late' : TimelyCommand(room, c)
  BY <1>3 DEF RoomInv, InTime
<1>6. \A q \in Phones : \A c \in Held(client'[q]) : TimelyCommand(room, c)
  BY <1>2 DEF RoomInv, InTime
<1>7. client' \in [Phones -> Clients]
  BY <1>1
<1>8. \A q \in Phones : /\ client'[q].sent <= limit.sent[q]
                        /\ client'[q].lost <= limit.lost[q]
  BY <1>1, <1>2
<1>9. \A q \in Phones : shown'[q] # None =>
        Timely(room, shown'[q].version, shown'[q].roster)
  BY DEF RoomInv, InTime
<1> QED
  BY <1>1, <1>4, <1>5, <1>6, <1>7, <1>8, <1>9, Keeps

(* The command a phone makes.                                              *)
LEMMA CommandIssued ==
  ASSUME RoomInv, NEW p \in Phones,
         NEW kind \in {"JOIN", "APPROVE", "REJECT", "READINESS", "START",
                       "SAVE_INVITE", "REQUEST", "RESOLVE"},
         NEW about \in Users \cup Phones \cup {None},
         NEW value \in Phones \cup BOOLEAN \cup {None},
         kind \in {"APPROVE", "REJECT"} => about \in Users,
         kind = "APPROVE" => value \in Phones,
         kind \in {"READINESS", "RESOLVE"} => value \in BOOLEAN,
         kind = "RESOLVE" => about \in Phones
  PROVE  /\ Command(p, kind, about, value) \in Issued
         /\ Command(p, kind, about, value).kind = kind
<1> DEFINE c == Command(p, kind, about, value)
           v == IF kind \in {"SAVE_INVITE", "REQUEST", "RESOLVE"}
                THEN room.version ELSE 0
<1>1. room \in Rooms /\ client[p] \in Clients
  BY DEF RoomInv, RoomOK, Typed
<1>2. v \in Nat /\ client[p].sent \in Nat
  BY <1>1, Fields DEF Clients
<1>3. <<p, client[p].sent>> \in Ids
  BY <1>2 DEF Ids
<1> HIDE DEF v
<1>4. c = [id |-> <<p, client[p].sent>>, kind |-> kind, by |-> p,
           about |-> about, value |-> value, saw |-> None, version |-> v]
  BY DEF Command, v
<1>5. c \in Commands
  BY <1>2, <1>3, <1>4 DEF Commands
<1>6. WellFormed(c)
  BY <1>4 DEF WellFormed
<1> QED
  BY <1>4, <1>5, <1>6 DEF Issued

(* What holds of the bounds and of one phone's records.                    *)
LEMMA OnePhone ==
  ASSUME RoomInv, NEW p \in Phones
  PROVE  /\ RoomOK(room) /\ client \in [Phones -> Clients]
         /\ client[p] \in Clients
         /\ client[p].sent \in Nat /\ client[p].lost \in Nat
         /\ limit.sent[p] \in Nat /\ limit.lost[p] \in Nat
         /\ client[p].sent <= limit.sent[p] /\ client[p].lost <= limit.lost[p]
         /\ limit.leavers \subseteq Users /\ limit.assets \subseteq Assets
         /\ \A c \in Held(client[p]) : c \in Issued \cup {None} /\ TimelyCommand(room, c)
<1>1. limit \in [sent : [Phones -> Nat], lost : [Phones -> Nat],
                 leavers : SUBSET Users, assets : SUBSET Assets]
  BY RoomAssumption DEF RoomInv, Typed
<1>2. client[p] \in Clients
  BY DEF RoomInv, Typed
<1>3. \A c \in Held(client[p]) : c \in Issued \cup {None} /\ TimelyCommand(room, c)
  BY <1>2 DEF Clients, Held, RoomInv, InTime
<1> QED
  BY <1>1, <1>2, <1>3 DEF RoomInv, Typed, Clients

(* A new command c is put in flight, and perhaps in a durable record.      *)
LEMMA Sends ==
  ASSUME RoomInv, NEW p \in Phones, NEW c \in Issued, TimelyCommand(room, c),
         Idle(p), NEW me,
         \/ me = [client[p] EXCEPT !.waiting = c, !.sent = @ + 1]
         \/ me = [client[p] EXCEPT !.waiting = c, !.journal = c, !.sent = @ + 1]
         \/ me = [client[p] EXCEPT !.waiting = c, !.joining = c, !.sent = @ + 1],
         client' = [client EXCEPT ![p] = me],
         UNCHANGED <<room, shown, keys, late, limit>>
  PROVE  RoomInv' /\ Seen
<1>1. me \in Clients
  <2>1. client[p] \in Clients /\ client[p].sent + 1 \in Nat
    BY OnePhone
  <2> QED
    BY <2>1 DEF Clients
<1>2. me.sent <= limit.sent[p] /\ me.lost <= limit.lost[p]
  <2>1. /\ client[p].sent + 1 <= limit.sent[p]
        /\ client[p].lost <= limit.lost[p]
    BY OnePhone DEF Idle
  <2>2. me.sent = client[p].sent + 1 /\ me.lost = client[p].lost
    BY OnePhone DEF Clients
  <2> QED
    BY <2>1, <2>2
<1>3. \A d \in Held(me) : TimelyCommand(room, d)
  <2>1. \A d \in Held(me) : d = c \/ d \in Held(client[p])
    BY OnePhone DEF Clients, Held
  <2> QED
    BY <2>1, OnePhone
<1>4. Moves(room, room', FALSE)
  BY OnePhone, StaysPut
<1>5. RoomInv'
  BY <1>1, <1>2, <1>3, <1>4, ClientSteps
<1> QED
  BY <1>4, <1>5 DEF Moves, Seen

(* A retained command is put in flight again.                              *)
LEMMA Replays ==
  ASSUME RoomInv, NEW p \in Phones, ReplayJoin(p) \/ ReplayJournal(p)
  PROVE  RoomInv' /\ Seen
<1>1. PICK c \in {client[p].joining, client[p].journal} :
        client' = [client EXCEPT ![p] = [client[p] EXCEPT !.waiting = c]]
  BY OnePhone DEF ReplayJoin, ReplayJournal
<1> DEFINE me == [client[p] EXCEPT !.waiting = c]
<1>2. me \in Clients /\ me.sent = client[p].sent /\ me.lost = client[p].lost
  BY OnePhone DEF Clients
<1>3. \A d \in Held(me) : TimelyCommand(room, d)
  <2>1. Held(me) \subseteq Held(client[p])
    BY OnePhone DEF Clients, Held
  <2> QED
    BY <2>1, OnePhone
<1>4. UNCHANGED <<room, shown, keys, late, limit>>
  BY DEF ReplayJoin, ReplayJournal
<1> HIDE DEF me
<1>5. Moves(room, room', FALSE)
  BY <1>4, OnePhone, StaysPut
<1>6. me.sent <= limit.sent[p] /\ me.lost <= limit.lost[p]
  BY <1>2, OnePhone
<1>7. client' = [client EXCEPT ![p] = me]
  BY <1>1 DEF me
<1>8. \A d \in late' : d \in late \/ (d = client[p].waiting /\ d # None)
  BY <1>4
<1>9. me \in Clients /\ UNCHANGED <<shown, keys, limit>>
  BY <1>2, <1>4
<1>10. RoomInv'
  BY <1>3, <1>5, <1>6, <1>7, <1>8, <1>9, ClientSteps
<1> QED
  BY <1>5, <1>10 DEF Moves, Seen

(* A phone reads the projection: what the host sees is what there is.      *)
LEMMA HydrateSteps ==
  ASSUME RoomInv, NEW p \in Phones, Hydrate(p)
  PROVE  RoomInv' /\ Seen
<1> DEFINE view == [version |-> room.version, state |-> room.state,
                    roster |-> Roster(room)]
<1>1. UNCHANGED <<room, client, late, limit>> /\ room \in Rooms
  BY DEF Hydrate, RoomInv, RoomOK
<1>2. Roster(room) \in Rosters
  BY <1>1, Fields DEF Roster, Rosters
<1>3. view \in Views /\ Timely(room, view.version, view.roster)
  BY <1>1, <1>2, Fields DEF Views, Timely
<1> HIDE DEF view
<1>4. shown \in [Phones -> Views \cup {None}] /\ keys \in SUBSET Phones
  BY DEF RoomInv, Typed
<1>5. shown' = [shown EXCEPT ![p] = IF UserOf[p] = Host THEN view ELSE None]
  BY DEF Hydrate, view
<1>6. shown' \in [Phones -> Views \cup {None}]
  BY <1>3, <1>4, <1>5
<1>7. ASSUME NEW q \in Phones, shown'[q] # None
      PROVE  Timely(room, shown'[q].version, shown'[q].roster)
  <2>1. shown'[q] = view \/ shown'[q] = shown[q]
    BY <1>4, <1>5, <1>7
  <2> QED
    BY <1>3, <1>7, <2>1 DEF RoomInv, InTime
<1>8. keys' \in SUBSET Phones
  BY <1>4 DEF Hydrate
<1>9. Moves(room, room', FALSE)
  BY <1>1, OnePhone, StaysPut
<1>10. RoomInv'
  BY <1>1, <1>6, <1>7, <1>8, <1>9, Keeps DEF RoomInv, Typed, InTime
<1> QED
  BY <1>9, <1>10 DEF Moves, Seen

(* A request runs: by its answer, without one, or late.                    *)
LEMMA ExecuteSeen ==
  ASSUME RoomInv, NEW c \in Issued, TimelyCommand(room, c), c # None,
         c \in late \cup {client[p].waiting : p \in Phones},
         room' = Execute(room, c).room
  PROVE  /\ Moves(room, room', c.kind = "START" /\ c.version = room.version)
         /\ Seen
<1>1. Moves(room, room', c.kind = "START" /\ c.version = room.version)
  BY ExecuteMoves DEF RoomInv
<1> QED
  BY <1>1 DEF Moves, Seen, TimelyCommand, Timely

(* Handling an answer only ends what the phone retains.                    *)
LEMMA ReceivedClient ==
  ASSUME NEW me \in Clients, NEW c \in Issued, NEW out
  PROVE  /\ Received(me, c, out) \in Clients
         /\ Received(me, c, out).sent = me.sent
         /\ Received(me, c, out).lost = me.lost
         /\ Held(Received(me, c, out)) \subseteq Held(me) \cup {None}
<1>1. c.kind = "READINESS" => c.value \in BOOLEAN
  BY DEF Issued, WellFormed
<1> DEFINE told == me.journal = c /\ Settles(c, out) /\ c.kind = "READINESS"
                     /\ out.code = "OK"
           x == Received(me, c, out)
<1>2. /\ x = [me EXCEPT !.waiting = None, !.journal = x.journal,
                        !.joining = x.joining, !.told = x.told,
                        !.dropped = x.dropped]
      /\ x.journal \in {me.journal, None} /\ x.joining \in {me.joining, None}
      /\ x.told = IF told THEN c.value ELSE me.told
      /\ x.dropped \subseteq me.dropped
  BY DEF Received, Clients
<1> HIDE DEF x, told
<1>3. told => c.value \in BOOLEAN
  BY <1>1 DEF told
<1>4. /\ x.told \in BOOLEAN \cup {None} /\ x.dropped \in SUBSET Issued
      /\ x.journal \in Issued \cup {None} /\ x.joining \in Issued \cup {None}
  BY <1>2, <1>3 DEF Clients
<1>5. x \in Clients /\ x.sent = me.sent /\ x.lost = me.lost /\ x.waiting = None
  BY <1>2, <1>4 DEF Clients
<1>6. Held(x) \subseteq Held(me) \cup {None}
  BY <1>2, <1>5 DEF Held
<1> QED
  BY <1>5, <1>6 DEF x

(* The command in flight runs and its phone handles the answer.            *)
LEMMA AnsweredSteps ==
  ASSUME RoomInv, NEW p \in Phones, Answered(p)
  PROVE  RoomInv' /\ Seen
<1> DEFINE c == client[p].waiting
           out == Execute(room, c)
           me == Received(client[p], c, out)
<1>1. /\ room' = out.room /\ client' = [client EXCEPT ![p] = me]
      /\ c # None /\ UNCHANGED <<shown, keys, late, limit>>
  BY OnePhone DEF Answered
<1>2. c \in Issued /\ TimelyCommand(room, c)
  BY <1>1, OnePhone DEF Held
<1>3. /\ Moves(room, room', c.kind = "START" /\ c.version = room.version)
      /\ Seen
  BY <1>1, <1>2, ExecuteSeen
<1> HIDE DEF out
<1>4. /\ me \in Clients /\ me.sent = client[p].sent /\ me.lost = client[p].lost
      /\ Held(me) \subseteq Held(client[p]) \cup {None}
  BY <1>2, OnePhone, ReceivedClient
<1>5. \A d \in Held(me) : TimelyCommand(room, d)
  <2>1. TimelyCommand(room, None)
    BY DEF TimelyCommand
  <2> QED
    BY <1>4, <2>1, OnePhone
<1>6. me.sent <= limit.sent[p] /\ me.lost <= limit.lost[p]
  BY <1>4, OnePhone
<1> HIDE DEF me
<1>7. \A d \in late' : d \in late \/ (d = c /\ d # None)
  BY <1>1
<1>8. me \in Clients /\ UNCHANGED <<shown, keys, limit>>
  BY <1>1, <1>4
<1>9. RoomInv'
  BY <1>1, <1>3, <1>5, <1>6, <1>7, <1>8, ClientSteps
<1> QED
  BY <1>3, <1>9

(* The answer is lost, or the phone gives up and the request may be late.  *)
LEMMA LostSteps ==
  ASSUME RoomInv, NEW p \in Phones, AnswerLost(p) \/ GivenUp(p)
  PROVE  RoomInv' /\ Seen
<1> DEFINE c == client[p].waiting
           me == [client[p] EXCEPT !.waiting = None, !.lost = @ + 1]
<1>1. /\ c # None /\ client' = [client EXCEPT ![p] = me]
      /\ UNCHANGED <<shown, keys, limit>> /\ client[p].lost < limit.lost[p]
  BY OnePhone DEF AnswerLost, GivenUp
<1>2. c \in Issued /\ TimelyCommand(room, c)
  BY <1>1, OnePhone DEF Held
<1>3. /\ me \in Clients /\ me.sent = client[p].sent
      /\ me.lost = client[p].lost + 1
  <2>1. client[p].lost + 1 \in Nat
    BY OnePhone
  <2> QED
    BY <2>1, OnePhone DEF Clients
<1>4. \A d \in Held(me) : TimelyCommand(room, d)
  <2>1. Held(me) \subseteq Held(client[p]) \cup {None}
    BY OnePhone DEF Clients, Held
  <2>2. TimelyCommand(room, None)
    BY DEF TimelyCommand
  <2> QED
    BY <2>1, <2>2, OnePhone
<1>5. me.sent <= limit.sent[p] /\ me.lost <= limit.lost[p]
  BY <1>1, <1>3, OnePhone
<1> HIDE DEF me
<1>6. CASE AnswerLost(p)
  <2>1. room' = Execute(room, c).room /\ late' = late
    BY <1>6 DEF AnswerLost
  <2>2. /\ Moves(room, room', c.kind = "START" /\ c.version = room.version)
        /\ Seen
    BY <1>1, <1>2, <2>1, ExecuteSeen
  <2>3. \A d \in late' : d \in late \/ (d = c /\ d # None)
    BY <2>1
  <2>4. me \in Clients /\ UNCHANGED <<shown, keys, limit>>
    BY <1>1, <1>3
  <2>5. RoomInv'
    BY <1>1, <1>4, <1>5, <2>2, <2>3, <2>4, ClientSteps
  <2> QED
    BY <2>2, <2>5
<1>7. CASE GivenUp(p)
  <2>1. room' = room /\ late' = late \cup {c}
    BY <1>7 DEF GivenUp
  <2>2. Moves(room, room', FALSE)
    BY <2>1, OnePhone, StaysPut
  <2>3. \A d \in late' : d \in late \/ (d = c /\ d # None)
    BY <1>1, <2>1
  <2>4. me \in Clients /\ UNCHANGED <<shown, keys, limit>>
    BY <1>1, <1>3
  <2>5. RoomInv'
    BY <1>1, <1>4, <1>5, <2>2, <2>3, <2>4, ClientSteps
  <2> QED
    BY <2>2, <2>5 DEF Moves, Seen
<1> QED
  BY <1>6, <1>7

(* The command in flight is refused unseen: no row changes.                *)
LEMMA TurnedAwaySteps ==
  ASSUME RoomInv, NEW p \in Phones, TurnedAway(p)
  PROVE  RoomInv' /\ Seen
<1> DEFINE c == client[p].waiting
<1>1. PICK code \in Unseen :
        client' = [client EXCEPT ![p] = Refused(client[p], code)]
  BY DEF TurnedAway
<1> DEFINE before == Received(client[p], c, [room |-> room, code |-> code])
           me == [before EXCEPT
                    !.lost = @ + 1,
                    !.dropped = IF c.kind = "READINESS" THEN @ \cup {c} ELSE @]
<1>2. /\ client' = [client EXCEPT ![p] = me] /\ room' = room
      /\ c # None /\ UNCHANGED <<shown, keys, late, limit>>
      /\ client[p].lost < limit.lost[p]
  BY <1>1, OnePhone DEF TurnedAway, Refused
<1>3. c \in Issued
  BY <1>2, OnePhone DEF Held
<1>4. /\ before \in Clients /\ Held(before) \subseteq Held(client[p]) \cup {None}
      /\ before.sent = client[p].sent /\ before.lost = client[p].lost
  BY <1>3, OnePhone, ReceivedClient
<1> HIDE DEF before
<1>5. /\ me \in Clients /\ Held(me) = Held(before)
      /\ me.sent = client[p].sent /\ me.lost = client[p].lost + 1
  <2>1. before.lost + 1 \in Nat
    BY <1>4 DEF Clients
  <2> QED
    BY <1>3, <1>4, <2>1 DEF Clients, Held
<1> HIDE DEF me
<1>6. \A d \in Held(me) : TimelyCommand(room, d)
  <2>1. TimelyCommand(room, None)
    BY DEF TimelyCommand
  <2> QED
    BY <1>4, <1>5, <2>1, OnePhone
<1>7. me.sent <= limit.sent[p] /\ me.lost <= limit.lost[p]
  BY <1>2, <1>5, OnePhone
<1>8. Moves(room, room', FALSE)
  BY <1>2, OnePhone, StaysPut
<1>9. \A d \in late' : d \in late \/ (d = c /\ d # None)
  BY <1>2
<1>10. RoomInv'
  BY <1>2, <1>5, <1>6, <1>7, <1>8, <1>9, ClientSteps
<1> QED
  BY <1>8, <1>10 DEF Moves, Seen

(* A request its phone gave up on arrives.                                 *)
LEMMA LateSteps ==
  ASSUME RoomInv, NEW c \in late, ArrivesLate(c)
  PROVE  RoomInv' /\ Seen
<1>1. c \in Issued /\ TimelyCommand(room, c) /\ c # None
  BY DEF RoomInv, Typed, InTime
<1>2. /\ late' = late \ {c} /\ room' = Execute(room, c).room
      /\ UNCHANGED <<client, shown, keys, limit>>
  BY DEF ArrivesLate
<1>3. /\ Moves(room, room', c.kind = "START" /\ c.version = room.version)
      /\ Seen
  BY <1>1, <1>2, ExecuteSeen
<1>4. RoomInv'
  BY <1>2, <1>3, Keeps DEF RoomInv, Typed, InTime
<1> QED
  BY <1>3, <1>4

(* The commands about nothing but the trip, and the readiness command.     *)
LEMMA PlainCommands ==
  ASSUME RoomInv, NEW p \in Phones
  PROVE  /\ \A kind \in {"JOIN", "START", "SAVE_INVITE", "REQUEST"} :
              LET c == Command(p, kind, None, None) IN
              c \in Issued /\ c.kind = kind
         /\ \A value \in BOOLEAN :
              LET c == Command(p, "READINESS", None, value) IN
              c \in Issued /\ c.kind = "READINESS"
<1>1. ASSUME NEW kind \in {"JOIN", "START", "SAVE_INVITE", "REQUEST"}
      PROVE  /\ Command(p, kind, None, None) \in Issued
             /\ Command(p, kind, None, None).kind = kind
  BY CommandIssued
<1>2. ASSUME NEW value \in BOOLEAN
      PROVE  /\ Command(p, "READINESS", None, value) \in Issued
             /\ Command(p, "READINESS", None, value).kind = "READINESS"
  BY CommandIssued
<1> QED
  BY <1>1, <1>2

(* A phone makes a new command of any kind but Start.                      *)
LEMMA AskSteps ==
  ASSUME RoomInv, NEW p \in Phones,
         \/ AskToJoin(p) \/ EnsureInvite(p) \/ RequestRecovery(p)
         \/ \E u \in Users : AskToApprove(p, u) \/ AskToReject(p, u)
         \/ \E value \in BOOLEAN : PublishReadiness(p, value)
         \/ \E q \in Phones, value \in BOOLEAN : ResolveRecovery(p, q, value)
  PROVE  RoomInv' /\ Seen
<1>1. ASSUME NEW c \in Issued, c.kind # "START", Idle(p), Send(p, c)
      PROVE  RoomInv' /\ Seen
  <2> DEFINE me == [client[p] EXCEPT !.waiting = c, !.sent = @ + 1]
  <2>1. /\ client' = [client EXCEPT ![p] = me]
        /\ UNCHANGED <<room, shown, keys, late, limit>>
    BY <1>1, OnePhone DEF Send
  <2>2. TimelyCommand(room, c)
    BY <1>1 DEF TimelyCommand
  <2> QED
    BY <1>1, <2>1, <2>2, Sends
<1>2. CASE AskToJoin(p)
  <2> DEFINE c == Command(p, "JOIN", None, None)
  <2>1. c \in Issued /\ c.kind = "JOIN"
    BY PlainCommands
  <2>2. TimelyCommand(room, c)
    BY <2>1 DEF TimelyCommand
  <2> HIDE DEF c
  <2>3. /\ client' = [client EXCEPT ![p] =
             [client[p] EXCEPT !.waiting = c, !.joining = c, !.sent = @ + 1]]
        /\ Idle(p) /\ UNCHANGED <<room, shown, keys, late, limit>>
    BY <1>2, OnePhone DEF AskToJoin, c
  <2> QED
    BY <2>1, <2>2, <2>3, Sends
<1>3. CASE EnsureInvite(p)
  <2>1. /\ Command(p, "SAVE_INVITE", None, None) \in Issued
        /\ Command(p, "SAVE_INVITE", None, None).kind = "SAVE_INVITE"
    BY PlainCommands
  <2> QED
    BY <1>1, <1>3, <2>1 DEF EnsureInvite
<1>4. CASE RequestRecovery(p)
  <2>1. /\ Command(p, "REQUEST", None, None) \in Issued
        /\ Command(p, "REQUEST", None, None).kind = "REQUEST"
    BY PlainCommands
  <2> QED
    BY <1>1, <1>4, <2>1 DEF RequestRecovery
<1>5. ASSUME NEW u \in Users, AskToApprove(p, u)
      PROVE  RoomInv' /\ Seen
  <2> DEFINE q == room.member[u].phone
  <2>1. q \in Phones
    BY <1>5 DEF AskToApprove, RoomInv, RoomOK, Sealed
  <2>2. /\ Command(p, "APPROVE", u, q) \in Issued
        /\ Command(p, "APPROVE", u, q).kind = "APPROVE"
    BY <2>1, CommandIssued
  <2> QED
    BY <1>1, <1>5, <2>2 DEF AskToApprove
<1>6. ASSUME NEW u \in Users, AskToReject(p, u)
      PROVE  RoomInv' /\ Seen
  <2>1. /\ Command(p, "REJECT", u, None) \in Issued
        /\ Command(p, "REJECT", u, None).kind = "REJECT"
    BY CommandIssued
  <2> QED
    BY <1>1, <1>6, <2>1 DEF AskToReject
<1>7. ASSUME NEW value \in BOOLEAN, PublishReadiness(p, value)
      PROVE  RoomInv' /\ Seen
  <2> DEFINE c == Command(p, "READINESS", None, value)
  <2>1. c \in Issued /\ c.kind = "READINESS"
    BY PlainCommands
  <2>2. TimelyCommand(room, c)
    BY <2>1 DEF TimelyCommand
  <2> HIDE DEF c
  <2>3. /\ client' = [client EXCEPT ![p] =
             [client[p] EXCEPT !.waiting = c, !.journal = c, !.sent = @ + 1]]
        /\ Idle(p) /\ UNCHANGED <<room, shown, keys, late, limit>>
    BY <1>7, OnePhone DEF PublishReadiness, c
  <2> QED
    BY <2>1, <2>2, <2>3, Sends
<1>8. ASSUME NEW q \in Phones, NEW value \in BOOLEAN, ResolveRecovery(p, q, value)
      PROVE  RoomInv' /\ Seen
  <2>1. /\ Command(p, "RESOLVE", q, value) \in Issued
        /\ Command(p, "RESOLVE", q, value).kind = "RESOLVE"
    BY CommandIssued
  <2> QED
    BY <1>1, <1>8, <2>1 DEF ResolveRecovery
<1> QED
  BY <1>2, <1>3, <1>4, <1>5, <1>6, <1>7, <1>8

(* Start is pressed on what the screen shows, which was timely.            *)
LEMMA PressStartSteps ==
  ASSUME RoomInv, NEW p \in Phones, PressStart(p)
  PROVE  RoomInv' /\ Seen
<1> DEFINE d == Command(p, "START", None, None)
           c == [d EXCEPT !.version = shown[p].version, !.saw = shown[p].roster]
<1>1. d \in Issued /\ d.kind = "START"
  BY CommandIssued
<1>2. /\ shown[p] \in Views /\ Timely(room, shown[p].version, shown[p].roster)
  BY DEF PressStart, RoomInv, Typed, InTime
<1> HIDE DEF d
<1>3. /\ c \in Commands /\ c.kind = "START" /\ c.version = shown[p].version
      /\ c.saw = shown[p].roster
  BY <1>1, <1>2 DEF Issued, Commands, Views
<1>4. c \in Issued /\ TimelyCommand(room, c)
  BY <1>2, <1>3 DEF Issued, WellFormed, TimelyCommand
<1>5. /\ client' = [client EXCEPT ![p] =
           [client[p] EXCEPT !.waiting = c, !.journal = c, !.sent = @ + 1]]
      /\ Idle(p) /\ UNCHANGED <<room, shown, keys, late, limit>>
  BY OnePhone DEF PressStart, d
<1> HIDE DEF c
<1> QED
  BY <1>4, <1>5, Sends

-----------------------------------------------------------------------------
(* A committed create leaves a sound room.                                 *)
LEMMA InitRoom == RoomInit => RoomInv
<1> SUFFICES ASSUME RoomInit
             PROVE  RoomInv
  OBVIOUS
<1> DEFINE host == [state |-> "ACTIVE", phone |-> First, ready |-> FALSE]
           nobody == [state |-> "NONE", phone |-> None, ready |-> FALSE]
           e == [sender |-> First, sealedFor |-> First]
           asks == [state |-> "NONE", previous |-> None, approver |-> None]
<1>1. /\ room = NewRoom /\ client = [p \in Phones |-> NewClient]
      /\ shown = [p \in Phones |-> None] /\ keys = {First} /\ late = {}
      /\ limit \in Limits
  BY DEF RoomInit
<1>2. /\ host \in Memberships /\ nobody \in Memberships
      /\ e \in Envelopes /\ e # None /\ asks \in Requests
  BY RoomAssumption DEF Memberships, Envelopes, Requests
<1>3. /\ room.member = [u \in Users |-> IF u = Host THEN host ELSE nobody]
      /\ room.envelope = [p \in Phones |-> IF p = First THEN e ELSE None]
  BY <1>1 DEF NewRoom
<1> DEFINE mem == [u \in Users |-> IF u = Host THEN host ELSE nobody]
           env == [p \in Phones |-> IF p = First THEN e ELSE None]
           req == [p \in Phones |-> asks]
           cov == [a \in Assets |-> {}]
           del == [a \in Assets |-> [p \in Phones |-> "NONE"]]
<1>4. room \in Rooms
  <2>1. /\ mem \in [Users -> Memberships]
        /\ env \in [Phones -> Envelopes \cup {None}]
        /\ req \in [Phones -> Requests]
        /\ cov \in [Assets -> SUBSET Users]
        /\ del \in [Assets -> [Phones -> Deliveries]]
    BY <1>2 DEF Deliveries
  <2>2. room = [state |-> "LOBBY", past |-> FALSE, version |-> 1,
                member |-> mem, envelope |-> env, request |-> req,
                revoked |-> {}, uses |-> 0, saved |-> FALSE, done |-> {},
                covers |-> cov, delivery |-> del]
    BY <1>1 DEF NewRoom
  <2> HIDE DEF mem, env, req, cov, del
  <2> QED
    BY <2>1, <2>2 DEF Rooms, States
<1>5. Sealed(room)
  BY <1>2, <1>3, RoomAssumption DEF Sealed
<1>6. NewClient \in Clients /\ Held(NewClient) = {None}
  BY DEF NewClient, Clients, Held
<1>7. client[First] = NewClient /\ NewClient.sent = 0 /\ NewClient.lost = 0
  BY <1>1, RoomAssumption DEF NewClient
<1>8. Typed
  <2>1. limit \in [sent : [Phones -> Nat], lost : [Phones -> Nat],
                   leavers : SUBSET Users, assets : SUBSET Assets]
    BY <1>1, RoomAssumption
  <2>2. \A p \in Phones : /\ client[p].sent <= limit.sent[p]
                          /\ client[p].lost <= limit.lost[p]
    BY <1>1, <1>7, <2>1
  <2> QED
    BY <1>1, <1>6, <2>2, RoomAssumption DEF Typed
<1>9. InTime
  BY <1>1, <1>6 DEF InTime, TimelyCommand
<1> QED
  BY <1>4, <1>5, <1>8, <1>9 DEF RoomInv, RoomOK

(* Every step keeps the rows sound and starts a trip only as seen.         *)
LEMMA StepRoom == RoomInv /\ [RoomNext]_roomVars => RoomInv' /\ (Seen \/ UNCHANGED roomVars)
<1> SUFFICES ASSUME RoomInv, [RoomNext]_roomVars
             PROVE  RoomInv' /\ (Seen \/ UNCHANGED roomVars)
  OBVIOUS
<1>1. ASSUME NEW p \in Phones,
             \/ AskToJoin(p) \/ EnsureInvite(p) \/ RequestRecovery(p)
             \/ \E u \in Users : AskToApprove(p, u) \/ AskToReject(p, u)
             \/ \E value \in BOOLEAN : PublishReadiness(p, value)
             \/ \E q \in Phones, value \in BOOLEAN : ResolveRecovery(p, q, value)
      PROVE  RoomInv' /\ Seen
  BY <1>1, AskSteps
<1>2. ASSUME NEW p \in Phones, ReplayJoin(p) \/ ReplayJournal(p)
      PROVE  RoomInv' /\ Seen
  BY <1>2, Replays
<1>3. ASSUME NEW p \in Phones, Hydrate(p)
      PROVE  RoomInv' /\ Seen
  BY <1>3, HydrateSteps
<1>4. ASSUME NEW p \in Phones, PressStart(p)
      PROVE  RoomInv' /\ Seen
  BY <1>4, PressStartSteps
<1>5. ASSUME NEW p \in Phones, Answered(p)
      PROVE  RoomInv' /\ Seen
  BY <1>5, AnsweredSteps
<1>6. ASSUME NEW p \in Phones, AnswerLost(p) \/ GivenUp(p)
      PROVE  RoomInv' /\ Seen
  BY <1>6, LostSteps
<1>7. ASSUME NEW c \in late, ArrivesLate(c)
      PROVE  RoomInv' /\ Seen
  BY <1>7, LateSteps
<1>8. ASSUME NEW u \in limit.leavers, Depart(u)
      PROVE  RoomInv' /\ Seen
  <2>1. Moves(room, room', FALSE)
    BY <1>8, DepartMoves DEF Depart, RoomInv
  <2> QED
    BY <1>8, <2>1, RoomSteps DEF Depart
<1>9. limit.assets \subseteq Assets
  BY OnePhone, RoomAssumption
<1>10. ASSUME \/ \E a \in Assets : ShareAsset(a)
              \/ \E a \in Assets, p \in Phones : SaveAsset(a, p)
              \/ EndTrip
              \/ EndTimePasses
       PROVE  RoomInv' /\ Seen
  <2>1. Moves(room, room', FALSE)
    BY <1>10, OtherMoves DEF RoomInv
  <2>2. UNCHANGED <<client, shown, keys, late, limit>>
    BY <1>10 DEF ShareAsset, SaveAsset, EndTrip, EndTimePasses
  <2> QED
    BY <2>1, <2>2, RoomSteps
<1>11. CASE UNCHANGED roomVars
  <2>1. RoomInv'
    BY <1>11 DEF roomVars, RoomInv, RoomOK, Typed, InTime
  <2> QED
    BY <1>11, <2>1
<1>12. ASSUME NEW p \in Phones, TurnedAway(p)
       PROVE  RoomInv' /\ Seen
  BY <1>12, TurnedAwaySteps
<1>13. CASE RoomNext
  BY <1>1, <1>2, <1>3, <1>4, <1>5, <1>6, <1>7, <1>8, <1>9, <1>10, <1>12, <1>13
     DEF RoomNext
<1> QED
  BY <1>11, <1>13

-----------------------------------------------------------------------------
(* The inductive invariant holds of every behaviour.                       *)
THEOREM RoomInductive == RoomSpec => []RoomInv
<1>1. RoomInv /\ [RoomNext]_roomVars => RoomInv'
  BY StepRoom
<1> QED
  BY <1>1, InitRoom, PTL DEF RoomSpec

(* The server's rows and the phones' records keep their shape.             *)
THEOREM RoomTypeCorrect == RoomSpec => []RoomTypeOK
<1>1. ASSUME RoomInv
      PROVE  RoomTypeOK
  <2>1. /\ room \in Rooms /\ client \in [Phones -> Clients]
        /\ keys \subseteq Phones /\ limit \in Limits
    BY <1>1 DEF RoomInv, RoomOK, Typed
  <2>2. ASSUME NEW p \in Phones
        PROVE  /\ client[p].sent \in 0..limit.sent[p]
               /\ client[p].lost \in 0..limit.lost[p]
    BY <1>1, OnePhone
  <2>3. /\ room.state \in {"LOBBY", "ACTIVE", "ENDING", "OVER"}
        /\ room.past \in BOOLEAN /\ room.saved \in BOOLEAN
        /\ room.covers \in [Assets -> SUBSET Users]
    BY <2>1 DEF Rooms, States
  <2>4. room.delivery \in
          [Assets -> [Phones -> {"NONE", "READY", "SAVED", "EXPIRED"}]]
    BY <2>1, Fields DEF Deliveries
  <2> QED
    BY <2>1, <2>2, <2>3, <2>4, Fields DEF RoomTypeOK
<1> QED
  BY <1>1, RoomInductive, PTL

(* Exactly the approved members have an envelope on the phone they use,    *)
(* whatever is replaced, given up on or late.                              *)
THEOREM EnvelopesSafe == RoomSpec => []EnvelopesFollowApproval
<1>1. ASSUME RoomInv
      PROVE  EnvelopesFollowApproval
  <2>1. Sealed(room)
    BY <1>1 DEF RoomInv, RoomOK
  <2>2. \A p \in Phones : UserOf[p] \in Users
    BY RoomAssumption
  <2> QED
    BY <2>1, <2>2 DEF EnvelopesFollowApproval, Sealed
<1> QED
  BY <1>1, RoomInductive, PTL

(* A trip starts with the crew, the phones and the readiness its host saw. *)
THEOREM StartsAsSeen == RoomSpec => StartedAsSeen
<1>1. ASSUME RoomInv, [RoomNext]_roomVars
      PROVE  [room.state = "LOBBY" /\ room'.state = "ACTIVE" =>
                \E c \in late \cup {client[p].waiting : p \in Phones} :
                  /\ c # None /\ c.kind = "START" /\ c.saw = Roster(room)
                  /\ Roster(room') = Roster(room)]_roomVars
  BY <1>1, StepRoom DEF Seen
<1> QED
  BY <1>1, RoomInductive, PTL DEF RoomSpec, StartedAsSeen

-----------------------------------------------------------------------------
(* What a replaced phone was owed.                                         *)

Before == {"NONE", "PENDING", "REJECTED"}

(* A photo covers nobody who was not yet admitted; of a covered member     *)
(* either the phone in use is owed it or has saved it, or no phone of the  *)
(* member was ever owed it: the one that took it.                          *)
Owed(r) ==
  \A a \in Assets :
    /\ \A u \in Users : r.member[u].state \in Before => u \notin r.covers[a]
    /\ \A u \in Users : r.member[u].state = "ACTIVE" /\ u \in r.covers[a] =>
         \/ r.delivery[a][r.member[u].phone] \in {"READY", "SAVED"}
         \/ \A p \in Phones : UserOf[p] = u => r.delivery[a][p] = "NONE"

(* A step that leaves deliveries alone, admits only members who had to     *)
(* wait and moves no active member to another phone.                       *)
LEMMA OwedKept ==
  ASSUME NEW r, Owed(r), NEW x, x.covers = r.covers, x.delivery = r.delivery,
         \A u \in Users :
           /\ x.member[u].state \in Before => r.member[u].state \in Before
           /\ x.member[u].state = "ACTIVE" =>
                \/ r.member[u].state \in Before
                \/ /\ r.member[u].state = "ACTIVE"
                   /\ x.member[u].phone = r.member[u].phone
  PROVE  Owed(x)
  BY DEF Owed

(* What the two phones of a replacement, and any other, are owed.          *)
LEMMA ReissuedValues ==
  ASSUME NEW r, NEW p, NEW old, NEW a \in Assets, NEW q \in Phones
  PROVE  /\ q = p /\ UserOf[p] \in r.covers[a] =>
              Reissued(r, p, old)[a][q] = "READY"
         /\ q # p /\ q # old => Reissued(r, p, old)[a][q] = r.delivery[a][q]
  BY DEF Reissued

(* A replacement owes the new phone what covers its owner, and no other    *)
(* member's phone loses anything.                                          *)
LEMMA ReplaceOwes ==
  ASSUME NEW r, RoomOK(r), Owed(r), NEW c \in Issued, c.kind = "RESOLVE",
         r.member[UserOf[c.about]].state = "ACTIVE",
         r.member[UserOf[c.about]].phone = r.request[c.about].previous
  PROVE  Owed(Bump(ReplacePhone(r, c)))
<1> DEFINE u == UserOf[c.about]
           p == c.about
           old == r.request[p].previous
           x == Bump(ReplacePhone(r, c))
<1>1. p \in Phones /\ u \in Users
  BY RoomAssumption DEF Issued, Commands, WellFormed
<1>2. /\ r \in Rooms /\ Sealed(r) /\ r.member[u] \in Memberships
  BY <1>1, Fields DEF RoomOK
<1>3. old \in Phones /\ UserOf[old] = u
  BY <1>1, <1>2 DEF Sealed
<1>4. x.covers = r.covers /\ x.delivery = Reissued(r, p, old)
  BY <1>2 DEF Bump, ReplacePhone, Rooms
<1>5. /\ \A v \in Users \ {u} : x.member[v] = r.member[v]
      /\ x.member[u].state = "ACTIVE" /\ x.member[u].phone = p
  <2>1. x.member = [[r.member EXCEPT ![u].phone = p] EXCEPT ![u].ready = FALSE]
    BY <1>2 DEF Bump, ReplacePhone, Rooms
  <2> QED
    BY <1>1, <1>2, <2>1, Fields DEF Memberships
<1> HIDE DEF x
<1>6. ASSUME NEW a \in Assets, NEW v \in Users, x.member[v].state \in Before
      PROVE  v \notin x.covers[a]
  BY <1>1, <1>4, <1>5, <1>6 DEF Owed, Before
<1>7. ASSUME NEW a \in Assets, NEW v \in Users, x.member[v].state = "ACTIVE",
             v \in x.covers[a]
      PROVE  \/ x.delivery[a][x.member[v].phone] \in {"READY", "SAVED"}
             \/ \A q \in Phones : UserOf[q] = v => x.delivery[a][q] = "NONE"
  <2>1. CASE v = u
    BY <1>1, <1>4, <1>5, <1>7, <2>1, ReissuedValues
  <2>2. CASE v # u
    <3>1. x.member[v] = r.member[v]
      BY <1>5, <2>2
    <3>2. r.member[v].phone \in Phones /\ UserOf[r.member[v].phone] = v
      BY <1>2, <1>7, <3>1 DEF Sealed
    <3>3. \A q \in Phones : UserOf[q] = v => x.delivery[a][q] = r.delivery[a][q]
      BY <1>3, <1>4, <2>2, ReissuedValues
    <3>4. \/ r.delivery[a][r.member[v].phone] \in {"READY", "SAVED"}
          \/ \A q \in Phones : UserOf[q] = v => r.delivery[a][q] = "NONE"
      BY <1>4, <1>7, <3>1 DEF Owed
    <3> QED
      BY <3>1, <3>2, <3>3, <3>4
  <2> QED
    BY <2>1, <2>2
<1> QED
  BY <1>6, <1>7 DEF Owed, x

(* The other commands move no active member and touch no delivery.         *)
LEMMA ExecuteOwes ==
  ASSUME NEW r, RoomOK(r), Owed(r), NEW c \in Issued
  PROVE  Owed(Execute(r, c).room)
<1> SUFFICES Owed(Run(r, c).room)
  BY DEF Execute, Replayed
<1>1. /\ r \in Rooms /\ Sealed(r) /\ \A u \in Users : r.member[u] \in Memberships
  BY Fields DEF RoomOK
<1>2. c.by \in Phones /\ UserOf[c.by] \in Users
  BY RoomAssumption DEF Issued, Commands
<1>3. ASSUME NEW problem, NEW x, problem = "OK" => Owed(x)
      PROVE  Owed(Handled(r, problem, x).room)
  BY <1>3 DEF Handled
<1>4. CASE c.kind = "JOIN"
  <2>1. ASSUME JoinProblem(r, c) = "OK"
        PROVE  Owed(Join(r, c))
    <3> DEFINE x == Join(r, c)
    <3>1. /\ x.covers = r.covers /\ x.delivery = r.delivery
          /\ x.member = [r.member EXCEPT ![UserOf[c.by]] =
               [state |-> "PENDING", phone |-> c.by, ready |-> FALSE]]
      BY <1>1 DEF Join, Keep, Bump, Rooms
    <3>2. r.member[UserOf[c.by]].state = "NONE"
      BY <2>1, JoinPassed
    <3> HIDE DEF x
    <3> QED
      BY <1>1, <1>2, <3>1, <3>2, OwedKept, Fields DEF Before, x
  <2> QED
    BY <1>3, <1>4, <2>1 DEF Run
<1>5. CASE c.kind = "APPROVE"
  <2>1. ASSUME ApproveProblem(r, c) = "OK"
        PROVE  Owed(Approve(r, c))
    <3> DEFINE x == Approve(r, c)
    <3>1. /\ x.covers = r.covers /\ x.delivery = r.delivery
          /\ x.member = [r.member EXCEPT ![c.about].state = "ACTIVE"]
      BY <1>1 DEF Approve, Keep, Bump, Rooms
    <3>2. r.member[c.about].state = "PENDING"
      BY <2>1, ApprovePassed
    <3> HIDE DEF x
    <3> QED
      BY <1>1, <3>1, <3>2, OwedKept, Fields DEF Before, x, Memberships
  <2> QED
    BY <1>3, <1>5, <2>1 DEF Run
<1>6. CASE c.kind = "REJECT"
  <2>1. ASSUME RejectProblem(r, c) = "OK"
        PROVE  Owed(Reject(r, c))
    <3> DEFINE x == Reject(r, c)
    <3>1. /\ x.covers = r.covers /\ x.delivery = r.delivery
          /\ x.member = [r.member EXCEPT ![c.about].state = "REJECTED"]
      BY <1>1 DEF Reject, Keep, Bump, Rooms
    <3>2. r.member[c.about].state = "PENDING"
      BY <2>1, RejectPassed
    <3> HIDE DEF x
    <3> QED
      BY <1>1, <3>1, <3>2, OwedKept, Fields DEF Before, x, Memberships
  <2> QED
    BY <1>3, <1>6, <2>1 DEF Run
<1>7. CASE c.kind = "READINESS"
  <2> DEFINE x == SetReadiness(r, c)
  <2>1. /\ x.covers = r.covers /\ x.delivery = r.delivery
        /\ \/ x.member = r.member
           \/ x.member = [r.member EXCEPT ![UserOf[c.by]].ready = c.value]
    BY <1>1 DEF SetReadiness, Keep, Bump, Rooms
  <2>2. \A u \in Users : /\ x.member[u].state = r.member[u].state
                         /\ x.member[u].phone = r.member[u].phone
    BY <1>1, <2>1, Fields DEF Memberships
  <2> HIDE DEF x
  <2>3. Owed(x)
    BY <2>1, <2>2, OwedKept
  <2> QED
    BY <1>3, <1>7, <2>3 DEF Run, x
<1>8. CASE c.kind = "START"
  <2> DEFINE x == Start(r, c)
  <2>1. x.covers = r.covers /\ x.delivery = r.delivery /\ x.member = r.member
    BY <1>1 DEF Start, Keep, Bump, Rooms
  <2> HIDE DEF x
  <2>2. Owed(x)
    BY <2>1, OwedKept
  <2> QED
    BY <1>3, <1>8, <2>2 DEF Run, x
<1>9. CASE c.kind = "SAVE_INVITE"
  <2> DEFINE x == SaveInvite(r, c)
  <2>1. x.covers = r.covers /\ x.delivery = r.delivery /\ x.member = r.member
    BY <1>1 DEF SaveInvite, Bump, Rooms
  <2> HIDE DEF x
  <2>2. Owed(x)
    BY <2>1, OwedKept
  <2> QED
    BY <1>3, <1>9, <2>2 DEF Run, x
<1>10. CASE c.kind = "REQUEST"
  <2>1. ASSUME r.member[UserOf[c.by]].state = "PENDING"
        PROVE  Owed(MovePending(r, c))
    <3> DEFINE x == MovePending(r, c)
               u == UserOf[c.by]
    <3>1. /\ x.covers = r.covers /\ x.delivery = r.delivery
          /\ x.member = [[r.member EXCEPT ![u].phone = c.by] EXCEPT ![u].ready = FALSE]
      BY <1>1 DEF MovePending, Bump, Rooms
    <3>2. /\ \A v \in Users \ {u} : x.member[v] = r.member[v]
          /\ x.member[u].state = "PENDING"
      BY <1>1, <1>2, <2>1, <3>1, Fields DEF Memberships
    <3> HIDE DEF x
    <3> QED
      BY <1>2, <2>1, <3>1, <3>2, OwedKept DEF Before, x
  <2>2. Owed(AskForPhone(r, c))
    <3> DEFINE x == AskForPhone(r, c)
    <3>1. x.covers = r.covers /\ x.delivery = r.delivery /\ x.member = r.member
      BY <1>1 DEF AskForPhone, Bump, Rooms
    <3> HIDE DEF x
    <3> QED
      BY <3>1, OwedKept DEF x
  <2>3. Owed(RequestPhone(r, c))
    BY <2>1, <2>2 DEF RequestPhone
  <2> QED
    BY <1>3, <1>10, <2>3 DEF Run
<1>11. CASE c.kind = "RESOLVE"
  <2>1. ASSUME ResolveProblem(r, c) = "OK"
        PROVE  Owed(Resolve(r, c))
    <3>1. CASE AlreadyResolved(r, c)
      BY <3>1 DEF Resolve
    <3>2. CASE ~AlreadyResolved(r, c) /\ c.value
      <4>1. Resolve(r, c) = Bump(ReplacePhone(r, c))
        BY <3>2 DEF Resolve
      <4> QED
        BY <1>11, <2>1, <3>2, <4>1, ResolvePassed, ReplaceOwes
    <3>3. CASE ~AlreadyResolved(r, c) /\ ~c.value
      <4> DEFINE x == Resolve(r, c)
      <4>1. x.covers = r.covers /\ x.delivery = r.delivery /\ x.member = r.member
        BY <1>1, <3>3 DEF Resolve, Bump, Rooms
      <4> HIDE DEF x
      <4> QED
        BY <4>1, OwedKept DEF x
    <3> QED
      BY <3>1, <3>2, <3>3
  <2> QED
    BY <1>3, <1>11, <2>1 DEF Run
<1>12. c.kind \in {"JOIN", "APPROVE", "REJECT", "READINESS", "START",
                   "SAVE_INVITE", "REQUEST", "RESOLVE"}
  BY DEF Issued, Commands
<1> QED
  BY <1>4, <1>5, <1>6, <1>7, <1>8, <1>9, <1>10, <1>11, <1>12

(* Departures and transfers owe a member who stays no less.                *)
LEMMA OthersOwe ==
  ASSUME RoomInv, Owed(room),
         \/ \E u \in Users : Depart(u)
         \/ \E a \in Assets : ShareAsset(a)
         \/ \E a \in Assets, p \in Phones : SaveAsset(a, p)
         \/ EndTrip
         \/ EndTimePasses
  PROVE  Owed(room')
<1>1. /\ room \in Rooms /\ Sealed(room)
      /\ \A u \in Users : room.member[u] \in Memberships
  BY Fields DEF RoomInv, RoomOK
<1>2. ASSUME NEW u \in Users, Depart(u)
      PROVE  Owed(room')
  <2> DEFINE owed == [a \in Assets |-> [p \in Phones |->
                IF p = room.member[u].phone /\ room.delivery[a][p] = "READY"
                THEN "EXPIRED" ELSE room.delivery[a][p]]]
  <2>1. /\ room'.covers = room.covers
        /\ room'.member = [room.member EXCEPT ![u].state = "LEFT"]
        /\ room'.delivery = owed
        /\ room.member[u].state \in {"PENDING", "ACTIVE"}
    BY <1>1, <1>2 DEF Depart, Departed, Bump, Rooms, Seated
  <2>2. /\ room.member[u].phone \in Phones
        /\ UserOf[room.member[u].phone] = u
    BY <1>1, <2>1 DEF Sealed
  <2>3. /\ \A v \in Users \ {u} : room'.member[v] = room.member[v]
        /\ room'.member[u].state = "LEFT"
    BY <1>1, <2>1, Fields DEF Memberships
  <2>4. ASSUME NEW a \in Assets, NEW v \in Users, room'.member[v].state \in Before
        PROVE  v \notin room'.covers[a]
    BY <2>1, <2>3, <2>4 DEF Owed, Before
  <2>5. ASSUME NEW a \in Assets, NEW v \in Users, room'.member[v].state = "ACTIVE",
               v \in room'.covers[a]
        PROVE  \/ room'.delivery[a][room'.member[v].phone] \in {"READY", "SAVED"}
               \/ \A q \in Phones : UserOf[q] = v => room'.delivery[a][q] = "NONE"
    <3>1. v # u /\ room'.member[v] = room.member[v]
      BY <2>3, <2>5
    <3>2. room.member[v].phone \in Phones /\ UserOf[room.member[v].phone] = v
      BY <1>1, <2>5, <3>1 DEF Sealed
    <3>3. \A q \in Phones : UserOf[q] = v => room'.delivery[a][q] = room.delivery[a][q]
      BY <2>1, <2>2, <3>1
    <3>4. \/ room.delivery[a][room.member[v].phone] \in {"READY", "SAVED"}
          \/ \A q \in Phones : UserOf[q] = v => room.delivery[a][q] = "NONE"
      BY <2>1, <2>5, <3>1 DEF Owed
    <3> QED
      BY <3>1, <3>2, <3>3, <3>4
  <2> QED
    BY <2>4, <2>5 DEF Owed
<1>3. ASSUME NEW b \in Assets, ShareAsset(b)
      PROVE  Owed(room')
  <2>1. PICK source \in Members(room) :
          room' = [room EXCEPT
            !.covers[b] = Members(room),
            !.delivery[b] = [p \in Phones |->
                IF Nominated(room, p) /\ UserOf[p] \in Members(room) \ {source}
                THEN "READY" ELSE "NONE"]]
    BY <1>3 DEF ShareAsset
  <2> DEFINE owed == [p \in Phones |->
                IF Nominated(room, p) /\ UserOf[p] \in Members(room) \ {source}
                THEN "READY" ELSE "NONE"]
  <2>2. /\ room'.member = room.member
        /\ room'.covers = [room.covers EXCEPT ![b] = Members(room)]
        /\ room'.delivery = [room.delivery EXCEPT ![b] = owed]
    BY <1>1, <2>1 DEF Rooms
  <2>3. ASSUME NEW a \in Assets, NEW v \in Users, room'.member[v].state \in Before
        PROVE  v \notin room'.covers[a]
    BY <1>1, <2>2, <2>3 DEF Owed, Before, Members, Rooms
  <2>4. ASSUME NEW a \in Assets, NEW v \in Users, room'.member[v].state = "ACTIVE",
               v \in room'.covers[a]
        PROVE  \/ room'.delivery[a][room'.member[v].phone] \in {"READY", "SAVED"}
               \/ \A q \in Phones : UserOf[q] = v => room'.delivery[a][q] = "NONE"
    <3>1. CASE a = b /\ v = source
      <4>1. \A q \in Phones : UserOf[q] = v => owed[q] = "NONE"
        BY <3>1
      <4> QED
        BY <1>1, <2>2, <3>1, <4>1 DEF Rooms
    <3>2. CASE a = b /\ v # source
      <4>1. /\ room.member[v].phone \in Phones
            /\ UserOf[room.member[v].phone] = v /\ v \in Members(room)
        BY <1>1, <2>2, <2>4 DEF Sealed, Members
      <4>2. owed[room.member[v].phone] = "READY"
        BY <3>2, <4>1 DEF Nominated
      <4> QED
        BY <1>1, <2>2, <3>2, <4>2 DEF Rooms
    <3>3. CASE a # b
      BY <1>1, <2>2, <2>4, <3>3 DEF Owed, Rooms
    <3> QED
      BY <3>1, <3>2, <3>3
  <2> QED
    BY <2>3, <2>4 DEF Owed
<1>4. ASSUME NEW b \in Assets, NEW p \in Phones, SaveAsset(b, p)
      PROVE  Owed(room')
  <2>1. /\ room'.member = room.member /\ room'.covers = room.covers
        /\ room'.delivery = [room.delivery EXCEPT ![b][p] = "SAVED"]
        /\ room.delivery[b][p] = "READY"
    BY <1>1, <1>4 DEF SaveAsset, Rooms
  <2>2. \A a \in Assets, q \in Phones :
          room'.delivery[a][q] = IF a = b /\ q = p THEN "SAVED"
                                 ELSE room.delivery[a][q]
    BY <1>1, <2>1 DEF Rooms
  <2>3. \A v \in Users : room.member[v].state = "ACTIVE" =>
          room.member[v].phone \in Phones
    BY <1>1 DEF Sealed
  <2> QED
    BY <2>1, <2>2, <2>3 DEF Owed
<1>5. ASSUME EndTrip \/ EndTimePasses
      PROVE  Owed(room')
  <2>1. /\ room'.member = room.member /\ room'.covers = room.covers
        /\ room'.delivery = room.delivery
    BY <1>1, <1>5 DEF EndTrip, EndTimePasses, Bump, Rooms
  <2> QED
    BY <2>1, OwedKept
<1> QED
  BY <1>2, <1>3, <1>4, <1>5

(* Replacing a phone loses no photo its owner is entitled to.              *)
THEOREM ReplacementsAreOwed == RoomSpec => []ReplacementIsOwedEverything
<1>1. RoomInit => Owed(room)
  <2> SUFFICES ASSUME RoomInit
               PROVE  Owed(room)
    OBVIOUS
  <2>1. \A a \in Assets : room.covers[a] = {}
    BY DEF RoomInit, NewRoom
  <2> QED
    BY <2>1 DEF Owed
<1>2. RoomInv /\ Owed(room) /\ [RoomNext]_roomVars => Owed(room)'
  <2> SUFFICES ASSUME RoomInv, Owed(room), [RoomNext]_roomVars
               PROVE  Owed(room')
    BY DEF Owed
  <2>1. CASE UNCHANGED room
    BY <2>1
  <2>2. ASSUME NEW p \in Phones, Answered(p)
        PROVE  Owed(room')
    BY <2>2, OnePhone, ExecuteOwes DEF Answered, Held
  <2>3. ASSUME NEW p \in Phones, AnswerLost(p)
        PROVE  Owed(room')
    BY <2>3, OnePhone, ExecuteOwes DEF AnswerLost, Held
  <2>4. ASSUME NEW c \in late, ArrivesLate(c)
        PROVE  Owed(room')
    BY <2>4, ExecuteOwes DEF ArrivesLate, RoomInv, Typed
  <2>5. limit.leavers \subseteq Users /\ limit.assets \subseteq Assets
    BY OnePhone, RoomAssumption
  <2>6. ASSUME \/ \E u \in Users : Depart(u)
               \/ \E a \in Assets : ShareAsset(a)
               \/ \E a \in Assets, p \in Phones : SaveAsset(a, p)
               \/ EndTrip
               \/ EndTimePasses
        PROVE  Owed(room')
    BY <2>6, OthersOwe
  <2>7. ASSUME NEW p \in Phones,
               \/ AskToJoin(p) \/ ReplayJoin(p) \/ Hydrate(p)
               \/ PressStart(p) \/ ReplayJournal(p)
               \/ EnsureInvite(p) \/ RequestRecovery(p)
               \/ TurnedAway(p) \/ GivenUp(p)
               \/ \E u \in Users : AskToApprove(p, u) \/ AskToReject(p, u)
               \/ \E value \in BOOLEAN : PublishReadiness(p, value)
               \/ \E q \in Phones, value \in BOOLEAN : ResolveRecovery(p, q, value)
        PROVE  UNCHANGED room
    BY <2>7 DEF AskToJoin, ReplayJoin, Hydrate, PressStart, ReplayJournal,
         EnsureInvite, RequestRecovery, TurnedAway, GivenUp, AskToApprove, AskToReject,
         PublishReadiness, ResolveRecovery, Send
  <2> QED
    BY <2>1, <2>2, <2>3, <2>4, <2>5, <2>6, <2>7 DEF RoomNext, roomVars
<1>3. ASSUME RoomInv, Owed(room)
      PROVE  ReplacementIsOwedEverything
  <2> SUFFICES ASSUME NEW a \in Assets, NEW p \in Phones,
                      UserOf[p] \in room.covers[a] \cap Members(room),
                      Nominated(room, p),
                      NEW old \in room.revoked, room.delivery[a][old] # "NONE",
                      UserOf[old] = UserOf[p]
               PROVE  room.delivery[a][p] \in {"READY", "SAVED"}
    BY DEF ReplacementIsOwedEverything
  <2>1. old \in Phones
    BY <1>3, Fields DEF RoomInv, RoomOK
  <2> QED
    BY <1>3, <2>1 DEF Owed, Members, Nominated
<1> QED
  BY <1>1, <1>2, <1>3, RoomInductive, PTL DEF RoomSpec

-----------------------------------------------------------------------------
(***************************************************************************)
(* A phone and the server agree about readiness, for every set of phones   *)
(* and however many requests are lost, repeated or late.                   *)
(***************************************************************************)
(* The account of p was admitted, and p is the phone it uses or was        *)
(* replaced.                                                               *)
Admitted(r, p) ==
  /\ r.member[UserOf[p]].state \in {"ACTIVE", "LEFT"}
  /\ r.member[UserOf[p]].phone = p \/ p \in r.revoked

(* No readiness command of p will ever be carried out again.               *)
Barred(r, p) ==
  \/ p \in r.revoked
  \/ r.member[UserOf[p]].state = "LEFT"
  \/ r.state \notin {"LOBBY", "ACTIVE"}

(* p is the phone of an active member.                                     *)
InUse(r, p) ==
  r.member[UserOf[p]].state = "ACTIVE" /\ r.member[UserOf[p]].phone = p

(* No phone in use is revoked, and no phone asks to replace itself.        *)
Current(r) ==
  /\ \A u \in Users : r.member[u].state \in {"PENDING", "ACTIVE"} =>
       r.member[u].phone \notin r.revoked
  /\ \A p \in Phones : r.request[p].state = "PENDING" =>
       r.request[p].previous # p

(* The readiness commands of a phone that may yet be carried out: the one  *)
(* it retains, and those it dropped when they were refused unseen.         *)
Loose(me) ==
  {c \in me.dropped \cup {me.journal} : c # None /\ c.kind = "READINESS"}

(* A readiness command on its way is one of those, was carried out, or     *)
(* never will be.                                                          *)
Spent(r, me, c) ==
  c # None /\ c.kind = "READINESS" =>
    /\ Admitted(r, c.by)
    /\ c \in Loose(me) \/ c.id \in r.done \/ Barred(r, c.by)

(* The server holds what p was last told, or what a loose command set that *)
(* has been carried out since.                                             *)
Told(r, p, me) ==
  me.told # None =>
    /\ Admitted(r, p)
    /\ InUse(r, p) =>
         \/ r.member[UserOf[p]].ready = me.told
         \/ \E c \in Loose(me) :
              c.id \in r.done /\ c.value = r.member[UserOf[p]].ready

Agreed ==
  /\ Current(room)
  /\ \A p \in Phones : \A c \in Held(client[p]) : c # None => c.by = p
  /\ \A p \in Phones : \A c \in Held(client[p]) : Spent(room, client[p], c)
  /\ \A c \in late : Spent(room, client[c.by], c)
  /\ \A p \in Phones : Told(room, p, client[p])

(* From r to x, where only the commands of S may run: nothing that was     *)
(* settled is unsettled, and the readiness of a phone in use is changed by *)
(* a command of its own only.                                              *)
Goes(r, x, S) ==
  /\ RoomOK(x) /\ Current(x)
  /\ r.done \subseteq x.done
  /\ \A p \in Phones : /\ Admitted(r, p) => Admitted(x, p)
                       /\ Barred(r, p) => Barred(x, p)
                       /\ Admitted(r, p) /\ InUse(x, p) => InUse(r, p)
  /\ \A p \in Phones :
       /\ InUse(r, p) /\ InUse(x, p)
       /\ x.member[UserOf[p]].ready # r.member[UserOf[p]].ready
       => \E c \in S : /\ c.kind = "READINESS" /\ c.by = p
                       /\ c.id \notin r.done /\ ~Barred(r, p)
                       /\ c.id \in x.done
                       /\ c.value = x.member[UserOf[p]].ready

-----------------------------------------------------------------------------
(* A general step: rows of accounts change one at a time.                  *)
LEMMA GoesSame ==
  ASSUME NEW r, RoomOK(r), Current(r), NEW x, RoomOK(x), x.member = r.member,
         x.revoked = r.revoked, r.done \subseteq x.done,
         r.state \notin {"LOBBY", "ACTIVE"} => x.state \notin {"LOBBY", "ACTIVE"},
         \A p \in Phones : x.request[p].state = "PENDING" =>
           x.request[p].previous # p,
         NEW S
  PROVE  Goes(r, x, S)
  BY DEF Goes, Current, Admitted, Barred, InUse

(* The row of one account u changes, and perhaps the phone it used is      *)
(* revoked.                                                                *)
LEMMA GoesOne ==
  ASSUME NEW r, RoomOK(r), Current(r), NEW x, RoomOK(x), NEW u \in Users,
         \A v \in Users \ {u} : x.member[v] = r.member[v],
         r.done \subseteq x.done,
         r.state \notin {"LOBBY", "ACTIVE"} => x.state \notin {"LOBBY", "ACTIVE"},
         r.revoked \subseteq x.revoked,
         \A p \in x.revoked : p \in r.revoked \/ (p \in Phones /\ UserOf[p] = u),
         x.member[u].state \in {"PENDING", "ACTIVE"} =>
           x.member[u].phone \notin x.revoked,
         r.member[u].state = "LEFT" => x.member[u].state = "LEFT",
         r.member[u].state = "ACTIVE" =>
           /\ x.member[u].state \in {"ACTIVE", "LEFT"}
           /\ \/ x.member[u].phone = r.member[u].phone
              \/ r.member[u].phone \in x.revoked,
         r.member[u].state = "LEFT" => x.member[u].phone = r.member[u].phone,
         \A p \in Phones : x.request[p].state = "PENDING" =>
           x.request[p].previous # p,
         NEW S,
         /\ x.member[u].state = "ACTIVE" /\ r.member[u].state = "ACTIVE"
         /\ x.member[u].phone = r.member[u].phone
         /\ x.member[u].ready # r.member[u].ready
         => \E c \in S : /\ c.kind = "READINESS" /\ c.by = r.member[u].phone
                         /\ c.id \notin r.done /\ ~Barred(r, c.by)
                         /\ c.id \in x.done /\ c.value = x.member[u].ready
  PROVE  Goes(r, x, S)
<1>1. Sealed(r) /\ Sealed(x)
  BY DEF RoomOK
<1>2. ASSUME NEW v \in Users, x.member[v].state \in {"PENDING", "ACTIVE"}
      PROVE  x.member[v].phone \notin x.revoked
  <2>1. CASE v = u
    BY <1>2, <2>1
  <2>2. CASE v # u
    <3>1. x.member[v].phone \notin r.revoked
      BY <1>2, <2>2 DEF Current
    <3>2. UserOf[x.member[v].phone] = v
      BY <1>1, <1>2 DEF Sealed
    <3> QED
      BY <2>2, <3>1, <3>2
  <2> QED
    BY <2>1, <2>2
<1>3. Current(x)
  BY <1>2 DEF Current
<1>4. ASSUME NEW p \in Phones
      PROVE  /\ Admitted(r, p) => Admitted(x, p)
             /\ Barred(r, p) => Barred(x, p)
  <2>1. CASE UserOf[p] = u
    BY <2>1 DEF Admitted, Barred
  <2>2. CASE UserOf[p] # u
    <3>1. x.member[UserOf[p]] = r.member[UserOf[p]]
      BY <2>2, RoomAssumption
    <3> QED
      BY <3>1 DEF Admitted, Barred
  <2> QED
    BY <2>1, <2>2
<1>5. ASSUME NEW p \in Phones, Admitted(r, p), InUse(x, p)
      PROVE  InUse(r, p)
  <2>1. p \notin x.revoked
    BY <1>2, <1>5, RoomAssumption DEF InUse
  <2>2. r.member[UserOf[p]].phone = p
    BY <1>5, <2>1 DEF Admitted
  <2>3. r.member[UserOf[p]].state # "LEFT"
    <3>1. CASE UserOf[p] = u
      BY <1>5, <3>1 DEF InUse
    <3>2. CASE UserOf[p] # u
      <4>1. x.member[UserOf[p]] = r.member[UserOf[p]]
        BY <3>2, RoomAssumption
      <4> QED
        BY <1>5, <4>1 DEF InUse
    <3> QED
      BY <3>1, <3>2
  <2> QED
    BY <1>5, <2>2, <2>3 DEF Admitted, InUse
<1>6. ASSUME NEW p \in Phones, InUse(r, p), InUse(x, p),
             x.member[UserOf[p]].ready # r.member[UserOf[p]].ready
      PROVE  \E c \in S : /\ c.kind = "READINESS" /\ c.by = p
                          /\ c.id \notin r.done /\ ~Barred(r, p)
                          /\ c.id \in x.done
                          /\ c.value = x.member[UserOf[p]].ready
  <2>1. UserOf[p] = u
    BY <1>6, RoomAssumption
  <2> QED
    BY <1>6, <2>1 DEF InUse
<1> QED
  BY <1>3, <1>4, <1>5, <1>6 DEF Goes

-----------------------------------------------------------------------------
(* Each command goes on like this.                                         *)

(* A join: the account had no row, so no phone of it was admitted.         *)
LEMMA JoinGoes ==
  ASSUME NEW r, RoomOK(r), Current(r), NEW c \in Issued,
         JoinProblem(r, c) = "OK", NEW S
  PROVE  Goes(r, Join(r, c), S)
<1> DEFINE x == Join(r, c)
           u == UserOf[c.by]
<1>1. r \in Rooms /\ u \in Users
  BY RoomAssumption DEF RoomOK, Issued, Commands
<1>2. RoomOK(x)
  BY JoinMoves DEF Moves
<1>3. /\ x.member = [r.member EXCEPT ![u] =
           [state |-> "PENDING", phone |-> c.by, ready |-> FALSE]]
      /\ x.revoked = r.revoked /\ x.request = r.request /\ x.state = r.state
      /\ x.done = r.done \cup {c.id}
  BY <1>1 DEF Join, Keep, Bump, Rooms
<1>4. c.by \notin r.revoked /\ r.member[u].state = "NONE"
  BY JoinPassed
<1> HIDE DEF x
<1>5. /\ \A v \in Users \ {u} : x.member[v] = r.member[v]
      /\ x.member[u].state = "PENDING" /\ x.member[u].phone = c.by
  BY <1>1, <1>3, Fields
<1>6. Current(r) /\ r.done \subseteq x.done /\ r.revoked \subseteq x.revoked
  BY <1>3
<1>7. \A p \in Phones : x.request[p].state = "PENDING" => x.request[p].previous # p
  BY <1>3 DEF Current
<1>8. Goes(r, x, S)
  BY <1>1, <1>2, <1>3, <1>4, <1>5, <1>6, <1>7, GoesOne
<1> QED
  BY <1>8 DEF x

(* An approval: the row becomes active on the phone it names.              *)
LEMMA ApproveGoes ==
  ASSUME NEW r, RoomOK(r), Current(r), NEW c \in Issued, c.kind = "APPROVE",
         ApproveProblem(r, c) = "OK", NEW S
  PROVE  Goes(r, Approve(r, c), S)
<1> DEFINE x == Approve(r, c)
           u == c.about
<1>1. r \in Rooms /\ u \in Users /\ r.member[u] \in Memberships
  BY Fields DEF RoomOK, Issued, WellFormed
<1>2. RoomOK(x)
  BY ApproveMoves DEF Moves
<1>3. /\ x.member = [r.member EXCEPT ![u].state = "ACTIVE"]
      /\ x.revoked = r.revoked /\ x.request = r.request /\ x.state = r.state
      /\ x.done = r.done \cup {c.id}
  BY <1>1 DEF Approve, Keep, Bump, Rooms
<1>4. r.member[u].state = "PENDING"
  BY ApprovePassed
<1> HIDE DEF x
<1>5. /\ \A v \in Users \ {u} : x.member[v] = r.member[v]
      /\ x.member[u].state = "ACTIVE" /\ x.member[u].phone = r.member[u].phone
  BY <1>1, <1>3, Fields DEF Memberships
<1>6. /\ r.done \subseteq x.done /\ r.revoked \subseteq x.revoked
      /\ r.member[u].phone \notin x.revoked
  BY <1>1, <1>3, <1>4 DEF Current
<1>7. \A p \in Phones : x.request[p].state = "PENDING" => x.request[p].previous # p
  BY <1>3 DEF Current
<1>8. Goes(r, x, S)
  BY <1>1, <1>2, <1>3, <1>4, <1>5, <1>6, <1>7, GoesOne
<1> QED
  BY <1>8 DEF x

(* A refusal: the row was pending, so it was never in use.                 *)
LEMMA RejectGoes ==
  ASSUME NEW r, RoomOK(r), Current(r), NEW c \in Issued, c.kind = "REJECT",
         RejectProblem(r, c) = "OK", NEW S
  PROVE  Goes(r, Reject(r, c), S)
<1> DEFINE x == Reject(r, c)
           u == c.about
<1>1. r \in Rooms /\ u \in Users /\ r.member[u] \in Memberships
  BY Fields DEF RoomOK, Issued, WellFormed
<1>2. RoomOK(x)
  BY RejectMoves DEF Moves
<1>3. /\ x.member = [r.member EXCEPT ![u].state = "REJECTED"]
      /\ x.revoked = r.revoked /\ x.request = r.request /\ x.state = r.state
      /\ x.done = r.done \cup {c.id}
  BY <1>1 DEF Reject, Keep, Bump, Rooms
<1>4. r.member[u].state = "PENDING"
  BY RejectPassed
<1> HIDE DEF x
<1>5. /\ \A v \in Users \ {u} : x.member[v] = r.member[v]
      /\ x.member[u].state = "REJECTED"
  BY <1>1, <1>3, Fields DEF Memberships
<1>6. r.done \subseteq x.done /\ r.revoked \subseteq x.revoked
  BY <1>3
<1>7. \A p \in Phones : x.request[p].state = "PENDING" => x.request[p].previous # p
  BY <1>3 DEF Current
<1>8. Goes(r, x, S)
  BY <1>1, <1>2, <1>3, <1>4, <1>5, <1>6, <1>7, GoesOne
<1> QED
  BY <1>8 DEF x

(* The one command that changes a readiness.                               *)
LEMMA ReadinessGoes ==
  ASSUME NEW r, RoomOK(r), Current(r), NEW c \in Issued, c.kind = "READINESS",
         c.id \notin r.done, ReadinessProblem(r, c) = "OK", NEW S, c \in S
  PROVE  Goes(r, SetReadiness(r, c), S)
<1> DEFINE x == SetReadiness(r, c)
           u == UserOf[c.by]
<1>1. r \in Rooms /\ u \in Users /\ r.member[u] \in Memberships
  BY Fields, RoomAssumption DEF RoomOK, Issued, Commands
<1>2. RoomOK(x)
  BY ReadinessMoves DEF Moves
<1>3. /\ \/ x.member = r.member
         \/ x.member = [r.member EXCEPT ![u].ready = c.value]
      /\ x.revoked = r.revoked /\ x.request = r.request /\ x.state = r.state
      /\ x.done = r.done \cup {c.id}
  BY <1>1 DEF SetReadiness, Keep, Bump, Rooms
<1>4. /\ c.by \notin r.revoked /\ r.member[u].state = "ACTIVE"
      /\ r.member[u].phone = c.by /\ r.state \in {"LOBBY", "ACTIVE"}
  BY ReadinessPassed
<1> HIDE DEF x
<1>5. /\ \A v \in Users \ {u} : x.member[v] = r.member[v]
      /\ x.member[u].state = "ACTIVE" /\ x.member[u].phone = c.by
  BY <1>1, <1>3, <1>4, Fields DEF Memberships
<1>6. /\ r.done \subseteq x.done /\ r.revoked \subseteq x.revoked
      /\ c.by \notin x.revoked
  BY <1>3, <1>4
<1>7. \A p \in Phones : x.request[p].state = "PENDING" => x.request[p].previous # p
  BY <1>3 DEF Current
<1>8. /\ c.kind = "READINESS" /\ c.by = r.member[u].phone
      /\ c.id \notin r.done /\ ~Barred(r, c.by) /\ c.id \in x.done
      /\ x.member[u].ready # r.member[u].ready => c.value = x.member[u].ready
  BY <1>1, <1>3, <1>4, Fields DEF Barred, Memberships
<1>9. Goes(r, x, S)
  BY <1>1, <1>2, <1>3, <1>4, <1>5, <1>6, <1>7, <1>8, GoesOne
<1> QED
  BY <1>9 DEF x

(* Start: no row changes, and a lobby was no reason to be barred.          *)
LEMMA StartGoes ==
  ASSUME NEW r, RoomOK(r), Current(r), NEW c \in Issued,
         StartProblem(r, c) = "OK", NEW S
  PROVE  Goes(r, Start(r, c), S)
<1> DEFINE x == Start(r, c)
<1>1. r \in Rooms
  BY DEF RoomOK
<1>2. RoomOK(x)
  BY StartMoves DEF Moves
<1>3. /\ x.member = r.member /\ x.revoked = r.revoked /\ x.request = r.request
      /\ x.done = r.done \cup {c.id}
  BY <1>1 DEF Start, Keep, Bump, Rooms
<1>4. r.state = "LOBBY"
  BY StartPassed
<1> HIDE DEF x
<1>5. \A p \in Phones : x.request[p].state = "PENDING" => x.request[p].previous # p
  BY <1>3 DEF Current
<1>6. Goes(r, x, S)
  BY <1>2, <1>3, <1>4, <1>5, GoesSame
<1> QED
  BY <1>6 DEF x

(* The host's invite: no row changes.                                      *)
LEMMA SaveInviteGoes ==
  ASSUME NEW r, RoomOK(r), Current(r), NEW c, NEW S
  PROVE  Goes(r, SaveInvite(r, c), S)
<1> DEFINE x == SaveInvite(r, c)
<1>1. r \in Rooms
  BY DEF RoomOK
<1>2. RoomOK(x)
  BY SaveInviteMoves DEF Moves
<1>3. /\ x.member = r.member /\ x.revoked = r.revoked /\ x.request = r.request
      /\ x.done = r.done /\ x.state = r.state
  BY <1>1 DEF SaveInvite, Bump, Rooms
<1> HIDE DEF x
<1>4. \A p \in Phones : x.request[p].state = "PENDING" => x.request[p].previous # p
  BY <1>3 DEF Current
<1>5. Goes(r, x, S)
  BY <1>2, <1>3, <1>4, GoesSame
<1> QED
  BY <1>5 DEF x

(* Nothing happened.                                                       *)
LEMMA GoesNowhere ==
  ASSUME NEW r, RoomOK(r), Current(r), NEW S
  PROVE  Goes(r, r, S)
  BY DEF Goes

(* A pending membership moves to a phone that is not revoked, and the one  *)
(* it leaves is.                                                           *)
LEMMA MovePendingGoes ==
  ASSUME NEW r, RoomOK(r), Current(r), NEW c \in Issued,
         r.member[UserOf[c.by]].state = "PENDING", c.by \notin r.revoked,
         ~Nominated(r, c.by), NEW S
  PROVE  Goes(r, MovePending(r, c), S)
<1> DEFINE x == MovePending(r, c)
           u == UserOf[c.by]
           old == r.member[u].phone
<1>1. r \in Rooms /\ u \in Users /\ r.member[u] \in Memberships
  BY Fields, RoomAssumption DEF RoomOK, Issued, Commands
<1>2. RoomOK(x)
  BY MovePendingMoves DEF Moves
<1>3. /\ x.member = [[r.member EXCEPT ![u].phone = c.by] EXCEPT ![u].ready = FALSE]
      /\ x.revoked = r.revoked \cup {old} /\ x.request = r.request
      /\ x.state = r.state /\ x.done = r.done
  BY <1>1 DEF MovePending, Bump, Rooms
<1>4. old \in Phones /\ UserOf[old] = u /\ old # c.by
  BY <1>1 DEF RoomOK, Sealed, Nominated
<1> HIDE DEF x
<1>5. /\ \A v \in Users \ {u} : x.member[v] = r.member[v]
      /\ x.member[u].state = "PENDING" /\ x.member[u].phone = c.by
  BY <1>1, <1>3, Fields DEF Memberships
<1>6. /\ r.done \subseteq x.done /\ r.revoked \subseteq x.revoked
      /\ c.by \notin x.revoked
      /\ \A p \in x.revoked : p \in r.revoked \/ (p \in Phones /\ UserOf[p] = u)
  BY <1>3, <1>4
<1>7. \A p \in Phones : x.request[p].state = "PENDING" => x.request[p].previous # p
  BY <1>3 DEF Current
<1> HIDE DEF old
<1>8. Goes(r, x, S)
  BY <1>1, <1>2, <1>3, <1>5, <1>6, <1>7, GoesOne
<1> QED
  BY <1>8 DEF x

(* A phone asks to replace another.                                        *)
LEMMA AskForPhoneGoes ==
  ASSUME NEW r, RoomOK(r), Current(r), NEW c \in Issued,
         ~Nominated(r, c.by), NEW S
  PROVE  Goes(r, AskForPhone(r, c), S)
<1> DEFINE x == AskForPhone(r, c)
           u == UserOf[c.by]
           ask == [state |-> "PENDING", previous |-> r.member[u].phone,
                   approver |-> None]
<1>1. r \in Rooms /\ c.by \in Phones
  BY DEF RoomOK, Issued, Commands
<1>2. RoomOK(x)
  BY AskForPhoneMoves DEF Moves
<1>3. /\ x.member = r.member /\ x.revoked = r.revoked /\ x.state = r.state
      /\ x.done = r.done
      /\ x.request = [Cancelled(r, u) EXCEPT ![c.by] = ask]
  BY <1>1 DEF AskForPhone, Bump, Rooms
<1>4. ask.state = "PENDING" /\ ask.previous # c.by
  BY DEF Nominated
<1>5. ASSUME NEW p \in Phones, x.request[p].state = "PENDING"
      PROVE  x.request[p].previous # p
  <2>1. CASE p = c.by
    BY <1>1, <1>3, <1>4, <2>1, CancelledType
  <2>2. CASE p # c.by
    <3>1. x.request[p] = Cancelled(r, u)[p]
      BY <1>1, <1>3, <2>2, CancelledType
    <3>2. Cancelled(r, u)[p] = IF p \in PendingOf(r, u)
                               THEN [r.request[p] EXCEPT !.state = "CANCELLED"]
                               ELSE r.request[p]
      BY DEF Cancelled
    <3>3. [r.request[p] EXCEPT !.state = "CANCELLED"].state = "CANCELLED"
      BY <1>1, Fields DEF Requests
    <3>4. x.request[p] = r.request[p]
      BY <1>5, <3>1, <3>2, <3>3
    <3> QED
      BY <1>5, <3>4 DEF Current
  <2> QED
    BY <2>1, <2>2
<1> HIDE DEF x
<1>6. Goes(r, x, S)
  BY <1>2, <1>3, <1>5, GoesSame
<1> QED
  BY <1>6 DEF x

(* A phone asks: it was the one in use, or one of the above.               *)
LEMMA RequestGoes ==
  ASSUME NEW r, RoomOK(r), Current(r), NEW c \in Issued,
         RequestProblem(r, c) = "OK", NEW S
  PROVE  Goes(r, RequestPhone(r, c), S)
<1>1. CASE AlreadyAsked(r, c)
  BY <1>1, GoesNowhere DEF RequestPhone
<1>2. CASE ~AlreadyAsked(r, c)
  <2>1. ~Nominated(r, c.by) /\ c.by \notin r.revoked
    BY <1>2, RequestPassed DEF AlreadyAsked
  <2> QED
    BY <1>2, <2>1, MovePendingGoes, AskForPhoneGoes DEF RequestPhone
<1> QED
  BY <1>1, <1>2

(* An active member gets another phone, and the one it had is revoked.     *)
LEMMA ReplaceGoes ==
  ASSUME NEW r, RoomOK(r), Current(r), NEW c \in Issued, c.kind = "RESOLVE",
         r.request[c.about].state = "PENDING", c.about \notin r.revoked,
         r.member[UserOf[c.about]].state = "ACTIVE",
         r.member[UserOf[c.about]].phone = r.request[c.about].previous, NEW S
  PROVE  Goes(r, Bump(ReplacePhone(r, c)), S)
<1> DEFINE x == Bump(ReplacePhone(r, c))
           p == c.about
           u == UserOf[p]
           old == r.request[p].previous
           yes == [r.request[p] EXCEPT !.state = "APPROVED", !.approver = c.by]
<1>1. /\ r \in Rooms /\ p \in Phones /\ u \in Users /\ r.member[u] \in Memberships
      /\ r.request[p] \in Requests
  BY Fields, RoomAssumption DEF RoomOK, Issued, WellFormed
<1>2. RoomOK(x)
  BY ReplaceMoves DEF Moves
<1>3. /\ x.member = [[r.member EXCEPT ![u].phone = p] EXCEPT ![u].ready = FALSE]
      /\ x.revoked = r.revoked \cup {old} /\ x.state = r.state
      /\ x.done = r.done /\ x.request = [Cancelled(r, u) EXCEPT ![p] = yes]
  BY <1>1 DEF ReplacePhone, Bump, Rooms
<1>4. old \in Phones /\ UserOf[old] = u /\ old # p
  BY <1>1 DEF RoomOK, Sealed, Current
<1>5. /\ \A v \in Users \ {u} : x.member[v] = r.member[v]
      /\ x.member[u].state = "ACTIVE" /\ x.member[u].phone = p
  <2>1. r.member[u].state = "ACTIVE" /\ r.member \in [Users -> Memberships]
    BY <1>1, Fields
  <2> HIDE DEF x, p, u, old
  <2>2. \A v \in Users \ {u} : x.member[v] = r.member[v]
    BY <1>1, <1>3, <2>1
  <2>3. x.member[u] = [[r.member[u] EXCEPT !.phone = p] EXCEPT !.ready = FALSE]
    BY <1>1, <1>3, <2>1
  <2>4. x.member[u].state = "ACTIVE" /\ x.member[u].phone = p
    BY <1>1, <2>1, <2>3 DEF Memberships
  <2> QED
    BY <2>2, <2>4
<1>6. /\ r.done \subseteq x.done /\ r.revoked \subseteq x.revoked
      /\ p \notin x.revoked
      /\ \A q \in x.revoked : q \in r.revoked \/ (q \in Phones /\ UserOf[q] = u)
      /\ r.member[u].phone \in x.revoked /\ p # r.member[u].phone
  BY <1>3, <1>4
<1>7. ASSUME NEW q \in Phones, x.request[q].state = "PENDING"
      PROVE  x.request[q].previous # q
  <2>1. CASE q = p
    <3>1. yes.state = "APPROVED"
      BY <1>1 DEF Requests
    <3> QED
      BY <1>1, <1>3, <1>7, <2>1, <3>1, CancelledType
  <2>2. CASE q # p
    <3>1. x.request[q] = Cancelled(r, u)[q]
      BY <1>1, <1>3, <2>2, CancelledType
    <3>2. Cancelled(r, u)[q] = IF q \in PendingOf(r, u)
                               THEN [r.request[q] EXCEPT !.state = "CANCELLED"]
                               ELSE r.request[q]
      BY DEF Cancelled
    <3>3. [r.request[q] EXCEPT !.state = "CANCELLED"].state = "CANCELLED"
      BY <1>1, Fields DEF Requests
    <3>4. x.request[q] = r.request[q]
      BY <1>7, <3>1, <3>2, <3>3
    <3> QED
      BY <1>7, <3>4 DEF Current
  <2> QED
    BY <2>1, <2>2
<1> HIDE DEF x, old
<1>8. Goes(r, x, S)
  BY <1>1, <1>2, <1>3, <1>5, <1>6, <1>7, GoesOne
<1> QED
  BY <1>8 DEF x

(* A replacement is approved or declined.                                  *)
LEMMA ResolveGoes ==
  ASSUME NEW r, RoomOK(r), Current(r), NEW c \in Issued, c.kind = "RESOLVE",
         ResolveProblem(r, c) = "OK", NEW S
  PROVE  Goes(r, Resolve(r, c), S)
<1>1. CASE AlreadyResolved(r, c)
  BY <1>1, GoesNowhere DEF Resolve
<1>2. CASE ~AlreadyResolved(r, c) /\ c.value
  <2>1. Resolve(r, c) = Bump(ReplacePhone(r, c))
    BY <1>2 DEF Resolve
  <2> QED
    BY <1>2, <2>1, ResolvePassed, ReplaceGoes
<1>3. CASE ~AlreadyResolved(r, c) /\ ~c.value
  <2> DEFINE x == Resolve(r, c)
             p == c.about
             no == [[r.request EXCEPT ![p].state = "REJECTED"]
                      EXCEPT ![p].approver = c.by]
  <2>1. r \in Rooms /\ p \in Phones /\ r.request[p] \in Requests
    BY Fields DEF RoomOK, Issued, WellFormed
  <2>2. RoomOK(x)
    BY ResolveMoves DEF Moves
  <2>3. /\ x.member = r.member /\ x.revoked = r.revoked /\ x.state = r.state
        /\ x.done = r.done /\ x.request = no
    BY <1>3, <2>1 DEF Resolve, Bump, Rooms
  <2>4. \A q \in Phones : /\ q # p => no[q] = r.request[q]
                          /\ q = p => no[q].state = "REJECTED"
    BY <2>1, Fields DEF Requests
  <2>5. \A q \in Phones : x.request[q].state = "PENDING" => x.request[q].previous # q
    BY <2>3, <2>4 DEF Current
  <2> HIDE DEF x
  <2>6. Goes(r, x, S)
    BY <2>2, <2>3, <2>5, GoesSame
  <2> QED
    BY <2>6 DEF x
<1> QED
  BY <1>1, <1>2, <1>3

(* Handling a request.                                                     *)
LEMMA ExecuteGoes ==
  ASSUME NEW r, RoomOK(r), Current(r), NEW c \in Issued
  PROVE  Goes(r, Execute(r, c).room, {c})
<1>1. Goes(r, r, {c})
  BY GoesNowhere
<1>2. CASE c.id \in r.done
  BY <1>1, <1>2 DEF Execute, Replayed
<1>3. CASE c.id \notin r.done
  <2> SUFFICES Goes(r, Run(r, c).room, {c})
    BY <1>3 DEF Execute
  <2>1. ASSUME NEW problem, NEW x, problem = "OK" => Goes(r, x, {c})
        PROVE  Goes(r, Handled(r, problem, x).room, {c})
    BY <1>1, <2>1 DEF Handled
  <2>2. CASE c.kind = "JOIN"
    BY <2>1, <2>2, JoinGoes DEF Run
  <2>3. CASE c.kind = "APPROVE"
    BY <2>1, <2>3, ApproveGoes DEF Run
  <2>4. CASE c.kind = "REJECT"
    BY <2>1, <2>4, RejectGoes DEF Run
  <2>5. CASE c.kind = "READINESS"
    BY <1>3, <2>1, <2>5, ReadinessGoes DEF Run
  <2>6. CASE c.kind = "START"
    BY <2>1, <2>6, StartGoes DEF Run
  <2>7. CASE c.kind = "SAVE_INVITE"
    BY <2>1, <2>7, SaveInviteGoes DEF Run
  <2>8. CASE c.kind = "REQUEST"
    BY <2>1, <2>8, RequestGoes DEF Run
  <2>9. CASE c.kind = "RESOLVE"
    BY <2>1, <2>9, ResolveGoes DEF Run
  <2>10. c.kind \in {"JOIN", "APPROVE", "REJECT", "READINESS", "START",
                     "SAVE_INVITE", "REQUEST", "RESOLVE"}
    BY DEF Issued, Commands
  <2> QED
    BY <2>2, <2>3, <2>4, <2>5, <2>6, <2>7, <2>8, <2>9, <2>10
<1> QED
  BY <1>2, <1>3

(* What the rest of the system does to the rows runs no command.           *)
LEMMA OthersGo ==
  ASSUME RoomInv, Current(room),
         \/ \E u \in Users : Depart(u)
         \/ \E a \in Assets : ShareAsset(a)
         \/ \E a \in Assets, p \in Phones : SaveAsset(a, p)
         \/ EndTrip
         \/ EndTimePasses
  PROVE  Goes(room, room', {})
<1>1. RoomOK(room) /\ room \in Rooms
  BY DEF RoomInv, RoomOK
<1>2. ASSUME NEW u \in Users, Depart(u)
      PROVE  Goes(room, room', {})
  <2>1. u \in Seated(room) /\ room' = Departed(room, u)
    BY <1>2 DEF Depart
  <2>2. RoomOK(room')
    BY <1>1, <2>1, DepartMoves DEF Moves
  <2>3. /\ room'.member = [room.member EXCEPT ![u].state = "LEFT"]
        /\ room'.state \in {room.state, "OVER"}
        /\ room'.revoked = room.revoked /\ room'.request = room.request
        /\ room'.done = room.done
    BY <1>1, <2>1 DEF Departed, Bump, Rooms
  <2>4. room.member[u].state \in {"PENDING", "ACTIVE"}
    BY <2>1 DEF Seated
  <2>5. /\ \A v \in Users \ {u} : room'.member[v] = room.member[v]
        /\ room'.member[u].state = "LEFT"
        /\ room'.member[u].phone = room.member[u].phone
    BY <1>1, <2>3, Fields DEF Memberships
  <2>6. \A p \in Phones : room'.request[p].state = "PENDING" =>
                          room'.request[p].previous # p
    BY <2>3 DEF Current
  <2>7. /\ room.done \subseteq room'.done /\ room.revoked \subseteq room'.revoked
        /\ \A p \in room'.revoked : p \in room.revoked
        /\ room.state \notin {"LOBBY", "ACTIVE"} =>
             room'.state \notin {"LOBBY", "ACTIVE"}
    BY <2>3
  <2> QED
    BY <1>1, <2>2, <2>4, <2>5, <2>6, <2>7, GoesOne
<1>3. ASSUME \/ \E a \in Assets : ShareAsset(a)
             \/ \E a \in Assets, p \in Phones : SaveAsset(a, p)
             \/ EndTrip
             \/ EndTimePasses
      PROVE  Goes(room, room', {})
  <2>1. RoomOK(room')
    BY <1>1, <1>3, OtherMoves DEF Moves
  <2>2. /\ room'.member = room.member /\ room'.revoked = room.revoked
        /\ room'.request = room.request /\ room'.done = room.done
        /\ room.state \notin {"LOBBY", "ACTIVE"} =>
             room'.state \notin {"LOBBY", "ACTIVE"}
    <3>1. CASE \E a \in Assets : ShareAsset(a)
      BY <1>1, <3>1 DEF ShareAsset, Rooms
    <3>2. CASE \E a \in Assets, p \in Phones : SaveAsset(a, p)
      BY <1>1, <3>2 DEF SaveAsset, Rooms
    <3>3. CASE EndTrip
      BY <1>1, <3>3 DEF EndTrip, Bump, Rooms
    <3>4. CASE EndTimePasses
      BY <1>1, <3>4 DEF EndTimePasses, Rooms
    <3> QED
      BY <1>3, <3>1, <3>2, <3>3, <3>4
  <2>3. \A p \in Phones : room'.request[p].state = "PENDING" =>
                          room'.request[p].previous # p
    BY <2>2 DEF Current
  <2> QED
    BY <1>1, <2>1, <2>2, <2>3, GoesSame
<1> QED
  BY <1>2, <1>3

-----------------------------------------------------------------------------
(* The answer to a command is OK or the reason of a test that failed.      *)
LEMMA SomeProblem ==
  ASSUME NEW n \in 1..8, NEW tests, DOMAIN tests = 1..n
  PROVE  \/ FirstProblem(tests) = "OK"
         \/ \E i \in 1..n : tests[i][1] /\ FirstProblem(tests) = tests[i][2]
<1> SUFFICES ASSUME \E i \in DOMAIN tests : tests[i][1]
             PROVE  \E i \in 1..n : tests[i][1] /\ FirstProblem(tests) = tests[i][2]
  BY DEF FirstProblem
<1> DEFINE Bad(i) == /\ tests[i][1]
                     /\ \A j \in 1..(i - 1) : ~tests[j][1]
<1>1. \E i \in 1..n : Bad(i)
  <2>1. PICK k \in 1..n : tests[k][1]
    OBVIOUS
  <2> DEFINE Is(i) == i \in 1..n /\ tests[i][1]
  <2> QED
    BY <2>1
<1> DEFINE k == CHOOSE i \in DOMAIN tests : Bad(i)
<1>2. k \in 1..n /\ Bad(k)
  BY <1>1
<1>3. FirstProblem(tests) = tests[k][2]
  BY DEF FirstProblem
<1> QED
  BY <1>2, <1>3

(* Why a caller is turned away.                                            *)
LEMMA CallerTurnedAway ==
  ASSUME NEW r, NEW c
  PROVE  LET m == r.member[UserOf[c.by]]
             code == CallerProblem(r, c) IN
         \/ code = "OK"
         \/ code = "DEVICE_REVOKED" /\ c.by \in r.revoked
         \/ code = "NOT_FOUND" /\ m.state # "ACTIVE"
         \/ code = "DEVICE_NOT_PARTICIPANT" /\ m.phone # c.by
         \/ code = "TRIP_OWNER_REQUIRED"
<1> DEFINE m == r.member[UserOf[c.by]]
           tests == <<
         <<c.by \in r.revoked, "DEVICE_REVOKED">>,
         <<m.state # "ACTIVE", "NOT_FOUND">>,
         <<m.phone # c.by, "DEVICE_NOT_PARTICIPANT">>,
         <<c.kind # "READINESS" /\ UserOf[c.by] # Host, "TRIP_OWNER_REQUIRED">> >>
<1>1. CallerProblem(r, c) = FirstProblem(tests)
  BY DEF CallerProblem
<1>2. DOMAIN tests = 1..4 /\ 1..4 = {1, 2, 3, 4} /\ 4 \in 1..8
  OBVIOUS
<1>3. /\ tests[1][1] => c.by \in r.revoked /\ tests[1][2] = "DEVICE_REVOKED"
      /\ tests[2][1] => m.state # "ACTIVE" /\ tests[2][2] = "NOT_FOUND"
      /\ tests[3][1] => m.phone # c.by /\ tests[3][2] = "DEVICE_NOT_PARTICIPANT"
      /\ tests[4][2] = "TRIP_OWNER_REQUIRED"
  OBVIOUS
<1> HIDE DEF tests
<1>4. \/ FirstProblem(tests) = "OK"
      \/ \E i \in {1, 2, 3, 4} : tests[i][1] /\ FirstProblem(tests) = tests[i][2]
  BY <1>2, SomeProblem
<1> QED
  BY <1>1, <1>3, <1>4

(* A readiness command that was refused for good changes nothing, and is   *)
(* refused because its phone is out of the trip or the trip is over.       *)
LEMMA ReadinessRefused ==
  ASSUME NEW r, NEW c, c.kind = "READINESS",
         Execute(r, c).code \in ReadinessTerminal
  PROVE  /\ Execute(r, c).room = r
         /\ \/ c.by \in r.revoked
            \/ r.member[UserOf[c.by]].state # "ACTIVE"
            \/ r.member[UserOf[c.by]].phone # c.by
            \/ c.id \notin r.done /\ r.state \notin {"LOBBY", "ACTIVE"}
<1> DEFINE out == \/ c.by \in r.revoked
                  \/ r.member[UserOf[c.by]].state # "ACTIVE"
                  \/ r.member[UserOf[c.by]].phone # c.by
<1>1. ASSUME CallerProblem(r, c) \in ReadinessTerminal
      PROVE  out
  BY <1>1, CallerTurnedAway DEF ReadinessTerminal
<1>2. CASE c.id \in r.done
  <2>1. Execute(r, c).room = r /\ Execute(r, c).code = CallerProblem(r, c)
    BY <1>2 DEF Execute, Replayed
  <2> QED
    BY <1>1, <2>1
<1>3. CASE c.id \notin r.done
  <2> DEFINE code == ReadinessProblem(r, c)
             tests == <<
         <<CallerProblem(r, c) # "OK", CallerProblem(r, c)>>,
         <<r.past, "TRIP_STATE_CONFLICT">>,
         <<r.state \notin {"LOBBY", "ACTIVE"}, "MEMBERSHIP_FROZEN">> >>
  <2>1. Execute(r, c) = Handled(r, code, SetReadiness(r, c))
    BY <1>3 DEF Execute, Run
  <2>2. code = FirstProblem(tests)
    BY DEF ReadinessProblem
  <2>3. DOMAIN tests = 1..3 /\ 1..3 = {1, 2, 3} /\ 3 \in 1..8
    OBVIOUS
  <2>4. /\ tests[1][2] = CallerProblem(r, c)
        /\ tests[2][2] = "TRIP_STATE_CONFLICT"
        /\ tests[3][1] => r.state \notin {"LOBBY", "ACTIVE"}
    OBVIOUS
  <2> HIDE DEF tests
  <2>5. \/ FirstProblem(tests) = "OK"
        \/ \E i \in {1, 2, 3} : tests[i][1] /\ FirstProblem(tests) = tests[i][2]
    BY <2>3, SomeProblem
  <2> HIDE DEF code
  <2>6. code \in ReadinessTerminal
    BY <2>1 DEF Handled
  <2>7. code # "OK" /\ code # "TRIP_STATE_CONFLICT"
    BY <2>6 DEF ReadinessTerminal
  <2>8. Execute(r, c).room = r
    BY <2>1, <2>7 DEF Handled
  <2>9. \/ CallerProblem(r, c) \in ReadinessTerminal
        \/ r.state \notin {"LOBBY", "ACTIVE"}
    BY <2>2, <2>4, <2>5, <2>6, <2>7
  <2> QED
    BY <1>1, <1>3, <2>8, <2>9
<1> QED
  BY <1>2, <1>3

(* A readiness command that was answered OK has been carried out.          *)
LEMMA ReadinessDone ==
  ASSUME NEW r \in Rooms, NEW c, c.kind = "READINESS",
         Execute(r, c).code = "OK"
  PROVE  c.id \in Execute(r, c).room.done
<1>1. CASE c.id \in r.done
  BY <1>1 DEF Execute, Replayed
<1>2. CASE c.id \notin r.done
  <2>1. Execute(r, c) = Handled(r, ReadinessProblem(r, c), SetReadiness(r, c))
    BY <1>2 DEF Execute, Run
  <2>2. Execute(r, c).room = SetReadiness(r, c)
    BY <2>1 DEF Handled
  <2>3. SetReadiness(r, c).done = r.done \cup {c.id}
    BY DEF SetReadiness, Keep, Bump, Rooms
  <2> QED
    BY <2>2, <2>3
<1> QED
  BY <1>1, <1>2

-----------------------------------------------------------------------------
(* What was settled for a phone whose records do not change stays settled. *)
LEMMA SpentKept ==
  ASSUME NEW r, NEW x, NEW S, Goes(r, x, S), NEW me, NEW c, c.by \in Phones,
         Spent(r, me, c), NEW you,
         c \in Loose(me) => c \in Loose(you) \/ c.id \in x.done \/ Barred(x, c.by)
  PROVE  Spent(x, you, c)
  BY DEF Spent, Goes

(* What a phone was told stays told: only a loose command of its own       *)
(* changes its readiness.                                                  *)
LEMMA ToldKept ==
  ASSUME NEW r, NEW x, NEW S, Goes(r, x, S), NEW p \in Phones, NEW me,
         \A c \in S : c # None /\ (c.by = p => Spent(r, me, c)),
         Told(r, p, me), NEW you, you.told = me.told, Loose(me) \subseteq Loose(you)
  PROVE  Told(x, p, you)
<1> DEFINE now == x.member[UserOf[p]].ready
<1> SUFFICES ASSUME me.told # None
             PROVE  /\ Admitted(x, p)
                    /\ InUse(x, p) =>
                         \/ now = me.told
                         \/ \E c \in Loose(you) : c.id \in x.done /\ c.value = now
  BY DEF Told
<1>1. Admitted(r, p) /\ Admitted(x, p)
  BY DEF Told, Goes
<1>2. ASSUME InUse(x, p)
      PROVE  \/ now = me.told
             \/ \E c \in Loose(you) : c.id \in x.done /\ c.value = now
  <2>1. InUse(r, p) /\ r.done \subseteq x.done
    BY <1>1, <1>2 DEF Goes
  <2>2. CASE now = r.member[UserOf[p]].ready
    BY <2>1, <2>2 DEF Told
  <2>3. CASE now # r.member[UserOf[p]].ready
    <3>1. PICK c \in S : /\ c.kind = "READINESS" /\ c.by = p
                         /\ c.id \notin r.done /\ ~Barred(r, p)
                         /\ c.id \in x.done /\ c.value = now
      BY <1>2, <2>1, <2>3 DEF Goes
    <3>2. c \in Loose(me)
      BY <3>1 DEF Spent
    <3> QED
      BY <3>1, <3>2
  <2> QED
    BY <2>2, <2>3
<1> QED
  BY <1>1, <1>2

(* A step that may run the commands of S and changes the records of one    *)
(* phone, p: what it leaves agrees if the new records of p do.             *)
LEMMA AgreedAfter ==
  ASSUME RoomInv, Agreed, NEW S, Goes(room, room', S),
         NEW p \in Phones, NEW me, client' = [client EXCEPT ![p] = me],
         \A c \in Loose(client[p]) :
           c \in Loose(me) \/ c.id \in room'.done \/ Barred(room', p),
         \A c \in Held(me) : c # None =>
           c \in Held(client[p]) \/ (c.by = p /\ Spent(room', me, c)),
         \A c \in late' : c \in late \/ (c \in Held(client[p]) /\ c # None),
         Told(room', p, me),
         \A c \in S : c # None /\ Spent(room, client[c.by], c)
  PROVE  Agreed'
<1>1. /\ client \in [Phones -> Clients] /\ client'[p] = me
      /\ \A q \in Phones \ {p} : client'[q] = client[q]
  BY DEF RoomInv, Typed
<1>2. Current(room')
  BY DEF Goes
<1>3. ASSUME NEW c, c # None, c.by \in Phones, Spent(room, client[c.by], c)
      PROVE  Spent(room', client'[c.by], c)
  <2>1. CASE c.by # p
    BY <1>1, <1>3, <2>1, SpentKept
  <2>2. CASE c.by = p
    <3>1. Spent(room, client[p], c)
      BY <1>3, <2>2
    <3>2. c \in Loose(client[p]) =>
            c \in Loose(me) \/ c.id \in room'.done \/ Barred(room', c.by)
      BY <2>2
    <3>3. Spent(room', me, c)
      BY <1>3, <3>1, <3>2, SpentKept
    <3> QED
      BY <1>1, <2>2, <3>3
  <2> QED
    BY <2>1, <2>2
<1>4. ASSUME NEW q \in Phones, NEW c \in Held(client'[q]), c # None
      PROVE  c.by = q /\ Spent(room', client'[q], c)
  <2>1. CASE c \in Held(client[q])
    <3>1. c.by = q /\ Spent(room, client[c.by], c)
      BY <1>4, <2>1 DEF Agreed
    <3> QED
      BY <1>3, <1>4, <3>1
  <2>2. CASE c \notin Held(client[q])
    BY <1>1, <1>4, <2>2
  <2> QED
    BY <2>1, <2>2
<1>5. ASSUME NEW c \in late'
      PROVE  Spent(room', client'[c.by], c)
  <2>1. CASE c \in late
    <3>1. c \in Issued /\ c # None
      BY <2>1 DEF RoomInv, Typed, InTime
    <3>2. c.by \in Phones
      BY <3>1 DEF Issued, Commands
    <3>3. Spent(room, client[c.by], c)
      BY <2>1 DEF Agreed
    <3> QED
      BY <1>3, <3>1, <3>2, <3>3
  <2>2. CASE c \in Held(client[p]) /\ c # None
    <3>1. c.by = p /\ Spent(room, client[c.by], c)
      BY <2>2 DEF Agreed
    <3> QED
      BY <1>3, <2>2, <3>1
  <2> QED
    BY <1>5, <2>1, <2>2
<1>6. ASSUME NEW q \in Phones
      PROVE  Told(room', q, client'[q])
  <2>1. CASE q = p
    BY <1>1, <2>1
  <2>2. CASE q # p
    <3>1. Told(room, q, client[q]) /\ client'[q] = client[q]
      BY <1>1, <2>2 DEF Agreed
    <3>2. \A c \in S : c # None /\ (c.by = q => Spent(room, client[q], c))
      OBVIOUS
    <3> QED
      BY <3>1, <3>2, ToldKept
  <2> QED
    BY <2>1, <2>2
<1>7. \A q \in Phones : \A c \in Held(client'[q]) : Spent(room', client'[q], c)
  BY <1>4 DEF Spent
<1> QED
  BY <1>2, <1>4, <1>5, <1>6, <1>7 DEF Agreed

(* A step that may run the commands of S and changes no phone's records.   *)
LEMMA AgreedElsewhere ==
  ASSUME RoomInv, Agreed, NEW S, Goes(room, room', S), client' = client,
         late' \subseteq late,
         \A c \in S : c # None /\ Spent(room, client[c.by], c)
  PROVE  Agreed'
<1>1. Current(room')
  BY DEF Goes
<1>2. ASSUME NEW c, c # None, c.by \in Phones, Spent(room, client[c.by], c)
      PROVE  Spent(room', client[c.by], c)
  BY <1>2, SpentKept
<1>3. ASSUME NEW q \in Phones, NEW c \in Held(client[q])
      PROVE  (c # None => c.by = q) /\ Spent(room', client[q], c)
  BY <1>2, <1>3 DEF Agreed, Spent
<1>4. ASSUME NEW c \in late
      PROVE  Spent(room', client[c.by], c)
  <2>1. c \in Issued /\ c # None
    BY <1>4 DEF RoomInv, Typed, InTime
  <2>2. c.by \in Phones
    BY <2>1 DEF Issued, Commands
  <2> QED
    BY <1>2, <1>4, <2>1, <2>2 DEF Agreed
<1>5. ASSUME NEW q \in Phones
      PROVE  Told(room', q, client[q])
  <2>1. \A c \in S : c # None /\ (c.by = q => Spent(room, client[q], c))
    OBVIOUS
  <2>2. Told(room, q, client[q])
    BY DEF Agreed
  <2> QED
    BY <2>1, <2>2, ToldKept
<1> QED
  BY <1>1, <1>3, <1>4, <1>5 DEF Agreed

(* A phone makes a command: it retains at most one that changes readiness  *)
(* or starts the trip, and makes none while it does.                       *)
LEMMA SendsAgree ==
  ASSUME RoomInv, Agreed, NEW p \in Phones, NEW c \in Issued, c.by = p, NEW me,
         \/ me = [client[p] EXCEPT !.waiting = c, !.sent = @ + 1]
         \/ me = [client[p] EXCEPT !.waiting = c, !.joining = c, !.sent = @ + 1]
         \/ /\ me = [client[p] EXCEPT !.waiting = c, !.journal = c, !.sent = @ + 1]
            /\ client[p].journal = None,
         c.kind = "READINESS" => c = me.journal /\ Admitted(room, p),
         client' = [client EXCEPT ![p] = me], room' = room, late' = late
  PROVE  Agreed'
<1>1. client[p] \in Clients /\ RoomOK(room) /\ Current(room)
  BY OnePhone DEF Agreed
<1> DEFINE S == {}
<1>2. Goes(room, room', S)
  BY <1>1, GoesNowhere
<1>3. /\ me.told = client[p].told /\ me.waiting = c
      /\ me.joining \in {c, client[p].joining}
      /\ \/ me.journal = client[p].journal
         \/ me.journal = c /\ client[p].journal = None
      /\ me.dropped = client[p].dropped
  BY <1>1 DEF Clients
<1>9. Loose(client[p]) \subseteq Loose(me)
  BY <1>3 DEF Loose
<1>4. \A d \in Held(me) : d # None =>
        d \in Held(client[p]) \/ (d.by = p /\ Spent(room', me, d))
  <2>1. \A d \in Held(me) : d = c \/ d \in Held(client[p])
    BY <1>3 DEF Held
  <2>2. Spent(room', me, c)
    BY <1>3 DEF Spent, Loose
  <2> QED
    BY <2>1, <2>2
<1>5. Told(room', p, me)
  <2>1. Told(room, p, client[p])
    BY DEF Agreed
  <2> QED
    BY <1>2, <1>3, <1>9, <2>1, ToldKept
<1>6. \A d \in S : d # None /\ Spent(room, client[d.by], d)
  OBVIOUS
<1>7. \A d \in late' : d \in late \/ (d \in Held(client[p]) /\ d # None)
  OBVIOUS
<1>8. \A d \in Loose(client[p]) :
        d \in Loose(me) \/ d.id \in room'.done \/ Barred(room', p)
  BY <1>9
<1> HIDE DEF S
<1> QED
  BY <1>2, <1>4, <1>5, <1>6, <1>7, <1>8, AgreedAfter

(* A phone replays, gives up or loses an answer, or is turned away: its    *)
(* command may have run, and what was loose still is.                      *)
LEMMA RetainsAgree ==
  ASSUME RoomInv, Agreed, NEW p \in Phones, NEW S, Goes(room, room', S),
         NEW me, Loose(client[p]) \subseteq Loose(me), me.told = client[p].told,
         Held(me) \subseteq Held(client[p]) \cup {None},
         client' = [client EXCEPT ![p] = me],
         \A c \in late' : c \in late \/ (c \in Held(client[p]) /\ c # None),
         \A c \in S : c # None /\ Spent(room, client[c.by], c)
  PROVE  Agreed'
<1>1. Told(room, p, client[p])
  BY DEF Agreed
<1>2. \A c \in S : c # None /\ (c.by = p => Spent(room, client[p], c))
  OBVIOUS
<1>3. Told(room', p, me)
  BY <1>1, <1>2, ToldKept
<1> QED
  BY <1>3, AgreedAfter

(* The journal and the recovery record are what a phone replays.           *)
LEMMA ReplaysAgree ==
  ASSUME RoomInv, Agreed, NEW p \in Phones, ReplayJoin(p) \/ ReplayJournal(p)
  PROVE  Agreed'
<1>1. client[p] \in Clients /\ RoomOK(room) /\ Current(room)
  BY OnePhone DEF Agreed
<1>2. PICK d \in {client[p].joining, client[p].journal} :
        client' = [client EXCEPT ![p].waiting = d]
  BY DEF ReplayJoin, ReplayJournal
<1> DEFINE me == [client[p] EXCEPT !.waiting = d]
<1>3. client' = [client EXCEPT ![p] = me] /\ room' = room /\ late' = late
  BY <1>2, OnePhone DEF ReplayJoin, ReplayJournal
<1>4. /\ Loose(client[p]) \subseteq Loose(me) /\ me.told = client[p].told
      /\ Held(me) \subseteq Held(client[p]) \cup {None}
  BY <1>1 DEF Clients, Held, Loose
<1> DEFINE S == {}
<1>5. Goes(room, room', S)
  BY <1>1, <1>3, GoesNowhere
<1>6. \A c \in S : c # None /\ Spent(room, client[c.by], c)
  OBVIOUS
<1>7. \A c \in late' : c \in late \/ (c \in Held(client[p]) /\ c # None)
  BY <1>3
<1> HIDE DEF me, S
<1> QED
  BY <1>3, <1>4, <1>5, <1>6, <1>7, RetainsAgree

(* The command in flight, what executing it may change, and why it may.    *)
LEMMA InFlight ==
  ASSUME RoomInv, Agreed, NEW p \in Phones, client[p].waiting # None
  PROVE  LET c == client[p].waiting IN
         /\ c \in Issued /\ c.by = p /\ Spent(room, client[p], c)
         /\ Goes(room, Execute(room, c).room, {c})
<1> DEFINE c == client[p].waiting
<1>1. c \in Held(client[p])
  BY DEF Held
<1>2. c \in Issued
  BY <1>1, OnePhone
<1>3. c.by = p /\ Spent(room, client[p], c) /\ Current(room)
  BY <1>1 DEF Agreed
<1>4. Goes(room, Execute(room, c).room, {c})
  BY <1>2, <1>3, OnePhone, ExecuteGoes
<1> QED
  BY <1>2, <1>3, <1>4

(* The answer is lost, or the phone gives up and the request may be late.  *)
LEMMA LostAgree ==
  ASSUME RoomInv, Agreed, NEW p \in Phones, AnswerLost(p) \/ GivenUp(p)
  PROVE  Agreed'
<1> DEFINE c == client[p].waiting
           me == [client[p] EXCEPT !.waiting = None, !.lost = @ + 1]
<1>1. c # None /\ client' = [client EXCEPT ![p] = me] /\ client[p] \in Clients
  BY OnePhone DEF AnswerLost, GivenUp
<1>2. /\ c \in Issued /\ c.by = p /\ Spent(room, client[p], c)
      /\ Goes(room, Execute(room, c).room, {c})
  BY <1>1, InFlight
<1>3. /\ Loose(client[p]) \subseteq Loose(me) /\ me.told = client[p].told
      /\ Held(me) \subseteq Held(client[p]) \cup {None}
  BY <1>1 DEF Clients, Held, Loose
<1>4. c \in Held(client[p])
  BY DEF Held
<1>5. RoomOK(room) /\ Current(room)
  BY OnePhone DEF Agreed
<1> HIDE DEF me
<1>6. \A d \in {c} : d # None /\ Spent(room, client[d.by], d)
  BY <1>1, <1>2
<1>7. CASE AnswerLost(p)
  <2> DEFINE S == {c}
  <2>1. Goes(room, room', S) /\ late' = late
    BY <1>2, <1>7 DEF AnswerLost
  <2>2. \A d \in late' : d \in late \/ (d \in Held(client[p]) /\ d # None)
    BY <2>1
  <2>3. \A d \in S : d # None /\ Spent(room, client[d.by], d)
    BY <1>6
  <2> HIDE DEF S
  <2> QED
    BY <1>1, <1>3, <2>1, <2>2, <2>3, RetainsAgree
<1>8. CASE GivenUp(p)
  <2>1. room' = room /\ late' = late \cup {c}
    BY <1>8 DEF GivenUp
  <2> DEFINE S == {}
  <2>2. Goes(room, room', S)
    BY <1>5, <2>1, GoesNowhere
  <2>3. \A d \in late' : d \in late \/ (d \in Held(client[p]) /\ d # None)
    BY <1>1, <1>4, <2>1
  <2>4. \A d \in S : d # None /\ Spent(room, client[d.by], d)
    OBVIOUS
  <2> HIDE DEF S
  <2> QED
    BY <1>1, <1>3, <2>2, <2>3, <2>4, RetainsAgree
<1> QED
  BY <1>7, <1>8

(* What a phone's records become when the answer to its command arrives.   *)
LEMMA AnsweredRecords ==
  ASSUME NEW me \in Clients, NEW c \in Issued, NEW out
  PROVE  LET x == Received(me, c, out) IN
         /\ Held(x) \subseteq Held(me) \cup {None}
         /\ \/ Loose(me) = Loose(x) /\ x.told = me.told
            \/ /\ me.journal = c /\ c.kind = "READINESS"
               /\ out.code \in ReadinessTerminal
               /\ Loose(me) \subseteq Loose(x) \cup {c} /\ x.told = me.told
            \/ /\ me.journal = c /\ c.kind = "READINESS" /\ out.code = "OK"
               /\ out.room.member[UserOf[c.by]].ready = c.value
               /\ \A d \in Loose(me) : d = c \/ d \in Loose(x) \/ d.id \in out.room.done
               /\ x.told = c.value
<1> DEFINE settled == me.journal = c /\ Settles(c, out)
           x == Received(me, c, out)
<1>1. /\ x.waiting = None /\ x.joining \in {me.joining, None}
      /\ x.journal = IF settled THEN None ELSE me.journal
      /\ x.told = IF settled /\ c.kind = "READINESS" /\ out.code = "OK"
                  THEN c.value ELSE me.told
      /\ x.dropped = IF settled /\ c.kind = "READINESS" /\ out.code = "OK"
                     THEN {d \in me.dropped : d.id \notin out.room.done}
                     ELSE me.dropped
  BY DEF Received, Clients
<1> HIDE DEF x
<1>2. Held(x) \subseteq Held(me) \cup {None}
  BY <1>1 DEF Held
<1>3. CASE ~settled
  BY <1>1, <1>2, <1>3 DEF x, Loose
<1>4. CASE settled /\ c.kind # "READINESS"
  BY <1>1, <1>2, <1>4 DEF x, Loose
<1>5. CASE settled /\ c.kind = "READINESS"
  <2>1. \/ out.code = "OK" /\ Accepts(out.room, c)
        \/ out.code \in ReadinessTerminal
    BY <1>5 DEF Settles
  <2>2. Accepts(out.room, c) => out.room.member[UserOf[c.by]].ready = c.value
    BY <1>5 DEF Accepts
  <2>3. "OK" \notin ReadinessTerminal
    BY DEF ReadinessTerminal
  <2>4. \A d \in Loose(me) :
          d = c \/ d \in Loose(x) \/ (out.code = "OK" /\ d.id \in out.room.done)
    BY <1>1, <1>5 DEF Loose
  <2> QED
    BY <1>1, <1>2, <1>5, <2>1, <2>2, <2>3, <2>4 DEF x
<1> QED
  BY <1>3, <1>4, <1>5

(* An answer settles the retained command only when the server holds its   *)
(* value, or will never carry it out.                                      *)
LEMMA AnsweredAgrees ==
  ASSUME RoomInv, Agreed, NEW p \in Phones, Answered(p)
  PROVE  Agreed'
<1> DEFINE c == client[p].waiting
           out == Execute(room, c)
           me == Received(client[p], c, out)
           S == {c}
<1>1. /\ room' = out.room /\ client' = [client EXCEPT ![p] = me]
      /\ c # None /\ late' = late /\ client[p] \in Clients /\ room \in Rooms
  BY OnePhone DEF Answered, RoomOK
<1>2. c \in Issued /\ c.by = p /\ Spent(room, client[p], c) /\ Goes(room, room', S)
  BY <1>1, InFlight
<1>3. \A d \in S : d # None /\ Spent(room, client[d.by], d)
  BY <1>1, <1>2
<1>4. Told(room, p, client[p]) /\ Current(room)
  BY DEF Agreed
<1>5. /\ Held(me) \subseteq Held(client[p]) \cup {None}
      /\ \/ Loose(client[p]) = Loose(me) /\ me.told = client[p].told
         \/ /\ client[p].journal = c /\ c.kind = "READINESS"
            /\ out.code \in ReadinessTerminal
            /\ Loose(client[p]) \subseteq Loose(me) \cup {c}
            /\ me.told = client[p].told
         \/ /\ client[p].journal = c /\ c.kind = "READINESS" /\ out.code = "OK"
            /\ out.room.member[UserOf[c.by]].ready = c.value
            /\ \A d \in Loose(client[p]) :
                 d = c \/ d \in Loose(me) \/ d.id \in out.room.done
            /\ me.told = c.value
  BY <1>1, <1>2, AnsweredRecords
<1>6. /\ \A d \in late' : d \in late \/ (d \in Held(client[p]) /\ d # None)
      /\ \A d \in Held(me) : d # None =>
           d \in Held(client[p]) \/ (d.by = p /\ Spent(room', me, d))
  BY <1>1, <1>5
<1>7. \A d \in S : d # None /\ (d.by = p => Spent(room, client[p], d))
  BY <1>3
<1>8. UserOf[p] \in Users
  BY RoomAssumption
<1> HIDE DEF me, S
<1>9. CASE Loose(client[p]) = Loose(me) /\ me.told = client[p].told
  <2>1. Told(room', p, me)
    BY <1>2, <1>4, <1>7, <1>9, ToldKept
  <2>2. \A d \in Loose(client[p]) :
          d \in Loose(me) \/ d.id \in room'.done \/ Barred(room', p)
    BY <1>9
  <2> QED
    BY <1>1, <1>2, <1>3, <1>6, <2>1, <2>2, AgreedAfter
<1>10. CASE /\ client[p].journal = c /\ c.kind = "READINESS" /\ out.code = "OK"
            /\ out.room.member[UserOf[c.by]].ready = c.value
            /\ \A d \in Loose(client[p]) :
                 d = c \/ d \in Loose(me) \/ d.id \in out.room.done
            /\ me.told = c.value
  <2>1. c.id \in room'.done
    BY <1>1, <1>10, ReadinessDone
  <2>2. \A d \in Loose(client[p]) :
          d \in Loose(me) \/ d.id \in room'.done \/ Barred(room', p)
    BY <1>1, <1>10, <2>1
  <2>3. Admitted(room', p)
    BY <1>1, <1>2, <1>10 DEF Spent, Goes
  <2>4. room'.member[UserOf[p]].ready = me.told
    BY <1>1, <1>2, <1>10
  <2>5. Told(room', p, me)
    BY <2>3, <2>4 DEF Told
  <2> QED
    BY <1>1, <1>2, <1>3, <1>6, <2>2, <2>5, AgreedAfter
<1>11. CASE /\ client[p].journal = c /\ c.kind = "READINESS"
            /\ out.code \in ReadinessTerminal
            /\ Loose(client[p]) \subseteq Loose(me) \cup {c}
            /\ me.told = client[p].told
  <2>1. /\ room' = room
        /\ \/ p \in room.revoked
           \/ room.member[UserOf[p]].state # "ACTIVE"
           \/ room.member[UserOf[p]].phone # p
           \/ c.id \notin room.done /\ room.state \notin {"LOBBY", "ACTIVE"}
    BY <1>1, <1>2, <1>11, ReadinessRefused
  <2>2. Admitted(room, p)
    BY <1>1, <1>2, <1>11 DEF Spent
  <2>3. Barred(room', p)
    BY <2>1, <2>2 DEF Admitted, Barred
  <2>4. \A d \in Loose(client[p]) :
          d \in Loose(me) \/ d.id \in room'.done \/ Barred(room', p)
    BY <2>3
  <2>5. Told(room', p, me)
    <3>1. ASSUME InUse(room, p), me.told # None
          PROVE  \/ room.member[UserOf[p]].ready = me.told
                 \/ \E d \in Loose(me) :
                      d.id \in room.done /\ d.value = room.member[UserOf[p]].ready
      <4>1. p \notin room.revoked
        BY <1>4, <1>8, <3>1 DEF InUse, Current
      <4>2. c.id \notin room.done
        BY <2>1, <3>1, <4>1 DEF InUse
      <4> QED
        BY <1>4, <1>11, <3>1, <4>2 DEF Told
    <3> QED
      BY <1>4, <1>11, <2>1, <3>1 DEF Told
  <2> QED
    BY <1>1, <1>2, <1>3, <1>6, <2>4, <2>5, AgreedAfter
<1> QED
  BY <1>5, <1>9, <1>10, <1>11

(* The command in flight is refused unseen: if it was the retained one, it *)
(* is dropped.                                                             *)
LEMMA TurnedAwayAgrees ==
  ASSUME RoomInv, Agreed, NEW p \in Phones, TurnedAway(p)
  PROVE  Agreed'
<1> DEFINE c == client[p].waiting
<1>1. PICK code \in Unseen :
        client' = [client EXCEPT ![p] = Refused(client[p], code)]
  BY DEF TurnedAway
<1> DEFINE out == [room |-> room, code |-> code]
           before == Received(client[p], c, out)
           me == [before EXCEPT
                    !.lost = @ + 1,
                    !.dropped = IF c.kind = "READINESS" THEN @ \cup {c} ELSE @]
           S == {}
<1>2. /\ client' = [client EXCEPT ![p] = me] /\ room' = room /\ late' = late
      /\ c # None /\ client[p] \in Clients
  BY <1>1, OnePhone DEF TurnedAway, Refused
<1>3. c \in Issued
  BY <1>2, InFlight
<1>4. out.code # "OK"
  BY DEF Unseen
<1> HIDE DEF out
<1>5. /\ before \in Clients /\ Held(before) \subseteq Held(client[p]) \cup {None}
      /\ before.told = client[p].told
      /\ Loose(client[p]) \subseteq Loose(before)
                              \cup {d \in {c} : c.kind = "READINESS"}
  <2>1. /\ before \in Clients
        /\ Held(before) \subseteq Held(client[p]) \cup {None}
    BY <1>2, <1>3, ReceivedClient
  <2>2. \/ Loose(client[p]) = Loose(before) /\ before.told = client[p].told
        \/ /\ c.kind = "READINESS" /\ before.told = client[p].told
           /\ Loose(client[p]) \subseteq Loose(before) \cup {c}
    BY <1>2, <1>3, <1>4, AnsweredRecords
  <2> HIDE DEF before
  <2> QED
    BY <2>1, <2>2
<1> HIDE DEF before
<1>6. /\ Held(me) = Held(before) /\ me.told = before.told
      /\ me.journal = before.journal /\ before.dropped \subseteq me.dropped
      /\ c.kind = "READINESS" => c \in me.dropped
  BY <1>5 DEF Clients, Held
<1> HIDE DEF me
<1>7. Loose(client[p]) \subseteq Loose(me)
  BY <1>2, <1>5, <1>6 DEF Loose
<1>8. Goes(room, room', S)
  BY <1>2, OnePhone, GoesNowhere DEF Agreed
<1>9. \A d \in S : d # None /\ Spent(room, client[d.by], d)
  OBVIOUS
<1>10. \A d \in late' : d \in late \/ (d \in Held(client[p]) /\ d # None)
  BY <1>2
<1> HIDE DEF S
<1> QED
  BY <1>2, <1>5, <1>6, <1>7, <1>8, <1>9, <1>10, RetainsAgree

(* A request its phone gave up on arrives.                                 *)
LEMMA LateAgrees ==
  ASSUME RoomInv, Agreed, NEW c \in late, ArrivesLate(c)
  PROVE  Agreed'
<1> DEFINE S == {c}
<1>1. c \in Issued /\ c # None /\ RoomOK(room) /\ Current(room)
  BY DEF RoomInv, Typed, InTime, Agreed
<1>2. /\ late' \subseteq late /\ client' = client
      /\ room' = Execute(room, c).room
  BY DEF ArrivesLate
<1>3. Goes(room, room', S)
  BY <1>1, <1>2, ExecuteGoes
<1>4. \A d \in S : d # None /\ Spent(room, client[d.by], d)
  BY <1>1 DEF Agreed
<1> HIDE DEF S
<1> QED
  BY <1>2, <1>3, <1>4, AgreedElsewhere

(* A phone asks for anything but its readiness.                            *)
LEMMA AsksAgree ==
  ASSUME RoomInv, Agreed, NEW p \in Phones,
         \/ AskToJoin(p) \/ EnsureInvite(p) \/ RequestRecovery(p)
         \/ \E u \in Users : AskToApprove(p, u) \/ AskToReject(p, u)
         \/ \E q \in Phones, value \in BOOLEAN : ResolveRecovery(p, q, value)
  PROVE  Agreed'
<1>1. ASSUME NEW c \in Issued, c.kind # "READINESS", c.by = p, Send(p, c)
      PROVE  Agreed'
  <2> DEFINE me == [client[p] EXCEPT !.waiting = c, !.sent = @ + 1]
  <2>1. client' = [client EXCEPT ![p] = me] /\ room' = room /\ late' = late
    BY <1>1, OnePhone DEF Send
  <2> QED
    BY <1>1, <2>1, SendsAgree
<1>2. \A kind, about, value : Command(p, kind, about, value).by = p
  BY DEF Command
<1>3. CASE AskToJoin(p)
  <2> DEFINE c == Command(p, "JOIN", None, None)
             me == [client[p] EXCEPT !.waiting = c, !.joining = c, !.sent = @ + 1]
  <2>1. c \in Issued /\ c.kind = "JOIN" /\ c.by = p
    BY <1>2, PlainCommands
  <2> HIDE DEF c
  <2>2. client' = [client EXCEPT ![p] = me] /\ room' = room /\ late' = late
    BY <1>3, OnePhone DEF AskToJoin, c
  <2> QED
    BY <2>1, <2>2, SendsAgree
<1>4. CASE EnsureInvite(p)
  <2>1. /\ Command(p, "SAVE_INVITE", None, None) \in Issued
        /\ Command(p, "SAVE_INVITE", None, None).kind = "SAVE_INVITE"
    BY PlainCommands
  <2> QED
    BY <1>1, <1>2, <1>4, <2>1 DEF EnsureInvite
<1>5. CASE RequestRecovery(p)
  <2>1. /\ Command(p, "REQUEST", None, None) \in Issued
        /\ Command(p, "REQUEST", None, None).kind = "REQUEST"
    BY PlainCommands
  <2> QED
    BY <1>1, <1>2, <1>5, <2>1 DEF RequestRecovery
<1>6. ASSUME NEW u \in Users, AskToApprove(p, u)
      PROVE  Agreed'
  <2> DEFINE q == room.member[u].phone
  <2>1. q \in Phones
    BY <1>6 DEF AskToApprove, RoomInv, RoomOK, Sealed
  <2>2. /\ Command(p, "APPROVE", u, q) \in Issued
        /\ Command(p, "APPROVE", u, q).kind = "APPROVE"
    BY <2>1, CommandIssued
  <2> QED
    BY <1>1, <1>2, <1>6, <2>2 DEF AskToApprove
<1>7. ASSUME NEW u \in Users, AskToReject(p, u)
      PROVE  Agreed'
  <2>1. /\ Command(p, "REJECT", u, None) \in Issued
        /\ Command(p, "REJECT", u, None).kind = "REJECT"
    BY CommandIssued
  <2> QED
    BY <1>1, <1>2, <1>7, <2>1 DEF AskToReject
<1>8. ASSUME NEW q \in Phones, NEW value \in BOOLEAN, ResolveRecovery(p, q, value)
      PROVE  Agreed'
  <2>1. /\ Command(p, "RESOLVE", q, value) \in Issued
        /\ Command(p, "RESOLVE", q, value).kind = "RESOLVE"
    BY CommandIssued
  <2> QED
    BY <1>1, <1>2, <1>8, <2>1 DEF ResolveRecovery
<1> QED
  BY <1>3, <1>4, <1>5, <1>6, <1>7, <1>8

(* Start and readiness are journalled first, and only into an empty        *)
(* journal.                                                                *)
LEMMA JournalsAgree ==
  ASSUME RoomInv, Agreed, NEW p \in Phones,
         PressStart(p) \/ \E value \in BOOLEAN : PublishReadiness(p, value)
  PROVE  Agreed'
<1>1. CASE PressStart(p)
  <2> DEFINE d == Command(p, "START", None, None)
             c == [d EXCEPT !.version = shown[p].version, !.saw = shown[p].roster]
             me == [client[p] EXCEPT !.waiting = c, !.journal = c, !.sent = @ + 1]
  <2>1. d \in Issued /\ d.kind = "START" /\ d.by = p
    BY PlainCommands DEF Command
  <2>2. shown[p] \in Views
    BY <1>1 DEF PressStart, RoomInv, Typed
  <2> HIDE DEF d
  <2>3. c \in Commands /\ c.kind = "START" /\ c.by = p
    BY <2>1, <2>2 DEF Issued, Commands, Views
  <2>4. c \in Issued
    BY <2>3 DEF Issued, WellFormed
  <2>5. /\ client' = [client EXCEPT ![p] = me] /\ room' = room /\ late' = late
        /\ client[p].journal = None
    BY <1>1, OnePhone DEF PressStart, d
  <2> HIDE DEF c
  <2> QED
    BY <2>3, <2>4, <2>5, SendsAgree DEF c
<1>2. ASSUME NEW value \in BOOLEAN, PublishReadiness(p, value)
      PROVE  Agreed'
  <2> DEFINE c == Command(p, "READINESS", None, value)
             me == [client[p] EXCEPT !.waiting = c, !.journal = c, !.sent = @ + 1]
  <2>1. c \in Issued /\ c.by = p
    BY PlainCommands DEF Command
  <2>2. Admitted(room, p)
    BY <1>2 DEF PublishReadiness, Readable, Nominated, Admitted
  <2> HIDE DEF c
  <2>3. /\ client' = [client EXCEPT ![p] = me] /\ room' = room /\ late' = late
        /\ client[p].journal = None
    BY <1>2, OnePhone DEF PublishReadiness, c
  <2>4. me.journal = c
    BY OnePhone DEF Clients
  <2> QED
    BY <2>1, <2>2, <2>3, <2>4, SendsAgree
<1> QED
  BY <1>1, <1>2

(* A new trip has asked nobody anything.                                   *)
LEMMA InitAgrees == RoomInit => Agreed
<1> SUFFICES ASSUME RoomInit
             PROVE  Agreed
  OBVIOUS
<1>1. /\ room = NewRoom /\ late = {} /\ \A p \in Phones : client[p] = NewClient
  BY DEF RoomInit
<1>2. /\ room.revoked = {} /\ \A p \in Phones : room.request[p].state = "NONE"
  BY <1>1 DEF NewRoom
<1>3. Held(NewClient) = {None} /\ NewClient.told = None
  BY DEF NewClient, Held
<1>4. Current(room)
  BY <1>2 DEF Current
<1> QED
  BY <1>1, <1>3, <1>4 DEF Agreed, Spent, Told

(* Every step keeps the agreement.                                         *)
LEMMA StepAgrees == RoomInv /\ Agreed /\ [RoomNext]_roomVars => Agreed'
<1> SUFFICES ASSUME RoomInv, Agreed, [RoomNext]_roomVars
             PROVE  Agreed'
  OBVIOUS
<1>1. ASSUME room' = room, client' = client, late' = late
      PROVE  Agreed'
  BY <1>1 DEF Agreed
<1>2. ASSUME NEW p \in Phones, Hydrate(p)
      PROVE  Agreed'
  BY <1>1, <1>2 DEF Hydrate
<1>3. limit.assets \subseteq Assets /\ limit.leavers \subseteq Users
  BY OnePhone, RoomAssumption
<1>4. ASSUME \/ \E u \in Users : Depart(u)
             \/ \E a \in Assets : ShareAsset(a)
             \/ \E a \in Assets, p \in Phones : SaveAsset(a, p)
             \/ EndTrip
             \/ EndTimePasses
      PROVE  Agreed'
  <2> DEFINE S == {}
  <2>1. Current(room)
    BY DEF Agreed
  <2>2. Goes(room, room', S)
    BY <1>4, <2>1, OthersGo
  <2>3. client' = client /\ late' \subseteq late
    BY <1>4 DEF Depart, ShareAsset, SaveAsset, EndTrip, EndTimePasses
  <2>4. \A c \in S : c # None /\ Spent(room, client[c.by], c)
    OBVIOUS
  <2> HIDE DEF S
  <2> QED
    BY <2>2, <2>3, <2>4, AgreedElsewhere
<1>5. CASE UNCHANGED roomVars
  BY <1>1, <1>5 DEF roomVars
<1>6. CASE RoomNext
  BY <1>2, <1>3, <1>4, <1>6, AsksAgree, JournalsAgree, ReplaysAgree,
     AnsweredAgrees, TurnedAwayAgrees, LostAgree, LateAgrees DEF RoomNext
<1> QED
  BY <1>5, <1>6

-----------------------------------------------------------------------------
(* A phone that retains no command and was told its readiness agrees with  *)
(* the server about it, whatever older copy of a command is still to come, *)
(* unless a command it dropped when the server refused it unseen has run.  *)
THEOREM ReadinessSettles == RoomSpec => []ReadinessAgrees
<1>1. RoomInv /\ Agreed /\ [RoomNext]_roomVars => Agreed'
  BY StepAgrees
<1>2. Agreed => ReadinessAgrees
  <2>1. ASSUME Agreed, NEW p \in Phones,
               client[p].told # None, client[p].journal = None,
               room.member[UserOf[p]].state = "ACTIVE",
               room.member[UserOf[p]].phone = p
        PROVE  \/ room.member[UserOf[p]].ready = client[p].told
               \/ \E c \in client[p].dropped :
                    c.id \in room.done /\ c.value = room.member[UserOf[p]].ready
    <3>1. Told(room, p, client[p]) /\ InUse(room, p)
      BY <2>1 DEF Agreed, InUse
    <3>2. Loose(client[p]) \subseteq client[p].dropped
      BY <2>1 DEF Loose
    <3> QED
      BY <2>1, <3>1, <3>2 DEF Told
  <2> QED
    BY <2>1 DEF ReadinessAgrees
<1> QED
  BY <1>1, <1>2, InitAgrees, RoomInductive, PTL DEF RoomSpec
=============================================================================
