-------------------------- MODULE TripMedia_proofs --------------------------
(***************************************************************************)
(* Proofs about TripMedia for every crew, every set of photos and every    *)
(* choice of deadlines.                                                    *)
(***************************************************************************)
EXTENDS TripMedia, FiniteSetTheorems, TLAPS

(* Every subset of the crew is finite and has a natural cardinality.       *)
LEMMA CrewCardinality ==
    ASSUME NEW S \in SUBSET Members
    PROVE  Cardinality(S) \in Nat /\ (S # {} => Cardinality(S) > 0)
<1>1. IsFiniteSet(S)
  BY MembersAssumption, FS_Subset
<1>2. Cardinality(S) \in Nat
  BY <1>1, FS_CardinalityType
<1>3. Cardinality(S) = 0 <=> S = {}
  BY <1>1, FS_EmptySet
<1> QED
  BY <1>2, <1>3

(* The columns of a row of tables.                                         *)
LEMMA Columns ==
    ASSUME NEW w \in Tables
    PROVE  /\ w.trip \in TripRow
           /\ w.member \in [Members -> Row]
           /\ w.slots \in SUBSET Members
           /\ w.delivery \in [Assets -> [Members -> DeliveryState]]
           /\ InTrip(w) \in SUBSET Members
  BY DEF Tables, InTrip

(* A NULL timestamp is in the domain of the timestamp columns.            *)
LEMMA UnsetIsTime == Unset \in Time
  BY TimeAssumption DEF Unset, Time

(* A trip's version and member_count stay natural when counted up or down. *)
LEMMA Counters ==
    ASSUME NEW w \in Tables
    PROVE  /\ w.trip.version + 1 \in Nat /\ w.trip.memberCount + 1 \in Nat
           /\ w.trip.memberCount > 0 => w.trip.memberCount - 1 \in Nat
  BY Columns DEF TripRow

(* Bumping the version leaves a trip row behind.                          *)
LEMMA BumpedType ==
    ASSUME NEW w \in Tables
    PROVE  Bumped(w) \in TripRow
  BY Columns, Counters DEF Bumped, TripRow

(* A new row for one member and a new trip row leave tables behind.        *)
LEMMA UpdateType ==
    ASSUME NEW w \in Tables, NEW m \in Members, NEW row \in Row, NEW trip \in TripRow
    PROVE  [w EXCEPT !.member[m] = row, !.trip = trip] \in Tables
  BY Columns DEF Tables

(* The rows, deliveries and trip that depart() writes are well typed.      *)
LEMMA DepartedRowsType ==
    ASSUME NEW w \in Tables, NEW S \in SUBSET Members, NEW forced \in BOOLEAN, now \in Time
    PROVE  DepartedRows(w, S, forced) \in [Members -> Row]
<1> SUFFICES ASSUME NEW m \in Members
             PROVE  DepartedRows(w, S, forced)[m] \in Row
  BY DEF DepartedRows
<1>1. w.member[m] \in Row
  BY Columns
<1>2. (forced /\ Started(w)) \in BOOLEAN
  OBVIOUS
<1> QED
  BY <1>1, <1>2 DEF DepartedRows, Row

(* Waiving deliveries leaves delivery rows behind.                        *)
LEMMA WaivedType ==
    ASSUME NEW w \in Tables, NEW S \in SUBSET Members
    PROVE  Waived(w, S) \in [Assets -> [Members -> DeliveryState]]
  BY Columns DEF Waived, DeliveryState

(* The trip row that depart() writes, counted by who remains.             *)
LEMMA ReducedType ==
    ASSUME NEW w \in Tables, NEW S \in SUBSET Members, NEW R \in SUBSET Members,
           NEW missed \in BOOLEAN, now \in Time
    PROVE  Reduced(w, S, R, missed) \in TripRow
<1>1. w.trip \in TripRow
  BY Columns
<1>2. w.trip.version + Cardinality(S) \in Nat /\ Cardinality(R) \in Nat
  BY <1>1, CrewCardinality DEF TripRow
<1> QED
  BY <1>1, <1>2 DEF Reduced, TripRow, Terminal

(* depart() keeps every column in its domain.                              *)
LEMMA DepartType ==
    ASSUME NEW w \in Tables, NEW S \in SUBSET Members, NEW forced \in BOOLEAN, now \in Time
    PROVE  Depart(w, S, forced) \in Tables
<1> DEFINE rows == DepartedRows(w, S, forced)
           trip == Reduced(w, S, InTrip(w) \ S, \E m \in Members : rows[m].incomplete)
<1>1. rows \in [Members -> Row]
  BY DepartedRowsType
<1>2. Waived(w, S) \in [Assets -> [Members -> DeliveryState]]
  BY WaivedType
<1>3. trip \in TripRow
  <2>1. InTrip(w) \ S \in SUBSET Members
    BY Columns
  <2>2. (\E m \in Members : rows[m].incomplete) \in BOOLEAN
    OBVIOUS
  <2> QED
    BY <2>1, <2>2, ReducedType
<1>4. Depart(w, S, forced) =
        [w EXCEPT !.member = rows, !.slots = @ \ S, !.delivery = Waived(w, S), !.trip = trip]
  BY DEF Depart
<1> HIDE DEF rows, trip
<1> QED
  BY <1>1, <1>2, <1>3, <1>4 DEF Tables

(* end() keeps every column in its domain.                                *)
LEMMA EndType ==
    ASSUME NEW w \in Tables, now \in Time
    PROVE  End(w) \in Tables
<1>1. InTrip(w) \in SUBSET Members /\ w.trip \in TripRow
  BY Columns
<1>2. Depart(w, InTrip(w), FALSE) \in Tables
  BY <1>1, DepartType
<1>3. CalledHome(w) \in [Members -> Row]
  <2> SUFFICES ASSUME NEW m \in Members PROVE CalledHome(w)[m] \in Row
    BY DEF CalledHome
  <2>1. w.member[m] \in Row
    BY Columns
  <2> QED
    BY <2>1 DEF CalledHome, Row
<1> DEFINE trip == [w.trip EXCEPT !.state = "ENDING", !.endingAt = now, !.version = @ + 1]
<1>4. trip \in TripRow
  BY <1>1, Counters DEF TripRow
<1>5. End(w) = IF Ended(w) THEN w
               ELSE IF ~Started(w) THEN Depart(w, InTrip(w), FALSE)
               ELSE [w EXCEPT !.member = CalledHome(w), !.trip = trip]
  BY DEF End
<1> HIDE DEF trip
<1> QED
  BY <1>2, <1>3, <1>4, <1>5 DEF Tables

(* settle() either departs or does nothing.                               *)
LEMMA SettleType ==
    ASSUME NEW w \in Tables, NEW m \in Members, now \in Time
    PROVE  Settle(w, m) \in Tables
  BY DepartType DEF Settle

(* Reading the transfer state, which may end and settle, keeps the types. *)
LEMMA ReadStateType ==
    ASSUME NEW w \in Tables, NEW m \in Members, now \in Time
    PROVE  ReadState(w, m) \in Tables
  BY EndType, SettleType DEF ReadState

(* The commands of admission.                                              *)
LEMMA AdmissionType ==
    ASSUME TypeOK, now \in Time, Admission
    PROVE  db' \in Tables
<1>1. db \in Tables
  BY DEF TypeOK
<1>2. db.trip \in TripRow /\ db.member \in [Members -> Row] /\ db.slots \in SUBSET Members
  BY <1>1, Columns
<1>3. ASSUME NEW m \in Members, RequestJoin(m) PROVE db' \in Tables
  <2>1. [NoMember EXCEPT !.state = "PENDING_KEY"] \in Row
    BY UnsetIsTime DEF NoMember, Row
  <2>2. [db.trip EXCEPT !.memberCount = @ + 1, !.version = @ + 1] \in TripRow
    BY <1>1, <1>2, Counters DEF TripRow
  <2> QED
    BY <1>1, <1>2, <1>3, <2>1, <2>2 DEF RequestJoin, Install, Tables
<1>4. ASSUME NEW m \in Members, ApproveJoin(m) PROVE db' \in Tables
  <2>1. [db.member[m] EXCEPT !.state = "ACTIVE", !.approvedAt = now] \in Row
    BY <1>2 DEF Row
  <2> QED
    BY <1>1, <1>4, <2>1, UpdateType, BumpedType DEF ApproveJoin, Install
<1>5. ASSUME NEW m \in Members, RejectJoin(m) PROVE db' \in Tables
  <2>1. [db.member[m] EXCEPT !.state = "REJECTED"] \in Row
    BY <1>2 DEF Row
  <2>2. db.trip.memberCount > 0
    BY <1>1, <1>5, Columns, CrewCardinality DEF RejectJoin
  <2>3. [db.trip EXCEPT !.memberCount = @ - 1, !.version = @ + 1] \in TripRow
    BY <1>1, <1>2, <2>2, Counters DEF TripRow
  <2> QED
    BY <1>1, <1>2, <1>5, <2>1, <2>3 DEF RejectJoin, Install, Tables
<1>6. CASE StartTrip
  <2>1. [db.trip EXCEPT !.state = "ACTIVE", !.startedAt = now, !.version = @ + 1] \in TripRow
    BY <1>1, <1>2, Counters DEF TripRow
  <2> QED
    BY <1>1, <1>6, <2>1 DEF StartTrip, Install, Tables
<1> QED
  BY <1>3, <1>4, <1>5, <1>6 DEF Admission

(* The lifecycle requests of the members.                                  *)
LEMMA LifecycleType ==
    ASSUME TypeOK, now \in Time, NEW m \in Members,
           \/ EndTrip \/ ReadTransferState(m) \/ Leave(m) \/ LeaveNow(m)
           \/ Pause(m) \/ Resume(m) \/ \E v \in Int : Drained(m, v)
    PROVE  db' \in Tables
<1>1. db \in Tables /\ Owner \in Members
  BY MembersAssumption DEF TypeOK
<1>2. db.trip \in TripRow /\ db.member \in [Members -> Row]
  BY <1>1, Columns
<1>3. CASE EndTrip
  BY <1>1, <1>3, EndType, ReadStateType DEF EndTrip, Install
<1>4. CASE ReadTransferState(m)
  BY <1>1, <1>4, ReadStateType DEF ReadTransferState, Install
<1>5. CASE Leave(m)
  <2> DEFINE row == [db.member[m] EXCEPT !.leavingAt = now, !.drained = FALSE]
             w == [db EXCEPT !.member[m] = row, !.trip = Bumped(db)]
  <2>0. row \in Row
    BY <1>2 DEF Row
  <2>1. w \in Tables
    BY <1>1, <2>0, BumpedType, UpdateType
  <2>2. Depart(db, {m}, FALSE) \in Tables
    BY <1>1, DepartType
  <2>3. db' \in {ReadState(Depart(db, {m}, FALSE), m), ReadState(w, m)}
    BY <1>5 DEF Leave, Install
  <2> HIDE DEF w
  <2> QED
    BY <2>1, <2>2, <2>3, ReadStateType
<1>6. CASE LeaveNow(m)
  <2>1. Depart(db, {m}, TRUE) \in Tables
    BY <1>1, DepartType
  <2> QED
    BY <1>6, <2>1, ReadStateType DEF LeaveNow, Install
<1>7. CASE Pause(m)
  <2> DEFINE row == [db.member[m] EXCEPT !.pausedAt = now]
             w == [db EXCEPT !.member[m] = row, !.trip = Bumped(db)]
  <2>0. row \in Row
    BY <1>2 DEF Row
  <2>1. w \in Tables
    BY <1>1, <2>0, BumpedType, UpdateType
  <2>2. db' = ReadState(w, m)
    BY <1>7 DEF Pause, Install
  <2> HIDE DEF w
  <2> QED
    BY <2>1, <2>2, ReadStateType
<1>8. CASE Resume(m)
  <2> DEFINE window == [from |-> db.member[m].pausedAt, until |-> now]
             row == [db.member[m] EXCEPT !.pauses = @ \cup {window}, !.pausedAt = Unset]
             w == [db EXCEPT !.member[m] = row, !.trip = Bumped(db)]
  <2>1. window \in [from : Time, until : Time]
    BY <1>2 DEF Row
  <2>2. db.member[m].pauses \cup {window} \in SUBSET [from : Time, until : Time]
    BY <1>2, <2>1 DEF Row
  <2>3. db' = ReadState(w, m)
    BY <1>8 DEF Resume, Install
  <2>4. row \in Row
    BY <1>2, <2>2, UnsetIsTime DEF Row
  <2>5. w \in Tables
    BY <1>1, <2>4, BumpedType, UpdateType
  <2> HIDE DEF w
  <2> QED
    BY <2>3, <2>5, ReadStateType
<1>9. ASSUME NEW v \in Int, Drained(m, v) PROVE db' \in Tables
  <2> DEFINE w == IF /\ ~db.member[m].left /\ db.member[m].leavingAt # Unset
                     /\ v = db.trip.version
                  THEN [db EXCEPT !.member[m] = [db.member[m] EXCEPT !.drained = TRUE]]
                  ELSE db
  <2>0. [db.member[m] EXCEPT !.drained = TRUE] \in Row
    BY <1>2 DEF Row
  <2>1. w \in Tables
    BY <1>1, <1>2, <2>0 DEF Tables
  <2>2. db' = ReadState(w, m)
    BY <1>9 DEF Drained, Install
  <2> HIDE DEF w
  <2> QED
    BY <2>1, <2>2, ReadStateType
<1> QED
  BY <1>3, <1>4, <1>5, <1>6, <1>7, <1>8, <1>9

(* The hard expiry of the cleanup pass keeps the types.                   *)
LEMMA ExpireType ==
    ASSUME TypeOK, now \in Time, Expire
    PROVE  db' \in Tables
<1> DEFINE w == IF db.trip.state # "ENDING" THEN End(db) ELSE db
           trip == [w.trip EXCEPT !.state = "INCOMPLETE_EXPIRED", !.version = @ + 1]
           x == [w EXCEPT !.member = PastDeadline(w), !.slots = {}, !.trip = trip]
<1>1. w \in Tables
  BY EndType DEF TypeOK
<1>2. db' \in {w, x}
  BY DEF Expire, Install
<1> HIDE DEF w
<1>3. PastDeadline(w) \in [Members -> Row]
  <2> SUFFICES ASSUME NEW m \in Members PROVE PastDeadline(w)[m] \in Row
    BY DEF PastDeadline
  <2>1. w.member[m] \in Row
    BY <1>1, Columns
  <2> QED
    BY <2>1 DEF PastDeadline, Row
<1>4. trip \in TripRow
  <2>1. w.trip \in TripRow /\ w.trip.version + 1 \in Nat
    BY <1>1, Columns, Counters
  <2> QED
    BY <2>1 DEF TripRow, Terminal
<1> HIDE DEF trip
<1>5. x \in Tables
  BY <1>1, <1>3, <1>4 DEF Tables
<1> QED
  BY <1>1, <1>2, <1>5

(* The media requests of the phones and cleanup's two retirements.         *)
LEMMA MediaType ==
    ASSUME TypeOK, now \in Time, NEW m \in Members, NEW a \in Assets,
           \/ \E c \in 0 .. now + ClockAhead : CreateUpload(m, a, c)
           \/ RenewUpload(m, a) \/ PublishPreview(m, a) \/ Commit(m, a) \/ Saved(m, a)
           \/ RetireAsset(a) \/ RetireUpload(a)
    PROVE  db' \in Tables
<1>1. db \in Tables
  BY DEF TypeOK
<1>2. /\ db.member \in [Members -> Row] /\ db.session \in [Assets -> SessionRow]
      /\ db.asset \in [Assets -> AssetState]
      /\ db.delivery \in [Assets -> [Members -> DeliveryState]]
      /\ db.preview \in [Assets -> SUBSET Members]
  BY <1>1 DEF Tables
<1>r. db.member[m] \in Row
  BY <1>2
<1>s. db.session[a] \in SessionRow
  BY <1>2
<1>3. GrantExpiry \in Int
  BY TimeAssumption, LimitAssumption DEF GrantExpiry, TypeOK
<1>4. ASSUME NEW c \in 0 .. now + ClockAhead, CreateUpload(m, a, c) PROVE db' \in Tables
  <2>1. [db.member[m] EXCEPT !.drained = FALSE] \in Row
    BY <1>r DEF Row
  <2>2. c \in -1 .. EndsAt
    <3>1. c \in Nat
      BY <1>4, LimitAssumption DEF TypeOK
    <3>2. c <= EndsAt
      BY <1>4 DEF CreateUpload, CaptureAllowed
    <3>3. EndsAt \in Int
      BY TimeAssumption
    <3> QED
      BY <3>1, <3>2, <3>3
  <2>3. [state |-> "CREATED", source |-> m, capturedAt |-> c, createdAt |-> now,
         expiresAt |-> GrantExpiry] \in SessionRow
    BY <1>3, <2>2 DEF SessionRow
  <2> QED
    BY <1>1, <1>4, <2>1, <2>3 DEF CreateUpload, Install, Tables
<1>5. CASE RenewUpload(m, a)
  <2>1. [db.session[a] EXCEPT !.expiresAt = GrantExpiry] \in SessionRow
    BY <1>s, <1>3 DEF SessionRow
  <2> QED
    BY <1>1, <1>5, <2>1 DEF RenewUpload, Install, Tables
<1>6. CASE PublishPreview(m, a)
  <2>1. db.preview[a] \cup Recipients(db, a) \in SUBSET Members
    BY <1>2 DEF Recipients
  <2> QED
    BY <1>1, <1>6, <2>1 DEF PublishPreview, Install, Tables
<1>7. CASE Commit(m, a)
  <2> DEFINE rows == [r \in Members |-> IF r \notin Recipients(db, a) THEN "NONE"
                                        ELSE IF r = m THEN "SAVED_LOCALLY" ELSE "READY"]
  <2>1. [db.session[a] EXCEPT !.state = "COMMITTED"] \in SessionRow
    BY <1>s DEF SessionRow
  <2>2. rows \in [Members -> DeliveryState]
    BY DEF DeliveryState
  <2>3. db' = [db EXCEPT !.asset[a] = "COMMITTED",
                         !.session[a] = [db.session[a] EXCEPT !.state = "COMMITTED"],
                         !.delivery[a] = rows]
    BY <1>7 DEF Commit, Install
  <2>4. "COMMITTED" \in AssetState
    BY DEF AssetState
  <2> HIDE DEF rows
  <2> QED
    BY <1>1, <2>1, <2>2, <2>3, <2>4 DEF Tables
<1>8. CASE Saved(m, a)
  <2> DEFINE saved == [db.delivery[a] EXCEPT ![m] = "SAVED_LOCALLY"]
             asset == IF \A r \in Members : saved[r] \in {"NONE", "SAVED_LOCALLY"}
                      THEN "PURGE_PENDING" ELSE db.asset[a]
  <2>1. saved \in [Members -> DeliveryState]
    BY <1>2 DEF DeliveryState
  <2>2. asset \in AssetState
    BY <1>2 DEF AssetState
  <2>3. db' = [db EXCEPT !.delivery[a] = saved, !.asset[a] = asset]
    BY <1>8 DEF Saved, Install
  <2> HIDE DEF saved, asset
  <2> QED
    BY <1>1, <2>1, <2>2, <2>3 DEF Tables
<1>9. CASE RetireAsset(a)
  <2> DEFINE rows == [r \in Members |-> IF db.delivery[a][r] = "READY" THEN "EXPIRED"
                                        ELSE db.delivery[a][r]]
  <2>1. rows \in [Members -> DeliveryState]
    BY <1>2 DEF DeliveryState
  <2>2. db' = IF db.asset[a] = "PURGE_PENDING" THEN [db EXCEPT !.asset[a] = "PURGED"]
              ELSE [db EXCEPT !.asset[a] = "EXPIRED", !.delivery[a] = rows]
    BY <1>9 DEF RetireAsset
  <2>3. "PURGED" \in AssetState /\ "EXPIRED" \in AssetState
    BY DEF AssetState
  <2> HIDE DEF rows
  <2>4. [db EXCEPT !.asset[a] = "PURGED"] \in Tables
    BY <1>1, <2>3 DEF Tables
  <2>5. [db EXCEPT !.asset[a] = "EXPIRED", !.delivery[a] = rows] \in Tables
    BY <1>1, <2>1, <2>3 DEF Tables
  <2> QED
    BY <2>2, <2>4, <2>5
<1>10. CASE RetireUpload(a)
  <2>1. [db.session[a] EXCEPT !.state = "EXPIRED"] \in SessionRow
    BY <1>s DEF SessionRow
  <2> QED
    BY <1>1, <1>10, <2>1 DEF RetireUpload, Tables
<1> QED
  BY <1>4, <1>5, <1>6, <1>7, <1>8, <1>9, <1>10

(* Every step keeps the types.                                             *)
LEMMA StepTypes ==
    ASSUME TypeOK, [Next]_vars
    PROVE  TypeOK'
<1>1. now \in Time
  BY DEF TypeOK, Time
<1>2. CASE Tick
  BY <1>2, TimeAssumption DEF Tick, TypeOK
<1>3. CASE Admission
  <2>1. UNCHANGED <<now, staged>>
    BY <1>3 DEF Admission, RequestJoin, ApproveJoin, RejectJoin, StartTrip, Install
  <2> QED
    BY <1>1, <1>3, <2>1, AdmissionType DEF TypeOK
<1>4. CASE UserCommand
  <2>1. UNCHANGED <<now, staged>>
    BY <1>4 DEF UserCommand, EndTrip, Leave, LeaveNow, Pause, Resume, Install
  <2>2. db' \in Tables
    BY <1>1, <1>4, MembersAssumption, LifecycleType DEF UserCommand
  <2> QED
    BY <2>1, <2>2 DEF TypeOK
<1>5. CASE PhoneRequest
  <2>1. UNCHANGED <<now, staged>>
    BY <1>5 DEF PhoneRequest, ReadTransferState, Drained, CreateUpload, RenewUpload,
                PublishPreview, Commit, Saved, Install
  <2>2. PICK m \in Members :
          \/ ReadTransferState(m)
          \/ \E v \in {db.trip.version - 1, db.trip.version} : Drained(m, v)
          \/ \E a \in Assets : \/ \E c \in 0 .. now + ClockAhead : CreateUpload(m, a, c)
                               \/ RenewUpload(m, a) \/ PublishPreview(m, a)
                               \/ Commit(m, a) \/ Saved(m, a)
    BY <1>5 DEF PhoneRequest
  <2>3. {db.trip.version - 1, db.trip.version} \subseteq Int
    BY Columns DEF TypeOK, TripRow
  <2>4. db' \in Tables
    BY <1>1, <2>2, <2>3, LifecycleType, MediaType
  <2> QED
    BY <2>1, <2>4 DEF TypeOK
<1>6. CASE Cleanup
  <2>1. now' = now /\ staged' \subseteq Assets \X Variants
    BY <1>6 DEF Cleanup, Expire, RetireAsset, RetireUpload, Install, TypeOK
  <2>2. db' \in Tables
    BY <1>1, <1>6, MembersAssumption, ExpireType, MediaType DEF Cleanup
  <2> QED
    BY <2>1, <2>2 DEF TypeOK
<1>7. ASSUME NEW a \in Assets, NEW v \in Variants, PutObject(a, v) PROVE TypeOK'
  BY <1>7 DEF PutObject, TypeOK
<1>8. CASE UNCHANGED vars
  BY <1>8 DEF vars, TypeOK
<1> QED
  BY <1>2, <1>3, <1>4, <1>5, <1>6, <1>7, <1>8 DEF Next

(* Type correctness: no request, command or cleanup pass ever writes a     *)
(* value outside its column's domain.                                      *)
THEOREM TypeCorrect == Spec => []TypeOK
<1>1. Init => TypeOK
  <2> SUFFICES ASSUME Init PROVE TypeOK
    OBVIOUS
  <2>1. NoMember \in Row /\ NoSession \in SessionRow
    BY UnsetIsTime, MembersAssumption, TimeAssumption
    DEF NoMember, NoSession, Row, SessionRow, Unset
  <2>2. 0 \in Time /\ now \in 0 .. MaxTime
    BY TimeAssumption DEF Init, Time
  <2>3. [NoMember EXCEPT !.state = "ACTIVE", !.approvedAt = 0] \in Row
    BY <2>1, <2>2 DEF Row
  <2>4. db.trip \in TripRow
    BY UnsetIsTime DEF Init, TripRow
  <2>5. db \in Tables
    BY <2>1, <2>3, <2>4, MembersAssumption DEF Init, Tables, AssetState, DeliveryState
  <2> QED
    BY <2>2, <2>5 DEF TypeOK, Init
<1>2. TypeOK /\ [Next]_vars => TypeOK'
  BY StepTypes
<1> QED
  BY <1>1, <1>2, PTL DEF Spec

-----------------------------------------------------------------------------
(***************************************************************************)
(* What the tables and the store say of one another.  Books relates the    *)
(* asset, session and delivery tables; Shelf relates them to the store.    *)
(***************************************************************************)
Books(w) ==
    \A a \in Assets :
       /\ w.asset[a] \in {"PURGE_PENDING", "PURGED"} =>
            \A m \in Members : w.delivery[a][m] \in {"NONE", "SAVED_LOCALLY"}
       /\ \A m \in Members : w.delivery[a][m] = "READY" => w.asset[a] = "COMMITTED"
       /\ w.asset[a] # "NONE" => w.session[a].state = "COMMITTED"

Retired(a) == db.asset[a] \in {"PURGED", "EXPIRED"} \/ db.session[a].state = "EXPIRED"

Shelf ==
    \A a \in Assets :
       /\ db.asset[a] = "COMMITTED" => {a} \X Variants \subseteq staged
       /\ Retired(a) => /\ db.session[a].expiresAt <= now
                        /\ staged \cap ({a} \X Variants) = {}

IInv == TypeOK /\ Books(db) /\ Shelf

(* Membership and lifecycle steps touch the media tables in one way only:  *)
(* they may waive a delivery that was still READY.                         *)
OnlyWaives(w, x) ==
    /\ x.session = w.session /\ x.asset = w.asset
    /\ \A a \in Assets, m \in Members :
         \/ x.delivery[a][m] = w.delivery[a][m]
         \/ w.delivery[a][m] = "READY" /\ x.delivery[a][m] = "EXPIRED"

(* Steps that only waive compose.                                         *)
LEMMA OnlyWaivesTrans ==
    ASSUME NEW w, NEW x, NEW y, OnlyWaives(w, x), OnlyWaives(x, y)
    PROVE  OnlyWaives(w, y)
  BY DEF OnlyWaives

(* Waiving a READY delivery disturbs none of the books.                   *)
LEMMA BooksSurviveWaivers ==
    ASSUME NEW w, NEW x, Books(w), OnlyWaives(w, x)
    PROVE  Books(x)
<1> SUFFICES ASSUME NEW a \in Assets
             PROVE  /\ x.asset[a] \in {"PURGE_PENDING", "PURGED"} =>
                         \A m \in Members : x.delivery[a][m] \in {"NONE", "SAVED_LOCALLY"}
                    /\ \A m \in Members : x.delivery[a][m] = "READY" => x.asset[a] = "COMMITTED"
                    /\ x.asset[a] # "NONE" => x.session[a].state = "COMMITTED"
  BY DEF Books
<1>1. x.asset[a] = w.asset[a] /\ x.session[a] = w.session[a]
  BY DEF OnlyWaives
<1>2. ASSUME NEW m \in Members
      PROVE  \/ x.delivery[a][m] = w.delivery[a][m]
             \/ w.delivery[a][m] = "READY" /\ x.delivery[a][m] = "EXPIRED"
  BY DEF OnlyWaives
<1> QED
  BY <1>1, <1>2 DEF Books

(* depart() only waives.                                                  *)
LEMMA DepartWaives ==
    ASSUME NEW w \in Tables, NEW S, NEW forced
    PROVE  OnlyWaives(w, Depart(w, S, forced))
<1> DEFINE x == Depart(w, S, forced)
<1>1. x.session = w.session /\ x.asset = w.asset /\ x.delivery = Waived(w, S)
  BY DEF Depart, Tables
<1> HIDE DEF x
<1>2. ASSUME NEW a \in Assets, NEW m \in Members
      PROVE  \/ x.delivery[a][m] = w.delivery[a][m]
             \/ w.delivery[a][m] = "READY" /\ x.delivery[a][m] = "EXPIRED"
  BY <1>1 DEF Waived
<1>3. OnlyWaives(w, x)
  BY <1>1, <1>2 DEF OnlyWaives
<1> QED
  BY <1>3 DEF x

(* end() only waives: a cancelled lobby departs, a started trip waits.    *)
LEMMA EndWaives ==
    ASSUME NEW w \in Tables
    PROVE  OnlyWaives(w, End(w))
<1>1. CASE Ended(w)
  BY <1>1 DEF End, OnlyWaives
<1>2. CASE ~Ended(w) /\ ~Started(w)
  BY <1>2, DepartWaives DEF End
<1>3. CASE ~Ended(w) /\ Started(w)
  <2>1. /\ End(w).session = w.session /\ End(w).asset = w.asset
        /\ End(w).delivery = w.delivery
    BY <1>3 DEF End, Tables
  <2> QED
    BY <2>1 DEF OnlyWaives
<1> QED
  BY <1>1, <1>2, <1>3

(* Reading the transfer state only waives.                                *)
LEMMA ReadStateWaives ==
    ASSUME NEW w \in Tables, NEW m \in Members, now \in Time
    PROVE  OnlyWaives(w, ReadState(w, m))
<1>1. ASSUME NEW x \in Tables PROVE OnlyWaives(x, Settle(x, m))
  <2>1. OnlyWaives(x, x)
    BY DEF OnlyWaives
  <2>2. OnlyWaives(x, Depart(x, {m}, FALSE))
    BY DepartWaives
  <2>3. Settle(x, m) = x \/ Settle(x, m) = Depart(x, {m}, FALSE)
    BY DEF Settle
  <2> QED
    BY <2>1, <2>2, <2>3
<1> DEFINE x == IF w.trip.state = "ACTIVE" /\ EndsAt <= now THEN End(w) ELSE w
<1>2. x \in Tables
  BY EndType
<1>3. OnlyWaives(w, x)
  BY EndWaives DEF OnlyWaives
<1>4. OnlyWaives(x, Settle(x, m))
  BY <1>1, <1>2
<1>5. ReadState(w, m) = Settle(x, m)
  BY DEF ReadState
<1> HIDE DEF x
<1> QED
  BY <1>3, <1>4, <1>5, OnlyWaivesTrans

(* Updates that name neither of the media tables.                          *)
LEMMA UpdateWaives ==
    ASSUME NEW w \in Tables, NEW x,
           x.session = w.session, x.asset = w.asset, x.delivery = w.delivery
    PROVE  OnlyWaives(w, x)
  BY DEF OnlyWaives

(* The admission commands leave the media tables and the store alone.     *)
LEMMA AdmissionWaives ==
    ASSUME TypeOK, Admission
    PROVE  OnlyWaives(db, db') /\ UNCHANGED <<now, staged>>
<1>1. db'.session = db.session /\ db'.asset = db.asset /\ db'.delivery = db.delivery
  BY DEF Admission, RequestJoin, ApproveJoin, RejectJoin, StartTrip, Install, TypeOK, Tables
<1> QED
  BY <1>1, UpdateWaives
     DEF Admission, RequestJoin, ApproveJoin, RejectJoin, StartTrip, Install, TypeOK

(* A lifecycle request reads the state of some w that waives at most what  *)
(* the request itself waived.                                              *)
LEMMA ReadingWaives ==
    ASSUME NEW w \in Tables, NEW m \in Members, now \in Time, db \in Tables,
           OnlyWaives(db, w), db' = ReadState(w, m)
    PROVE  OnlyWaives(db, db')
  BY ReadStateWaives, OnlyWaivesTrans

(* Every lifecycle request only waives and leaves the store alone.        *)
LEMMA LifecycleWaives ==
    ASSUME TypeOK, now \in Time, NEW m \in Members,
           \/ EndTrip \/ ReadTransferState(m) \/ Leave(m) \/ LeaveNow(m)
           \/ Pause(m) \/ Resume(m) \/ \E v \in Int : Drained(m, v)
    PROVE  OnlyWaives(db, db') /\ UNCHANGED <<now, staged>>
<1>1. db \in Tables /\ Owner \in Members
  BY MembersAssumption DEF TypeOK
<1>2. OnlyWaives(db, db)
  BY DEF OnlyWaives
<1>3. db.member[m] \in Row /\ Bumped(db) \in TripRow
  BY <1>1, Columns, BumpedType
<1>4. ASSUME NEW row \in Row
      PROVE  /\ [db EXCEPT !.member[m] = row, !.trip = Bumped(db)] \in Tables
             /\ OnlyWaives(db, [db EXCEPT !.member[m] = row, !.trip = Bumped(db)])
  <2> DEFINE x == [db EXCEPT !.member[m] = row, !.trip = Bumped(db)]
  <2>1. x \in Tables
    BY <1>1, <1>3, UpdateType
  <2>2. x.session = db.session /\ x.asset = db.asset /\ x.delivery = db.delivery
    BY <1>1 DEF Tables
  <2> HIDE DEF x
  <2>3. OnlyWaives(db, x)
    BY <1>1, <2>2, UpdateWaives
  <2> QED
    BY <2>1, <2>3 DEF x
<1>5. CASE EndTrip
  BY <1>1, <1>5, EndType, EndWaives, ReadingWaives DEF EndTrip, Install
<1>6. CASE ReadTransferState(m)
  BY <1>1, <1>2, <1>6, ReadingWaives DEF ReadTransferState, Install
<1>7. CASE Leave(m)
  <2> DEFINE row == [db.member[m] EXCEPT !.leavingAt = now, !.drained = FALSE]
  <2>1. row \in Row
    BY <1>3 DEF Row
  <2>2. Depart(db, {m}, FALSE) \in Tables /\ OnlyWaives(db, Depart(db, {m}, FALSE))
    BY <1>1, DepartType, DepartWaives
  <2>3. \/ db' = ReadState(Depart(db, {m}, FALSE), m)
        \/ db' = ReadState([db EXCEPT !.member[m] = row, !.trip = Bumped(db)], m)
    BY <1>7 DEF Leave, Install
  <2>4. UNCHANGED <<now, staged>>
    BY <1>7 DEF Leave, Install
  <2> HIDE DEF row
  <2> QED
    BY <1>1, <1>4, <2>1, <2>2, <2>3, <2>4, ReadingWaives
<1>8. CASE LeaveNow(m)
  <2>1. Depart(db, {m}, TRUE) \in Tables /\ OnlyWaives(db, Depart(db, {m}, TRUE))
    BY <1>1, DepartType, DepartWaives
  <2> QED
    BY <1>1, <1>8, <2>1, ReadingWaives DEF LeaveNow, Install
<1>9. CASE Pause(m)
  <2>1. [db.member[m] EXCEPT !.pausedAt = now] \in Row
    BY <1>3 DEF Row
  <2> QED
    BY <1>1, <1>4, <1>9, <2>1, ReadingWaives DEF Pause, Install
<1>10. CASE Resume(m)
  <2> DEFINE window == [from |-> db.member[m].pausedAt, until |-> now]
             row == [db.member[m] EXCEPT !.pauses = @ \cup {window}, !.pausedAt = Unset]
  <2>1. window \in [from : Time, until : Time]
    BY <1>3 DEF Row
  <2>2. db.member[m].pauses \cup {window} \in SUBSET [from : Time, until : Time]
    BY <1>3, <2>1 DEF Row
  <2>3. row \in Row
    BY <1>3, <2>2, UnsetIsTime DEF Row
  <2>4. /\ db' = ReadState([db EXCEPT !.member[m] = row, !.trip = Bumped(db)], m)
        /\ UNCHANGED <<now, staged>>
    BY <1>10 DEF Resume, Install
  <2> HIDE DEF row
  <2> QED
    BY <1>1, <1>4, <2>3, <2>4, ReadingWaives
<1>11. ASSUME NEW v \in Int, Drained(m, v)
       PROVE  OnlyWaives(db, db') /\ UNCHANGED <<now, staged>>
  <2> DEFINE x == [db EXCEPT !.member[m] = [db.member[m] EXCEPT !.drained = TRUE]]
  <2>1. [db.member[m] EXCEPT !.drained = TRUE] \in Row
    BY <1>3 DEF Row
  <2>2. x \in Tables
    BY <1>1, <2>1 DEF Tables
  <2>4. x.session = db.session /\ x.asset = db.asset /\ x.delivery = db.delivery
    BY <1>1 DEF Tables
  <2>3. /\ db' = ReadState(x, m) \/ db' = ReadState(db, m)
        /\ UNCHANGED <<now, staged>>
    BY <1>11 DEF Drained, Install
  <2> HIDE DEF x
  <2>5. OnlyWaives(db, x)
    BY <1>1, <2>4, UpdateWaives
  <2> QED
    BY <1>1, <1>2, <2>2, <2>3, <2>5, ReadingWaives
<1> QED
  BY <1>5, <1>6, <1>7, <1>8, <1>9, <1>10, <1>11

(* The hard expiry only waives and leaves the store alone.                *)
LEMMA ExpireWaives ==
    ASSUME TypeOK, now \in Time, Expire
    PROVE  OnlyWaives(db, db') /\ UNCHANGED <<now, staged>>
<1> DEFINE w == IF db.trip.state # "ENDING" THEN End(db) ELSE db
           x == [w EXCEPT !.member = PastDeadline(w), !.slots = {},
                          !.trip = [w.trip EXCEPT !.state = "INCOMPLETE_EXPIRED",
                                                  !.version = @ + 1]]
<1>1. w \in Tables /\ OnlyWaives(db, w)
  BY EndType, EndWaives DEF TypeOK, OnlyWaives
<1>2. (db' = w \/ db' = x) /\ UNCHANGED <<now, staged>>
  BY DEF Expire, Install
<1> HIDE DEF w
<1>3. x.session = w.session /\ x.asset = w.asset /\ x.delivery = w.delivery
  BY <1>1 DEF Tables
<1> HIDE DEF x
<1>4. OnlyWaives(w, x)
  BY <1>1, <1>3, UpdateWaives
<1> QED
  BY <1>1, <1>2, <1>4, OnlyWaivesTrans

(* What the media steps do to the books and the shelf.                     *)
LEMMA MediaKeepsBooks ==
    ASSUME TypeOK, Books(db), NEW m \in Members, NEW a \in Assets,
           \/ \E c \in 0 .. now + ClockAhead : CreateUpload(m, a, c)
           \/ RenewUpload(m, a) \/ PublishPreview(m, a) \/ Commit(m, a) \/ Saved(m, a)
           \/ RetireAsset(a) \/ RetireUpload(a)
    PROVE  Books(db')
<1>1. /\ db \in Tables
      /\ db.session \in [Assets -> SessionRow] /\ db.asset \in [Assets -> AssetState]
      /\ db.delivery \in [Assets -> [Members -> DeliveryState]]
  BY DEF TypeOK, Tables
<1>2. ASSUME NEW c \in 0 .. now + ClockAhead, CreateUpload(m, a, c) PROVE Books(db')
  <2>1. /\ db'.asset = db.asset /\ db'.delivery = db.delivery
        /\ \A b \in Assets : b # a => db'.session[b] = db.session[b]
        /\ db.session[a].state = "NONE"
    BY <1>1, <1>2 DEF CreateUpload, Install, Tables
  <2>2. db.asset[a] = "NONE"
    BY <2>1 DEF Books
  <2> QED
    BY <2>1, <2>2 DEF Books
<1>3. CASE RenewUpload(m, a)
  <2>1. /\ db'.asset = db.asset /\ db'.delivery = db.delivery
        /\ \A b \in Assets : db'.session[b].state = db.session[b].state
    BY <1>1, <1>3 DEF RenewUpload, Install, Tables, SessionRow
  <2> QED
    BY <2>1 DEF Books
<1>4. CASE PublishPreview(m, a)
  <2>1. db'.asset = db.asset /\ db'.delivery = db.delivery /\ db'.session = db.session
    BY <1>1, <1>4 DEF PublishPreview, Install, Tables
  <2> QED
    BY <2>1 DEF Books
<1>5. CASE Commit(m, a)
  <2>1. /\ db'.asset = [db.asset EXCEPT ![a] = "COMMITTED"]
        /\ db'.session[a].state = "COMMITTED"
        /\ \A b \in Assets : b # a => /\ db'.session[b] = db.session[b]
                                     /\ db'.delivery[b] = db.delivery[b]
    BY <1>1, <1>5 DEF Commit, Install, Tables, SessionRow
  <2> QED
    BY <1>1, <2>1 DEF Books
<1>6. CASE Saved(m, a)
  <2> DEFINE saved == [db.delivery[a] EXCEPT ![m] = "SAVED_LOCALLY"]
             all == \A r \in Members : saved[r] \in {"NONE", "SAVED_LOCALLY"}
  <2>1. /\ db'.delivery = [db.delivery EXCEPT ![a] = saved]
        /\ db'.asset = [db.asset EXCEPT ![a] = IF all THEN "PURGE_PENDING" ELSE @]
        /\ db'.session = db.session
        /\ db.asset[a] = "COMMITTED" /\ db.session[a].state = "COMMITTED"
    BY <1>1, <1>6 DEF Saved, Install, Tables, Books
  <2>2. all => \A r \in Members : saved[r] # "READY"
    OBVIOUS
  <2>3. db'.delivery[a] = saved
    BY <1>1, <2>1
  <2> HIDE DEF saved
  <2> QED
    BY <1>1, <2>1, <2>2, <2>3 DEF Books
<1>7. CASE RetireAsset(a)
  <2>1. CASE db.asset[a] = "PURGE_PENDING"
    <3>1. /\ db'.asset = [db.asset EXCEPT ![a] = "PURGED"]
          /\ db'.delivery = db.delivery /\ db'.session = db.session
      BY <1>1, <1>7, <2>1 DEF RetireAsset, Tables
    <3> QED
      BY <1>1, <2>1, <3>1 DEF Books
  <2>2. CASE db.asset[a] # "PURGE_PENDING"
    <3>1. /\ db'.asset = [db.asset EXCEPT ![a] = "EXPIRED"]
          /\ db'.session = db.session /\ db.asset[a] = "COMMITTED"
          /\ \A b \in Assets : b # a => db'.delivery[b] = db.delivery[b]
          /\ \A r \in Members : db'.delivery[a][r] # "READY"
      BY <1>1, <1>7, <2>2 DEF RetireAsset, Tables
    <3> QED
      BY <1>1, <3>1 DEF Books
  <2> QED
    BY <2>1, <2>2
<1>8. CASE RetireUpload(a)
  <2>1. /\ db'.asset = db.asset /\ db'.delivery = db.delivery
        /\ \A b \in Assets : b # a => db'.session[b] = db.session[b]
        /\ db.session[a].state = "CREATED"
    BY <1>1, <1>8 DEF RetireUpload, Tables
  <2>2. db.asset[a] = "NONE"
    BY <2>1 DEF Books
  <2> QED
    BY <2>1, <2>2 DEF Books
<1> QED
  BY <1>2, <1>3, <1>4, <1>5, <1>6, <1>7, <1>8

(* What the media steps do to the objects in the store.                   *)
LEMMA MediaKeepsShelf ==
    ASSUME TypeOK, Books(db), Shelf, NEW m \in Members, NEW a \in Assets,
           \/ \E c \in 0 .. now + ClockAhead : CreateUpload(m, a, c)
           \/ RenewUpload(m, a) \/ PublishPreview(m, a) \/ Commit(m, a) \/ Saved(m, a)
           \/ RetireAsset(a) \/ RetireUpload(a)
    PROVE  Shelf'
<1>1. /\ db \in Tables
      /\ db.session \in [Assets -> SessionRow] /\ db.asset \in [Assets -> AssetState]
  BY DEF TypeOK, Tables
<1>2. ASSUME NEW c \in 0 .. now + ClockAhead, CreateUpload(m, a, c) PROVE Shelf'
  <2>1. /\ db'.asset = db.asset /\ UNCHANGED <<now, staged>>
        /\ \A b \in Assets : b # a => db'.session[b] = db.session[b]
        /\ db.session[a].state = "NONE" /\ db'.session[a].state = "CREATED"
    BY <1>1, <1>2 DEF CreateUpload, Install, Tables
  <2>2. db.asset[a] = "NONE"
    BY <2>1 DEF Books
  <2> QED
    BY <2>1, <2>2 DEF Shelf, Retired
<1>3. CASE RenewUpload(m, a)
  <2>1. /\ db'.asset = db.asset /\ UNCHANGED <<now, staged>>
        /\ \A b \in Assets : b # a => db'.session[b] = db.session[b]
        /\ db.session[a].state = "CREATED" /\ db'.session[a].state = "CREATED"
    BY <1>1, <1>3 DEF RenewUpload, Install, Tables, SessionRow
  <2>2. db.asset[a] = "NONE"
    BY <2>1 DEF Books
  <2> QED
    BY <2>1, <2>2 DEF Shelf, Retired
<1>4. CASE PublishPreview(m, a)
  <2>1. db'.asset = db.asset /\ db'.session = db.session /\ UNCHANGED <<now, staged>>
    BY <1>1, <1>4 DEF PublishPreview, Install, Tables
  <2> QED
    BY <2>1 DEF Shelf, Retired
<1>5. CASE Commit(m, a)
  <2>1. /\ db'.asset = [db.asset EXCEPT ![a] = "COMMITTED"] /\ UNCHANGED <<now, staged>>
        /\ db'.session[a].state = "COMMITTED"
        /\ \A b \in Assets : b # a => db'.session[b] = db.session[b]
    BY <1>1, <1>5 DEF Commit, Install, Tables, SessionRow
  <2>2. {a} \X Variants \subseteq staged
    BY <1>5 DEF Commit
  <2> QED
    BY <1>1, <2>1, <2>2 DEF Shelf, Retired
<1>6. CASE Saved(m, a)
  <2>1. /\ \A b \in Assets : b # a => db'.asset[b] = db.asset[b]
        /\ db.asset[a] = "COMMITTED" /\ db'.asset[a] \in {"PURGE_PENDING", "COMMITTED"}
        /\ db'.session = db.session /\ UNCHANGED <<now, staged>>
    BY <1>1, <1>6 DEF Saved, Install, Tables
  <2> QED
    BY <2>1 DEF Shelf, Retired
<1>7. CASE RetireAsset(a)
  <2>1. /\ \A b \in Assets : b # a => db'.asset[b] = db.asset[b]
        /\ db'.asset[a] \in {"PURGED", "EXPIRED"} /\ db'.session = db.session
        /\ staged' = staged \ ({a} \X Variants) /\ now' = now
        /\ db.session[a].expiresAt <= now
    BY <1>1, <1>7 DEF RetireAsset, Tables
  <2> QED
    BY <2>1 DEF Shelf, Retired
<1>8. CASE RetireUpload(a)
  <2>1. /\ db'.asset = db.asset
        /\ \A b \in Assets : b # a => db'.session[b] = db.session[b]
        /\ db'.session[a].state = "EXPIRED"
        /\ db'.session[a].expiresAt = db.session[a].expiresAt
        /\ staged' = staged \ ({a} \X Variants) /\ now' = now
        /\ db.session[a].expiresAt <= now /\ db.session[a].state = "CREATED"
    BY <1>1, <1>8 DEF RetireUpload, Tables, SessionRow
  <2>2. db.asset[a] = "NONE"
    BY <2>1 DEF Books
  <2> QED
    BY <2>1, <2>2 DEF Shelf, Retired
<1> QED
  BY <1>2, <1>3, <1>4, <1>5, <1>6, <1>7, <1>8

(* A step that only waives keeps both, the store being left alone.         *)
LEMMA WaivingKeepsIInv ==
    ASSUME Books(db), Shelf, OnlyWaives(db, db'), UNCHANGED <<now, staged>>
    PROVE  Books(db') /\ Shelf'
<1>1. Books(db')
  BY BooksSurviveWaivers
<1>2. Shelf'
  BY DEF Shelf, Retired, OnlyWaives
<1> QED
  BY <1>1, <1>2

(* Every step keeps the books and the shelf.                               *)
LEMMA StepBooks ==
    ASSUME TypeOK, Books(db), Shelf, [Next]_vars
    PROVE  Books(db') /\ Shelf'
<1>1. now \in Time
  BY DEF TypeOK, Time
<1>2. CASE Tick
  <2>1. UNCHANGED <<db, staged>> /\ now' = now + 1 /\ now \in Int
    BY <1>2 DEF Tick, TypeOK
  <2>2. \A a \in Assets : db.session[a].expiresAt \in Int
    BY DEF TypeOK, Tables, SessionRow
  <2> QED
    BY <2>1, <2>2 DEF Shelf, Retired
<1>3. CASE Admission
  BY <1>3, AdmissionWaives, WaivingKeepsIInv
<1>4. CASE UserCommand
  BY <1>1, <1>4, MembersAssumption, LifecycleWaives, WaivingKeepsIInv DEF UserCommand
<1>5. CASE PhoneRequest
  <2>1. PICK m \in Members :
          \/ ReadTransferState(m)
          \/ \E v \in {db.trip.version - 1, db.trip.version} : Drained(m, v)
          \/ \E a \in Assets : \/ \E c \in 0 .. now + ClockAhead : CreateUpload(m, a, c)
                               \/ RenewUpload(m, a) \/ PublishPreview(m, a)
                               \/ Commit(m, a) \/ Saved(m, a)
    BY <1>5 DEF PhoneRequest
  <2>2. {db.trip.version - 1, db.trip.version} \subseteq Int
    BY Columns DEF TypeOK, TripRow
  <2>3. CASE \/ ReadTransferState(m)
             \/ \E v \in {db.trip.version - 1, db.trip.version} : Drained(m, v)
    BY <1>1, <2>2, <2>3, LifecycleWaives, WaivingKeepsIInv
  <2> QED
    BY <2>1, <2>3, MediaKeepsBooks, MediaKeepsShelf
<1>6. CASE Cleanup
  BY <1>1, <1>6, MembersAssumption, ExpireWaives, WaivingKeepsIInv,
     MediaKeepsBooks, MediaKeepsShelf DEF Cleanup
<1>7. ASSUME NEW a \in Assets, NEW v \in Variants, PutObject(a, v)
      PROVE  Books(db') /\ Shelf'
  <2>1. /\ db' = db /\ now' = now /\ staged' = staged \cup {<<a, v>>}
        /\ now < db.session[a].expiresAt
    BY <1>7 DEF PutObject
  <2>2. ~Retired(a)
    BY <2>1 DEF Shelf, TypeOK, Tables, SessionRow
  <2> QED
    BY <2>1, <2>2 DEF Shelf, Retired
<1>8. CASE UNCHANGED vars
  BY <1>8 DEF vars, Shelf, Retired
<1> QED
  BY <1>2, <1>3, <1>4, <1>5, <1>6, <1>7, <1>8 DEF Next

(* The inductive invariant.                                                *)
THEOREM Inductive == Spec => []IInv
<1>1. Init => Books(db) /\ Shelf
  BY DEF Init, Books, Shelf, Retired, NoSession
<1>2. TypeOK /\ Books(db) /\ Shelf /\ [Next]_vars => Books(db)' /\ Shelf'
  BY StepBooks
<1> QED
  BY <1>1, <1>2, TypeCorrect, PTL DEF Spec, IInv

(* Ciphertext is purged early only when every recipient holds the photo:   *)
(* neither an outstanding nor a waived delivery lets saved() hand an asset *)
(* to cleanup, in any order of departures, receipts and cleanup passes.    *)
THEOREM SafePurge == Spec => []PurgeNeedsEverySave
<1>1. IInv => PurgeNeedsEverySave
  BY DEF IInv, Books, PurgeNeedsEverySave
<1> QED
  BY <1>1, Inductive, PTL

(* A recipient with an outstanding delivery can always fetch it: the asset *)
(* is committed and both ciphertexts are still in the store.               *)
THEOREM DownloadsServed == Spec => []RecipientsCanDownload
<1>1. IInv => RecipientsCanDownload
  BY DEF IInv, Books, Shelf, RecipientsCanDownload
<1> QED
  BY <1>1, Inductive, PTL

(* No upload grant outlives the retirement of its asset or session, so no  *)
(* late PUT leaves ciphertext behind it.                                   *)
THEOREM NothingOrphaned == Spec => []NoOrphanCiphertext
<1>1. IInv => NoOrphanCiphertext
  BY DEF IInv, Shelf, Retired, NoOrphanCiphertext
<1> QED
  BY <1>1, Inductive, PTL

-----------------------------------------------------------------------------
(***************************************************************************)
(* The roster, what is final, and the photos taken in a pause.             *)
(***************************************************************************)
(* The roster's books: slots and count agree with the rows, and nobody has *)
(* left who never had a row.                                               *)
Roll(w) ==
    /\ w.slots = InTrip(w)
    /\ w.trip.state \notin Terminal => w.trip.memberCount = Cardinality(InTrip(w))
    /\ \A m \in Members : w.member[m].left => w.member[m].state # "NONE"

(* What x takes over from w of an ended trip and of who has left it.       *)
Kept(w, x) ==
    /\ w.trip.state \in Terminal => x.trip.state = w.trip.state
    /\ \A m \in Members : w.member[m].left => x.member[m] = w.member[m]

SameStates(w, x) == \A m \in Members : x.member[m].state = w.member[m].state

(* A transaction goes from w to x by such steps.                           *)
Rolls(w, x) == x \in Tables /\ Roll(x) /\ Kept(w, x) /\ SameStates(w, x)

(* Such steps compose.                                                     *)
LEMMA RollsTrans ==
    ASSUME NEW w, NEW x, NEW y, Rolls(w, x), Rolls(x, y)
    PROVE  Rolls(w, y)
  BY DEF Rolls, Kept, SameStates

(* Members who leave the roster and the slots together.                    *)
LEMMA DepartRolls ==
    ASSUME NEW w \in Tables, Roll(w), NEW S \in SUBSET Members, NEW forced \in BOOLEAN,
           now \in Time, \A m \in S : ~w.member[m].left /\ w.member[m].state # "NONE"
    PROVE  Rolls(w, Depart(w, S, forced))
<1> DEFINE x == Depart(w, S, forced)
           rows == DepartedRows(w, S, forced)
           missed == \E m \in Members : rows[m].incomplete
<1>1. /\ x.member = rows /\ x.slots = w.slots \ S
      /\ x.trip = Reduced(w, S, InTrip(w) \ S, missed)
  BY DEF Depart, Tables
<1>2. x \in Tables
  BY DepartType
<1>3. ASSUME NEW m \in Members
      PROVE  /\ rows[m].state = w.member[m].state
             /\ rows[m].left <=> w.member[m].left \/ m \in S
             /\ m \notin S => rows[m] = w.member[m]
  <2>1. w.member[m] \in Row
    BY Columns
  <2> QED
    BY <2>1 DEF DepartedRows, Row
<1> HIDE DEF x, rows
<1>4. InTrip(x) = InTrip(w) \ S
  BY <1>1, <1>3 DEF InTrip
<1>5. /\ w.trip.state \in Terminal => x.trip.state = w.trip.state
      /\ x.trip.state \notin Terminal => x.trip.memberCount = Cardinality(InTrip(w) \ S)
  <2>1. w.trip \in TripRow
    BY Columns
  <2>2. CASE InTrip(w) \ S = {} /\ w.trip.state \notin Terminal
    BY <1>1, <2>1, <2>2 DEF Reduced, TripRow, Terminal
  <2>3. CASE ~(InTrip(w) \ S = {} /\ w.trip.state \notin Terminal)
    <3>1. x.trip.state = w.trip.state
      BY <1>1, <2>1, <2>3 DEF Reduced, TripRow
    <3>2. InTrip(w) \ S # {} => x.trip.memberCount = Cardinality(InTrip(w) \ S)
      BY <1>1, <2>1 DEF Reduced, TripRow
    <3> QED
      BY <2>3, <3>1, <3>2
  <2> QED
    BY <2>2, <2>3
<1>6. Roll(x)
  BY <1>1, <1>3, <1>4, <1>5 DEF Roll
<1>7. Kept(w, x) /\ SameStates(w, x)
  BY <1>1, <1>3, <1>5 DEF Kept, SameStates
<1> QED
  BY <1>2, <1>6, <1>7 DEF Rolls, x

(* A row that stays in its place and a trip row that keeps state and count. *)
LEMMA UpdateRolls ==
    ASSUME NEW w \in Tables, Roll(w), NEW m \in Members, NEW row \in Row, NEW trip \in TripRow,
           ~w.member[m].left, ~row.left, row.state = w.member[m].state,
           trip.state = w.trip.state, trip.memberCount = w.trip.memberCount
    PROVE  Rolls(w, [w EXCEPT !.member[m] = row, !.trip = trip])
<1> DEFINE x == [w EXCEPT !.member[m] = row, !.trip = trip]
<1>1. x \in Tables
  BY UpdateType
<1>2. x.trip = trip /\ x.slots = w.slots
  BY DEF Tables
<1>3. \A o \in Members : x.member[o] = IF o = m THEN row ELSE w.member[o]
  BY DEF Tables
<1> HIDE DEF x
<1>4. InTrip(x) = InTrip(w)
  BY <1>3 DEF InTrip
<1>5. Roll(x) /\ Kept(w, x) /\ SameStates(w, x)
  BY <1>2, <1>3, <1>4 DEF Roll, Kept, SameStates
<1> QED
  BY <1>1, <1>5 DEF Rolls, x

(* end(): a lobby's crew departs, a started trip calls its phones home.    *)
LEMMA EndRolls ==
    ASSUME NEW w \in Tables, Roll(w), now \in Time
    PROVE  Rolls(w, End(w))
<1>1. CASE Ended(w)
  BY <1>1 DEF End, Rolls, Kept, SameStates
<1>2. CASE ~Ended(w) /\ ~Started(w)
  <2>1. InTrip(w) \in SUBSET Members
        /\ \A m \in InTrip(w) : ~w.member[m].left /\ w.member[m].state # "NONE"
    BY DEF InTrip
  <2> QED
    BY <1>2, <2>1, DepartRolls DEF End
<1>3. CASE ~Ended(w) /\ Started(w)
  <2> DEFINE x == End(w)
  <2>1. x \in Tables
    BY EndType
  <2>2. /\ x.member = CalledHome(w) /\ x.slots = w.slots
        /\ x.trip = [w.trip EXCEPT !.state = "ENDING", !.endingAt = now, !.version = @ + 1]
    BY <1>3 DEF End, Tables
  <2>3. x.trip.state = "ENDING" /\ x.trip.memberCount = w.trip.memberCount
    BY <2>2, Columns DEF TripRow
  <2>4. ASSUME NEW m \in Members
        PROVE  /\ x.member[m].state = w.member[m].state /\ x.member[m].left = w.member[m].left
               /\ w.member[m].left => x.member[m] = w.member[m]
    <3> DEFINE row == w.member[m]
               called == [row EXCEPT !.leavingAt = now, !.drained = FALSE]
    <3>1. row \in Row
      BY Columns
    <3>2. x.member[m] = IF row.state # "NONE" /\ ~row.left /\ row.leavingAt = Unset
                        THEN called ELSE row
      BY <2>2 DEF CalledHome
    <3>3. called.state = row.state /\ called.left = row.left
      BY <3>1 DEF Row
    <3> HIDE DEF row, called, x
    <3>4. /\ x.member[m].state = row.state /\ x.member[m].left = row.left
          /\ row.left => x.member[m] = row
      BY <3>2, <3>3
    <3> QED
      BY <3>4 DEF row
  <2> HIDE DEF x
  <2>5. InTrip(x) = InTrip(w)
    BY <2>4 DEF InTrip
  <2>6. w.trip.state \notin Terminal
    BY <1>3 DEF Ended
  <2>7. Roll(x) /\ Kept(w, x) /\ SameStates(w, x)
    BY <2>2, <2>3, <2>4, <2>5, <2>6 DEF Roll, Kept, SameStates
  <2> QED
    BY <2>1, <2>7 DEF Rolls, x
<1> QED
  BY <1>1, <1>2, <1>3

(* Reading the transfer state ends, settles and departs in this way.       *)
LEMMA ReadStateRolls ==
    ASSUME NEW w \in Tables, Roll(w), NEW m \in Members, w.member[m].state # "NONE", now \in Time
    PROVE  Rolls(w, ReadState(w, m))
<1> DEFINE x == IF w.trip.state = "ACTIVE" /\ EndsAt <= now THEN End(w) ELSE w
<1>1. Rolls(w, w)
  BY DEF Rolls, Kept, SameStates
<1>2. Rolls(w, x)
  BY <1>1, EndRolls
<1>3. ReadState(w, m) = Settle(x, m)
  BY DEF ReadState
<1> HIDE DEF x
<1>4. x \in Tables /\ Roll(x) /\ x.member[m].state # "NONE"
  BY <1>2 DEF Rolls, SameStates
<1>5. CASE Settle(x, m) = x
  BY <1>2, <1>3, <1>5
<1>6. CASE Settle(x, m) = Depart(x, {m}, FALSE) /\ ~x.member[m].left
  <2>1. Rolls(x, Depart(x, {m}, FALSE))
    BY <1>4, <1>6, DepartRolls
  <2> QED
    BY <1>2, <1>3, <1>6, <2>1, RollsTrans
<1> QED
  BY <1>5, <1>6 DEF Settle

-----------------------------------------------------------------------------
(* Admission changes a pending row and counts it in or out.                *)
LEMMA AdmissionRolls ==
    ASSUME TypeOK, now \in Time, Roll(db), Admission
    PROVE  Roll(db') /\ Kept(db, db')
<1>1. db \in Tables /\ InTrip(db) \in SUBSET Members /\ IsFiniteSet(InTrip(db))
  <2>1. db \in Tables /\ InTrip(db) \in SUBSET Members
    BY DEF TypeOK, InTrip
  <2> QED
    BY <2>1, MembersAssumption, FS_Subset
<1>2. db.trip \in TripRow /\ db.member \in [Members -> Row]
  BY <1>1, Columns
<1>3. ASSUME NEW m \in Members, RequestJoin(m) PROVE Roll(db') /\ Kept(db, db')
  <2>1. /\ db'.slots = db.slots \cup {m}
        /\ db'.trip.state = db.trip.state /\ db'.trip.memberCount = db.trip.memberCount + 1
        /\ \A o \in Members : db'.member[o] =
             IF o = m THEN [NoMember EXCEPT !.state = "PENDING_KEY"] ELSE db.member[o]
    BY <1>1, <1>2, <1>3 DEF RequestJoin, Install, Tables, TripRow
  <2>2. InTrip(db') = InTrip(db) \cup {m} /\ m \notin InTrip(db) /\ ~db.member[m].left
    BY <1>3, <2>1 DEF RequestJoin, InTrip, NoMember, Roll
  <2>3. Cardinality(InTrip(db')) = Cardinality(InTrip(db)) + 1
    BY <1>1, <2>2, FS_AddElement
  <2>4. db.trip.memberCount = Cardinality(InTrip(db)) /\ db.trip.state \notin Terminal
    BY <1>3 DEF RequestJoin, AdmissionOpen, Terminal
  <2>5. \A o \in Members : db'.member[o].left => db'.member[o].state # "NONE"
    BY <2>1 DEF NoMember, Roll
  <2> QED
    BY <2>1, <2>2, <2>3, <2>4, <2>5 DEF Roll, Kept
<1>4. ASSUME NEW m \in Members, ApproveJoin(m) PROVE Roll(db') /\ Kept(db, db')
  <2>1. /\ db'.slots = db.slots
        /\ db'.trip.state = db.trip.state /\ db'.trip.memberCount = db.trip.memberCount
        /\ \A o \in Members \ {m} : db'.member[o] = db.member[o]
        /\ db'.member[m].state = "ACTIVE" /\ db'.member[m].left = db.member[m].left
    BY <1>1, <1>2, <1>4 DEF ApproveJoin, Install, Bumped, Tables, TripRow, Row
  <2>2. InTrip(db') = InTrip(db) /\ ~db.member[m].left
    BY <1>4, <2>1 DEF ApproveJoin, InTrip
  <2> QED
    BY <2>1, <2>2 DEF Roll, Kept
<1>5. ASSUME NEW m \in Members, RejectJoin(m) PROVE Roll(db') /\ Kept(db, db')
  <2>1. /\ db'.slots = db.slots \ {m}
        /\ db'.trip.state = db.trip.state /\ db'.trip.memberCount = db.trip.memberCount - 1
        /\ \A o \in Members \ {m} : db'.member[o] = db.member[o]
        /\ db'.member[m].state = "REJECTED" /\ db'.member[m].left = db.member[m].left
    BY <1>1, <1>2, <1>5 DEF RejectJoin, Install, Tables, TripRow, Row
  <2>2. InTrip(db') = InTrip(db) \ {m} /\ m \in InTrip(db) /\ ~db.member[m].left
    BY <1>5, <2>1 DEF RejectJoin, InTrip
  <2>3. Cardinality(InTrip(db')) = Cardinality(InTrip(db)) - 1
    BY <1>1, <2>2, FS_RemoveElement
  <2>4. db.trip.memberCount = Cardinality(InTrip(db)) /\ db.trip.state \notin Terminal
    BY <1>5 DEF RejectJoin, AdmissionOpen, Terminal
  <2> QED
    BY <2>1, <2>2, <2>3, <2>4 DEF Roll, Kept
<1>6. CASE StartTrip
  <2>1. /\ db'.slots = db.slots /\ db'.member = db.member
        /\ db'.trip.memberCount = db.trip.memberCount
        /\ db.trip.state = "LOBBY" /\ db'.trip.state = "ACTIVE"
    BY <1>1, <1>2, <1>6 DEF StartTrip, Install, Tables, TripRow
  <2>2. InTrip(db') = InTrip(db)
    BY <2>1 DEF InTrip
  <2> QED
    BY <2>1, <2>2 DEF Roll, Kept, Terminal
<1> QED
  BY <1>3, <1>4, <1>5, <1>6 DEF Admission

(* A request that first writes w and then reads its state.                 *)
LEMMA ReadingRolls ==
    ASSUME NEW w, NEW m \in Members, now \in Time, db \in Tables, Rolls(db, w),
           db.member[m].state # "NONE", db' = ReadState(w, m)
    PROVE  Roll(db') /\ Kept(db, db')
<1>1. w \in Tables /\ Roll(w) /\ w.member[m].state # "NONE"
  BY DEF Rolls, SameStates
<1>2. Rolls(db, db')
  BY <1>1, ReadStateRolls, RollsTrans
<1> QED
  BY <1>2 DEF Rolls

(* Every lifecycle request keeps the roster's books.                       *)
LEMMA LifecycleRolls ==
    ASSUME TypeOK, now \in Time, Roll(db), NEW m \in Members,
           \/ EndTrip \/ ReadTransferState(m) \/ Leave(m) \/ LeaveNow(m)
           \/ Pause(m) \/ Resume(m) \/ \E v \in Int : Drained(m, v)
    PROVE  Roll(db') /\ Kept(db, db')
<1>1. db \in Tables /\ Owner \in Members
  BY MembersAssumption DEF TypeOK
<1>2. Rolls(db, db)
  BY <1>1 DEF Rolls, Kept, SameStates
<1>3. /\ db.member[m] \in Row /\ Bumped(db) \in TripRow /\ db.trip \in TripRow
      /\ Bumped(db).state = db.trip.state /\ Bumped(db).memberCount = db.trip.memberCount
  BY <1>1, Columns, BumpedType DEF Bumped, TripRow
<1>4. ASSUME NEW row \in Row, ~db.member[m].left, row.left = db.member[m].left,
             row.state = db.member[m].state
      PROVE  Rolls(db, [db EXCEPT !.member[m] = row, !.trip = Bumped(db)])
  BY <1>1, <1>3, <1>4, UpdateRolls
<1>5. CASE EndTrip
  BY <1>1, <1>5, EndRolls, ReadingRolls DEF EndTrip, Lockable, Install
<1>6. CASE ReadTransferState(m)
  BY <1>1, <1>2, <1>6, ReadingRolls DEF ReadTransferState, Lockable, Install
<1>7. ASSUME Leave(m) \/ LeaveNow(m), NEW forced \in BOOLEAN,
             db' = ReadState(Depart(db, {m}, forced), m)
      PROVE  Roll(db') /\ Kept(db, db')
  <2>1. ~db.member[m].left /\ db.member[m].state # "NONE"
    BY <1>7 DEF Leave, LeaveNow, Lockable
  <2>2. Rolls(db, Depart(db, {m}, forced))
    BY <1>1, <2>1, DepartRolls
  <2> QED
    BY <1>1, <1>7, <2>1, <2>2, ReadingRolls
<1>8. CASE Leave(m)
  <2> DEFINE row == [db.member[m] EXCEPT !.leavingAt = now, !.drained = FALSE]
  <2>1. row \in Row /\ row.left = db.member[m].left /\ row.state = db.member[m].state
    BY <1>3 DEF Row
  <2>2. ~db.member[m].left /\ db.member[m].state # "NONE"
    BY <1>8 DEF Leave, Lockable
  <2>3. \/ db' = ReadState(Depart(db, {m}, FALSE), m)
        \/ db' = ReadState([db EXCEPT !.member[m] = row, !.trip = Bumped(db)], m)
    BY <1>8 DEF Leave, Install
  <2> HIDE DEF row
  <2> QED
    BY <1>1, <1>4, <1>7, <1>8, <2>1, <2>2, <2>3, ReadingRolls
<1>9. CASE LeaveNow(m)
  BY <1>7, <1>9 DEF LeaveNow, Install
<1>10. CASE Pause(m)
  <2> DEFINE row == [db.member[m] EXCEPT !.pausedAt = now]
  <2>1. row \in Row /\ row.left = db.member[m].left /\ row.state = db.member[m].state
    BY <1>3 DEF Row
  <2>2. /\ ~db.member[m].left /\ db.member[m].state # "NONE"
        /\ db' = ReadState([db EXCEPT !.member[m] = row, !.trip = Bumped(db)], m)
    BY <1>10 DEF Pause, Lockable, Install
  <2> HIDE DEF row
  <2> QED
    BY <1>1, <1>4, <2>1, <2>2, ReadingRolls
<1>11. CASE Resume(m)
  <2> DEFINE window == [from |-> db.member[m].pausedAt, until |-> now]
             row == [db.member[m] EXCEPT !.pauses = @ \cup {window}, !.pausedAt = Unset]
  <2>1. window \in [from : Time, until : Time]
    BY <1>3 DEF Row
  <2>2. db.member[m].pauses \cup {window} \in SUBSET [from : Time, until : Time]
    BY <1>3, <2>1 DEF Row
  <2>3. row \in Row /\ row.left = db.member[m].left /\ row.state = db.member[m].state
    BY <1>3, <2>2, UnsetIsTime DEF Row
  <2>4. /\ ~db.member[m].left /\ db.member[m].state # "NONE"
        /\ db' = ReadState([db EXCEPT !.member[m] = row, !.trip = Bumped(db)], m)
    BY <1>11 DEF Resume, Lockable, Install
  <2> HIDE DEF row
  <2> QED
    BY <1>1, <1>4, <2>3, <2>4, ReadingRolls
<1>12. ASSUME NEW v \in Int, Drained(m, v) PROVE Roll(db') /\ Kept(db, db')
  <2> DEFINE row == [db.member[m] EXCEPT !.drained = TRUE]
             x == [db EXCEPT !.member[m] = row]
  <2>1. row \in Row /\ row.left = db.member[m].left /\ row.state = db.member[m].state
    BY <1>3 DEF Row
  <2>2. x = [db EXCEPT !.member[m] = row, !.trip = db.trip]
    BY <1>1 DEF Tables
  <2> HIDE DEF row
  <2>3. ASSUME ~db.member[m].left PROVE Rolls(db, x)
    <3>1. ~row.left /\ db.trip \in TripRow
      BY <1>3, <2>1, <2>3
    <3>2. Rolls(db, [db EXCEPT !.member[m] = row, !.trip = db.trip])
      BY <1>1, <2>1, <2>3, <3>1, UpdateRolls
    <3> QED
      BY <2>2, <3>2
  <2>4. /\ db.member[m].state # "NONE"
        /\ (db' = ReadState(x, m) /\ ~db.member[m].left) \/ db' = ReadState(db, m)
    BY <1>12 DEF Drained, Lockable, Install, row
  <2> HIDE DEF x
  <2> QED
    BY <1>1, <1>2, <2>3, <2>4, ReadingRolls
<1> QED
  BY <1>5, <1>6, <1>8, <1>9, <1>10, <1>11, <1>12

(* The hard expiry empties the roster and the slots of a trip that has not *)
(* ended.                                                                  *)
LEMMA ExpireRolls ==
    ASSUME TypeOK, now \in Time, Roll(db), Expire
    PROVE  Roll(db') /\ Kept(db, db')
<1> DEFINE w == IF db.trip.state # "ENDING" THEN End(db) ELSE db
           x == [w EXCEPT !.member = PastDeadline(w), !.slots = {},
                          !.trip = [w.trip EXCEPT !.state = "INCOMPLETE_EXPIRED",
                                                  !.version = @ + 1]]
<1>1. Rolls(db, w)
  BY EndRolls DEF TypeOK, Rolls, Kept, SameStates
<1>2. (db' = w \/ db' = x) /\ db.trip.state \notin Terminal
  BY DEF Expire, Install, Terminal
<1> HIDE DEF w
<1>3. w \in Tables /\ Roll(w) /\ Kept(db, w)
  BY <1>1 DEF Rolls
<1>4. CASE db' = x
  <2>1. /\ x.slots = {} /\ x.trip.state = "INCOMPLETE_EXPIRED" /\ x.member = PastDeadline(w)
    BY <1>3, Columns DEF Tables, TripRow
  <2> HIDE DEF x
  <2>2. ASSUME NEW m \in Members
        PROVE  /\ x.member[m].state = w.member[m].state
               /\ w.member[m].left => x.member[m] = w.member[m]
               /\ x.member[m].left \/ w.member[m].state = "NONE"
               /\ x.member[m].left => w.member[m].left \/ w.member[m].state # "NONE"
    <3> DEFINE row == w.member[m]
               past == [row EXCEPT !.left = TRUE, !.leavingAt = IF @ = Unset THEN now ELSE @]
    <3>1. row \in Row
      BY <1>3, Columns
    <3>2. x.member[m] = IF row.state # "NONE" /\ ~row.left THEN past ELSE row
      BY <2>1 DEF PastDeadline
    <3>3. past.state = row.state /\ past.left
      BY <3>1 DEF Row
    <3> HIDE DEF row, past
    <3>4. /\ x.member[m].state = row.state
          /\ row.left => x.member[m] = row
          /\ x.member[m].left \/ row.state = "NONE"
          /\ x.member[m].left => row.left \/ row.state # "NONE"
      BY <3>2, <3>3
    <3> QED
      BY <3>4 DEF row
  <2>3. InTrip(x) = {}
    BY <2>2 DEF InTrip
  <2>4. Roll(x)
    BY <1>3, <2>1, <2>2, <2>3 DEF Roll, Terminal
  <2>5. Kept(db, x)
    BY <1>2, <1>3, <2>2 DEF Kept
  <2> QED
    BY <1>4, <2>4, <2>5
<1> QED
  BY <1>2, <1>3, <1>4

(* Of the media steps only a new upload touches a row, reopening its pass. *)
LEMMA MediaRolls ==
    ASSUME TypeOK, Roll(db), NEW m \in Members, NEW a \in Assets,
           \/ \E c \in 0 .. now + ClockAhead : CreateUpload(m, a, c)
           \/ RenewUpload(m, a) \/ PublishPreview(m, a) \/ Commit(m, a) \/ Saved(m, a)
           \/ RetireAsset(a) \/ RetireUpload(a)
    PROVE  Roll(db') /\ Kept(db, db')
<1>1. db \in Tables /\ db.member[m] \in Row
  BY Columns DEF TypeOK
<1>2. ASSUME NEW c \in 0 .. now + ClockAhead, CreateUpload(m, a, c) PROVE Roll(db') /\ Kept(db, db')
  <2>1. /\ db'.trip = db.trip /\ db'.slots = db.slots
        /\ \A o \in Members \ {m} : db'.member[o] = db.member[o]
        /\ db'.member[m] = [db.member[m] EXCEPT !.drained = FALSE]
    BY <1>1, <1>2 DEF CreateUpload, Install, Tables
  <2>2. /\ db'.member[m].state = db.member[m].state /\ db'.member[m].left = db.member[m].left
        /\ ~db.member[m].left
    BY <1>1, <1>2, <2>1 DEF CreateUpload, MayTransfer, Participates, InTrip, Row
  <2>3. InTrip(db') = InTrip(db)
    BY <2>1, <2>2 DEF InTrip
  <2> QED
    BY <2>1, <2>2, <2>3 DEF Roll, Kept
<1>3. CASE \/ RenewUpload(m, a) \/ PublishPreview(m, a) \/ Commit(m, a) \/ Saved(m, a)
           \/ RetireAsset(a) \/ RetireUpload(a)
  <2>1. UNCHANGED <<db.trip, db.slots, db.member>>
    BY <1>1, <1>3 DEF RenewUpload, PublishPreview, Commit, Saved, RetireAsset, RetireUpload,
       Install, Tables
  <2>2. InTrip(db') = InTrip(db)
    BY <2>1 DEF InTrip
  <2> QED
    BY <2>1, <2>2 DEF Roll, Kept
<1> QED
  BY <1>2, <1>3

(* The roster's books are kept by every step.                              *)
LEMMA StepRolls ==
    ASSUME TypeOK, Roll(db), [Next]_vars
    PROVE  Roll(db') /\ Kept(db, db')
<1>1. now \in Time /\ Roll(db) /\ Kept(db, db)
  BY DEF TypeOK, Time, Kept
<1>2. CASE Tick \/ UNCHANGED vars \/ \E a \in Assets, v \in Variants : PutObject(a, v)
  <2>1. db' = db
    BY <1>2 DEF Tick, vars, PutObject
  <2> QED
    BY <1>1, <2>1
<1>3. CASE Admission
  BY <1>1, <1>3, AdmissionRolls
<1>4. CASE UserCommand
  BY <1>1, <1>4, MembersAssumption, LifecycleRolls DEF UserCommand
<1>5. CASE PhoneRequest
  <2>1. PICK m \in Members :
          \/ ReadTransferState(m)
          \/ \E v \in {db.trip.version - 1, db.trip.version} : Drained(m, v)
          \/ \E a \in Assets : \/ \E c \in 0 .. now + ClockAhead : CreateUpload(m, a, c)
                               \/ RenewUpload(m, a) \/ PublishPreview(m, a)
                               \/ Commit(m, a) \/ Saved(m, a)
    BY <1>5 DEF PhoneRequest
  <2>2. {db.trip.version - 1, db.trip.version} \subseteq Int
    BY Columns DEF TypeOK, TripRow
  <2> QED
    BY <1>1, <2>1, <2>2, LifecycleRolls, MediaRolls
<1>6. CASE Cleanup
  BY <1>1, <1>6, MembersAssumption, ExpireRolls, MediaRolls DEF Cleanup
<1> QED
  BY <1>2, <1>3, <1>4, <1>5, <1>6 DEF Next

(* The roster of a trip just created holds its owner alone.               *)
LEMMA InitRoll == Init => Roll(db)
<1> SUFFICES ASSUME Init PROVE Roll(db)
  OBVIOUS
<1>1. InTrip(db) = {Owner}
  BY MembersAssumption DEF Init, InTrip, NoMember
<1>2. Cardinality({Owner}) = 1
  BY FS_Singleton
<1> QED
  BY <1>1, <1>2 DEF Init, Roll, NoMember

(* The roster's books hold in every reachable state.                       *)
THEOREM RosterInductive == Spec => []Roll(db)
<1>1. TypeOK /\ Roll(db) /\ [Next]_vars => Roll(db)'
  BY StepRolls
<1> QED
  BY <1>1, InitRoll, TypeCorrect, PTL DEF Spec

(* A member's active-trip slot is held exactly while it takes part, and    *)
(* member_count never drifts from the roster of a live trip, whoever       *)
(* joins, departs, settles or is expired.                                  *)
THEOREM RosterStaysConsistent == Spec => []RosterConsistent
<1>1. Roll(db) => RosterConsistent
  BY DEF Roll, RosterConsistent
<1> QED
  BY <1>1, RosterInductive, PTL

-----------------------------------------------------------------------------
(* A delivery exists only of an asset that was committed, so a commit, the *)
(* one step that writes a whole row of deliveries, overwrites none.        *)
Sent(w) == \A a \in Assets, m \in Members : w.delivery[a][m] # "NONE" => w.asset[a] # "NONE"

(* What x takes over from w of receipts, waivers and retired assets.       *)
Settled(w, x) ==
    \A a \in Assets :
       /\ w.asset[a] \in {"PURGED", "EXPIRED"} => x.asset[a] = w.asset[a]
       /\ \A m \in Members : w.delivery[a][m] \in {"SAVED_LOCALLY", "EXPIRED"} =>
             x.delivery[a][m] = w.delivery[a][m]

(* A step that only waives overwrites nothing that is settled.             *)
LEMMA WaivingSettles ==
    ASSUME Sent(db), OnlyWaives(db, db')
    PROVE  Sent(db') /\ Settled(db, db')
<1>1. Settled(db, db')
  BY DEF OnlyWaives, Settled
<1>2. Sent(db')
  <2> SUFFICES ASSUME NEW a \in Assets, NEW m \in Members, db'.delivery[a][m] # "NONE"
               PROVE  db'.asset[a] # "NONE"
    BY DEF Sent
  <2>1. db.delivery[a][m] # "NONE" /\ db'.asset[a] = db.asset[a]
    BY DEF OnlyWaives
  <2> QED
    BY <2>1 DEF Sent
<1> QED
  BY <1>1, <1>2

(* Nor does a media step.                                                  *)
LEMMA MediaSettles ==
    ASSUME TypeOK, Books(db), Sent(db), NEW m \in Members, NEW a \in Assets,
           \/ \E c \in 0 .. now + ClockAhead : CreateUpload(m, a, c)
           \/ RenewUpload(m, a) \/ PublishPreview(m, a) \/ Commit(m, a) \/ Saved(m, a)
           \/ RetireAsset(a) \/ RetireUpload(a)
    PROVE  Sent(db') /\ Settled(db, db')
<1>1. /\ db \in Tables
      /\ db.session \in [Assets -> SessionRow] /\ db.asset \in [Assets -> AssetState]
      /\ db.delivery \in [Assets -> [Members -> DeliveryState]]
  BY DEF TypeOK, Tables
<1>2. CASE \/ \E c \in 0 .. now + ClockAhead : CreateUpload(m, a, c)
           \/ RenewUpload(m, a) \/ PublishPreview(m, a) \/ RetireUpload(a)
  <2>1. db'.asset = db.asset /\ db'.delivery = db.delivery
    BY <1>1, <1>2 DEF CreateUpload, RenewUpload, PublishPreview, RetireUpload, Install, Tables
  <2> QED
    BY <2>1 DEF Sent, Settled
<1>3. CASE Commit(m, a)
  <2>1. /\ db'.asset = [db.asset EXCEPT ![a] = "COMMITTED"]
        /\ \A b \in Assets : b # a => db'.delivery[b] = db.delivery[b]
        /\ db.session[a].state = "CREATED"
    BY <1>1, <1>3 DEF Commit, UploadOpen, Install, Tables
  <2>2. db.asset[a] = "NONE" /\ \A r \in Members : db.delivery[a][r] = "NONE"
    BY <2>1 DEF Books, Sent
  <2> QED
    BY <1>1, <2>1, <2>2 DEF Sent, Settled
<1>4. CASE Saved(m, a)
  <2> DEFINE saved == [db.delivery[a] EXCEPT ![m] = "SAVED_LOCALLY"]
  <2>1. /\ db'.delivery = [db.delivery EXCEPT ![a] = saved]
        /\ \/ db'.asset = db.asset
           \/ db'.asset = [db.asset EXCEPT ![a] = "PURGE_PENDING"]
        /\ db.asset[a] = "COMMITTED" /\ db.delivery[a][m] = "READY"
    BY <1>1, <1>4 DEF Saved, Install, Tables
  <2>2. /\ \A b \in Assets : b # a => db'.delivery[b] = db.delivery[b]
        /\ \A r \in Members : r # m => db'.delivery[a][r] = db.delivery[a][r]
    BY <1>1, <2>1
  <2>3. /\ db'.asset[a] # "NONE"
        /\ \A b \in Assets : b # a => db'.asset[b] = db.asset[b]
    BY <1>1, <2>1
  <2> QED
    BY <2>1, <2>2, <2>3 DEF Sent, Settled
<1>5. CASE RetireAsset(a)
  <2>1. /\ db'.asset[a] \in {"PURGED", "EXPIRED"}
        /\ db.asset[a] \in {"PURGE_PENDING", "COMMITTED"}
        /\ \A b \in Assets : b # a => /\ db'.asset[b] = db.asset[b]
                                     /\ db'.delivery[b] = db.delivery[b]
    BY <1>1, <1>5 DEF RetireAsset, Tables
  <2>2. \A r \in Members : \/ db'.delivery[a][r] = db.delivery[a][r]
                           \/ db.delivery[a][r] = "READY"
    BY <1>1, <1>5 DEF RetireAsset, Tables
  <2> QED
    BY <2>1, <2>2 DEF Sent, Settled
<1> QED
  BY <1>2, <1>3, <1>4, <1>5

(* No step overwrites what is settled.                                     *)
LEMMA StepSettles ==
    ASSUME TypeOK, Books(db), Sent(db), [Next]_vars
    PROVE  Sent(db') /\ Settled(db, db')
<1>1. now \in Time
  BY DEF TypeOK, Time
<1>2. CASE Tick \/ UNCHANGED vars \/ \E a \in Assets, v \in Variants : PutObject(a, v)
  <2>1. db' = db
    BY <1>2 DEF Tick, vars, PutObject
  <2> QED
    BY <2>1 DEF Settled
<1>3. CASE Admission
  BY <1>3, AdmissionWaives, WaivingSettles
<1>4. CASE UserCommand
  BY <1>1, <1>4, MembersAssumption, LifecycleWaives, WaivingSettles DEF UserCommand
<1>5. CASE PhoneRequest
  <2>1. PICK m \in Members :
          \/ ReadTransferState(m)
          \/ \E v \in {db.trip.version - 1, db.trip.version} : Drained(m, v)
          \/ \E a \in Assets : \/ \E c \in 0 .. now + ClockAhead : CreateUpload(m, a, c)
                               \/ RenewUpload(m, a) \/ PublishPreview(m, a)
                               \/ Commit(m, a) \/ Saved(m, a)
    BY <1>5 DEF PhoneRequest
  <2>2. {db.trip.version - 1, db.trip.version} \subseteq Int
    BY Columns DEF TypeOK, TripRow
  <2>3. CASE \/ ReadTransferState(m)
             \/ \E v \in {db.trip.version - 1, db.trip.version} : Drained(m, v)
    BY <1>1, <2>2, <2>3, LifecycleWaives, WaivingSettles
  <2> QED
    BY <2>1, <2>3, MediaSettles
<1>6. CASE Cleanup
  BY <1>1, <1>6, MembersAssumption, ExpireWaives, WaivingSettles, MediaSettles DEF Cleanup
<1> QED
  BY <1>2, <1>3, <1>4, <1>5, <1>6 DEF Next

(* Deliveries belong to committed assets in every reachable state.         *)
LEMMA SentInductive == Spec => []Sent(db)
<1>1. Init => Sent(db)
  BY DEF Init, Sent
<1>2. TypeOK /\ Books(db) /\ Sent(db) /\ [Next]_vars => Sent(db)'
  BY StepSettles
<1>3. IInv => TypeOK /\ Books(db)
  BY DEF IInv
<1> QED
  BY <1>1, <1>2, <1>3, Inductive, PTL DEF Spec

(* Outcomes are final: no step revives an ended trip, re-admits a member   *)
(* who left, takes back a receipt or a waiver, or brings back an asset     *)
(* that was retired, in whatever order commands, phones and cleanup come.  *)
THEOREM OutcomesStayFinal == Spec => OutcomesAreFinal
<1>1. IInv /\ Roll(db) /\ Sent(db) /\ [Next]_vars =>
        [/\ db.trip.state \in Terminal => db'.trip.state = db.trip.state
         /\ \A m \in Members : db.member[m].left => db'.member[m] = db.member[m]
         /\ \A a \in Assets :
              /\ db.asset[a] \in {"PURGED", "EXPIRED"} => db'.asset[a] = db.asset[a]
              /\ \A m \in Members : db.delivery[a][m] \in {"SAVED_LOCALLY", "EXPIRED"} =>
                    db'.delivery[a][m] = db.delivery[a][m]]_vars
  <2> SUFFICES ASSUME IInv, Roll(db), Sent(db), [Next]_vars
               PROVE  Kept(db, db') /\ Settled(db, db')
    BY DEF Kept, Settled
  <2> QED
    BY StepRolls, StepSettles DEF IInv
<1> QED
  BY <1>1, Inductive, RosterInductive, SentInductive, PTL DEF Spec, OutcomesAreFinal

-----------------------------------------------------------------------------
(* Paused captures stay private, for any number of pauses.                 *)

(* Nobody uploads in the future, nor a photo dated further ahead than      *)
(* clocks may be.                                                          *)
Dated(s) == s.createdAt <= now /\ s.capturedAt <= s.createdAt + ClockAhead
Past(w) == \A a \in Assets : Dated(w.session[a])

(* The photo of an upload against the pauses of its member's row.          *)
Outside(s, row) ==
    /\ row.pausedAt = Unset \/ s.capturedAt <= row.pausedAt \/ AcceptedBefore(s, row.pausedAt)
    /\ \A p \in row.pauses : \/ s.capturedAt <= p.from \/ p.until <= s.capturedAt
                             \/ AcceptedBefore(s, p.from)

Hidden(w) == \A a \in Assets : w.session[a].state # "NONE" =>
                Outside(w.session[a], w.member[w.session[a].source])

SamePause(r, s) == s.pausedAt = r.pausedAt /\ s.pauses = r.pauses

(* Row s follows row r: its pauses are the same, or one begins or ends.    *)
Follows(r, s) ==
    \/ SamePause(r, s)
    \/ r.pausedAt = Unset /\ s.pausedAt = now /\ s.pauses = r.pauses
    \/ /\ r.pausedAt # Unset /\ s.pausedAt = Unset
       /\ s.pauses = r.pauses \cup {[from |-> r.pausedAt, until |-> now]}
    \/ s.pausedAt = Unset /\ s.pauses = {}

SamePauses(w, x) == \A m \in Members : SamePause(w.member[m], x.member[m])

LEMMA SessionTimes ==
    ASSUME NEW s \in SessionRow
    PROVE  s.createdAt \in Int /\ s.capturedAt \in Int
BY TimeAssumption DEF SessionRow, Time

(* An upload outside the pauses so far is outside those that follow.       *)
LEMMA FollowingHides ==
    ASSUME NEW u \in SessionRow, NEW r, NEW s, now \in Int, Dated(u), Outside(u, r), Follows(r, s)
    PROVE  Outside(u, s)
<1>1. CASE SamePause(r, s)
  BY <1>1 DEF Outside, SamePause
<1>2. CASE r.pausedAt = Unset /\ s.pausedAt = now /\ s.pauses = r.pauses
  <2>1. u.createdAt \in Int /\ u.capturedAt \in Int /\ ClockAhead \in Int
    BY SessionTimes, LimitAssumption
  <2>2. AcceptedBefore(u, now)
    BY <2>1 DEF AcceptedBefore, Dated
  <2> QED
    BY <1>2, <2>2 DEF Outside
<1>3. CASE /\ r.pausedAt # Unset /\ s.pausedAt = Unset
           /\ s.pauses = r.pauses \cup {[from |-> r.pausedAt, until |-> now]}
  BY <1>3 DEF Outside
<1>4. CASE s.pausedAt = Unset /\ s.pauses = {}
  BY <1>4 DEF Outside
<1> QED
  BY <1>1, <1>2, <1>3, <1>4 DEF Follows

(* Departures, ends and settlements leave every pause as it is.            *)
LEMMA DepartKeepsPauses ==
    ASSUME NEW w \in Tables, NEW S, NEW forced
    PROVE  SamePauses(w, Depart(w, S, forced))
<1> SUFFICES ASSUME NEW m \in Members
             PROVE  SamePause(w.member[m], Depart(w, S, forced).member[m])
  BY DEF SamePauses
<1> DEFINE row == w.member[m]
           gone == [row EXCEPT !.leavingAt = IF @ = Unset THEN now ELSE @, !.left = TRUE,
                               !.incomplete = forced /\ Started(w)]
<1>1. row \in Row
  BY Columns
<1>2. Depart(w, S, forced).member[m] = IF m \in S THEN gone ELSE row
  BY DEF Depart, DepartedRows, Tables
<1>3. SamePause(row, gone) /\ SamePause(row, row)
  BY <1>1 DEF SamePause, Row
<1> HIDE DEF gone
<1> QED
  BY <1>2, <1>3

(* So does an end ...                                                      *)
LEMMA EndKeepsPauses ==
    ASSUME NEW w \in Tables
    PROVE  SamePauses(w, End(w))
<1>1. CASE Ended(w)
  BY <1>1 DEF End, SamePauses, SamePause
<1>2. CASE ~Ended(w) /\ ~Started(w)
  BY <1>2, DepartKeepsPauses DEF End
<1>3. CASE ~Ended(w) /\ Started(w)
  <2> SUFFICES ASSUME NEW m \in Members
               PROVE  SamePause(w.member[m], End(w).member[m])
    BY DEF SamePauses
  <2> DEFINE row == w.member[m]
             called == [row EXCEPT !.leavingAt = now, !.drained = FALSE]
  <2>1. row \in Row
    BY Columns
  <2>2. End(w).member[m] = called \/ End(w).member[m] = row
    BY <1>3 DEF End, CalledHome, Tables
  <2>3. SamePause(row, called) /\ SamePause(row, row)
    BY <2>1 DEF SamePause, Row
  <2> HIDE DEF called
  <2> QED
    BY <2>2, <2>3
<1> QED
  BY <1>1, <1>2, <1>3

(* ... and so does every read of the state.                                *)
LEMMA ReadStateKeepsPauses ==
    ASSUME NEW w \in Tables, NEW m \in Members, now \in Time
    PROVE  SamePauses(w, ReadState(w, m))
<1> DEFINE x == IF w.trip.state = "ACTIVE" /\ EndsAt <= now THEN End(w) ELSE w
<1>1. x \in Tables /\ SamePauses(w, x)
  BY EndType, EndKeepsPauses DEF SamePauses, SamePause
<1>2. ReadState(w, m) = x \/ ReadState(w, m) = Depart(x, {m}, FALSE)
  BY DEF ReadState, Settle
<1> HIDE DEF x
<1>3. SamePauses(x, Depart(x, {m}, FALSE))
  BY <1>1, DepartKeepsPauses
<1> QED
  BY <1>1, <1>2, <1>3 DEF SamePauses, SamePause

-----------------------------------------------------------------------------
AllFollow == \A m \in Members : Follows(db.member[m], db'.member[m])

(* A request that first writes w and then reads its state.                 *)
LEMMA ReadingFollows ==
    ASSUME NEW w \in Tables, NEW m \in Members, now \in Time, db' = ReadState(w, m),
           \A o \in Members : Follows(db.member[o], w.member[o])
    PROVE  AllFollow
<1>1. SamePauses(w, db')
  BY ReadStateKeepsPauses
<1> QED
  BY <1>1 DEF AllFollow, Follows, SamePauses, SamePause

(* Admission touches the pauses of no row but a new one's.                 *)
LEMMA AdmissionFollows == TypeOK /\ Admission => AllFollow
<1> SUFFICES ASSUME TypeOK, Admission PROVE AllFollow
  OBVIOUS
<1>1. db \in Tables /\ db.member \in [Members -> Row]
  BY Columns DEF TypeOK
<1>2. ASSUME NEW m \in Members, RequestJoin(m) PROVE AllFollow
  <2>1. \A o \in Members : db'.member[o] =
           IF o = m THEN [NoMember EXCEPT !.state = "PENDING_KEY"] ELSE db.member[o]
    BY <1>1, <1>2 DEF RequestJoin, Install, Tables
  <2> QED
    BY <2>1 DEF AllFollow, Follows, SamePause, NoMember
<1>3. ASSUME NEW m \in Members, ApproveJoin(m) \/ RejectJoin(m) PROVE AllFollow
  <2>1. /\ \A o \in Members \ {m} : db'.member[o] = db.member[o]
        /\ db'.member[m].pausedAt = db.member[m].pausedAt
        /\ db'.member[m].pauses = db.member[m].pauses
    <3>1. db.member[m] \in Row
      BY <1>1
    <3>2. CASE ApproveJoin(m)
      BY <1>1, <3>1, <3>2 DEF ApproveJoin, Install, Tables, Row
    <3>3. CASE RejectJoin(m)
      BY <1>1, <3>1, <3>3 DEF RejectJoin, Install, Tables, Row
    <3> QED
      BY <1>3, <3>2, <3>3
  <2> QED
    BY <2>1 DEF AllFollow, Follows, SamePause
<1>4. CASE StartTrip
  BY <1>1, <1>4 DEF StartTrip, Install, Tables, AllFollow, Follows, SamePause
<1> QED
  BY <1>2, <1>3, <1>4 DEF Admission

(* A lifecycle request begins or ends its member's pause, or none.         *)
LEMMA LifecycleFollows ==
    ASSUME TypeOK, now \in Time, NEW m \in Members,
           \/ EndTrip \/ ReadTransferState(m) \/ Leave(m) \/ LeaveNow(m)
           \/ Pause(m) \/ Resume(m) \/ \E v \in Int : Drained(m, v)
    PROVE  AllFollow
<1>1. db \in Tables /\ Owner \in Members
  BY MembersAssumption DEF TypeOK
<1>2. db.member[m] \in Row /\ Bumped(db) \in TripRow /\ db.trip \in TripRow
  BY <1>1, Columns, BumpedType
<1>3. ASSUME NEW w \in Tables, NEW o \in Members, SamePauses(db, w), db' = ReadState(w, o)
      PROVE  AllFollow
  BY <1>3, ReadingFollows DEF SamePauses, Follows
<1>4. ASSUME NEW row \in Row, NEW trip \in TripRow, Follows(db.member[m], row),
             db' = ReadState([db EXCEPT !.member[m] = row, !.trip = trip], m)
      PROVE  AllFollow
  <2> DEFINE w == [db EXCEPT !.member[m] = row, !.trip = trip]
  <2>1. w \in Tables
    BY <1>1, UpdateType
  <2>2. \A o \in Members : w.member[o] = IF o = m THEN row ELSE db.member[o]
    BY <1>1 DEF Tables
  <2>3. db' = ReadState(w, m)
    BY <1>4
  <2> HIDE DEF w
  <2>4. ASSUME NEW o \in Members PROVE Follows(db.member[o], w.member[o])
    BY <1>4, <2>2 DEF Follows, SamePause
  <2> QED
    BY <2>1, <2>3, <2>4, ReadingFollows
<1>5. CASE EndTrip
  BY <1>1, <1>3, <1>5, EndType, EndKeepsPauses DEF EndTrip, Install
<1>6. CASE ReadTransferState(m)
  BY <1>1, <1>3, <1>6 DEF ReadTransferState, Install, SamePauses, SamePause
<1>7. CASE Leave(m)
  <2> DEFINE row == [db.member[m] EXCEPT !.leavingAt = now, !.drained = FALSE]
  <2>1. row \in Row /\ Follows(db.member[m], row)
    BY <1>2 DEF Row, Follows, SamePause
  <2>2. \/ db' = ReadState(Depart(db, {m}, FALSE), m)
        \/ db' = ReadState([db EXCEPT !.member[m] = row, !.trip = Bumped(db)], m)
    BY <1>7 DEF Leave, Install
  <2>3. Depart(db, {m}, FALSE) \in Tables /\ SamePauses(db, Depart(db, {m}, FALSE))
    BY <1>1, DepartType, DepartKeepsPauses
  <2> HIDE DEF row
  <2> QED
    BY <1>2, <1>3, <1>4, <2>1, <2>2, <2>3
<1>8. CASE LeaveNow(m)
  <2>1. Depart(db, {m}, TRUE) \in Tables /\ SamePauses(db, Depart(db, {m}, TRUE))
    BY <1>1, DepartType, DepartKeepsPauses
  <2> QED
    BY <1>3, <1>8, <2>1 DEF LeaveNow, Install
<1>9. CASE Pause(m)
  <2> DEFINE row == [db.member[m] EXCEPT !.pausedAt = now]
  <2>1. row \in Row /\ row.pausedAt = now /\ row.pauses = db.member[m].pauses
    BY <1>2 DEF Row
  <2>2. /\ db.member[m].pausedAt = Unset
        /\ db' = ReadState([db EXCEPT !.member[m] = row, !.trip = Bumped(db)], m)
    BY <1>9 DEF Pause, Install
  <2> HIDE DEF row
  <2> QED
    BY <1>2, <1>4, <2>1, <2>2 DEF Follows
<1>10. CASE Resume(m)
  <2> DEFINE window == [from |-> db.member[m].pausedAt, until |-> now]
             row == [db.member[m] EXCEPT !.pauses = @ \cup {window}, !.pausedAt = Unset]
  <2>1. window \in [from : Time, until : Time]
    BY <1>2 DEF Row
  <2>2. db.member[m].pauses \cup {window} \in SUBSET [from : Time, until : Time]
    BY <1>2, <2>1 DEF Row
  <2>3. /\ row \in Row /\ row.pausedAt = Unset
        /\ row.pauses = db.member[m].pauses \cup {window}
    BY <1>2, <2>2, UnsetIsTime DEF Row
  <2>4. /\ db.member[m].pausedAt # Unset
        /\ db' = ReadState([db EXCEPT !.member[m] = row, !.trip = Bumped(db)], m)
    BY <1>10 DEF Resume, Install
  <2> HIDE DEF row
  <2> QED
    BY <1>2, <1>4, <2>3, <2>4 DEF Follows
<1>11. ASSUME NEW v \in Int, Drained(m, v) PROVE AllFollow
  <2> DEFINE row == [db.member[m] EXCEPT !.drained = TRUE]
             x == [db EXCEPT !.member[m] = row]
  <2>1. row \in Row /\ Follows(db.member[m], row)
    BY <1>2 DEF Row, Follows, SamePause
  <2>2. x = [db EXCEPT !.member[m] = row, !.trip = db.trip]
    BY <1>1 DEF Tables
  <2>3. db' = ReadState(x, m) \/ db' = ReadState(db, m)
    BY <1>11 DEF Drained, Install
  <2> HIDE DEF row
  <2>4. CASE db' = ReadState(x, m)
    BY <1>2, <1>4, <2>1, <2>2, <2>4
  <2>5. CASE db' = ReadState(db, m)
    BY <1>1, <1>3, <2>5 DEF SamePauses, SamePause
  <2> QED
    BY <2>3, <2>4, <2>5
<1> QED
  BY <1>5, <1>6, <1>7, <1>8, <1>9, <1>10, <1>11

(* The hard expiry keeps the pauses of the rows it closes.                 *)
LEMMA ExpireFollows ==
    ASSUME TypeOK, now \in Time, Expire
    PROVE  AllFollow
<1> DEFINE w == IF db.trip.state # "ENDING" THEN End(db) ELSE db
           x == [w EXCEPT !.member = PastDeadline(w), !.slots = {},
                          !.trip = [w.trip EXCEPT !.state = "INCOMPLETE_EXPIRED",
                                                  !.version = @ + 1]]
<1>1. w \in Tables /\ SamePauses(db, w)
  BY EndType, EndKeepsPauses DEF TypeOK, SamePauses, SamePause
<1>2. db' = w \/ db' = x
  BY DEF Expire, Install
<1> HIDE DEF w
<1>3. ASSUME NEW m \in Members PROVE SamePause(w.member[m], x.member[m])
  <2> DEFINE row == w.member[m]
             past == [row EXCEPT !.left = TRUE, !.leavingAt = IF @ = Unset THEN now ELSE @]
  <2>1. row \in Row
    BY <1>1, Columns
  <2>2. x.member[m] = past \/ x.member[m] = row
    BY <1>1 DEF PastDeadline, Tables
  <2>3. SamePause(row, past) /\ SamePause(row, row)
    BY <2>1 DEF SamePause, Row
  <2> HIDE DEF past, x
  <2> QED
    BY <2>2, <2>3
<1> HIDE DEF x
<1> QED
  BY <1>1, <1>2, <1>3 DEF AllFollow, Follows, SamePauses, SamePause

-----------------------------------------------------------------------------
(* A step that leaves the uploads alone keeps their photos hidden.         *)
LEMMA FollowingKeeps ==
    ASSUME TypeOK, Past(db), Hidden(db), AllFollow, OnlyWaives(db, db'), now' = now
    PROVE  Past(db)' /\ Hidden(db)'
<1>1. Past(db)'
  BY DEF Past, Dated, OnlyWaives
<1>2. ASSUME NEW a \in Assets, db'.session[a].state # "NONE"
      PROVE  Outside(db'.session[a], db'.member[db'.session[a].source])
  <2> DEFINE s == db.session[a]
  <2>1. db'.session[a] = s /\ s \in SessionRow /\ s.source \in Members /\ Dated(s)
    BY DEF OnlyWaives, Past, TypeOK, Tables, SessionRow
  <2>2. Outside(s, db.member[s.source]) /\ now \in Int
    BY <1>2, <2>1 DEF Hidden, TypeOK
  <2>3. Follows(db.member[s.source], db'.member[s.source])
    BY <2>1 DEF AllFollow
  <2> HIDE DEF s
  <2> QED
    BY <2>1, <2>2, <2>3, FollowingHides
<1> QED
  BY <1>1, <1>2 DEF Hidden

(* A new upload is held against the pauses of its member's row; the other  *)
(* media steps change neither photo times nor pauses.                      *)
LEMMA MediaKeeps ==
    ASSUME TypeOK, Past(db), Hidden(db), NEW m \in Members, NEW a \in Assets,
           \/ \E c \in 0 .. now + ClockAhead : CreateUpload(m, a, c)
           \/ RenewUpload(m, a) \/ PublishPreview(m, a) \/ Commit(m, a) \/ Saved(m, a)
           \/ RetireAsset(a) \/ RetireUpload(a)
    PROVE  Past(db)' /\ Hidden(db)'
<1>1. /\ db \in Tables /\ db.member \in [Members -> Row] /\ now \in Int
      /\ db.session \in [Assets -> SessionRow] /\ ClockAhead \in Int
  BY LimitAssumption DEF TypeOK, Tables
<1>2. ASSUME NEW c \in 0 .. now + ClockAhead, CreateUpload(m, a, c)
      PROVE  Past(db)' /\ Hidden(db)'
  <2>1. /\ now' = now
        /\ \A b \in Assets \ {a} : db'.session[b] = db.session[b]
        /\ db'.session[a].source = m /\ db'.session[a].capturedAt = c
        /\ db'.session[a].createdAt = now
        /\ \A o \in Members : /\ db'.member[o].pausedAt = db.member[o].pausedAt
                              /\ db'.member[o].pauses = db.member[o].pauses
    BY <1>1, <1>2 DEF CreateUpload, Install, Tables, Row
  <2>2. /\ db.member[m].pausedAt = Unset \/ c < db.member[m].pausedAt
        /\ \A p \in db.member[m].pauses : c < p.from \/ p.until <= c
    BY <1>2 DEF CreateUpload, CaptureAllowed
  <2>3. /\ db.member[m].pausedAt \in Int /\ db.member[m].pauses \in SUBSET [from : Time, until : Time]
    BY <1>1 DEF Row, Time
  <2>4. Outside(db'.session[a], db.member[m])
    BY <2>1, <2>2, <2>3 DEF Outside, Time
  <2>5. Past(db)'
    BY <1>1, <2>1 DEF Past, Dated
  <2>6. \A b \in Assets : db.session[b].source \in Members
    BY <1>1 DEF SessionRow
  <2>7. ASSUME NEW b \in Assets, db'.session[b].state # "NONE"
        PROVE  Outside(db'.session[b], db'.member[db'.session[b].source])
    <3>1. CASE b = a
      BY <2>1, <2>4, <3>1 DEF Outside
    <3>2. CASE b # a
      <4>1. db'.session[b] = db.session[b]
        BY <2>1, <3>2
      <4>2. Outside(db.session[b], db.member[db.session[b].source])
        BY <2>7, <4>1 DEF Hidden
      <4> QED
        BY <2>1, <2>6, <4>1, <4>2 DEF Outside
    <3> QED
      BY <3>1, <3>2
  <2>8. Hidden(db)'
    BY <2>7 DEF Hidden
  <2> QED
    BY <2>5, <2>8
<1>3. CASE \/ RenewUpload(m, a) \/ PublishPreview(m, a) \/ Commit(m, a) \/ Saved(m, a)
           \/ RetireAsset(a) \/ RetireUpload(a)
  <2>1. /\ now' = now /\ db'.member = db.member
        /\ \A b \in Assets : /\ db'.session[b].source = db.session[b].source
                             /\ db'.session[b].capturedAt = db.session[b].capturedAt
                             /\ db'.session[b].createdAt = db.session[b].createdAt
                             /\ db'.session[b].state # "NONE" => db.session[b].state # "NONE"
    <3>1. CASE RenewUpload(m, a)
      BY <1>1, <3>1 DEF RenewUpload, Install, Tables, SessionRow
    <3>2. CASE PublishPreview(m, a) \/ Saved(m, a) \/ RetireAsset(a)
      BY <1>1, <3>2 DEF PublishPreview, Saved, RetireAsset, Install, Tables
    <3>3. CASE Commit(m, a)
      BY <1>1, <3>3 DEF Commit, UploadOpen, Install, Tables, SessionRow
    <3>4. CASE RetireUpload(a)
      BY <1>1, <3>4 DEF RetireUpload, Tables, SessionRow
    <3> QED
      BY <1>3, <3>1, <3>2, <3>3, <3>4
  <2> QED
    BY <2>1 DEF Past, Dated, Hidden, Outside, AcceptedBefore
<1> QED
  BY <1>2, <1>3

(* Every step keeps photos in the past and out of the pauses.              *)
LEMMA StepPrivacy ==
    ASSUME TypeOK, Past(db), Hidden(db), [Next]_vars
    PROVE  Past(db)' /\ Hidden(db)'
<1>1. now \in Time
  BY DEF TypeOK, Time
<1>2. CASE Tick
  <2>1. db' = db /\ now' = now + 1 /\ now \in Int
    BY <1>2 DEF Tick, TypeOK
  <2>2. \A a \in Assets : db.session[a].createdAt \in Int
    BY DEF TypeOK, Tables, SessionRow, Time
  <2> QED
    BY <2>1, <2>2 DEF Past, Dated, Hidden
<1>3. CASE Admission
  BY <1>3, AdmissionWaives, AdmissionFollows, FollowingKeeps
<1>4. CASE UserCommand
  BY <1>1, <1>4, MembersAssumption, LifecycleWaives, LifecycleFollows, FollowingKeeps
     DEF UserCommand
<1>5. CASE PhoneRequest
  <2>1. PICK m \in Members :
          \/ ReadTransferState(m)
          \/ \E v \in {db.trip.version - 1, db.trip.version} : Drained(m, v)
          \/ \E a \in Assets : \/ \E c \in 0 .. now + ClockAhead : CreateUpload(m, a, c)
                               \/ RenewUpload(m, a) \/ PublishPreview(m, a)
                               \/ Commit(m, a) \/ Saved(m, a)
    BY <1>5 DEF PhoneRequest
  <2>2. {db.trip.version - 1, db.trip.version} \subseteq Int
    BY Columns DEF TypeOK, TripRow
  <2>3. CASE \/ ReadTransferState(m)
             \/ \E v \in {db.trip.version - 1, db.trip.version} : Drained(m, v)
    BY <1>1, <2>2, <2>3, LifecycleWaives, LifecycleFollows, FollowingKeeps
  <2> QED
    BY <2>1, <2>3, MediaKeeps
<1>6. CASE Expire
  BY <1>1, <1>6, ExpireWaives, ExpireFollows, FollowingKeeps
<1>7. CASE \E a \in Assets : RetireAsset(a) \/ RetireUpload(a)
  BY <1>7, MembersAssumption, MediaKeeps
<1>8. CASE UNCHANGED vars \/ \E a \in Assets, v \in Variants : PutObject(a, v)
  BY <1>8 DEF vars, PutObject, Past, Dated, Hidden
<1> QED
  BY <1>2, <1>3, <1>4, <1>5, <1>6, <1>7, <1>8 DEF Next, Cleanup

(* In every reachable state no upload is dated further ahead of its        *)
(* acceptance than a phone's clock may be, and none is dated inside a      *)
(* pause, unless it was accepted before that pause.                        *)
THEOREM PrivacyInductive == Spec => [](Past(db) /\ Hidden(db))
<1>1. Init => Past(db) /\ Hidden(db)
  BY LimitAssumption DEF Init, Past, Dated, Hidden, NoSession, Unset
<1>2. TypeOK /\ Past(db) /\ Hidden(db) /\ [Next]_vars => Past(db)' /\ Hidden(db)'
  BY StepPrivacy
<1> QED
  BY <1>1, <1>2, TypeCorrect, PTL DEF Spec

(* No upload exists for a photo taken while its member had sharing paused, *)
(* in whatever order pauses, resumes, discoveries and ends come and        *)
(* however far ahead, within ClockAhead, a phone dates its photos.         *)
THEOREM PausedStaysPrivate == Spec => []PausedCapturesStayPrivate
<1>1. Hidden(db) => PausedCapturesStayPrivate
  BY DEF Hidden, Outside, PausedCapturesStayPrivate
<1> QED
  BY <1>1, PrivacyInductive, PTL
=============================================================================
