----------------------------- MODULE TripMedia -----------------------------
(***************************************************************************)
(* One CrewRoll trip as PostgreSQL holds it: the trip row, its members,    *)
(* the upload sessions, committed assets and per-recipient deliveries, and *)
(* the transactions that change them.  It translates                       *)
(*   db/trips/kyselyTripLifecycle.ts   ends, departures, hard expiry       *)
(*   db/media/kyselyMediaService.ts    uploads, commits, receipts          *)
(*   db/media/mediaCleanup.ts          retirement, one step per item       *)
(*   db/media/capturePolicy.ts         which captures may be shared        *)
(* and the part of the admission commands these transactions depend on.    *)
(*                                                                         *)
(* Every one of those transactions locks the trip row FOR UPDATE before it *)
(* reads anything it decides on, so each is one atomic step.  The tables   *)
(* form one record, db.  Handlers that call one another (a state read may  *)
(* end the trip, which may settle a member, which may complete the trip)   *)
(* are operators from a db to a db; an action installs the result.         *)
(***************************************************************************)
EXTENDS Integers, FiniteSets

CONSTANTS
    Members,        \* users; each takes part with one nominated phone
    Owner,          \* the host
    Assets,         \* client asset ids
    EndsAt,         \* trips.ends_at
    HardDeleteAt,   \* trips.hard_delete_at
    UploadTtl,      \* life of an upload grant (15 minutes in the code)
    ClockAhead,     \* how far a phone's clock may be ahead of the server's (60 s)
    MaxPhotos,      \* photo quota of a trip (5000 in the code)
    MaxPauses,      \* model bound: pauses recorded per member
    JoinUntil,      \* model bound: last tick at which somebody asks to join
    MaxTime         \* model bound: last tick of the clock

ASSUME MembersAssumption == IsFiniteSet(Members) /\ Owner \in Members
ASSUME TimeAssumption ==
    /\ EndsAt \in Nat /\ HardDeleteAt \in Nat /\ MaxTime \in Nat \ {0}
    /\ EndsAt < HardDeleteAt
ASSUME LimitAssumption ==
    /\ UploadTtl \in Nat \ {0} /\ ClockAhead \in Nat
    /\ MaxPhotos \in Nat /\ MaxPauses \in Nat /\ JoinUntil \in Nat

VARIABLES
    now,        \* clock.now()
    db,         \* the tables
    staged      \* <<asset, variant>> pairs whose ciphertext the object store holds

vars == <<now, db, staged>>

Unset == -1                     \* a NULL timestamp
Variants == {"PREVIEW", "ORIGINAL"}
Terminal == {"COMPLETE", "INCOMPLETE_EXPIRED", "CANCELLED"}

NoMember == [state |-> "NONE", approvedAt |-> Unset, leavingAt |-> Unset,
             drained |-> FALSE, left |-> FALSE, incomplete |-> FALSE,
             pausedAt |-> Unset, pauses |-> {}]
NoSession == [state |-> "NONE", source |-> Owner, capturedAt |-> Unset,
              createdAt |-> Unset, expiresAt |-> Unset]

(* createTrip, at tick 0, inserted the trip in LOBBY with its owner ACTIVE. *)
Init ==
    /\ now = 1
    /\ staged = {}
    /\ db = [trip     |-> [state |-> "LOBBY", version |-> 1, memberCount |-> 1,
                           startedAt |-> Unset, endingAt |-> Unset],
             member   |-> [m \in Members |->
                             IF m = Owner
                             THEN [NoMember EXCEPT !.state = "ACTIVE", !.approvedAt = 0]
                             ELSE NoMember],
             slots    |-> {Owner},
             session  |-> [a \in Assets |-> NoSession],
             asset    |-> [a \in Assets |-> "NONE"],
             delivery |-> [a \in Assets |-> [m \in Members |-> "NONE"]],
             preview  |-> [a \in Assets |-> {}]]

(***************************************************************************)
(* Reading a database w.                                                   *)
(***************************************************************************)
Started(w) == w.trip.startedAt # Unset

(* Membership rows with left_at null, the rejected ones excluded. *)
InTrip(w) == {m \in Members : /\ w.member[m].state \in {"PENDING_KEY", "ACTIVE"}
                              /\ ~w.member[m].left}

Participates(w, m) == m \in InTrip(w) /\ w.member[m].state = "ACTIVE"

(* The departing member's queue is cut at its own departure, else at the   *)
(* end of the trip.                                                        *)
QueueCutoff(w, m) == IF w.member[m].leavingAt # Unset THEN w.member[m].leavingAt
                     ELSE IF w.trip.endingAt # Unset THEN w.trip.endingAt
                     ELSE EndsAt

(* Slip: only the member's own uploads are waited for. *)
OwnUploadsOnly(w, m) == {a \in Assets : /\ w.session[a].state = "CREATED"
                                        /\ w.session[a].source = m}

PendingUploads(w, m) == {a \in Assets : /\ w.session[a].state = "CREATED"
                                        /\ w.session[a].createdAt <= QueueCutoff(w, m)}

(* Slip: READY deliveries are not counted. *)
NoDownloadsCounted(w, m) == {}

PendingDownloads(w, m) == {a \in Assets : w.delivery[a][m] = "READY"}

(* Slip: each member's settlement waits for its own final pass alone. *)
AwaitsOwnPass(w, m) == ~w.member[m].drained

(* Ending waits for the final discovery pass of every active phone.        *)
AwaitsFinalPass(w, m) ==
    /\ w.trip.state = "ENDING"
    /\ w.member[m].leavingAt >= w.trip.endingAt
    /\ \E o \in Members : Participates(w, o) /\ ~w.member[o].drained

(***************************************************************************)
(* Departure.                                                              *)
(***************************************************************************)
DepartedRows(w, S, forced) ==
    [m \in Members |->
       IF m \in S THEN [w.member[m] EXCEPT
                          !.leavingAt = IF @ = Unset THEN now ELSE @,
                          !.left = TRUE,
                          !.incomplete = forced /\ Started(w)]
       ELSE w.member[m]]

(* A waived delivery is EXPIRED, never a fabricated receipt.               *)
Waived(w, S) ==
    [a \in Assets |-> [m \in Members |->
       IF m \in S /\ w.delivery[a][m] = "READY" THEN "EXPIRED" ELSE w.delivery[a][m]]]

(* The trip row once only the members of remaining are left.               *)
Reduced(w, S, remaining, anyIncomplete) ==
    LET closes == remaining = {} /\ w.trip.state \notin Terminal
    IN  [w.trip EXCEPT
           !.memberCount = IF remaining = {} THEN 1 ELSE Cardinality(remaining),
           !.version = @ + Cardinality(S),
           !.endingAt = IF closes /\ Started(w) /\ @ = Unset THEN now ELSE @,
           !.state = IF ~closes THEN @
                     ELSE IF ~Started(w) THEN "CANCELLED"
                     ELSE IF anyIncomplete THEN "INCOMPLETE_EXPIRED" ELSE "COMPLETE"]

(* The members of S depart: their slots are released and their unfinished  *)
(* deliveries waived; when nobody remains the trip reaches its end state.  *)
(* The result of calling depart() for each of S in turn.                   *)
Depart(w, S, forced) ==
    LET rows == DepartedRows(w, S, forced)
    IN  [w EXCEPT !.member = rows, !.slots = @ \ S, !.delivery = Waived(w, S),
                  !.trip = Reduced(w, S, InTrip(w) \ S,
                                   \E m \in Members : rows[m].incomplete)]

(* The trip row with its version bumped.                                   *)
Bumped(w) == [w.trip EXCEPT !.version = @ + 1]

Ended(w) == w.trip.state \in Terminal \cup {"ENDING"}

CalledHome(w) ==
    [m \in Members |->
       IF w.member[m].state # "NONE" /\ ~w.member[m].left /\ w.member[m].leavingAt = Unset
       THEN [w.member[m] EXCEPT !.leavingAt = now, !.drained = FALSE]
       ELSE w.member[m]]

(* A started trip freezes capture and asks every phone for a final pass;   *)
(* a trip that never started is cancelled by everyone's departure.         *)
End(w) ==
    IF Ended(w) THEN w
    ELSE IF ~Started(w) THEN Depart(w, InTrip(w), FALSE)
    ELSE [w EXCEPT !.member = CalledHome(w),
                   !.trip = [w.trip EXCEPT !.state = "ENDING", !.endingAt = now,
                                      !.version = @ + 1]]

Settle(w, m) ==
    IF /\ w.member[m].leavingAt # Unset
       /\ ~w.member[m].left
       /\ w.member[m].drained
       /\ ~AwaitsFinalPass(w, m)
       /\ PendingUploads(w, m) = {}
       /\ PendingDownloads(w, m) = {}
    THEN Depart(w, {m}, FALSE) ELSE w

(* Every lifecycle request ends by reading the trip's transfer state.      *)
ReadState(w, m) ==
    Settle(IF w.trip.state = "ACTIVE" /\ EndsAt <= now THEN End(w) ELSE w, m)

(* The caller's row is found even after it left, never once rejected.      *)
Lockable(m) == db.member[m].state \in {"PENDING_KEY", "ACTIVE"}

Install(w) == db' = w /\ UNCHANGED <<now, staged>>

-----------------------------------------------------------------------------
(***************************************************************************)
(* Admission, reduced to the columns above; idempotency records, invites   *)
(* and key envelopes are not part of this module.                          *)
(***************************************************************************)
AdmissionOpen == db.trip.state \in {"LOBBY", "ACTIVE"} /\ now < EndsAt

RequestJoin(m) ==
    /\ AdmissionOpen /\ now <= JoinUntil
    /\ db.member[m].state = "NONE"
    /\ db.trip.memberCount = Cardinality(InTrip(db))
    /\ Participates(db, Owner)
    /\ Install([db EXCEPT
         !.member[m] = [NoMember EXCEPT !.state = "PENDING_KEY"],
         !.slots = @ \cup {m},
         !.trip = [db.trip EXCEPT !.memberCount = @ + 1, !.version = @ + 1]])

ApproveJoin(m) ==
    /\ AdmissionOpen
    /\ Participates(db, Owner)
    /\ m \in InTrip(db) /\ db.member[m].state = "PENDING_KEY"
    /\ db.trip.memberCount = Cardinality(InTrip(db))
    /\ Install([db EXCEPT
         !.member[m] = [db.member[m] EXCEPT !.state = "ACTIVE", !.approvedAt = now],
         !.trip = Bumped(db)])

(* Slip: a rejection does not release the active-trip slot. *)
RejectKeepsSlot(m) ==
    /\ AdmissionOpen /\ Participates(db, Owner)
    /\ m \in InTrip(db) /\ db.member[m].state = "PENDING_KEY"
    /\ Install([db EXCEPT !.member[m].state = "REJECTED",
                          !.trip = [db.trip EXCEPT !.memberCount = @ - 1, !.version = @ + 1]])

RejectJoin(m) ==
    /\ AdmissionOpen
    /\ Participates(db, Owner)
    /\ m \in InTrip(db) /\ db.member[m].state = "PENDING_KEY"
    /\ db.trip.memberCount = Cardinality(InTrip(db))
    /\ Install([db EXCEPT !.member[m].state = "REJECTED",
                          !.slots = @ \ {m},
                          !.trip = [db.trip EXCEPT !.memberCount = @ - 1, !.version = @ + 1]])

(* Start compares no clock: a lobby past its scheduled end can still start *)
(* until the next cleanup pass cancels it.                                 *)
StartTrip ==
    /\ db.trip.state = "LOBBY"
    /\ Participates(db, Owner)
    /\ \A m \in InTrip(db) : db.member[m].state = "ACTIVE"
    /\ db.trip.memberCount = Cardinality(InTrip(db))
    /\ Install([db EXCEPT !.trip = [db.trip EXCEPT !.state = "ACTIVE", !.startedAt = now,
                                             !.version = @ + 1]])

(***************************************************************************)
(* Lifecycle requests of member m.  A request whose expectedVersion is not *)
(* the trip's is refused unchanged, so only current ones are actions.      *)
(***************************************************************************)
ReadTransferState(m) == Lockable(m) /\ Install(ReadState(db, m))

EndTrip == Lockable(Owner) /\ Install(ReadState(End(db), Owner))

Leave(m) ==
    /\ Lockable(m) /\ ~db.member[m].left /\ db.trip.state \notin Terminal
    /\ \/ /\ db.trip.state = "LOBBY" \/ db.member[m].state = "PENDING_KEY"
          /\ Install(ReadState(Depart(db, {m}, FALSE), m))
       \/ /\ db.trip.state # "LOBBY" /\ db.member[m].state = "ACTIVE"
          /\ db.member[m].leavingAt = Unset
          /\ Install(ReadState([db EXCEPT
               !.member[m] = [db.member[m] EXCEPT !.leavingAt = now, !.drained = FALSE],
               !.trip = Bumped(db)], m))

LeaveNow(m) ==
    /\ Lockable(m) /\ ~db.member[m].left /\ db.trip.state \notin Terminal
    /\ Install(ReadState(Depart(db, {m}, TRUE), m))

Pause(m) ==
    /\ Lockable(m) /\ ~db.member[m].left
    /\ db.trip.state = "ACTIVE" /\ db.member[m].leavingAt = Unset
    /\ db.member[m].pausedAt = Unset
    /\ Cardinality(db.member[m].pauses) < MaxPauses
    /\ \A p \in db.member[m].pauses : p.from < now  \* model bound: one a tick
    /\ Install(ReadState([db EXCEPT !.member[m] = [db.member[m] EXCEPT !.pausedAt = now],
                                    !.trip = Bumped(db)], m))

Resume(m) ==
    /\ Lockable(m) /\ ~db.member[m].left
    /\ db.trip.state = "ACTIVE" /\ db.member[m].leavingAt = Unset
    /\ db.member[m].pausedAt # Unset
    /\ Install(ReadState([db EXCEPT
         !.member[m] = [db.member[m] EXCEPT
            !.pauses = @ \cup {[from |-> db.member[m].pausedAt, until |-> now]},
            !.pausedAt = Unset],
         !.trip = Bumped(db)], m))

(* The phone acknowledges its final discovery pass against the version its *)
(* pass observed; a stale acknowledgement only reads.                      *)
Drained(m, observedVersion) ==
    /\ Lockable(m)
    /\ Install(ReadState(
         IF /\ ~db.member[m].left /\ db.member[m].leavingAt # Unset
            /\ observedVersion = db.trip.version
         THEN [db EXCEPT !.member[m] = [db.member[m] EXCEPT !.drained = TRUE]] ELSE db, m))

(* Slip: hard expiry does not release the slots. *)
ExpireKeepsSlots ==
    /\ db.trip.state = "ENDING" /\ HardDeleteAt <= now
    /\ Install([db EXCEPT !.member = [m \in Members |-> [db.member[m] EXCEPT !.left = TRUE]],
                          !.trip.state = "INCOMPLETE_EXPIRED"])

(* Slip: hard expiry does not skip trips already ended. *)
ExpireAnyState ==
    /\ HardDeleteAt <= now /\ Started(db) /\ db.trip.state # "INCOMPLETE_EXPIRED"
    /\ Install([db EXCEPT !.slots = {}, !.trip.state = "INCOMPLETE_EXPIRED"])

PastDeadline(w) ==
    [m \in Members |->
       IF w.member[m].state # "NONE" /\ ~w.member[m].left
       THEN [w.member[m] EXCEPT !.left = TRUE, !.leavingAt = IF @ = Unset THEN now ELSE @]
       ELSE w.member[m]]

(* One trip's turn in lifecycle.expire(), which takes at most 100 trips of *)
(* a pass: this trip may be left for a later one.                          *)
Expire ==
    LET w == IF db.trip.state # "ENDING" THEN End(db) ELSE db
    IN  /\ \/ db.trip.state \in {"LOBBY", "ACTIVE"} /\ EndsAt <= now
           \/ db.trip.state = "ENDING" /\ HardDeleteAt <= now
        /\ Install(
             IF HardDeleteAt <= now /\ Started(db)
             THEN [w EXCEPT !.member = PastDeadline(w), !.slots = {},
                            !.trip = [w.trip EXCEPT !.state = "INCOMPLETE_EXPIRED",
                                               !.version = @ + 1]]
             ELSE w)

-----------------------------------------------------------------------------
(***************************************************************************)
(* Media.                                                                  *)
(***************************************************************************)
(* tripFor: what every media request demands of its caller.                *)
MayTransfer(m) == /\ Participates(db, m)
                  /\ Started(db) /\ db.trip.state \in {"ACTIVE", "ENDING"}
                  /\ now < HardDeleteAt

NotAfter(t, cutoff) == cutoff = Unset \/ t <= cutoff

(* Slip: only an ongoing pause excludes captures. *)
OngoingPauseOnly(m, captured) ==
    /\ captured >= db.trip.startedAt /\ captured <= EndsAt
    /\ NotAfter(captured, db.trip.endingAt) /\ NotAfter(captured, db.member[m].leavingAt)
    /\ db.member[m].pausedAt = Unset \/ captured < db.member[m].pausedAt

(* Slip: only pauses already closed exclude captures. *)
ClosedPausesOnly(m, captured) ==
    LET row == db.member[m] IN
    /\ captured >= db.trip.startedAt /\ captured >= row.approvedAt /\ captured <= EndsAt
    /\ NotAfter(captured, db.trip.endingAt) /\ NotAfter(captured, row.leavingAt)
    /\ \A p \in row.pauses : captured < p.from \/ p.until <= captured

CaptureAllowed(m, captured) ==
    LET row == db.member[m] IN
    /\ captured >= db.trip.startedAt /\ captured >= row.approvedAt
    /\ captured <= EndsAt
    /\ NotAfter(captured, db.trip.endingAt) /\ NotAfter(captured, row.leavingAt)
    /\ row.pausedAt = Unset \/ captured < row.pausedAt
    /\ \A p \in row.pauses : captured < p.from \/ p.until <= captured

GrantExpiry == IF now + UploadTtl < HardDeleteAt THEN now + UploadTtl ELSE HardDeleteAt

(* A new source photo reserves quota and reopens the member's final pass.  *)
(* Its time is the phone's, whose clock may be a little ahead.             *)
CreateUpload(m, a, captured) ==
    /\ MayTransfer(m)
    /\ captured <= now + ClockAhead
    /\ db.session[a].state = "NONE"
    /\ CaptureAllowed(m, captured)
    /\ Cardinality({b \in Assets : db.session[b].state # "NONE"}) < MaxPhotos
    /\ Install([db EXCEPT
         !.member[m] = [db.member[m] EXCEPT !.drained = FALSE],
         !.session[a] = [state |-> "CREATED", source |-> m, capturedAt |-> captured,
                         createdAt |-> now, expiresAt |-> GrantExpiry]])

(* The same request again: an interrupted upload gets a fresh grant.       *)
RenewUpload(m, a) ==
    /\ MayTransfer(m)
    /\ db.session[a].state = "CREATED" /\ db.session[a].source = m
    /\ db.session[a].expiresAt <= now
    /\ Install([db EXCEPT !.session[a] = [db.session[a] EXCEPT !.expiresAt = GrantExpiry]])

(* The phone PUTs an object through its signed grant, create-only.         *)
PutObject(a, v) ==
    /\ db.session[a].state \in {"CREATED", "COMMITTED"}
    /\ now < db.session[a].expiresAt
    /\ staged' = staged \cup {<<a, v>>}
    /\ UNCHANGED <<now, db>>

(* Slip: the fan-out leaves out everyone who is leaving. *)
StayersOnly(w, a) == {m \in Members : /\ Participates(w, m)
                                      /\ w.member[m].approvedAt <= w.session[a].capturedAt
                                      /\ w.member[m].leavingAt = Unset}

(* Who is sent the photo of session a.                                     *)
Recipients(w, a) ==
    {m \in Members :
       /\ Participates(w, m)
       /\ w.member[m].approvedAt <= w.session[a].capturedAt
       /\ \/ w.member[m].leavingAt = Unset
          \/ w.member[m].leavingAt >= w.session[a].createdAt
          \/ /\ w.trip.state = "ENDING"
             /\ w.member[m].leavingAt >= w.trip.endingAt}

UploadOpen(m, a) == /\ MayTransfer(m)
                    /\ db.session[a].state = "CREATED" /\ db.session[a].source = m
                    /\ now < db.session[a].expiresAt

(* A preview is announced once, before or after the commit.                *)
PublishPreview(m, a) ==
    /\ MayTransfer(m)
    /\ db.session[a].state \in {"CREATED", "COMMITTED"} /\ db.session[a].source = m
    /\ now < db.session[a].expiresAt /\ <<a, "PREVIEW">> \in staged
    /\ m \notin db.preview[a] /\ Recipients(db, a) # {}
    /\ Install([db EXCEPT !.preview[a] = @ \cup Recipients(db, a)])

(* The asset, every delivery and the source's receipt appear together.     *)
(* commitResult demands the source's own inbox event: a source outside the *)
(* fan-out makes the transaction throw and roll back.                      *)
Commit(m, a) ==
    /\ UploadOpen(m, a)
    /\ \A v \in Variants : <<a, v>> \in staged
    /\ m \in Recipients(db, a)
    /\ Install([db EXCEPT
         !.asset[a] = "COMMITTED",
         !.session[a] = [db.session[a] EXCEPT !.state = "COMMITTED"],
         !.delivery[a] = [r \in Members |->
            IF r \notin Recipients(db, a) THEN "NONE"
            ELSE IF r = m THEN "SAVED_LOCALLY" ELSE "READY"]])

(* Slip: a waived delivery counts as received. *)
SavedIgnoresWaivers(m, a) ==
    LET saved == [db.delivery[a] EXCEPT ![m] = "SAVED_LOCALLY"]
    IN  /\ MayTransfer(m) /\ db.delivery[a][m] = "READY" /\ db.asset[a] = "COMMITTED"
        /\ Install([db EXCEPT !.delivery[a] = saved,
             !.asset[a] = IF \A r \in Members : saved[r] # "READY" THEN "PURGE_PENDING" ELSE @])

(* The recipient's receipt; the last one hands the ciphertext to cleanup.  *)
Saved(m, a) ==
    LET saved == [db.delivery[a] EXCEPT ![m] = "SAVED_LOCALLY"]
    IN  /\ MayTransfer(m)
        /\ db.delivery[a][m] = "READY" /\ db.asset[a] = "COMMITTED"
        /\ Install([db EXCEPT
             !.delivery[a] = saved,
             !.asset[a] = IF \A r \in Members : saved[r] \in {"NONE", "SAVED_LOCALLY"}
                          THEN "PURGE_PENDING" ELSE @])

(* Slip: cleanup does not wait for the upload grant to expire. *)
RetireBeforeGrant(a) ==
    /\ db.asset[a] = "PURGE_PENDING"
    /\ staged' = staged \ ({a} \X Variants)
    /\ db' = [db EXCEPT !.asset[a] = "PURGED"] /\ UNCHANGED now

(* Slip: the asset expires and its deliveries do not. *)
RetireKeepsDelivery(a) ==
    /\ db.session[a].expiresAt <= now /\ HardDeleteAt <= now /\ db.asset[a] = "COMMITTED"
    /\ staged' = staged \ ({a} \X Variants)
    /\ db' = [db EXCEPT !.asset[a] = "EXPIRED"] /\ UNCHANGED now

(* mediaCleanup, an asset: its objects are deleted, then the row closes.   *)
RetireAsset(a) ==
    /\ db.session[a].expiresAt <= now
    /\ \/ db.asset[a] = "PURGE_PENDING"
       \/ db.asset[a] = "COMMITTED" /\ HardDeleteAt <= now
    /\ staged' = staged \ ({a} \X Variants)
    /\ db' = IF db.asset[a] = "PURGE_PENDING"
             THEN [db EXCEPT !.asset[a] = "PURGED"]
             ELSE [db EXCEPT !.asset[a] = "EXPIRED",
                             !.delivery[a] = [m \in Members |->
                                IF db.delivery[a][m] = "READY" THEN "EXPIRED"
                                ELSE db.delivery[a][m]]]
    /\ UNCHANGED now

(* Slip: the session takes the state of a purged asset. *)
RetireUploadAsAsset(a) ==
    /\ db.session[a].state = "CREATED"
    /\ db.session[a].expiresAt <= now /\ HardDeleteAt <= now
    /\ staged' = staged \ ({a} \X Variants)
    /\ db' = [db EXCEPT !.session[a].state = "PURGED"] /\ UNCHANGED now

(* mediaCleanup, an upload that never committed.                           *)
RetireUpload(a) ==
    /\ db.session[a].state = "CREATED"
    /\ db.session[a].expiresAt <= now /\ HardDeleteAt <= now
    /\ staged' = staged \ ({a} \X Variants)
    /\ db' = [db EXCEPT !.session[a] = [db.session[a] EXCEPT !.state = "EXPIRED"]]
    /\ UNCHANGED now

Tick == now < MaxTime /\ now' = now + 1 /\ UNCHANGED <<db, staged>>

-----------------------------------------------------------------------------
Admission == \/ \E m \in Members : RequestJoin(m) \/ ApproveJoin(m) \/ RejectJoin(m)
             \/ StartTrip

UserCommand == \/ EndTrip
               \/ \E m \in Members : Leave(m) \/ LeaveNow(m) \/ Pause(m) \/ Resume(m)

PhoneRequest ==
    \E m \in Members :
       \/ ReadTransferState(m)
       \/ \E v \in {db.trip.version - 1, db.trip.version} : Drained(m, v)
       \/ \E a \in Assets : \/ \E c \in 0 .. now + ClockAhead : CreateUpload(m, a, c)
                            \/ RenewUpload(m, a) \/ PublishPreview(m, a)
                            \/ Commit(m, a) \/ Saved(m, a)

Cleanup == \/ Expire
           \/ \E a \in Assets : RetireAsset(a) \/ RetireUpload(a)

Next == \/ Tick \/ Admission \/ UserCommand \/ PhoneRequest \/ Cleanup
        \/ \E a \in Assets, v \in Variants : PutObject(a, v)

(* Time passes and the scheduled handler runs every minute; nothing is     *)
(* assumed of phones or people.                                            *)
Fairness == /\ WF_vars(Tick) /\ WF_vars(Expire)
            /\ \A a \in Assets : WF_vars(RetireAsset(a)) /\ WF_vars(RetireUpload(a))

Spec == Init /\ [][Next]_vars
FairSpec == Spec /\ Fairness

-----------------------------------------------------------------------------
(***************************************************************************)
(* What the trip promises.                                                 *)
(***************************************************************************)
Time == -1 .. MaxTime

Row == [state : {"NONE", "PENDING_KEY", "ACTIVE", "REJECTED"}, approvedAt : Time,
        leavingAt : Time, drained : BOOLEAN, left : BOOLEAN, incomplete : BOOLEAN,
        pausedAt : Time, pauses : SUBSET [from : Time, until : Time]]

TripRow == [state : {"LOBBY", "ACTIVE", "ENDING"} \cup Terminal, version : Nat,
            memberCount : Nat, startedAt : Time, endingAt : Time]

SessionRow == [state : {"NONE", "CREATED", "COMMITTED", "EXPIRED"}, source : Members,
               capturedAt : -1 .. EndsAt, createdAt : Time, expiresAt : Int]

AssetState == {"NONE", "COMMITTED", "PURGE_PENDING", "PURGED", "EXPIRED"}
DeliveryState == {"NONE", "READY", "SAVED_LOCALLY", "EXPIRED"}

Tables == [trip     : TripRow,
           member   : [Members -> Row],
           slots    : SUBSET Members,
           session  : [Assets -> SessionRow],
           asset    : [Assets -> AssetState],
           delivery : [Assets -> [Members -> DeliveryState]],
           preview  : [Assets -> SUBSET Members]]

(* Type correctness of the tables, the clock and the object store.         *)
TypeOK == now \in 0 .. MaxTime /\ db \in Tables /\ staged \subseteq Assets \X Variants

(* Ciphertext is purged early only when every recipient holds its photo:   *)
(* saved() must never hand to cleanup an asset somebody still waits for,   *)
(* nor one whose delivery a departure waived.                              *)
PurgeNeedsEverySave ==
    \A a \in Assets : db.asset[a] \in {"PURGE_PENDING", "PURGED"} =>
        \A m \in Members : db.delivery[a][m] \in {"NONE", "SAVED_LOCALLY"}

(* Whatever a recipient still has to download is committed and both of its *)
(* objects are in the store, whoever left and whatever cleanup has done.   *)
RecipientsCanDownload ==
    \A a \in Assets, m \in Members : db.delivery[a][m] = "READY" =>
        db.asset[a] = "COMMITTED" /\ {a} \X Variants \subseteq staged

(* Nothing is left in the store behind an asset or upload that is retired: *)
(* a late PUT cannot slip in after cleanup has closed the row.             *)
NoOrphanCiphertext ==
    \A a \in Assets :
        \/ db.asset[a] \in {"PURGED", "EXPIRED"}
        \/ db.session[a].state = "EXPIRED"
        => staged \cap ({a} \X Variants) = {}

(* A member who left by finishing missed nothing: every photo it may have  *)
(* whose upload began after its approval and before its departure is saved. *)
GracefulLeaverMissesNothing ==
    \A m \in Members, a \in Assets :
        LET row == db.member[m]  s == db.session[a] IN
        /\ row.left /\ ~row.incomplete /\ now < HardDeleteAt
        /\ db.asset[a] # "NONE" /\ db.trip.startedAt < row.leavingAt
        /\ row.approvedAt # Unset /\ row.approvedAt <= s.capturedAt
        /\ row.approvedAt < s.createdAt /\ s.createdAt < row.leavingAt
        => db.delivery[a][m] = "SAVED_LOCALLY"

(* Before the hard deadline COMPLETE means what it says: every delivery of *)
(* the trip is a receipt and nobody was marked incomplete.                 *)
HonestCompletion ==
    db.trip.state = "COMPLETE" /\ now < HardDeleteAt =>
        \A m \in Members : /\ ~db.member[m].incomplete
                           /\ \A a \in Assets : db.delivery[a][m] \in {"NONE", "SAVED_LOCALLY"}

(* Whoever was in the trip when an upload began, is shown its preview and  *)
(* still participates when it commits is sent the original: both fan-outs  *)
(* select the same members.  A member approved after the commit of a photo *)
(* dated ahead of the server's clock may be shown a preview alone.         *)
PreviewsAreHonoured ==
    \A a \in Assets, m \in Members :
        /\ db.asset[a] = "COMMITTED" /\ m \in db.preview[a] /\ Participates(db, m)
        /\ db.member[m].approvedAt < db.session[a].createdAt
        => db.delivery[a][m] # "NONE"

(* The photo of session s was accepted before a pause that began at from,  *)
(* by a phone whose clock was ahead: it was taken before the pause too.    *)
AcceptedBefore(s, from) == s.createdAt <= from /\ s.capturedAt <= from + ClockAhead

(* No upload exists for a photo taken while its member had sharing paused, *)
(* however late it is discovered and whether or not sharing resumed.  The  *)
(* phone's clock dates the photo and the server's the pause: a photo dated *)
(* inside a pause was accepted before it, and is dated at most ClockAhead  *)
(* after its beginning.                                                    *)
PausedCapturesStayPrivate ==
    \A a \in Assets : db.session[a].state # "NONE" =>
        LET s == db.session[a]  row == db.member[s.source] IN
        /\ \/ row.pausedAt = Unset
           \/ s.capturedAt <= row.pausedAt \/ AcceptedBefore(s, row.pausedAt)
        /\ \A p \in row.pauses :
              \/ s.capturedAt <= p.from \/ p.until <= s.capturedAt
              \/ AcceptedBefore(s, p.from)

(* The user's single active-trip slot is held exactly while it takes part, *)
(* and member_count, which every admission command insists on, never       *)
(* drifts from the roster of a live trip.                                  *)
RosterConsistent ==
    /\ db.slots = InTrip(db)
    /\ db.trip.state \notin Terminal => db.trip.memberCount = Cardinality(InTrip(db))

(* Outcomes are final: no step revives an ended trip, re-admits who left,  *)
(* takes back a receipt or a waiver, or brings back a retired asset.       *)
OutcomesAreFinal ==
    [][/\ db.trip.state \in Terminal => db'.trip.state = db.trip.state
       /\ \A m \in Members : db.member[m].left => db'.member[m] = db.member[m]
       /\ \A a \in Assets :
            /\ db.asset[a] \in {"PURGED", "EXPIRED"} => db'.asset[a] = db.asset[a]
            /\ \A m \in Members : db.delivery[a][m] \in {"SAVED_LOCALLY", "EXPIRED"} =>
                  db'.delivery[a][m] = db.delivery[a][m]]_vars

(* Whatever people and phones do, everyone is eventually free to join      *)
(* another trip.                                                           *)
SlotsEventuallyFree == <>[](db.slots = {})

(* "Their native engine completes its final discovery/upload pass": an     *)
(* upload the server accepted from a member still in the trip can commit.  *)
UploadsCanFinish ==
    \A a \in Assets :
        db.session[a].state = "CREATED" /\ MayTransfer(db.session[a].source)
        => db.session[a].source \in Recipients(db, a)

(* A trip with undelivered media is INCOMPLETE_EXPIRED, "never             *)
(* false-complete".                                                        *)
NeverFalseComplete ==
    db.trip.state = "COMPLETE" =>
        \A a \in Assets, m \in Members : db.delivery[a][m] \in {"NONE", "SAVED_LOCALLY"}
=============================================================================
