------------------------------ MODULE TripSync ------------------------------
(***************************************************************************)
(* The phones of a started trip against the trip of TripMedia: the photo   *)
(* engine of NativePhotoTransferEngine.kt with its durable ledger.  Each   *)
(* phone runs a preview lane, which reads the capture policy, discovers    *)
(* photos, announces previews and at last acknowledges its final pass, and *)
(* bulk lanes, which upload originals and save what others shared.         *)
(*                                                                         *)
(* A phone step is a request together with the use of its reply.  The      *)
(* reply may be lost: the server has then moved and the phone has not.  A  *)
(* crash, a sign-out or a lost network drops the passes and grants a phone *)
(* holds in memory; its ledger and gallery are durable.                    *)
(***************************************************************************)
EXTENDS TripMedia

CONSTANTS
    Shooter,    \* Shooter[a]: the member whose phone takes photo a
    Leavers,    \* members who may leave before the trip ends
    Batch,      \* photos one pass discovers, and announces (4 in the code)
    MaxFaults,  \* model bound: lost replies and crashes
    Mixed       \* model bound: a behaviour may have both pauses and faults

ASSUME PhoneAssumption ==
    Shooter \in [Assets -> Members] /\ Leavers \subseteq Members
    /\ Batch \in Nat \ {0} /\ MaxFaults \in Nat /\ Mixed \in BOOLEAN

VARIABLES
    photo,      \* capture time of each photo in its phone's camera folder
    work,       \* the source's ledger record of each photo
    upload,     \* what publish() holds in memory for each photo
    pass,       \* the pass each preview lane is in
    inbox,      \* each recipient's ledger record of each photo
    faults

server == <<now, db, staged>>
phones == <<photo, work, upload, pass, inbox>>
syncVars == <<now, db, staged, photo, work, upload, pass, inbox, faults>>

NoWork == [stage |-> "NONE", etags |-> {}, blocker |-> "NONE"]
NoPass == [step |-> "IDLE", version |-> 0, leaving |-> FALSE, windows |-> {},
           found |-> FALSE, todo |-> {}]

(* The host started a trip that everyone had joined. *)
SyncInit ==
    /\ now = 1
    /\ staged = {}
    /\ db = [trip     |-> [state |-> "ACTIVE", version |-> 2 * Cardinality(Members),
                           memberCount |-> Cardinality(Members),
                           startedAt |-> 1, endingAt |-> Unset],
             member   |-> [m \in Members |-> [NoMember EXCEPT !.state = "ACTIVE",
                                                              !.approvedAt = 0]],
             slots    |-> Members,
             session  |-> [a \in Assets |-> NoSession],
             asset    |-> [a \in Assets |-> "NONE"],
             delivery |-> [a \in Assets |-> [m \in Members |-> "NONE"]],
             preview  |-> [a \in Assets |-> {}]]
    /\ photo = [a \in Assets |-> Unset]
    /\ work = [a \in Assets |-> NoWork]
    /\ upload = [a \in Assets |-> "IDLE"]
    /\ pass = [m \in Members |-> NoPass]
    /\ inbox = [m \in Members |-> [a \in Assets |-> "NONE"]]
    /\ faults = 0

Mine(m) == {a \in Assets : Shooter[a] = m}
Unfinished(a) == work[a].stage \in {"FOUND", "PREVIEWED"}

(* What the bounds leave of lost replies and crashes. *)
Unlucky == /\ faults < MaxFaults
           /\ Mixed \/ \A m \in Members : db.member[m].pauses = {} /\ db.member[m].pausedAt = Unset

(* The reply arrives, or is one of the few that are lost. *)
Replied(heard) == /\ heard \/ Unlucky
                  /\ faults' = IF heard THEN faults ELSE faults + 1

-----------------------------------------------------------------------------
(***************************************************************************)
(* NativeCapturePolicy: the capture windows a phone computes from the      *)
(* transfer state of a database w.                                         *)
(***************************************************************************)
Least(s, t) == IF s <= t THEN s ELSE t
Greatest(s, t) == IF s >= t THEN s ELSE t

CaptureUntil(w, m) ==
    LET cut(t, bound) == IF t = Unset THEN bound ELSE Least(t, bound)
    IN  cut(w.member[m].leavingAt, cut(w.trip.endingAt, EndsAt))

(* Finished pauses, and the one that has not ended.                        *)
ExcludedWindows(w, m) ==
    w.member[m].pauses
    \cup IF w.member[m].pausedAt = Unset THEN {}
         ELSE {[from |-> w.member[m].pausedAt, until |-> Unset]}

CaptureFrom(w, m) == Greatest(w.trip.startedAt, w.member[m].approvedAt)

(* Slip: a pause counts only once it is over. *)
FinishedPausesOnly(w, m) ==
    CaptureFrom(w, m) .. CaptureUntil(w, m)
      \ UNION {p.from .. p.until - 1 : p \in w.member[m].pauses}

(* A cursor runs over the excluded windows in the order of their           *)
(* beginnings.  It stands at t once every window in S is behind it, unless *)
(* one of them has no end.                                                 *)
CursorAt(w, m, S) == {t \in CaptureFrom(w, m) .. CaptureUntil(w, m) :
                        \A p \in S : p.until # Unset /\ p.until <= t}

(* What lies between the cursor and the next excluded window is shared,    *)
(* and what follows the last one.                                          *)
Windows(w, m) ==
    LET excluded == ExcludedWindows(w, m)
        gap(p) == {t \in CursorAt(w, m, {q \in excluded : q.from < p.from}) : t < p.from}
    IN  IF ~Participates(w, m) THEN {}
        ELSE CursorAt(w, m, excluded) \cup UNION {gap(p) : p \in excluded}

-----------------------------------------------------------------------------
(***************************************************************************)
(* The preview lane of member m's phone.                                   *)
(***************************************************************************)
ReadPolicy(m, heard) ==
    LET w == ReadState(db, m) IN
    /\ pass[m].step = "IDLE" /\ ~db.member[m].left
    /\ Install(w) /\ Replied(heard)
    /\ pass' = IF heard /\ ~w.member[m].left
               THEN [pass EXCEPT ![m] =
                       [step |-> "DISCOVER", version |-> w.trip.version,
                        leaving |-> w.member[m].leavingAt # Unset,
                        windows |-> Windows(w, m), found |-> FALSE, todo |-> {}]]
               ELSE pass
    /\ UNCHANGED <<photo, work, upload, inbox>>

(* Slip: discovery stops for good at departure. *)
DiscoverWhileStaying(m) ==
    /\ pass[m].step = "DISCOVER"
    /\ pass' = [pass EXCEPT ![m].step = "PUBLISH", ![m].windows = {}]
    /\ work' = [a \in Assets |-> IF /\ a \in Mine(m) /\ photo[a] \in pass[m].windows
                                    /\ work[a].stage = "NONE" /\ ~pass[m].leaving
                                 THEN [NoWork EXCEPT !.stage = "FOUND"] ELSE work[a]]
    /\ UNCHANGED <<server, photo, upload, inbox, faults>>

Undiscovered(m) == {a \in Mine(m) : photo[a] \in pass[m].windows /\ work[a].stage = "NONE"}
Unannounced(ledger, m) == {a \in Mine(m) : ledger[a].stage = "FOUND" /\ ledger[a].blocker = "NONE"}

(* What of S one pass takes on. *)
Batches(S) ==
    {T \in SUBSET S : Cardinality(T) <= Batch /\ (T = S \/ Cardinality(T) = Batch)}

(* The gallery is searched in the windows of the policy just read for the  *)
(* photos of one batch; the oldest records not yet announced become this   *)
(* pass's business, whenever they were found.                              *)
Discover(m) == pass[m].step = "DISCOVER" /\ \E new \in Batches(Undiscovered(m)) :
    /\ work' = [a \in Assets |-> IF a \in new THEN [NoWork EXCEPT !.stage = "FOUND"]
                                 ELSE work[a]]
    /\ \E todo \in Batches(Unannounced(work', m)) :
         /\ \A a \in todo, b \in Unannounced(work', m) \ todo : photo[a] <= photo[b]
         /\ pass' = [pass EXCEPT ![m].step = "PUBLISH", ![m].windows = {},
                                 ![m].found = new # {}, ![m].todo = todo]
    /\ UNCHANGED <<server, photo, upload, inbox, faults>>

(* Member m's phone is in publish(a): of the preview in the preview lane,  *)
(* of everything in the bulk lane.                                         *)
InPreviewLane(m, a) == a \in pass[m].todo
InBulkLane(m, a) == Shooter[a] = m /\ work[a].stage = "PREVIEWED" /\ work[a].blocker = "NONE"
Publishing(m, a) == InPreviewLane(m, a) \/ InBulkLane(m, a)

(* Slip: an interrupted publish waits in a state nothing resumes from. *)
Parked(m, a) == /\ pass' = [pass EXCEPT ![m].todo = @ \ {a}]
                /\ upload' = [upload EXCEPT ![a] = "FAILED"]

(* publish(a) throws: the pass goes on with its next record.               *)
Dropped(m, a) == /\ pass' = [pass EXCEPT ![m].todo = @ \ {a}]
                 /\ upload' = [upload EXCEPT ![a] = "IDLE"]

(* POST upload-sessions.  Both lanes send it, a replay included.           *)
SessionReplay(m, a) ==
    /\ MayTransfer(m)
    /\ db.session[a].state \in {"CREATED", "COMMITTED"} /\ now < db.session[a].expiresAt
    /\ UNCHANGED server

RequestUpload(m, a, heard) ==
    /\ Publishing(m, a) /\ upload[a] = "IDLE"
    /\ CreateUpload(m, a, photo[a]) \/ RenewUpload(m, a) \/ SessionReplay(m, a)
    /\ Replied(heard)
    /\ IF heard THEN upload' = [upload EXCEPT ![a] = "GRANTED"] /\ UNCHANGED pass
       ELSE Dropped(m, a)
    /\ UNCHANGED <<photo, work, inbox>>

(* The replay for a committed session signs a URL that expired with its    *)
(* grant; the refusal, a 401, reads as a revoked phone.                    *)
ExpiredReplay(m, a) ==
    /\ Publishing(m, a) /\ upload[a] = "IDLE"
    /\ MayTransfer(m)
    /\ db.session[a].state = "COMMITTED" /\ db.session[a].expiresAt <= now
    /\ work' = [work EXCEPT ![a].blocker = "AUTH_REVOKED"]
    /\ Dropped(m, a)
    /\ UNCHANGED <<server, photo, inbox, faults>>

(* A 409 for a capture the server does not accept, or for a full trip.     *)
OverQuota(a) == /\ db.session[a].state = "NONE"
                /\ Cardinality({b \in Assets : db.session[b].state # "NONE"}) >= MaxPhotos

RefuseUpload(m, a) ==
    /\ InPreviewLane(m, a) /\ upload[a] = "IDLE" /\ Participates(db, m)
    /\ \/ /\ ~MayTransfer(m) \/ (db.session[a].state = "NONE" /\ ~CaptureAllowed(m, photo[a]))
          /\ upload' = [upload EXCEPT ![a] = "REFUSED"]
       \/ /\ MayTransfer(m) /\ CaptureAllowed(m, photo[a]) /\ OverQuota(a)
          /\ upload' = [upload EXCEPT ![a] = "FULL"]
    /\ UNCHANGED <<server, photo, work, pass, inbox, faults>>

(* A refused capture with nothing uploaded is ignored for good, but only   *)
(* if a fresh policy has no window for it.                                 *)
RecheckRefused(m, a, heard) ==
    LET w == ReadState(db, m)
        outside == ~w.member[m].left /\ photo[a] \notin Windows(w, m)
    IN  /\ InPreviewLane(m, a) /\ upload[a] \in {"REFUSED", "FULL"}
        /\ Install(w) /\ Replied(heard)
        /\ work' = IF ~heard THEN work
                   ELSE IF outside /\ work[a].etags = {}
                   THEN [work EXCEPT ![a].stage = "IGNORED"]
                   ELSE IF upload[a] = "FULL" THEN [work EXCEPT ![a].blocker = "SHARING_LIMIT"]
                   ELSE work
        /\ Dropped(m, a)
        /\ UNCHANGED <<photo, inbox>>

(* PUT of a variant whose etag the ledger lacks; an object found in the    *)
(* store by the grant is not sent again.                                   *)
SendObject(m, a, v, heard) ==
    /\ Publishing(m, a) /\ upload[a] = "GRANTED"
    /\ v \notin work[a].etags /\ (InPreviewLane(m, a) => v = "PREVIEW")
    /\ IF <<a, v>> \in staged THEN UNCHANGED server ELSE PutObject(a, v)
    /\ Replied(heard)
    /\ IF heard THEN /\ work' = [work EXCEPT ![a].etags = @ \cup {v}]
                     /\ UNCHANGED <<upload, pass>>
       ELSE Dropped(m, a) /\ UNCHANGED work
    /\ UNCHANGED <<photo, inbox>>

PreviewReplay(m, a) == MayTransfer(m) /\ m \in db.preview[a] /\ UNCHANGED server

AnnouncePreview(m, a, heard) ==
    /\ InPreviewLane(m, a) /\ upload[a] = "GRANTED" /\ "PREVIEW" \in work[a].etags
    /\ PublishPreview(m, a) \/ PreviewReplay(m, a)
    /\ Replied(heard)
    /\ work' = IF heard THEN [work EXCEPT ![a].stage = "PREVIEWED"] ELSE work
    /\ Dropped(m, a)
    /\ UNCHANGED <<photo, inbox>>

CommitReplay(m, a) ==
    MayTransfer(m) /\ db.session[a].state = "COMMITTED" /\ UNCHANGED server

(* The local steps before it succeed: export and encryption, and the check *)
(* that the photo in the camera folder is still the one exported.  Their   *)
(* failures, which set a blocker or a retry time, are left out.            *)
CommitOriginal(m, a, heard) ==
    /\ InBulkLane(m, a) /\ upload[a] = "GRANTED" /\ work[a].etags = Variants
    /\ Commit(m, a) \/ CommitReplay(m, a)
    /\ Replied(heard)
    /\ work' = IF heard THEN [work EXCEPT ![a].stage = "COMPLETE"] ELSE work
    /\ Dropped(m, a)
    /\ UNCHANGED <<photo, inbox>>

(* The server refuses: the record is retried on a later pass.              *)
GiveUp(m, a) ==
    /\ Publishing(m, a)
    /\ \/ upload[a] = "IDLE" /\ InPreviewLane(m, a) /\ ~Participates(db, m)
       \/ upload[a] = "GRANTED" /\ ~MayTransfer(m)
       \/ upload[a] = "GRANTED" /\ db.session[a].state = "CREATED" /\ db.session[a].expiresAt <= now
       \/ upload[a] = "GRANTED" /\ work[a].etags = Variants /\ m \notin Recipients(db, a)
    /\ Dropped(m, a)
    /\ UNCHANGED <<server, photo, work, inbox, faults>>

(* Slip: a record that was ignored holds the final pass open. *)
QuietIfAllSent(m) ==
    /\ pass[m].leaving /\ ~pass[m].found
    /\ \A a \in Mine(m) : work[a].stage \in {"NONE", "COMPLETE"}

(* The ledger allows the acknowledgement.                                  *)
Quiet(m) == pass[m].leaving /\ ~pass[m].found /\ \A a \in Mine(m) : ~Unfinished(a)

(* At the end of a pass that began on a leaving policy and found nothing,  *)
(* a phone with no unfinished photo of its own acknowledges; any other     *)
(* pass just ends.                                                         *)
EndPass(m, heard) ==
    /\ pass[m].step = "PUBLISH" /\ pass[m].todo = {}
    /\ IF Quiet(m) THEN Drained(m, pass[m].version) /\ Replied(heard)
       ELSE heard /\ UNCHANGED <<server, faults>>
    /\ pass' = [pass EXCEPT ![m] = NoPass]
    /\ UNCHANGED <<photo, work, upload, inbox>>

-----------------------------------------------------------------------------
(***************************************************************************)
(* The receiving lane of member m's phone.                                 *)
(***************************************************************************)
(* A pending delivery is granted, fetched, decrypted, saved to the gallery *)
(* and verified.                                                           *)
SaveCopy(m, a) ==
    /\ inbox[m][a] = "NONE"
    /\ MayTransfer(m) /\ db.delivery[a][m] = "READY" /\ db.asset[a] = "COMMITTED"
    /\ <<a, "ORIGINAL">> \in staged
    /\ inbox' = [inbox EXCEPT ![m][a] = "SAVED"]
    /\ UNCHANGED <<server, photo, work, upload, pass, faults>>

ReceiptReplay(m, a) ==
    MayTransfer(m) /\ db.delivery[a][m] = "SAVED_LOCALLY" /\ UNCHANGED server

Acknowledge(m, a, heard) ==
    /\ inbox[m][a] = "SAVED"
    /\ Saved(m, a) \/ ReceiptReplay(m, a)
    /\ Replied(heard)
    /\ inbox' = IF heard THEN [inbox EXCEPT ![m][a] = "COMPLETE"] ELSE inbox
    /\ UNCHANGED <<photo, work, upload, pass>>

(* The bulk pass, and the app, read the transfer state for themselves.     *)
Poll(m) == ReadTransferState(m) /\ UNCHANGED <<phones, faults>>

-----------------------------------------------------------------------------
(***************************************************************************)
(* Everything else.                                                        *)
(***************************************************************************)
(* The phones' clocks agree with the server's here; TripMedia alone lets   *)
(* them be ahead.                                                          *)
TakePhoto(a) ==
    /\ photo[a] = Unset
    /\ photo' = [photo EXCEPT ![a] = now]
    /\ UNCHANGED <<server, work, upload, pass, inbox, faults>>

(* policy() cancels every lane; a process death does as much.              *)
Stop(m) ==
    /\ Unlucky
    /\ pass[m] # NoPass \/ \E a \in Mine(m) : upload[a] # "IDLE"
    /\ faults' = faults + 1
    /\ pass' = [pass EXCEPT ![m] = NoPass]
    /\ upload' = [a \in Assets |-> IF a \in Mine(m) THEN "IDLE" ELSE upload[a]]
    /\ UNCHANGED <<server, photo, work, inbox>>

(* requestReconcile: blocked records are tried again.                      *)
Reconcile(m) ==
    /\ \E a \in Mine(m) : work[a].blocker # "NONE"
    /\ work' = [a \in Assets |-> IF a \in Mine(m) THEN [work[a] EXCEPT !.blocker = "NONE"]
                                 ELSE work[a]]
    /\ UNCHANGED <<server, photo, upload, pass, inbox, faults>>

People ==
    /\ \/ EndTrip
       \/ \E m \in Members : Resume(m) \/ (Pause(m) /\ (Mixed \/ faults = 0))
       \/ \E m \in Leavers : Leave(m) \/ LeaveNow(m)
    /\ UNCHANGED <<phones, faults>>

Platform == (Tick \/ Cleanup) /\ UNCHANGED <<phones, faults>>

PreviewLane(m) ==
    \/ Discover(m)
    \/ \E heard \in BOOLEAN : ReadPolicy(m, heard) \/ EndPass(m, heard)

Publish(m, a) ==
    \/ ExpiredReplay(m, a) \/ RefuseUpload(m, a) \/ GiveUp(m, a)
    \/ \E heard \in BOOLEAN :
         \/ RequestUpload(m, a, heard) \/ RecheckRefused(m, a, heard)
         \/ AnnouncePreview(m, a, heard) \/ CommitOriginal(m, a, heard)
         \/ \E v \in Variants : SendObject(m, a, v, heard)

ReceiveLane(m, a) ==
    \/ SaveCopy(m, a)
    \/ \E heard \in BOOLEAN : Acknowledge(m, a, heard)

SyncNext ==
    \/ People \/ Platform
    \/ \E a \in Assets : TakePhoto(a)
    \/ \E m \in Members : PreviewLane(m) \/ Poll(m) \/ Stop(m) \/ Reconcile(m)
    \/ \E m \in Members, a \in Assets : Publish(m, a) \/ ReceiveLane(m, a)

SyncSpec == SyncInit /\ [][SyncNext]_syncVars

(* Every phone is online, its engine runs and its local work succeeds: the *)
(* lanes are scheduled each second, and only finitely many replies are     *)
(* lost.  Time need not pass.                                              *)
SyncFairness ==
    /\ \A m \in Members : WF_syncVars(PreviewLane(m))
    /\ \A m \in Members, a \in Assets : /\ WF_syncVars(Publish(m, a))
                                       /\ WF_syncVars(ReceiveLane(m, a))
FairSync == SyncSpec /\ SyncFairness

-----------------------------------------------------------------------------
(***************************************************************************)
(* What the phones and the server promise together.                        *)
(***************************************************************************)
WorkRow == [stage : {"NONE", "FOUND", "PREVIEWED", "COMPLETE", "IGNORED"},
            etags : SUBSET Variants, blocker : {"NONE", "AUTH_REVOKED", "SHARING_LIMIT"}]
PassRow == [step : {"IDLE", "DISCOVER", "PUBLISH"}, version : Nat, leaving : BOOLEAN,
            windows : SUBSET (0 .. EndsAt), found : BOOLEAN, todo : SUBSET Assets]

(* Types of the phones' ledgers, galleries and passes.                     *)
SyncTypeOK ==
    /\ TypeOK
    /\ photo \in [Assets -> Time]
    /\ work \in [Assets -> WorkRow]
    /\ upload \in [Assets -> {"IDLE", "GRANTED", "REFUSED", "FULL"}]
    /\ pass \in [Members -> PassRow]
    /\ inbox \in [Members -> [Assets -> {"NONE", "SAVED", "COMPLETE"}]]
    /\ faults \in 0 .. MaxFaults

(* The phone's cursor over the excluded windows and the server's capture   *)
(* check accept the same instants, whatever was paused, ended or left.     *)
PoliciesAgree ==
    \A m \in Members : Participates(db, m) =>
        Windows(db, m) = {t \in 0 .. EndsAt : CaptureAllowed(m, t)}

(* Pausing, capturing and resuming in one tick leaves the order open.      *)
AtResumption(a) == \E p \in db.member[Shooter[a]].pauses : photo[a] = p.until

(* A photo the phone gave up on is one the server will never accept: a     *)
(* pause or departure racing the discovery costs no photo its place.  Past *)
(* the hard deadline there is no place left, and an upload that had begun  *)
(* is ignored too.                                                         *)
IgnoredForGood ==
    \A a \in Assets : work[a].stage = "IGNORED" /\ ~AtResumption(a) =>
        /\ ~CaptureAllowed(Shooter[a], photo[a])
        /\ now < HardDeleteAt => db.session[a].state = "NONE"

(* Photo a was taken while its member shared, in the trip, before it left. *)
Shareable(a) ==
    LET row == db.member[Shooter[a]] IN
    /\ photo[a] # Unset /\ CaptureAllowed(Shooter[a], photo[a]) /\ ~AtResumption(a)
    /\ row.leavingAt # Unset => photo[a] < row.leavingAt

(* "Their native engine completes its final discovery/upload pass": a      *)
(* member who left by finishing has shared every photo it took on the      *)
(* trip, however its passes, pauses and lost replies fell.                 *)
NoPhotoLeftBehind ==
    \A a \in Assets :
        LET row == db.member[Shooter[a]] IN
        row.left /\ ~row.incomplete /\ now < HardDeleteAt /\ Shareable(a)
        => db.asset[a] # "NONE"

(* A trip that ends COMPLETE has put every shared photo in the gallery of  *)
(* everyone who stayed to the end, and of everyone who left after its      *)
(* upload began.                                                           *)
CompleteMeansDelivered ==
    \A a \in Assets, m \in Members :
        /\ db.trip.state = "COMPLETE" /\ now < HardDeleteAt
        /\ Shareable(a) /\ m # Shooter[a]
        /\ m \notin Leavers \/ db.session[a].createdAt < db.member[m].leavingAt
        => inbox[m][a] # "NONE"

(* Once the host ends the trip, phones that stay online bring it to its    *)
(* end without waiting for any deadline.  No local failure blocks a record *)
(* here; one that does keeps its phone's pass open until the deadline.     *)
EndSettles == db.trip.state = "ENDING" ~> db.trip.state \in Terminal

(* "A lost response is safe to retry": a photo the server has committed    *)
(* never blocks the phone that committed it.                               *)
CommitRetrySafe ==
    \A a \in Assets : db.session[a].state = "COMMITTED" => work[a].blocker = "NONE"
=============================================================================
