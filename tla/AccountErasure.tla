--------------------------- MODULE AccountErasure ---------------------------
(***************************************************************************)
(* One account on the server: its user row, the devices registered for it, *)
(* and its deletion, which the scheduled worker carries out in stages over *)
(* the network while requests of the account are still being served.       *)
(*                                                                         *)
(* A transaction is one step: each locks the user row before it decides.   *)
(* Between the steps of a request lie the guard's query, the snapshot it   *)
(* authorizes on and the calls to Clerk and to the push-token key; between *)
(* the steps of a worker lie Clerk, Apple and the object store.            *)
(* A worker's claim expires while it works; its row then has a new token.  *)
(***************************************************************************)
EXTENDS Naturals, FiniteSets

CONSTANTS
  Installs,     \* installations that register for the account
  PushTokens,   \* push tokens their platforms hand out
  Requests,     \* how many requests arrive, each served once
  Objects,      \* ciphertexts the account's phones may upload
  Workers,      \* runs of the scheduled cleanup
  Batch,        \* objects one run takes up (100 in the code)
  MaxFaults,    \* runs that crash, fail or outlive their lease
  None

ASSUME AccountAssumption ==
  /\ Requests \in Nat /\ Batch \in Nat \ {0} /\ MaxFaults \in Nat
  /\ None \notin Nat \cup PushTokens \cup Installs \cup Workers
  /\ IsFiniteSet(Objects)

(* A device id is named after the request whose transaction drew it.       *)
Request == 1..Requests

VARIABLES
  user,      \* the row in users
  refused,   \* the subject is in account_deleted_subjects
  device,    \* the rows in devices, by installation
  inTrip,    \* the account takes part in a trip
  object,    \* upload row, grant and stored ciphertext of each object
  deletion,  \* the row in account_deletions and its objects
  clerk,     \* the identity at the provider: LIVE, REMOVED by a worker, or GONE
  apple,     \* the grant Apple holds for it
  heard,     \* the provider's user.deleted event has been processed
  request,   \* requests being served
  job,       \* what each worker is doing
  faults

rows == <<user, refused, device, inTrip, object, deletion>>
provider == <<clerk, apple, heard>>
vars == <<rows, provider, request, job, faults>>


(* The deletion row before there is one, a worker between two runs, and a  *)
(* request nobody has sent yet.                                            *)
NoDeletion == [state |-> "NONE", noted |-> FALSE, grant |-> FALSE, revoked |-> FALSE,
               token |-> None, due |-> FALSE, listed |-> {}]
Idle == [step |-> "idle", todo |-> {}]
Unsent == [step |-> "new", kind |-> None, install |-> None, push |-> None,
           id |-> None, sealed |-> None, named |-> FALSE]

Init ==
  /\ user = "NONE" /\ refused = FALSE /\ inTrip = FALSE
  /\ device = [i \in Installs |-> None]
  /\ object = [o \in Objects |-> [row |-> FALSE, granted |-> FALSE, stored |-> "NONE"]]
  /\ deletion = NoDeletion
  /\ clerk = "LIVE" /\ apple \in {"NONE", "GRANTED"} /\ heard = FALSE
  /\ request = [r \in Request |-> Unsent]
  /\ job = [w \in Workers |-> Idle]
  /\ faults = 0

-----------------------------------------------------------------------------
(* Requests.                                                               *)

Revoked(d) == IF d = None THEN None ELSE [d EXCEPT !.live = FALSE, !.push = None]
Over(r) == request' = [request EXCEPT ![r] = [Unsent EXCEPT !.step = "over"]]
Goes(r, step) == request' = [request EXCEPT ![r].step = step]

(* A phone knows the id its installation was registered under.             *)
Send(r) ==
  /\ request[r].step = "new" /\ \A s \in 1..(r - 1) : request[s].step # "new"
  /\ \E kind \in {"REGISTER", "PUSH", "REVOKE", "PROFILE", "DELETE"},
        i \in Installs, t \in PushTokens \cup {None} :
       /\ kind \in {"PUSH", "REVOKE"} => device[i] # None
       /\ kind \notin {"REGISTER", "PUSH"} => t = None
       /\ request' = [request EXCEPT ![r] =
            [Unsent EXCEPT !.step = "arrived", !.kind = kind, !.install = i, !.push = t,
                           !.id = IF kind \in {"PUSH", "REVOKE"} THEN device[i].id ELSE None]]
  /\ UNCHANGED <<rows, provider, job, faults>>

(* The guard in front of every route but the deletion's own.               *)
Guard(r) ==
  /\ request[r].step = "arrived" /\ request[r].kind # "DELETE"
  /\ IF refused THEN Over(r) ELSE Goes(r, "guarded")
  /\ UNCHANGED <<rows, provider, job, faults>>

(* A token is sealed for the device id its snapshot names, and only if the *)
(* snapshot does not hold it already.                                      *)
Sealed(q, d, id) ==
  IF q.push = None \/ (d # None /\ d.push # None /\ d.push.token = q.push) THEN None ELSE id

Mine(q) == LET d == device[q.install] IN
           IF user # "NONE" /\ d # None /\ d.id = q.id THEN d ELSE None

Known(q) == device[q.install]

(* Registration authorizes on a snapshot, asks Clerk for the name of an    *)
(* account it does not know, and reads the snapshot again.                 *)
ReadRegistration(r) ==
  LET q == request[r]
      d == Known(q)
      id == IF d # None THEN d.id ELSE IF q.id # None THEN q.id ELSE r IN
  /\ q.step = "guarded" /\ q.kind = "REGISTER"
  /\ IF user = "DELETED" \/ (d # None /\ ~d.live) THEN Over(r)
     ELSE IF user = "NONE" /\ ~q.named THEN Goes(r, "naming")
     ELSE request' = [request EXCEPT ![r].step = "ready", ![r].named = TRUE,
                                     ![r].id = IF q.id # None THEN q.id ELSE id,
                                     ![r].sealed = Sealed(q, d, id)]
  /\ UNCHANGED <<rows, provider, job, faults>>

AskName(r) ==
  /\ \/ request[r].step = "naming"
     \/ request[r].step = "guarded" /\ request[r].kind = "PROFILE"
  /\ IF clerk # "LIVE" THEN Over(r)
     ELSE request' = [request EXCEPT ![r].named = TRUE,
            ![r].step = IF request[r].kind = "PROFILE" THEN "ready" ELSE "guarded"]
  /\ UNCHANGED <<rows, provider, job, faults>>

(* Slip: the token prepared before the transaction is stored as it is.     *)
AlwaysFits(q, d) == TRUE

(* What the locked row keeps of its push token, takes from the request, or *)
(* cannot take because the token was sealed for another row.               *)
PushFits(q, d) == q.push = None \/ (d.push # None /\ d.push.token = q.push) \/ q.sealed = d.id
PushOf(q, d) ==
  IF q.push = None \/ (d.push # None /\ d.push.token = q.push) THEN d.push
  ELSE [token |-> q.push, sealedFor |-> q.sealed]

NewDevice(q) == [id |-> q.id, live |-> TRUE, push |-> None]

(* Slip: the account's state is taken from the snapshot.                   *)
RegisterOnSnapshot(r) ==
  LET q == request[r]
      d == IF Known(q) # None THEN Known(q) ELSE NewDevice(q) IN
  /\ q.step = "ready" /\ q.kind = "REGISTER"
  /\ IF ~d.live
     THEN Over(r) /\ UNCHANGED <<user, device>>
     ELSE IF ~PushFits(q, d)
     THEN Goes(r, "guarded") /\ UNCHANGED <<user, device>>
     ELSE /\ user' = IF user = "NONE" THEN "ACTIVE" ELSE user
          /\ device' = [device EXCEPT ![q.install] = [d EXCEPT !.push = PushOf(q, d)]]
          /\ Over(r)
  /\ UNCHANGED <<refused, inTrip, object, deletion, provider, job, faults>>

Register(r) ==
  LET q == request[r]
      d == IF Known(q) # None THEN Known(q) ELSE NewDevice(q) IN
  /\ q.step = "ready" /\ q.kind = "REGISTER"
  /\ IF user = "DELETED" \/ ~d.live
     THEN Over(r) /\ UNCHANGED <<user, device>>
     ELSE IF ~PushFits(q, d)
     THEN Goes(r, "guarded") /\ UNCHANGED <<user, device>>
     ELSE /\ user' = "ACTIVE"
          /\ device' = [device EXCEPT ![q.install] = [d EXCEPT !.push = PushOf(q, d)]]
          /\ Over(r)
  /\ UNCHANGED <<refused, inTrip, object, deletion, provider, job, faults>>

(* A push-token update or a revocation authorizes on a snapshot too.       *)
ReadDevice(r) ==
  LET q == request[r] IN
  /\ q.step = "guarded" /\ q.kind \in {"PUSH", "REVOKE"}
  /\ IF \/ Mine(q) = None \/ user = "DELETED"
        \/ q.kind = "PUSH" /\ ~Mine(q).live
     THEN Over(r)
     ELSE request' = [request EXCEPT ![r].step = "ready",
                                     ![r].sealed = Sealed(q, Mine(q), q.id)]
  /\ UNCHANGED <<rows, provider, job, faults>>

UpdatePush(r) ==
  LET q == request[r]
      d == Mine(q) IN
  /\ q.step = "ready" /\ q.kind = "PUSH"
  /\ IF user # "ACTIVE" \/ d = None \/ (d # None /\ ~d.live)
     THEN Over(r) /\ UNCHANGED device
     ELSE IF ~PushFits(q, d)
     THEN Goes(r, "guarded") /\ UNCHANGED device
     ELSE /\ device' = [device EXCEPT ![q.install].push =
                          IF q.push = None THEN None ELSE PushOf(q, d)]
          /\ Over(r)
  /\ UNCHANGED <<user, refused, inTrip, object, deletion, provider, job, faults>>

RevokeDevice(r) ==
  LET q == request[r] IN
  /\ q.step = "ready" /\ q.kind = "REVOKE"
  /\ IF user # "ACTIVE" \/ Mine(q) = None
     THEN UNCHANGED device
     ELSE device' = [device EXCEPT ![q.install] = Revoked(@)]
  /\ Over(r)
  /\ UNCHANGED <<user, refused, inTrip, object, deletion, provider, job, faults>>

(* A profile sync writes the row in one statement, once Clerk has answered. *)
SyncProfile(r) ==
  /\ request[r].step = "ready" /\ request[r].kind = "PROFILE"
  /\ user' = IF user = "NONE" /\ ~refused THEN "ACTIVE" ELSE user
  /\ Over(r)
  /\ UNCHANGED <<refused, device, inTrip, object, deletion, provider, job, faults>>

-----------------------------------------------------------------------------
(* Deletion.                                                               *)

(* stopParticipation.                                                      *)
StopParticipation == inTrip' = FALSE

(* Slip: only what the store holds is listed.                              *)
ListedIfStored == {o \in Objects : object[o].row /\ object[o].stored = "STAGED"}

(* Every object the account has an upload row for, stored or not.          *)
Listed == {o \in Objects : object[o].row}

(* Slip: only the rows are marked, the subject is not remembered.          *)
EnqueueUnremembered(byProvider) ==
  /\ user' = "DELETED"
  /\ device' = [i \in Installs |-> Revoked(device[i])]
  /\ StopParticipation
  /\ deletion' = [NoDeletion EXCEPT !.state = "PENDING", !.noted = byProvider,
                                    !.due = TRUE, !.listed = Listed]
  /\ UNCHANGED refused

(* enqueueAccountDeletion: a deletion under way is only told by whom.      *)
Enqueue(byProvider) ==
  IF deletion.state = "PENDING"
  THEN /\ deletion' = [deletion EXCEPT !.noted = @ \/ byProvider]
       /\ UNCHANGED <<user, refused, device, inTrip>>
  ELSE /\ refused' = TRUE
       /\ user' = "DELETED"
       /\ device' = [i \in Installs |-> Revoked(device[i])]
       /\ StopParticipation
       /\ deletion' = [NoDeletion EXCEPT !.state = "PENDING", !.noted = byProvider,
                                         !.due = TRUE, !.listed = Listed]

RequestDeletion(r) ==
  /\ request[r].step = "arrived" /\ request[r].kind = "DELETE"
  /\ IF user = "NONE" /\ refused
     THEN UNCHANGED rows
     ELSE Enqueue(FALSE) /\ UNCHANGED object
  /\ Over(r)
  /\ UNCHANGED <<provider, job, faults>>

(* The provider's event, at any time after the identity has gone; a second *)
(* delivery finds the first one's record.                                  *)
UserDeletedEvent ==
  /\ clerk # "LIVE" /\ ~heard
  /\ heard' = TRUE
  /\ IF refused
     THEN /\ deletion' = [deletion EXCEPT !.noted = @ \/ deletion.state = "PENDING"]
          /\ UNCHANGED <<user, refused, device, inTrip>>
     ELSE Enqueue(TRUE)
  /\ UNCHANGED <<object, clerk, apple, request, job, faults>>

-----------------------------------------------------------------------------
(* The worker.                                                             *)

Steps == {"idle", "asking", "saving", "revoking", "clearing", "removing", "noting",
          "listing", "deleting"}

Fenced(w) == deletion.state = "PENDING" /\ deletion.token = w
Works(w, step) == job' = [job EXCEPT ![w].step = step]

(* The claim hands out the row as it was before the claim.                 *)
FirstStep(d) ==
  IF d.noted /\ ~d.grant THEN "listing"
  ELSE IF d.revoked THEN "removing"
  ELSE IF d.grant THEN "revoking" ELSE "asking"

Claim(w) ==
  /\ job[w].step = "idle"
  /\ deletion.state = "PENDING" /\ deletion.due
  /\ deletion' = [deletion EXCEPT !.token = w, !.due = FALSE]
  /\ job' = [job EXCEPT ![w] = [Idle EXCEPT !.step = FirstStep(deletion)]]
  /\ UNCHANGED <<user, refused, device, inTrip, object, provider, request, faults>>

(* A failed stage gives the claim back, if it is still its own, for later. *)
GivesUp(w) ==
  /\ job' = [job EXCEPT ![w] = Idle]
  /\ deletion' = IF Fenced(w) THEN [deletion EXCEPT !.token = None, !.due = FALSE] ELSE deletion

(* Apple's grants can be read only while the identity exists.              *)
AskGrant(w) ==
  /\ job[w].step = "asking"
  /\ Works(w, IF clerk # "LIVE" THEN "noting" ELSE "saving")
  /\ UNCHANGED <<rows, provider, request, faults>>

(* The grants are saved before they are revoked, and forgotten after.      *)
Checkpoint(w) ==
  LET over == job[w].step = "clearing" IN
  /\ job[w].step \in {"saving", "clearing"}
  /\ IF Fenced(w)
     THEN /\ deletion' = [deletion EXCEPT !.grant = ~over, !.revoked = over]
          /\ Works(w, IF over THEN "removing" ELSE "revoking")
     ELSE GivesUp(w)
  /\ UNCHANGED <<user, refused, device, inTrip, object, provider, request, faults>>

RevokeGrant(w) ==
  /\ job[w].step = "revoking"
  /\ apple' = IF apple = "GRANTED" THEN "REVOKED" ELSE apple
  /\ Works(w, "clearing")
  /\ UNCHANGED <<rows, clerk, heard, request, faults>>

(* Slip: an identity that is already gone is reported as a failure.        *)
RemoveIfThere(w) ==
  /\ job[w].step = "removing"
  /\ IF clerk = "LIVE"
     THEN clerk' = "REMOVED" /\ Works(w, "noting") /\ UNCHANGED deletion
     ELSE GivesUp(w) /\ UNCHANGED clerk
  /\ UNCHANGED <<user, refused, device, inTrip, object, apple, heard, request, faults>>

RemoveIdentity(w) ==
  /\ job[w].step = "removing"
  /\ clerk' = IF clerk = "LIVE" THEN "REMOVED" ELSE clerk
  /\ Works(w, "noting")
  /\ UNCHANGED <<rows, apple, heard, request, faults>>

NoteRemoval(w) ==
  /\ job[w].step = "noting"
  /\ deletion' = IF Fenced(w) THEN [deletion EXCEPT !.noted = TRUE] ELSE deletion
  /\ Works(w, "listing")
  /\ UNCHANGED <<user, refused, device, inTrip, object, provider, request, faults>>

Least(a, b) == IF a < b THEN a ELSE b

ListObjects(w) ==
  /\ job[w].step = "listing"
  /\ \E todo \in SUBSET deletion.listed :
       /\ Cardinality(todo) = Least(Batch, Cardinality(deletion.listed))
       /\ job' = [job EXCEPT ![w].step = "deleting", ![w].todo = todo]
  /\ UNCHANGED <<rows, provider, request, faults>>

DeleteObject(w) ==
  /\ job[w].step = "deleting"
  /\ \E o \in job[w].todo :
       /\ object[o].stored # "TOMBSTONE"
       /\ object' = [object EXCEPT ![o].stored = "TOMBSTONE"]
  /\ UNCHANGED <<user, refused, device, inTrip, deletion, provider, request, job, faults>>

MarkDeleted(w) ==
  /\ job[w].step = "deleting"
  /\ \E o \in job[w].todo :
       /\ object[o].stored = "TOMBSTONE"
       /\ deletion' = [deletion EXCEPT !.listed = @ \ {o}]
       /\ job' = [job EXCEPT ![w].todo = @ \ {o}]
  /\ UNCHANGED <<user, refused, device, inTrip, object, provider, request, faults>>

(* eraseAccountRecords.                                                    *)
Erase ==
  /\ user' = "NONE" /\ inTrip' = FALSE
  /\ device' = [i \in Installs |-> None]
  /\ object' = [o \in Objects |-> [object[o] EXCEPT !.row = FALSE]]

Finish(w) ==
  /\ job[w].step = "deleting" /\ job[w].todo = {}
  /\ IF ~Fenced(w)
     THEN UNCHANGED rows
     ELSE IF deletion.listed # {} \/ ~deletion.noted
     THEN /\ deletion' = [deletion EXCEPT !.token = None, !.due = TRUE]
          /\ UNCHANGED <<user, refused, device, inTrip, object>>
     ELSE /\ Erase
          /\ deletion' = [deletion EXCEPT !.state = "COMPLETE", !.token = None,
                                          !.grant = FALSE]
          /\ UNCHANGED refused
  /\ job' = [job EXCEPT ![w] = Idle]
  /\ UNCHANGED <<provider, request, faults>>

Stage(w) ==
  \/ AskGrant(w) \/ Checkpoint(w) \/ RevokeGrant(w) \/ RemoveIdentity(w)
  \/ NoteRemoval(w) \/ ListObjects(w) \/ DeleteObject(w) \/ MarkDeleted(w) \/ Finish(w)

Fail(w) ==
  /\ job[w].step # "idle" /\ faults < MaxFaults
  /\ GivesUp(w)
  /\ faults' = faults + 1
  /\ UNCHANGED <<user, refused, device, inTrip, object, provider, request>>

Crash(w) ==
  /\ job[w].step # "idle" /\ faults < MaxFaults
  /\ job' = [job EXCEPT ![w] = Idle]
  /\ faults' = faults + 1
  /\ UNCHANGED <<rows, provider, request>>

(* A backoff is over, the lease of a dead run has ended, or that of a run  *)
(* that still works, which is a fault.                                     *)
ComesDue ==
  /\ deletion.state = "PENDING" /\ ~deletion.due
  /\ LET overrun == \E w \in Workers : deletion.token = w /\ job[w].step # "idle" IN
     /\ overrun => faults < MaxFaults
     /\ faults' = IF overrun THEN faults + 1 ELSE faults
  /\ deletion' = [deletion EXCEPT !.due = TRUE]
  /\ UNCHANGED <<user, refused, device, inTrip, object, provider, request, job>>

-----------------------------------------------------------------------------
(* What else happens to the account.                                       *)

Acts == user = "ACTIVE" /\ \E i \in Installs : device[i] # None /\ device[i].live

JoinTrip ==
  /\ Acts /\ ~inTrip
  /\ inTrip' = TRUE
  /\ UNCHANGED <<user, refused, device, object, deletion, provider, request, job, faults>>

OpenUpload(o) ==
  /\ Acts /\ inTrip
  /\ ~object[o].granted
  /\ object' = [object EXCEPT ![o].row = TRUE, ![o].granted = TRUE]
  /\ UNCHANGED <<user, refused, device, inTrip, deletion, provider, request, job, faults>>

(* A grant needs no account: the store only refuses a key it has seen.     *)
PutObject(o) ==
  /\ object[o].granted /\ object[o].stored = "NONE"
  /\ object' = [object EXCEPT ![o].stored = "STAGED"]
  /\ UNCHANGED <<user, refused, device, inTrip, deletion, provider, request, job, faults>>

(* The identity is deleted at the provider itself.                         *)
IdentityLeaves ==
  /\ clerk = "LIVE"
  /\ clerk' = "GONE"
  /\ UNCHANGED <<rows, apple, heard, request, job, faults>>

Serve(r) ==
  \/ Guard(r) \/ ReadRegistration(r) \/ AskName(r) \/ Register(r) \/ ReadDevice(r)
  \/ UpdatePush(r) \/ RevokeDevice(r) \/ SyncProfile(r)
  \/ RequestDeletion(r)

Next ==
  \/ \E r \in Request : Send(r) \/ Serve(r)
  \/ \E w \in Workers : Claim(w) \/ Stage(w) \/ Fail(w) \/ Crash(w)
  \/ \E o \in Objects : OpenUpload(o) \/ PutObject(o)
  \/ UserDeletedEvent \/ ComesDue \/ JoinTrip \/ IdentityLeaves

Spec == Init /\ [][Next]_vars

(* The minute schedule claims what is due, and a run goes on until it ends,*)
(* fails or dies.                                                          *)
Fairness ==
  /\ \A w \in Workers : WF_vars(Claim(w)) /\ WF_vars(Stage(w))
  /\ WF_vars(ComesDue)

FairSpec == Spec /\ Fairness

-----------------------------------------------------------------------------
(* Properties.                                                             *)

DeviceRow == [id : Request, live : BOOLEAN,
              push : {None} \cup [token : PushTokens, sealedFor : Request]]
ObjectRow == [row : BOOLEAN, granted : BOOLEAN, stored : {"NONE", "STAGED", "TOMBSTONE"}]
DeletionRow == [state : {"NONE", "PENDING", "COMPLETE"}, noted : BOOLEAN, grant : BOOLEAN,
                revoked : BOOLEAN, token : Workers \cup {None}, due : BOOLEAN,
                listed : SUBSET Objects]
JobState == [step : Steps, todo : SUBSET Objects]
RequestState ==
  [step : {"new", "arrived", "guarded", "naming", "ready", "over"},
   kind : {"REGISTER", "PUSH", "REVOKE", "PROFILE", "DELETE", None},
   install : Installs \cup {None}, push : PushTokens \cup {None},
   id : Request \cup {None}, sealed : Request \cup {None}, named : BOOLEAN]

(* Rows, provider, requests and workers keep their types; an erasure that  *)
(* is recorded is one the subject has been refused for ever since.         *)
AccountTypeOK ==
  /\ user \in {"NONE", "ACTIVE", "DELETED"} /\ refused \in BOOLEAN /\ inTrip \in BOOLEAN
  /\ device \in [Installs -> {None} \cup DeviceRow]
  /\ object \in [Objects -> ObjectRow]
  /\ deletion \in DeletionRow
  /\ refused <=> deletion.state # "NONE"
  /\ clerk \in {"LIVE", "GONE", "REMOVED"} /\ apple \in {"NONE", "GRANTED", "REVOKED"}
  /\ heard \in BOOLEAN /\ faults \in 0..MaxFaults
  /\ job \in [Workers -> JobState]
  /\ request \in [Request -> RequestState]

(* An account whose deletion was accepted can do nothing more while the    *)
(* workers are at it: no request that was authorized before the deletion   *)
(* brings back a phone, a push token or a seat in a trip.                  *)
DeletedCannotAct ==
  user = "DELETED" =>
    /\ ~inTrip
    /\ \A i \in Installs : device[i] # None => ~device[i].live /\ device[i].push = None

(* Once the user row is gone nothing of it is left: no phone, no upload    *)
(* row, no ciphertext - whatever was still being put when the objects were *)
(* listed -, and a completed erasure has ended the identity, Apple's grant *)
(* included if the identity was the workers' to remove.                    *)
NothingLeftBehind ==
  /\ user = "NONE" =>
       /\ ~inTrip /\ \A i \in Installs : device[i] = None
       /\ \A o \in Objects : ~object[o].row /\ object[o].stored # "STAGED"
  /\ deletion.state = "COMPLETE" =>
       clerk # "LIVE" /\ (clerk = "REMOVED" => apple # "GRANTED")

(* A push token can be opened with the id of the device row that holds it, *)
(* although it was sealed before the transaction found or made that row.   *)
TokensOpen ==
  \A i \in Installs :
    device[i] # None /\ device[i].push # None =>
      device[i].push.sealedFor = device[i].id

(* An accepted deletion is carried out, whatever the finitely many runs    *)
(* that crash, fail or outlive their lease, and whether or not the identity *)
(* is already gone.                                                        *)
EventuallyErased == deletion.state = "PENDING" ~> deletion.state = "COMPLETE"
=============================================================================
