----------------------- MODULE AccountErasure_proofs -----------------------
(* Proofs about AccountErasure, for any installations, requests, workers,  *)
(* objects and faults: a deleted account cannot act, its push tokens open, *)
(* and a finished erasure leaves nothing of it.                            *)
EXTENDS AccountErasure, TLAPS

(* While a deletion is pending the user row is marked, whoever is still    *)
(* being served; and an account without a row has no phone and no trip.    *)
Access ==
  /\ user = "DELETED" <=> deletion.state = "PENDING"
  /\ user = "NONE" => ~inTrip /\ \A i \in Installs : device[i] = None
  /\ DeletedCannotAct
  /\ TokensOpen

(* What may still be put has an upload row or a tombstone, and a pending   *)
(* deletion lists every row whose object it has not deleted.               *)
Shelf ==
  \A o \in Objects :
    /\ object[o].stored = "STAGED" => object[o].granted
    /\ object[o].granted => object[o].row \/ object[o].stored = "TOMBSTONE"
    /\ user = "NONE" => ~object[o].row
    /\ deletion.state = "PENDING" /\ object[o].row /\ object[o].stored # "TOMBSTONE"
         => o \in deletion.listed

(* What the row and a worker's place say of the identity and of Apple.     *)
Identity ==
  /\ deletion.noted => clerk # "LIVE"
  /\ deletion.revoked => apple # "GRANTED"
  /\ deletion.state = "COMPLETE" => clerk # "LIVE"
  /\ clerk = "REMOVED" => apple # "GRANTED"
  /\ \A w \in Workers :
       /\ job[w].step = "noting" => clerk # "LIVE"
       /\ job[w].step \in {"clearing", "removing"} => apple # "GRANTED"

(* A request that is being served names an installation, and a prepared    *)
(* registration the device id it drew.                                     *)
Served ==
  \A r \in Request :
    /\ request[r].step \notin {"new", "over"} => request[r].install \in Installs
    /\ request[r].step = "ready" /\ request[r].kind = "REGISTER" => request[r].id \in Request

Types == AccountTypeOK /\ Served

IInv == Types /\ Access /\ Shelf /\ Identity

-----------------------------------------------------------------------------
(* What a request's own steps do to its record.                            *)
LEMMA RequestGoes ==
  ASSUME Types, NEW r \in Request,
         Over(r) \/ (request[r].step = "guarded" /\ Goes(r, "naming"))
                 \/ (request[r].step \in {"arrived", "ready"} /\ Goes(r, "guarded"))
  PROVE  request' \in [Request -> RequestState] /\ Served'
  <1>0. request \in [Request -> RequestState] /\ Served
    BY DEF Types, AccountTypeOK
  <1>1. CASE Over(r)
    <2>1. [Unsent EXCEPT !.step = "over"] \in RequestState
      BY DEF RequestState, Unsent
    <2>. QED
      BY <1>0, <1>1, <2>1 DEF Over, Served, Unsent
  <1>2. ASSUME NEW step \in {"guarded", "naming"}, Goes(r, step), request[r].step \notin {"new", "over"}
        PROVE  request' \in [Request -> RequestState] /\ Served'
    <2>1. [request[r] EXCEPT !.step = step] \in RequestState
      BY <1>0 DEF RequestState
    <2>. QED
      BY <1>0, <1>2, <2>1 DEF Goes, Served, RequestState
  <1>. QED
    BY <1>1, <1>2

(* What reading the account finds out for a request.                       *)
LEMMA RequestReady ==
  ASSUME Types, NEW r \in Request, NEW named \in BOOLEAN,
         NEW id \in Request \cup {None}, NEW sealed \in Request \cup {None},
         request[r].step = "guarded", request[r].kind = "REGISTER" => id \in Request,
         request' = [request EXCEPT ![r].step = "ready", ![r].named = named,
                                    ![r].id = id, ![r].sealed = sealed]
  PROVE  request' \in [Request -> RequestState] /\ Served'
  <1>0. request \in [Request -> RequestState] /\ Served
    BY DEF Types, AccountTypeOK
  <1> DEFINE q == [request[r] EXCEPT !.step = "ready", !.named = named, !.id = id, !.sealed = sealed]
  <1>1. q \in RequestState /\ request' = [request EXCEPT ![r] = q]
    BY <1>0 DEF RequestState
  <1>2. q.step = "ready" /\ q.kind = request[r].kind /\ q.install = request[r].install /\ q.id = id
    BY <1>0 DEF RequestState
  <1>. QED
    <2> HIDE DEF q
    <2>1. ASSUME NEW s \in Request PROVE request'[s] = IF s = r THEN q ELSE request[s]
      BY <1>0, <1>1
    <2>2. request' \in [Request -> RequestState]
      BY <1>0, <1>1
    <2>. QED
      BY <1>0, <1>2, <2>1, <2>2 DEF Served

(* What a worker's step does to its job.                                   *)
LEMMA JobWorks ==
  ASSUME Types, NEW w \in Workers, NEW step \in Steps,
         Works(w, step) \/ job' = [job EXCEPT ![w] = Idle]
                        \/ job' = [job EXCEPT ![w] = [Idle EXCEPT !.step = step]]
  PROVE  job' \in [Workers -> JobState]
  <1>0. job \in [Workers -> JobState]
    BY DEF Types, AccountTypeOK
  <1>1. [Idle EXCEPT !.step = step] \in JobState /\ Idle \in JobState
    BY DEF JobState, Idle, Steps
  <1>2. [job[w] EXCEPT !.step = step] \in JobState
    BY <1>0 DEF JobState
  <1>. QED
    BY <1>0, <1>1, <1>2 DEF Works

(* What enqueueAccountDeletion writes.                                     *)
LEMMA EnqueueType ==
  ASSUME AccountTypeOK, NEW byProvider \in BOOLEAN, Enqueue(byProvider)
  PROVE  /\ user' \in {"NONE", "ACTIVE", "DELETED"} /\ refused' \in BOOLEAN
         /\ inTrip' \in BOOLEAN
         /\ device' \in [Installs -> {None} \cup DeviceRow]
         /\ deletion' \in DeletionRow
         /\ refused' <=> deletion'.state # "NONE"
  <1>1. CASE deletion.state = "PENDING"
    BY <1>1 DEF Enqueue, AccountTypeOK, DeletionRow
  <1>2. CASE deletion.state # "PENDING"
    <2>1. ASSUME NEW i \in Installs PROVE Revoked(device[i]) \in {None} \cup DeviceRow
      BY DEF AccountTypeOK, DeviceRow, Revoked
    <2>2. device' \in [Installs -> {None} \cup DeviceRow]
      BY <1>2, <2>1 DEF Enqueue
    <2>3. deletion' \in DeletionRow /\ deletion'.state = "PENDING"
      BY <1>2 DEF Enqueue, NoDeletion, Listed, DeletionRow
    <2>. QED
      BY <1>2, <2>2, <2>3 DEF Enqueue, StopParticipation
  <1>. QED
    BY <1>1, <1>2

(* What a registration or a push-token update writes.                      *)
LEMMA PushType ==
  ASSUME NEW q \in RequestState, NEW d \in DeviceRow, PushFits(q, d)
  PROVE  PushOf(q, d) \in {None} \cup [token : PushTokens, sealedFor : Request]
  BY DEF RequestState, DeviceRow, PushFits, PushOf

(* Every step keeps the types.                                             *)
LEMMA StepType == Types /\ [Next]_vars => Types'
  <1>. SUFFICES ASSUME Types, [Next]_vars PROVE Types'
    OBVIOUS
  <1>0. /\ request \in [Request -> RequestState] /\ deletion \in DeletionRow
        /\ device \in [Installs -> {None} \cup DeviceRow]
        /\ job \in [Workers -> JobState] /\ object \in [Objects -> ObjectRow]
    BY DEF Types, AccountTypeOK
  <1>1. ASSUME NEW r \in Request, Send(r) PROVE Types'
    <2>1. PICK kind \in {"REGISTER", "PUSH", "REVOKE", "PROFILE", "DELETE"},
               i \in Installs, t \in PushTokens \cup {None} :
            /\ kind \in {"PUSH", "REVOKE"} => device[i] # None
            /\ request' = [request EXCEPT ![r] =
                 [Unsent EXCEPT !.step = "arrived", !.kind = kind, !.install = i, !.push = t,
                                !.id = IF kind \in {"PUSH", "REVOKE"} THEN device[i].id ELSE None]]
      BY <1>1 DEF Send
    <2>2. device[i] # None => device[i].id \in Request
      BY <1>0 DEF DeviceRow
    <2>3. request' \in [Request -> RequestState]
      BY <1>0, <2>1, <2>2 DEF RequestState, Unsent
    <2>4. Served'
      BY <1>0, <2>1 DEF Types, Served, Unsent
    <2>. QED
      BY <1>1, <2>3, <2>4 DEF Send, Types, AccountTypeOK, rows, provider
  <1>2. ASSUME NEW r \in Request, Guard(r) PROVE Types'
    BY <1>2, RequestGoes DEF Guard, Types, AccountTypeOK, rows, provider
  <1>3. ASSUME NEW r \in Request, ReadRegistration(r) PROVE Types'
    <2> DEFINE q == request[r]
    <2> DEFINE d == Known(q)
    <2> DEFINE id == IF d # None THEN d.id ELSE IF q.id # None THEN q.id ELSE r
    <2>1. d \in {None} \cup DeviceRow
      BY <1>0, <1>3 DEF ReadRegistration, Known, Types, Served
    <2>2. q \in RequestState /\ id \in Request
      BY <1>0, <2>1 DEF RequestState, DeviceRow
    <2>3. Sealed(q, d, id) \in Request \cup {None}
      BY <2>2 DEF Sealed
    <2>4. (IF q.id # None THEN q.id ELSE id) \in Request
      BY <2>2 DEF RequestState
    <2>5. CASE request' = [request EXCEPT ![r].step = "ready", ![r].named = TRUE,
                             ![r].id = IF q.id # None THEN q.id ELSE id,
                             ![r].sealed = Sealed(q, d, id)]
      <3>1. request' \in [Request -> RequestState] /\ Served'
        <4> HIDE DEF id, d
        <4>. QED
          BY <1>3, <2>3, <2>4, <2>5, RequestReady DEF ReadRegistration
      <3>. QED
        BY <1>3, <3>1 DEF ReadRegistration, Types, AccountTypeOK, rows, provider
    <2>6. CASE Over(r) \/ Goes(r, "naming")
      <3>1. request' \in [Request -> RequestState] /\ Served'
        BY <1>3, <2>6, RequestGoes DEF ReadRegistration
      <3>. QED
        BY <1>3, <3>1 DEF ReadRegistration, Types, AccountTypeOK, rows, provider
    <2>. QED
      BY <1>3, <2>5, <2>6 DEF ReadRegistration
  <1>4. ASSUME NEW r \in Request, AskName(r) PROVE Types'
    <2>1. CASE Over(r)
      BY <1>4, <2>1, RequestGoes DEF AskName, Types, AccountTypeOK, rows, provider
    <2>2. CASE request' = [request EXCEPT ![r].named = TRUE,
                 ![r].step = IF request[r].kind = "PROFILE" THEN "ready" ELSE "guarded"]
      <3>1. request' \in [Request -> RequestState] /\ Served'
        BY <1>0, <1>4, <2>2 DEF AskName, Types, Served, RequestState
      <3>. QED
        BY <1>4, <3>1 DEF AskName, Types, AccountTypeOK, rows, provider
    <2>. QED
      BY <1>4, <2>1, <2>2 DEF AskName
  <1>5. ASSUME NEW r \in Request, Register(r) PROVE Types'
    <2> DEFINE q == request[r]
    <2> DEFINE d == IF Known(q) # None THEN Known(q) ELSE NewDevice(q)
    <2>1. q \in RequestState /\ q.install \in Installs /\ d \in DeviceRow
      <3>1. NewDevice(q) \in DeviceRow
        BY <1>5 DEF Register, NewDevice, Types, Served, DeviceRow
      <3>. QED
        BY <1>0, <1>5, <3>1 DEF Register, Known, Types, Served
    <2>2. request' \in [Request -> RequestState] /\ Served'
      BY <1>5, RequestGoes DEF Register
    <2>3. user' \in {"NONE", "ACTIVE", "DELETED"}
          /\ device' \in [Installs -> {None} \cup DeviceRow]
      <3>1. CASE UNCHANGED <<user, device>>
        BY <3>1 DEF Types, AccountTypeOK
      <3>2. CASE PushFits(q, d) /\ user' = "ACTIVE"
                 /\ device' = [device EXCEPT ![q.install] = [d EXCEPT !.push = PushOf(q, d)]]
        <4>1. PushOf(q, d) \in {None} \cup [token : PushTokens, sealedFor : Request]
          BY <2>1, <3>2, PushType
        <4>2. [d EXCEPT !.push = PushOf(q, d)] \in DeviceRow
          BY <2>1, <4>1 DEF DeviceRow
        <4>. QED
          BY <1>0, <3>2, <4>2
      <3>. QED
        BY <1>5, <3>1, <3>2 DEF Register
    <2>. QED
      BY <1>5, <2>2, <2>3 DEF Register, Types, AccountTypeOK, provider
  <1>6. ASSUME NEW r \in Request, ReadDevice(r) PROVE Types'
    <2>1. Sealed(request[r], Mine(request[r]), request[r].id) \in Request \cup {None}
      BY <1>0 DEF Sealed, RequestState
    <2>2. request' \in [Request -> RequestState] /\ Served'
      BY <1>0, <1>6, <2>1, RequestGoes DEF ReadDevice, Types, Served, RequestState
    <2>. QED
      BY <1>6, <2>2 DEF ReadDevice, Types, AccountTypeOK, rows, provider
  <1>7. ASSUME NEW r \in Request, UpdatePush(r) PROVE Types'
    <2> DEFINE q == request[r]
    <2>1. q \in RequestState /\ q.install \in Installs
      BY <1>0, <1>7 DEF UpdatePush, Types, Served
    <2>2. request' \in [Request -> RequestState] /\ Served'
      BY <1>7, RequestGoes DEF UpdatePush
    <2>3. device' \in [Installs -> {None} \cup DeviceRow]
      <3>1. CASE UNCHANGED device
        BY <1>0, <3>1
      <3>2. CASE /\ Mine(q) # None /\ PushFits(q, Mine(q))
                 /\ device' = [device EXCEPT ![q.install].push =
                                 IF q.push = None THEN None ELSE PushOf(q, Mine(q))]
        <4>1. device[q.install] = Mine(q) /\ Mine(q) \in DeviceRow
          BY <1>0, <2>1, <3>2 DEF Mine
        <4>2. PushOf(q, Mine(q)) \in {None} \cup [token : PushTokens, sealedFor : Request]
          BY <2>1, <3>2, <4>1, PushType
        <4>3. device' = [device EXCEPT ![q.install] =
                           [@ EXCEPT !.push = IF q.push = None THEN None ELSE PushOf(q, Mine(q))]]
          BY <3>2
        <4>4. [device[q.install] EXCEPT !.push = IF q.push = None THEN None
                                                 ELSE PushOf(q, Mine(q))] \in DeviceRow
          BY <4>1, <4>2 DEF DeviceRow
        <4>. QED
          BY <1>0, <4>3, <4>4
      <3>. QED
        BY <1>7, <3>1, <3>2 DEF UpdatePush
    <2>. QED
      BY <1>7, <2>2, <2>3 DEF UpdatePush, Types, AccountTypeOK, provider
  <1>8. ASSUME NEW r \in Request, RevokeDevice(r) PROVE Types'
    <2>1. request' \in [Request -> RequestState] /\ Served'
      BY <1>8, RequestGoes DEF RevokeDevice
    <2>2. \A i \in Installs : Revoked(device[i]) \in {None} \cup DeviceRow
      BY <1>0 DEF DeviceRow, Revoked
    <2>3. device' \in [Installs -> {None} \cup DeviceRow]
      BY <1>0, <1>8, <2>2 DEF RevokeDevice
    <2>. QED
      BY <1>8, <2>1, <2>3 DEF RevokeDevice, Types, AccountTypeOK, provider
  <1>9. ASSUME NEW r \in Request, SyncProfile(r) PROVE Types'
    BY <1>9, RequestGoes DEF SyncProfile, Types, AccountTypeOK, provider
  <1>10. ASSUME NEW r \in Request, RequestDeletion(r) PROVE Types'
    <2>1. request' \in [Request -> RequestState] /\ Served'
      BY <1>10, RequestGoes DEF RequestDeletion
    <2>. QED
      BY <1>10, <2>1, EnqueueType DEF RequestDeletion, Types, AccountTypeOK, rows, provider
  <1>11. ASSUME NEW w \in Workers, Claim(w) PROVE Types'
    <2>1. deletion' \in DeletionRow /\ deletion'.state = deletion.state
      BY <1>0, <1>11 DEF Claim, DeletionRow
    <2>2. FirstStep(deletion) \in Steps
      BY DEF FirstStep, Steps
    <2>3. job' \in [Workers -> JobState]
      BY <1>11, <2>2, JobWorks DEF Claim
    <2>. QED
      BY <1>11, <2>1, <2>3 DEF Claim, Types, AccountTypeOK, Served, provider
  <1>12. ASSUME NEW w \in Workers, AskGrant(w) PROVE Types'
    <2>1. job' \in [Workers -> JobState]
      BY <1>12, JobWorks DEF AskGrant, Steps
    <2>. QED
      BY <1>12, <2>1 DEF AskGrant, Types, AccountTypeOK, Served, rows, provider
  <1>13. ASSUME NEW w \in Workers, Checkpoint(w) PROVE Types'
    <2>1. job' \in [Workers -> JobState]
      BY <1>13, JobWorks DEF Checkpoint, GivesUp, Steps
    <2>2. deletion' \in DeletionRow /\ deletion'.state = deletion.state
      BY <1>0, <1>13 DEF Checkpoint, GivesUp, DeletionRow
    <2>. QED
      BY <1>13, <2>1, <2>2 DEF Checkpoint, Types, AccountTypeOK, Served, rows, provider
  <1>14. ASSUME NEW w \in Workers, RevokeGrant(w) PROVE Types'
    <2>1. job' \in [Workers -> JobState]
      BY <1>14, JobWorks DEF RevokeGrant, Steps
    <2>. QED
      BY <1>14, <2>1 DEF RevokeGrant, Types, AccountTypeOK, Served, rows, provider
  <1>15. ASSUME NEW w \in Workers, RemoveIdentity(w) PROVE Types'
    <2>1. job' \in [Workers -> JobState]
      BY <1>15, JobWorks DEF RemoveIdentity, Steps
    <2>. QED
      BY <1>15, <2>1 DEF RemoveIdentity, Types, AccountTypeOK, Served, rows, provider
  <1>16. ASSUME NEW w \in Workers, NoteRemoval(w) PROVE Types'
    <2>1. job' \in [Workers -> JobState]
      BY <1>16, JobWorks DEF NoteRemoval, Steps
    <2>2. deletion' \in DeletionRow /\ deletion'.state = deletion.state
      BY <1>0, <1>16 DEF NoteRemoval, DeletionRow
    <2>. QED
      BY <1>16, <2>1, <2>2 DEF NoteRemoval, Types, AccountTypeOK, Served, rows, provider
  <1>17. ASSUME NEW w \in Workers, ListObjects(w) PROVE Types'
    <2>1. PICK todo \in SUBSET deletion.listed :
            job' = [job EXCEPT ![w].step = "deleting", ![w].todo = todo]
      BY <1>17 DEF ListObjects
    <2>2. todo \subseteq Objects /\ deletion.listed \subseteq Objects
      BY <1>0, <2>1 DEF DeletionRow
    <2>3. [job[w] EXCEPT !.step = "deleting", !.todo = todo] \in JobState
      BY <1>0, <2>2 DEF JobState, Steps
    <2>4. job' \in [Workers -> JobState]
      BY <1>0, <2>1, <2>3
    <2>. QED
      BY <1>17, <2>4 DEF ListObjects, Types, AccountTypeOK, Served, rows, provider
  <1>18. ASSUME NEW w \in Workers, DeleteObject(w) PROVE Types'
    <2>1. object' \in [Objects -> ObjectRow]
      BY <1>0, <1>18 DEF DeleteObject, JobState, ObjectRow
    <2>. QED
      BY <1>18, <2>1 DEF DeleteObject, Types, AccountTypeOK, Served, rows, provider
  <1>19. ASSUME NEW w \in Workers, MarkDeleted(w) PROVE Types'
    <2>1. job' \in [Workers -> JobState]
      BY <1>0, <1>19 DEF MarkDeleted, JobState
    <2>2. deletion' \in DeletionRow /\ deletion'.state = deletion.state
      BY <1>0, <1>19 DEF MarkDeleted, DeletionRow
    <2>. QED
      BY <1>19, <2>1, <2>2 DEF MarkDeleted, Types, AccountTypeOK, Served, rows, provider
  <1>20. ASSUME NEW w \in Workers, Finish(w) PROVE Types'
    <2>1. job' \in [Workers -> JobState]
      BY <1>20, JobWorks DEF Finish, Steps
    <2>2. CASE Fenced(w) /\ Erase
      <3>1. deletion' \in DeletionRow /\ deletion'.state # "NONE" /\ refused' = refused
            /\ deletion.state # "NONE"
        BY <1>0, <1>20, <2>2 DEF Finish, Fenced, DeletionRow
      <3>2. device' \in [Installs -> {None} \cup DeviceRow] /\ object' \in [Objects -> ObjectRow]
        BY <1>0, <2>2 DEF Erase, ObjectRow
      <3>. QED
        BY <1>20, <2>1, <2>2, <3>1, <3>2 DEF Finish, Erase, Types, AccountTypeOK, Served, provider
    <2>3. CASE UNCHANGED <<user, refused, device, inTrip, object>>
      <3>1. deletion' \in DeletionRow /\ deletion'.state \in {deletion.state, "COMPLETE"}
            /\ (deletion'.state = "COMPLETE" => deletion.state # "NONE")
        BY <1>0, <1>20 DEF Finish, Fenced, rows, DeletionRow
      <3>. QED
        BY <1>20, <2>1, <2>3, <3>1 DEF Finish, Types, AccountTypeOK, Served, provider
    <2>. QED
      BY <1>20, <2>2, <2>3 DEF Finish, rows
  <1>21. ASSUME NEW w \in Workers, Fail(w) PROVE Types'
    <2>1. job' \in [Workers -> JobState]
      BY <1>21, JobWorks DEF Fail, GivesUp, Steps
    <2>2. deletion' \in DeletionRow /\ deletion'.state = deletion.state
      BY <1>0, <1>21 DEF Fail, GivesUp, DeletionRow
    <2>3. faults' \in 0..MaxFaults
      BY <1>21, AccountAssumption DEF Fail, Types, AccountTypeOK
    <2>. QED
      BY <1>21, <2>1, <2>2, <2>3 DEF Fail, Types, AccountTypeOK, Served, rows, provider
  <1>22. ASSUME NEW w \in Workers, Crash(w) PROVE Types'
    <2>1. job' \in [Workers -> JobState]
      BY <1>22, JobWorks DEF Crash, Steps
    <2>2. faults' \in 0..MaxFaults
      BY <1>22, AccountAssumption DEF Crash, Types, AccountTypeOK
    <2>. QED
      BY <1>22, <2>1, <2>2 DEF Crash, Types, AccountTypeOK, Served, rows, provider
  <1>23. ASSUME NEW o \in Objects, OpenUpload(o) \/ PutObject(o) PROVE Types'
    <2>1. object' \in [Objects -> ObjectRow]
      BY <1>0, <1>23 DEF OpenUpload, PutObject, ObjectRow
    <2>. QED
      BY <1>23, <2>1 DEF OpenUpload, PutObject, Types, AccountTypeOK, Served, provider
  <1>24. ASSUME UserDeletedEvent PROVE Types'
    <2>1. CASE refused
      <3>1. deletion' \in DeletionRow /\ deletion'.state = deletion.state
        BY <1>0, <1>24, <2>1 DEF UserDeletedEvent, DeletionRow
      <3>. QED
        BY <1>24, <2>1, <3>1 DEF UserDeletedEvent, Types, AccountTypeOK, Served
    <2>2. CASE ~refused
      BY <1>24, <2>2, EnqueueType DEF UserDeletedEvent, Types, AccountTypeOK, Served
    <2>. QED
      BY <2>1, <2>2
  <1>25. ASSUME ComesDue PROVE Types'
    <2>1. deletion' \in DeletionRow /\ deletion'.state = deletion.state
      BY <1>0, <1>25 DEF ComesDue, DeletionRow
    <2>2. faults' \in 0..MaxFaults
      BY <1>25, AccountAssumption DEF ComesDue, Types, AccountTypeOK
    <2>. QED
      BY <1>25, <2>1, <2>2 DEF ComesDue, Types, AccountTypeOK, Served, provider
  <1>26. ASSUME JoinTrip \/ IdentityLeaves PROVE Types'
    <2>1. CASE JoinTrip
      BY <2>1 DEF JoinTrip, Types, AccountTypeOK, Served, provider
    <2>2. CASE IdentityLeaves
      BY <2>2 DEF IdentityLeaves, Types, AccountTypeOK, Served, rows
    <2>. QED
      BY <1>26, <2>1, <2>2
  <1>27. CASE UNCHANGED vars
    BY <1>27 DEF vars, rows, provider, Types, AccountTypeOK, Served
  <1>. QED
    BY <1>1, <1>2, <1>3, <1>4, <1>5, <1>6, <1>7, <1>8, <1>9, <1>10, <1>11, <1>12, <1>13, <1>14,
       <1>15, <1>16, <1>17, <1>18, <1>19, <1>20, <1>21, <1>22, <1>23, <1>24, <1>25, <1>26, <1>27
       DEF Next, Serve, Stage

-----------------------------------------------------------------------------
(* A new account's tables have their types.                                *)
LEMMA InitTypes == Init => Types
  <1>. SUFFICES ASSUME Init PROVE Types
    OBVIOUS
  <1>1. NoDeletion \in DeletionRow /\ Unsent \in RequestState /\ Idle \in JobState
        /\ Unsent.step = "new" /\ NoDeletion.state = "NONE"
    BY DEF NoDeletion, Unsent, Idle, Steps, DeletionRow, RequestState, JobState
  <1>2. [row |-> FALSE, granted |-> FALSE, stored |-> "NONE"] \in ObjectRow
    BY DEF ObjectRow
  <1>3. 0 \in 0..MaxFaults
    BY AccountAssumption
  <1>. QED
    BY <1>1, <1>2, <1>3 DEF Init, Types, AccountTypeOK, Served

(* What enqueueAccountDeletion leaves of the account.                      *)
LEMMA EnqueueEnds ==
  ASSUME IInv, NEW byProvider \in BOOLEAN, Enqueue(byProvider), UNCHANGED object
  PROVE  Access' /\ Shelf'
  <1>1. CASE deletion.state = "PENDING"
    <2>1. deletion'.state = "PENDING" /\ deletion'.listed = deletion.listed
      BY <1>1 DEF Enqueue, IInv, Types, AccountTypeOK, DeletionRow
    <2>. QED
      BY <1>1, <2>1 DEF Enqueue, IInv, Access, DeletedCannotAct, TokensOpen, Shelf
  <1>2. CASE deletion.state # "PENDING"
    <2>1. ASSUME NEW i \in Installs, device'[i] # None
          PROVE  ~device'[i].live /\ device'[i].push = None
      <3>1. device'[i] = Revoked(device[i])
        BY <1>2 DEF Enqueue
      <3>2. device[i] \in DeviceRow
        BY <2>1, <3>1 DEF Revoked, IInv, Types, AccountTypeOK
      <3>. QED
        BY <2>1, <3>1, <3>2 DEF Revoked, DeviceRow
    <2>2. user' = "DELETED" /\ ~inTrip' /\ deletion'.state = "PENDING"
          /\ deletion'.listed = Listed
      BY <1>2 DEF Enqueue, StopParticipation, NoDeletion
    <2>3. Access'
      BY <2>1, <2>2 DEF Access, DeletedCannotAct, TokensOpen
    <2>4. Shelf'
      BY <2>2 DEF IInv, Shelf, Listed
    <2>. QED
      BY <2>3, <2>4
  <1>. QED
    BY <1>1, <1>2

(* Every step keeps a deleted account from acting and its tokens open.     *)
LEMMA StepAccess == IInv /\ [Next]_vars => Access'
  <1>. SUFFICES ASSUME IInv, [Next]_vars PROVE Access'
    OBVIOUS
  <1>1. ASSUME NEW r \in Request, Send(r) PROVE Access'
    BY <1>1 DEF Send, Unsent, IInv, Types, Access, DeletedCannotAct, TokensOpen, AccountTypeOK, DeviceRow, RequestState, DeletionRow, Served, rows
  <1>2. ASSUME NEW r \in Request, Guard(r) PROVE Access'
    BY <1>2 DEF Guard, Over, Goes, Unsent, IInv, Types, Access, DeletedCannotAct, TokensOpen, AccountTypeOK, DeviceRow, RequestState, DeletionRow, Served, rows
  <1>3. ASSUME NEW r \in Request, ReadRegistration(r) PROVE Access'
    BY <1>3 DEF ReadRegistration, Known, Sealed, Over, Goes, Unsent, IInv, Types, Access, DeletedCannotAct, TokensOpen, AccountTypeOK, DeviceRow, RequestState, DeletionRow, Served, rows
  <1>4. ASSUME NEW r \in Request, AskName(r) PROVE Access'
    BY <1>4 DEF AskName, Over, Unsent, IInv, Types, Access, DeletedCannotAct, TokensOpen, AccountTypeOK, DeviceRow, RequestState, DeletionRow, Served, rows
  <1>5. ASSUME NEW r \in Request, Register(r) PROVE Access'
    BY <1>5 DEF Register, Known, NewDevice, PushFits, PushOf, Over, Goes, Unsent, IInv, Types, Access, DeletedCannotAct, TokensOpen, AccountTypeOK, DeviceRow, RequestState, DeletionRow, Served, rows
  <1>6. ASSUME NEW r \in Request, ReadDevice(r) PROVE Access'
    BY <1>6 DEF ReadDevice, Mine, Sealed, Over, Unsent, IInv, Types, Access, DeletedCannotAct, TokensOpen, AccountTypeOK, DeviceRow, RequestState, DeletionRow, Served, rows
  <1>7. ASSUME NEW r \in Request, UpdatePush(r) PROVE Access'
    BY <1>7 DEF UpdatePush, Mine, PushFits, PushOf, Over, Goes, Unsent, IInv, Types, Access, DeletedCannotAct, TokensOpen, AccountTypeOK, DeviceRow, RequestState, DeletionRow, Served, rows
  <1>8. ASSUME NEW r \in Request, RevokeDevice(r) PROVE Access'
    <2> DEFINE i == request[r].install
    <2>1. CASE UNCHANGED device
      BY <1>8, <2>1 DEF RevokeDevice, IInv, Access, DeletedCannotAct, TokensOpen
    <2>2. CASE user = "ACTIVE" /\ Mine(request[r]) # None
               /\ device' = [device EXCEPT ![i] = Revoked(@)]
      <3>1. i \in Installs /\ device[i] \in DeviceRow
        BY <1>8, <2>2 DEF RevokeDevice, Mine, IInv, Types, Served, AccountTypeOK
      <3>2. ASSUME NEW k \in Installs
            PROVE  device'[k] = IF k = i THEN [device[i] EXCEPT !.live = FALSE, !.push = None]
                                ELSE device[k]
        BY <2>2, <3>1 DEF Revoked, Mine, IInv, Types, AccountTypeOK
      <3>3. [device[i] EXCEPT !.live = FALSE, !.push = None].push = None
        BY <3>1 DEF DeviceRow
      <3>4. TokensOpen'
        BY <3>2, <3>3 DEF TokensOpen, IInv, Access
      <3>. QED
        BY <1>8, <2>2, <3>4 DEF RevokeDevice, IInv, Access, DeletedCannotAct
    <2>. QED
      BY <1>8, <2>1, <2>2 DEF RevokeDevice
  <1>9. ASSUME NEW r \in Request, SyncProfile(r) PROVE Access'
    BY <1>9 DEF SyncProfile, Over, Unsent, IInv, Types, Access, DeletedCannotAct, TokensOpen, AccountTypeOK, DeviceRow, RequestState, DeletionRow, Served, rows
  <1>10. ASSUME NEW r \in Request, RequestDeletion(r) PROVE Access'
    <2>1. CASE UNCHANGED rows
      BY <2>1 DEF rows, IInv, Access, DeletedCannotAct, TokensOpen
    <2>. QED
      BY <1>10, <2>1, EnqueueEnds DEF RequestDeletion
  <1>11. ASSUME NEW w \in Workers, Claim(w) PROVE Access'
    BY <1>11 DEF Claim, FirstStep, Idle, Steps, IInv, Types, Access, DeletedCannotAct, TokensOpen, AccountTypeOK, DeviceRow, RequestState, DeletionRow, Served, rows
  <1>12. ASSUME NEW w \in Workers, AskGrant(w) PROVE Access'
    BY <1>12 DEF AskGrant, Works, Steps, IInv, Types, Access, DeletedCannotAct, TokensOpen, AccountTypeOK, DeviceRow, RequestState, DeletionRow, Served, rows
  <1>13. ASSUME NEW w \in Workers, Checkpoint(w) PROVE Access'
    BY <1>13 DEF Checkpoint, Fenced, GivesUp, Works, Idle, Steps, IInv, Types, Access, DeletedCannotAct, TokensOpen, AccountTypeOK, DeviceRow, RequestState, DeletionRow, Served, rows
  <1>14. ASSUME NEW w \in Workers, RevokeGrant(w) PROVE Access'
    BY <1>14 DEF RevokeGrant, Works, Steps, IInv, Types, Access, DeletedCannotAct, TokensOpen, AccountTypeOK, DeviceRow, RequestState, DeletionRow, Served, rows
  <1>15. ASSUME NEW w \in Workers, RemoveIdentity(w) PROVE Access'
    BY <1>15 DEF RemoveIdentity, Works, Steps, IInv, Types, Access, DeletedCannotAct, TokensOpen, AccountTypeOK, DeviceRow, RequestState, DeletionRow, Served, rows
  <1>16. ASSUME NEW w \in Workers, NoteRemoval(w) PROVE Access'
    BY <1>16 DEF NoteRemoval, Fenced, Works, Steps, IInv, Types, Access, DeletedCannotAct, TokensOpen, AccountTypeOK, DeviceRow, RequestState, DeletionRow, Served, rows
  <1>17. ASSUME NEW w \in Workers, ListObjects(w) PROVE Access'
    BY <1>17 DEF ListObjects, Steps, IInv, Types, Access, DeletedCannotAct, TokensOpen, AccountTypeOK, DeviceRow, RequestState, DeletionRow, Served, rows
  <1>18. ASSUME NEW w \in Workers, DeleteObject(w) PROVE Access'
    BY <1>18 DEF DeleteObject, IInv, Types, Access, DeletedCannotAct, TokensOpen, AccountTypeOK, DeviceRow, RequestState, DeletionRow, Served, rows
  <1>19. ASSUME NEW w \in Workers, MarkDeleted(w) PROVE Access'
    BY <1>19 DEF MarkDeleted, IInv, Types, Access, DeletedCannotAct, TokensOpen, AccountTypeOK, DeviceRow, RequestState, DeletionRow, Served, rows
  <1>20. ASSUME NEW w \in Workers, Finish(w) PROVE Access'
    <2>1. CASE Fenced(w) /\ Erase
      <3>1. deletion'.state = "COMPLETE" \/ deletion'.state = deletion.state
        BY <1>20 DEF Finish, rows, IInv, Types, AccountTypeOK, DeletionRow
      <3>2. CASE deletion'.state = "COMPLETE"
        BY <2>1, <3>2 DEF Erase, Access, DeletedCannotAct, TokensOpen
      <3>3. CASE deletion'.state # "COMPLETE"
        BY <1>20, <2>1, <3>1, <3>3 DEF Finish, Erase, Fenced, IInv, Types, AccountTypeOK,
           DeletionRow, Access, DeletedCannotAct, TokensOpen
      <3>. QED
        BY <3>2, <3>3
    <2>2. CASE UNCHANGED rows \/ (deletion' = [deletion EXCEPT !.token = None, !.due = TRUE]
                                  /\ UNCHANGED <<user, refused, device, inTrip, object>>)
      <3>1. deletion'.state = deletion.state /\ UNCHANGED <<user, device, inTrip>>
        BY <2>2 DEF rows, IInv, Types, AccountTypeOK, DeletionRow
      <3>. QED
        BY <3>1 DEF IInv, Access, DeletedCannotAct, TokensOpen
    <2>. QED
      BY <1>20, <2>1, <2>2 DEF Finish
  <1>21. ASSUME NEW w \in Workers, Fail(w) PROVE Access'
    BY <1>21 DEF Fail, GivesUp, Fenced, Idle, Steps, IInv, Types, Access, DeletedCannotAct, TokensOpen, AccountTypeOK, DeviceRow, RequestState, DeletionRow, Served, rows
  <1>22. ASSUME NEW w \in Workers, Crash(w) PROVE Access'
    BY <1>22 DEF Crash, Idle, Steps, IInv, Types, Access, DeletedCannotAct, TokensOpen, AccountTypeOK, DeviceRow, RequestState, DeletionRow, Served, rows
  <1>23. ASSUME NEW o \in Objects, OpenUpload(o) PROVE Access'
    BY <1>23 DEF OpenUpload, IInv, Types, Access, DeletedCannotAct, TokensOpen, AccountTypeOK, DeviceRow, RequestState, DeletionRow, Served, rows
  <1>24. ASSUME NEW o \in Objects, PutObject(o) PROVE Access'
    BY <1>24 DEF PutObject, IInv, Types, Access, DeletedCannotAct, TokensOpen, AccountTypeOK, DeviceRow, RequestState, DeletionRow, Served, rows
  <1>25. ASSUME UserDeletedEvent PROVE Access'
    <2>1. CASE refused
      <3>1. deletion'.state = deletion.state
        BY <1>25, <2>1 DEF UserDeletedEvent, IInv, Types, AccountTypeOK, DeletionRow
      <3>. QED
        BY <1>25, <2>1, <3>1 DEF UserDeletedEvent, IInv, Access, DeletedCannotAct, TokensOpen
    <2>2. CASE ~refused
      BY <1>25, <2>2, EnqueueEnds DEF UserDeletedEvent
    <2>. QED
      BY <2>1, <2>2
  <1>26. ASSUME ComesDue PROVE Access'
    BY <1>26 DEF ComesDue, IInv, Types, Access, DeletedCannotAct, TokensOpen, AccountTypeOK, DeviceRow, RequestState, DeletionRow, Served, rows
  <1>27. ASSUME JoinTrip PROVE Access'
    BY <1>27 DEF JoinTrip, Acts, IInv, Types, Access, DeletedCannotAct, TokensOpen, AccountTypeOK, DeviceRow, RequestState, DeletionRow, Served, rows
  <1>28. ASSUME IdentityLeaves PROVE Access'
    BY <1>28 DEF IdentityLeaves, IInv, Types, Access, DeletedCannotAct, TokensOpen, AccountTypeOK, DeviceRow, RequestState, DeletionRow, Served, rows
  <1>29. CASE UNCHANGED vars
    BY <1>29 DEF vars, IInv, Types, Access, DeletedCannotAct, TokensOpen, AccountTypeOK, DeviceRow, RequestState, DeletionRow, Served, rows
  <1>. QED
    BY <1>1, <1>2, <1>3, <1>4, <1>5, <1>6, <1>7, <1>8, <1>9, <1>10, <1>11, <1>12, <1>13,
       <1>14, <1>15, <1>16, <1>17, <1>18, <1>19, <1>20, <1>21, <1>22, <1>23, <1>24,
       <1>25, <1>26, <1>27, <1>28, <1>29
       DEF Next, Serve, Stage

(* Every step keeps the upload rows, the store and the list together.      *)
LEMMA StepShelf == IInv /\ [Next]_vars => Shelf'
  <1>. SUFFICES ASSUME IInv, [Next]_vars PROVE Shelf'
    OBVIOUS
  <1>1. ASSUME NEW r \in Request, Send(r) PROVE Shelf'
    BY <1>1 DEF Send, Unsent, IInv, Types, Shelf, Access, AccountTypeOK, ObjectRow, DeletionRow, JobState, rows
  <1>2. ASSUME NEW r \in Request, Guard(r) PROVE Shelf'
    BY <1>2 DEF Guard, Over, Goes, Unsent, IInv, Types, Shelf, Access, AccountTypeOK, ObjectRow, DeletionRow, JobState, rows
  <1>3. ASSUME NEW r \in Request, ReadRegistration(r) PROVE Shelf'
    BY <1>3 DEF ReadRegistration, Known, Sealed, Over, Goes, Unsent, IInv, Types, Shelf, Access, AccountTypeOK, ObjectRow, DeletionRow, JobState, rows
  <1>4. ASSUME NEW r \in Request, AskName(r) PROVE Shelf'
    BY <1>4 DEF AskName, Over, Unsent, IInv, Types, Shelf, Access, AccountTypeOK, ObjectRow, DeletionRow, JobState, rows
  <1>5. ASSUME NEW r \in Request, Register(r) PROVE Shelf'
    BY <1>5 DEF Register, Known, NewDevice, PushFits, PushOf, Over, Goes, Unsent, IInv, Types, Shelf, Access, AccountTypeOK, ObjectRow, DeletionRow, JobState, rows
  <1>6. ASSUME NEW r \in Request, ReadDevice(r) PROVE Shelf'
    BY <1>6 DEF ReadDevice, Mine, Sealed, Over, Unsent, IInv, Types, Shelf, Access, AccountTypeOK, ObjectRow, DeletionRow, JobState, rows
  <1>7. ASSUME NEW r \in Request, UpdatePush(r) PROVE Shelf'
    BY <1>7 DEF UpdatePush, Mine, PushFits, PushOf, Over, Goes, Unsent, IInv, Types, Shelf, Access, AccountTypeOK, ObjectRow, DeletionRow, JobState, rows
  <1>8. ASSUME NEW r \in Request, RevokeDevice(r) PROVE Shelf'
    BY <1>8 DEF RevokeDevice, Mine, Revoked, Over, Unsent, IInv, Types, Shelf, Access, AccountTypeOK, ObjectRow, DeletionRow, JobState, rows
  <1>9. ASSUME NEW r \in Request, SyncProfile(r) PROVE Shelf'
    BY <1>9 DEF SyncProfile, Over, Unsent, IInv, Types, Shelf, Access, AccountTypeOK, ObjectRow, DeletionRow, JobState, rows
  <1>10. ASSUME NEW r \in Request, RequestDeletion(r) PROVE Shelf'
    <2>1. CASE UNCHANGED rows
      BY <2>1 DEF rows, IInv, Shelf
    <2>. QED
      BY <1>10, <2>1, EnqueueEnds DEF RequestDeletion
  <1>11. ASSUME NEW w \in Workers, Claim(w) PROVE Shelf'
    BY <1>11 DEF Claim, FirstStep, Idle, Steps, IInv, Types, Shelf, Access, AccountTypeOK, ObjectRow, DeletionRow, JobState, rows
  <1>12. ASSUME NEW w \in Workers, AskGrant(w) PROVE Shelf'
    BY <1>12 DEF AskGrant, Works, Steps, IInv, Types, Shelf, Access, AccountTypeOK, ObjectRow, DeletionRow, JobState, rows
  <1>13. ASSUME NEW w \in Workers, Checkpoint(w) PROVE Shelf'
    BY <1>13 DEF Checkpoint, Fenced, GivesUp, Works, Idle, Steps, IInv, Types, Shelf, Access, AccountTypeOK, ObjectRow, DeletionRow, JobState, rows
  <1>14. ASSUME NEW w \in Workers, RevokeGrant(w) PROVE Shelf'
    BY <1>14 DEF RevokeGrant, Works, Steps, IInv, Types, Shelf, Access, AccountTypeOK, ObjectRow, DeletionRow, JobState, rows
  <1>15. ASSUME NEW w \in Workers, RemoveIdentity(w) PROVE Shelf'
    BY <1>15 DEF RemoveIdentity, Works, Steps, IInv, Types, Shelf, Access, AccountTypeOK, ObjectRow, DeletionRow, JobState, rows
  <1>16. ASSUME NEW w \in Workers, NoteRemoval(w) PROVE Shelf'
    BY <1>16 DEF NoteRemoval, Fenced, Works, Steps, IInv, Types, Shelf, Access, AccountTypeOK, ObjectRow, DeletionRow, JobState, rows
  <1>17. ASSUME NEW w \in Workers, ListObjects(w) PROVE Shelf'
    BY <1>17 DEF ListObjects, Steps, IInv, Types, Shelf, Access, AccountTypeOK, ObjectRow, DeletionRow, JobState, rows
  <1>18. ASSUME NEW w \in Workers, DeleteObject(w) PROVE Shelf'
    BY <1>18 DEF DeleteObject, IInv, Types, Shelf, Access, AccountTypeOK, ObjectRow, DeletionRow, JobState, rows
  <1>19. ASSUME NEW w \in Workers, MarkDeleted(w) PROVE Shelf'
    BY <1>19 DEF MarkDeleted, IInv, Types, Shelf, Access, AccountTypeOK, ObjectRow, DeletionRow, JobState, rows
  <1>20. ASSUME NEW w \in Workers, Finish(w) PROVE Shelf'
    <2>1. CASE Fenced(w) /\ deletion.listed = {} /\ Erase
               /\ deletion' = [deletion EXCEPT !.state = "COMPLETE", !.token = None, !.grant = FALSE]
      <3>1. deletion.state = "PENDING" /\ deletion'.state = "COMPLETE"
        BY <2>1 DEF Fenced, IInv, Types, AccountTypeOK, DeletionRow
      <3>2. ASSUME NEW o \in Objects
            PROVE  /\ ~object'[o].row /\ object'[o].granted = object[o].granted
                   /\ object'[o].stored = object[o].stored
        BY <2>1 DEF Erase, IInv, Types, AccountTypeOK, ObjectRow
      <3>. QED
        BY <2>1, <3>1, <3>2 DEF IInv, Shelf
    <2>2. CASE UNCHANGED rows \/ (deletion' = [deletion EXCEPT !.token = None, !.due = TRUE]
                                  /\ UNCHANGED <<user, refused, device, inTrip, object>>)
      BY <2>2 DEF rows, IInv, Types, AccountTypeOK, DeletionRow, Shelf
    <2>. QED
      BY <1>20, <2>1, <2>2 DEF Finish
  <1>21. ASSUME NEW w \in Workers, Fail(w) PROVE Shelf'
    BY <1>21 DEF Fail, GivesUp, Fenced, Idle, Steps, IInv, Types, Shelf, Access, AccountTypeOK, ObjectRow, DeletionRow, JobState, rows
  <1>22. ASSUME NEW w \in Workers, Crash(w) PROVE Shelf'
    BY <1>22 DEF Crash, Idle, Steps, IInv, Types, Shelf, Access, AccountTypeOK, ObjectRow, DeletionRow, JobState, rows
  <1>23. ASSUME NEW o \in Objects, OpenUpload(o) PROVE Shelf'
    BY <1>23 DEF OpenUpload, IInv, Types, Shelf, Access, AccountTypeOK, ObjectRow, DeletionRow, JobState, rows
  <1>24. ASSUME NEW o \in Objects, PutObject(o) PROVE Shelf'
    BY <1>24 DEF PutObject, IInv, Types, Shelf, Access, AccountTypeOK, ObjectRow, DeletionRow, JobState, rows
  <1>25. ASSUME UserDeletedEvent PROVE Shelf'
    <2>1. CASE refused
      <3>1. deletion'.state = deletion.state /\ deletion'.listed = deletion.listed
        BY <1>25, <2>1 DEF UserDeletedEvent, IInv, Types, AccountTypeOK, DeletionRow
      <3>. QED
        BY <1>25, <2>1, <3>1 DEF UserDeletedEvent, IInv, Shelf
    <2>2. CASE ~refused
      BY <1>25, <2>2, EnqueueEnds DEF UserDeletedEvent
    <2>. QED
      BY <2>1, <2>2
  <1>26. ASSUME ComesDue PROVE Shelf'
    BY <1>26 DEF ComesDue, IInv, Types, Shelf, Access, AccountTypeOK, ObjectRow, DeletionRow, JobState, rows
  <1>27. ASSUME JoinTrip PROVE Shelf'
    BY <1>27 DEF JoinTrip, Acts, IInv, Types, Shelf, Access, AccountTypeOK, ObjectRow, DeletionRow, JobState, rows
  <1>28. ASSUME IdentityLeaves PROVE Shelf'
    BY <1>28 DEF IdentityLeaves, IInv, Types, Shelf, Access, AccountTypeOK, ObjectRow, DeletionRow, JobState, rows
  <1>29. CASE UNCHANGED vars
    BY <1>29 DEF vars, IInv, Types, Shelf, Access, AccountTypeOK, ObjectRow, DeletionRow, JobState, rows
  <1>. QED
    BY <1>1, <1>2, <1>3, <1>4, <1>5, <1>6, <1>7, <1>8, <1>9, <1>10, <1>11, <1>12, <1>13,
       <1>14, <1>15, <1>16, <1>17, <1>18, <1>19, <1>20, <1>21, <1>22, <1>23, <1>24,
       <1>25, <1>26, <1>27, <1>28, <1>29
       DEF Next, Serve, Stage

(* Every step keeps what the rows and the workers know of the identity.    *)
LEMMA StepIdentity == IInv /\ [Next]_vars => Identity'
  <1>. SUFFICES ASSUME IInv, [Next]_vars PROVE Identity'
    OBVIOUS
  <1>1. ASSUME NEW r \in Request, Send(r) PROVE Identity'
    BY <1>1 DEF Send, Unsent, IInv, Types, Identity, AccountTypeOK, DeletionRow, JobState, rows, provider
  <1>2. ASSUME NEW r \in Request, Guard(r) PROVE Identity'
    BY <1>2 DEF Guard, Over, Goes, Unsent, IInv, Types, Identity, AccountTypeOK, DeletionRow, JobState, rows, provider
  <1>3. ASSUME NEW r \in Request, ReadRegistration(r) PROVE Identity'
    BY <1>3 DEF ReadRegistration, Known, Sealed, Over, Goes, Unsent, IInv, Types, Identity, AccountTypeOK, DeletionRow, JobState, rows, provider
  <1>4. ASSUME NEW r \in Request, AskName(r) PROVE Identity'
    BY <1>4 DEF AskName, Over, Unsent, IInv, Types, Identity, AccountTypeOK, DeletionRow, JobState, rows, provider
  <1>5. ASSUME NEW r \in Request, Register(r) PROVE Identity'
    BY <1>5 DEF Register, Known, NewDevice, PushFits, PushOf, Over, Goes, Unsent, IInv, Types, Identity, AccountTypeOK, DeletionRow, JobState, rows, provider
  <1>6. ASSUME NEW r \in Request, ReadDevice(r) PROVE Identity'
    BY <1>6 DEF ReadDevice, Mine, Sealed, Over, Unsent, IInv, Types, Identity, AccountTypeOK, DeletionRow, JobState, rows, provider
  <1>7. ASSUME NEW r \in Request, UpdatePush(r) PROVE Identity'
    BY <1>7 DEF UpdatePush, Mine, PushFits, PushOf, Over, Goes, Unsent, IInv, Types, Identity, AccountTypeOK, DeletionRow, JobState, rows, provider
  <1>8. ASSUME NEW r \in Request, RevokeDevice(r) PROVE Identity'
    BY <1>8 DEF RevokeDevice, Mine, Revoked, Over, Unsent, IInv, Types, Identity, AccountTypeOK, DeletionRow, JobState, rows, provider
  <1>9. ASSUME NEW r \in Request, SyncProfile(r) PROVE Identity'
    BY <1>9 DEF SyncProfile, Over, Unsent, IInv, Types, Identity, AccountTypeOK, DeletionRow, JobState, rows, provider
  <1>10. ASSUME NEW r \in Request, RequestDeletion(r) PROVE Identity'
    BY <1>10 DEF RequestDeletion, Enqueue, StopParticipation, Listed, NoDeletion, Revoked, Over, Unsent, IInv, Types, Identity, AccountTypeOK, DeletionRow, JobState, rows, provider
  <1>11. ASSUME NEW w \in Workers, Claim(w) PROVE Identity'
    BY <1>11 DEF Claim, FirstStep, Idle, Steps, IInv, Types, Identity, AccountTypeOK, DeletionRow, JobState, rows, provider
  <1>12. ASSUME NEW w \in Workers, AskGrant(w) PROVE Identity'
    BY <1>12 DEF AskGrant, Works, Steps, IInv, Types, Identity, AccountTypeOK, DeletionRow, JobState, rows, provider
  <1>13. ASSUME NEW w \in Workers, Checkpoint(w) PROVE Identity'
    <2> DEFINE over == job[w].step = "clearing"
    <2>0. /\ deletion \in DeletionRow /\ job \in [Workers -> JobState] /\ Identity
          /\ UNCHANGED <<clerk, apple>>
      BY <1>13 DEF Checkpoint, IInv, Types, AccountTypeOK, provider
    <2>1. CASE Fenced(w)
      <3>1. /\ deletion' = [deletion EXCEPT !.grant = ~over, !.revoked = over]
            /\ job' = [job EXCEPT ![w].step = IF over THEN "removing" ELSE "revoking"]
        BY <1>13, <2>1 DEF Checkpoint, Works
      <3>2. deletion'.noted = deletion.noted /\ deletion'.state = deletion.state
            /\ deletion'.revoked = over
        BY <2>0, <3>1 DEF DeletionRow
      <3>3. \A v \in Workers : job'[v].step = IF v # w THEN job[v].step
                                ELSE IF over THEN "removing" ELSE "revoking"
        BY <2>0, <3>1 DEF JobState
      <3>. QED
        BY <2>0, <3>2, <3>3 DEF Identity
    <2>2. CASE ~Fenced(w)
      <3>1. job' = [job EXCEPT ![w] = Idle] /\ deletion' = deletion
        BY <1>13, <2>2 DEF Checkpoint, GivesUp
      <3>2. \A v \in Workers : job'[v].step = IF v # w THEN job[v].step ELSE "idle"
        BY <2>0, <3>1 DEF Idle
      <3>. QED
        BY <2>0, <3>1, <3>2 DEF Identity
    <2>. QED
      BY <2>1, <2>2
  <1>14. ASSUME NEW w \in Workers, RevokeGrant(w) PROVE Identity'
    BY <1>14 DEF RevokeGrant, Works, Steps, IInv, Types, Identity, AccountTypeOK, DeletionRow, JobState, rows, provider
  <1>15. ASSUME NEW w \in Workers, RemoveIdentity(w) PROVE Identity'
    BY <1>15 DEF RemoveIdentity, Works, Steps, IInv, Types, Identity, AccountTypeOK, DeletionRow, JobState, rows, provider
  <1>16. ASSUME NEW w \in Workers, NoteRemoval(w) PROVE Identity'
    BY <1>16 DEF NoteRemoval, Fenced, Works, Steps, IInv, Types, Identity, AccountTypeOK, DeletionRow, JobState, rows, provider
  <1>17. ASSUME NEW w \in Workers, ListObjects(w) PROVE Identity'
    BY <1>17 DEF ListObjects, Steps, IInv, Types, Identity, AccountTypeOK, DeletionRow, JobState, rows, provider
  <1>18. ASSUME NEW w \in Workers, DeleteObject(w) PROVE Identity'
    BY <1>18 DEF DeleteObject, IInv, Types, Identity, AccountTypeOK, DeletionRow, JobState, rows, provider
  <1>19. ASSUME NEW w \in Workers, MarkDeleted(w) PROVE Identity'
    BY <1>19 DEF MarkDeleted, IInv, Types, Identity, AccountTypeOK, DeletionRow, JobState, rows, provider
  <1>20. ASSUME NEW w \in Workers, Finish(w) PROVE Identity'
    BY <1>20 DEF Finish, Fenced, Erase, Idle, Steps, IInv, Types, Identity, AccountTypeOK, DeletionRow, JobState, rows, provider
  <1>21. ASSUME NEW w \in Workers, Fail(w) PROVE Identity'
    BY <1>21 DEF Fail, GivesUp, Fenced, Idle, Steps, IInv, Types, Identity, AccountTypeOK, DeletionRow, JobState, rows, provider
  <1>22. ASSUME NEW w \in Workers, Crash(w) PROVE Identity'
    BY <1>22 DEF Crash, Idle, Steps, IInv, Types, Identity, AccountTypeOK, DeletionRow, JobState, rows, provider
  <1>23. ASSUME NEW o \in Objects, OpenUpload(o) PROVE Identity'
    BY <1>23 DEF OpenUpload, IInv, Types, Identity, AccountTypeOK, DeletionRow, JobState, rows, provider
  <1>24. ASSUME NEW o \in Objects, PutObject(o) PROVE Identity'
    BY <1>24 DEF PutObject, IInv, Types, Identity, AccountTypeOK, DeletionRow, JobState, rows, provider
  <1>25. ASSUME UserDeletedEvent PROVE Identity'
    BY <1>25 DEF UserDeletedEvent, Enqueue, StopParticipation, Listed, NoDeletion, Revoked, IInv, Types, Identity, AccountTypeOK, DeletionRow, JobState, rows, provider
  <1>26. ASSUME ComesDue PROVE Identity'
    BY <1>26 DEF ComesDue, IInv, Types, Identity, AccountTypeOK, DeletionRow, JobState, rows, provider
  <1>27. ASSUME JoinTrip PROVE Identity'
    BY <1>27 DEF JoinTrip, Acts, IInv, Types, Identity, AccountTypeOK, DeletionRow, JobState, rows, provider
  <1>28. ASSUME IdentityLeaves PROVE Identity'
    BY <1>28 DEF IdentityLeaves, IInv, Types, Identity, AccountTypeOK, DeletionRow, JobState, rows, provider
  <1>29. CASE UNCHANGED vars
    BY <1>29 DEF vars, IInv, Types, Identity, AccountTypeOK, DeletionRow, JobState, rows, provider
  <1>. QED
    BY <1>1, <1>2, <1>3, <1>4, <1>5, <1>6, <1>7, <1>8, <1>9, <1>10, <1>11, <1>12, <1>13,
       <1>14, <1>15, <1>16, <1>17, <1>18, <1>19, <1>20, <1>21, <1>22, <1>23, <1>24,
       <1>25, <1>26, <1>27, <1>28, <1>29
       DEF Next, Serve, Stage

-----------------------------------------------------------------------------
(* They satisfy the strengthening.                                         *)
LEMMA InitHolds == Init => IInv
  <1>. SUFFICES ASSUME Init PROVE IInv
    OBVIOUS
  <1>1. Access /\ Shelf /\ Identity
    BY DEF Init, Access, DeletedCannotAct, TokensOpen, Shelf, Identity, NoDeletion, Idle
  <1>. QED
    BY <1>1, InitTypes DEF IInv

(* The strengthening holds in every reachable state.                       *)
THEOREM ErasureInductive == Spec => []IInv
  <1>1. IInv /\ [Next]_vars => IInv'
    BY StepType, StepAccess, StepShelf, StepIdentity DEF IInv
  <1>. QED
    BY InitHolds, <1>1, PTL DEF Spec

(* Rows, provider, requests and workers keep their types, and a recorded   *)
(* erasure is one the subject has been refused for ever since.             *)
THEOREM AccountTypeCorrect == Spec => []AccountTypeOK
  <1>1. IInv => AccountTypeOK
    BY DEF IInv, Types
  <1>. QED
    BY <1>1, ErasureInductive, PTL

(* No request that was authorized before the deletion was accepted brings  *)
(* back a phone, a push token or a seat in a trip.                         *)
THEOREM DeletedNeverActs == Spec => []DeletedCannotAct
  <1>1. IInv => DeletedCannotAct
    BY DEF IInv, Access
  <1>. QED
    BY <1>1, ErasureInductive, PTL

(* A stored push token is sealed for the device row that holds it.         *)
THEOREM TokensAlwaysOpen == Spec => []TokensOpen
  <1>1. IInv => TokensOpen
    BY DEF IInv, Access
  <1>. QED
    BY <1>1, ErasureInductive, PTL

(* A finished erasure leaves no phone, upload row or ciphertext, and has   *)
(* ended the identity and Apple's grant.                                   *)
THEOREM ErasureLeavesNothing == Spec => []NothingLeftBehind
  <1>1. IInv => NothingLeftBehind
    BY DEF IInv, Access, Shelf, Identity, Types, AccountTypeOK, ObjectRow, NothingLeftBehind
  <1>. QED
    BY <1>1, ErasureInductive, PTL
=============================================================================
