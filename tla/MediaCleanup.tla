---------------------------- MODULE MediaCleanup ----------------------------
(***************************************************************************)
(* How ciphertext is retired: the scheduled workers of db/media/           *)
(* mediaCleanup.ts against the object store of worker/r2CiphertextStore.ts.*)
(* TripMedia retires an asset in one step; here a worker claims the item   *)
(* in one transaction, deletes its objects over the network, and closes    *)
(* the row in a second one, while other workers whose lease ran out, PUTs  *)
(* that passed the grant check long ago, renewed grants and commits that   *)
(* inspected the store before their transaction are still under way.       *)
(*                                                                         *)
(* Time is what has passed: a grant, a lease and the hard deadline are     *)
(* flags that some later step sets.  The handlers compare the clock with   *)
(* nothing else, so every order of these events is a behaviour, with the   *)
(* one constraint the code imposes: no grant outlives the hard deadline.   *)
(***************************************************************************)
EXTENDS Naturals

CONSTANTS
    Assets,     \* client asset ids, one upload session each
    Workers,    \* cleanup workers, of one scheduled pass or of several
    Tokens,     \* claim tokens, crypto.randomUUID()
    NoToken,    \* no row in media_cleanup_claims
    MaxFaults   \* model bound: workers that crash, fail or outlive their lease

ASSUME TokenAssumption == NoToken \notin Tokens
ASSUME FaultAssumption == MaxFaults \in Nat

VARIABLES
    deadline,   \* trips.hard_delete_at has passed
    expired,    \* upload_sessions.expires_at has passed
    session,    \* upload_sessions.state
    asset,      \* assets.state
    owed,       \* some delivery of the asset is READY
    store,      \* the object under each key
    puts,       \* PUTs that passed the grant check and have not landed
    looks,      \* what the commits under way found in the store
    claim,      \* media_cleanup_claims, its lease running or due
    work,       \* what each worker is doing
    faults

rows == <<session, asset, owed>>
vars == <<deadline, expired, session, asset, owed, store, puts, looks, claim, work, faults>>

Variants == {"PREVIEW", "ORIGINAL"}
Items == {"upload", "asset"} \X Assets
NoClaim == [token |-> NoToken, due |-> FALSE]
NoItem == <<"none", "none">>
Idle == [busy |-> FALSE, item |-> NoItem, token |-> NoToken, keys |-> {}]

Init ==
    /\ deadline = FALSE
    /\ expired = [a \in Assets |-> FALSE]
    /\ session = [a \in Assets |-> "NONE"]
    /\ asset = [a \in Assets |-> "NONE"]
    /\ owed = [a \in Assets |-> FALSE]
    /\ store = [a \in Assets |-> [v \in Variants |-> "EMPTY"]]
    /\ puts = {}
    /\ looks = [a \in Assets |-> {}]
    /\ claim = [i \in Items |-> NoClaim]
    /\ work = [w \in Workers |-> Idle]
    /\ faults = 0

Held(a) == {v \in Variants : store[a][v] = "CIPHERTEXT"}

(***************************************************************************)
(* Time.                                                                   *)
(***************************************************************************)
GrantExpires(a) ==
    /\ session[a] # "NONE" /\ ~expired[a]
    /\ expired' = [expired EXCEPT ![a] = TRUE]
    /\ UNCHANGED <<deadline, rows, store, puts, looks, claim, work, faults>>

DeadlinePasses ==
    /\ ~deadline
    /\ deadline' = TRUE
    /\ expired' = [a \in Assets |-> TRUE]
    /\ UNCHANGED <<rows, store, puts, looks, claim, work, faults>>

(* A claim's available_at passes: the backoff of a failure, the lease of a *)
(* crashed worker, or of one that is at work still and only slow.          *)
LeaseEnds(i) ==
    LET overrun == \E w \in Workers : work[w].busy /\ work[w].token = claim[i].token IN
    /\ claim[i].token # NoToken /\ ~claim[i].due
    /\ overrun => faults < MaxFaults
    /\ claim' = [claim EXCEPT ![i].due = TRUE]
    /\ faults' = IF overrun THEN faults + 1 ELSE faults
    /\ UNCHANGED <<deadline, expired, rows, store, puts, looks, work>>

-----------------------------------------------------------------------------
(***************************************************************************)
(* The media service.                                                      *)
(***************************************************************************)
CreateUpload(a) ==
    /\ ~deadline /\ session[a] = "NONE"
    /\ session' = [session EXCEPT ![a] = "CREATED"]
    /\ UNCHANGED <<deadline, expired, asset, owed, store, puts, looks, claim, work, faults>>

(* The same immutable keys are granted again after an interrupted upload.  *)
RenewUpload(a) ==
    /\ ~deadline /\ session[a] = "CREATED" /\ expired[a]
    /\ expired' = [expired EXCEPT ![a] = FALSE]
    /\ UNCHANGED <<deadline, rows, store, puts, looks, claim, work, faults>>

(* commit() inspects the store before it opens its transaction.            *)
InspectUpload(a) ==
    /\ session[a] = "CREATED"
    /\ looks' = [looks EXCEPT ![a] = @ \cup {Held(a)}]
    /\ UNCHANGED <<deadline, expired, rows, store, puts, claim, work, faults>>

(* Its transaction decides on what that inspection saw.                    *)
Commit(a) ==
    \E seen \in looks[a] :
       /\ looks' = [looks EXCEPT ![a] = @ \ {seen}]
       /\ IF session[a] = "CREATED" /\ ~expired[a] /\ ~deadline /\ seen = Variants
          THEN /\ session' = [session EXCEPT ![a] = "COMMITTED"]
               /\ asset' = [asset EXCEPT ![a] = "COMMITTED"]
               /\ owed' = [owed EXCEPT ![a] = TRUE]
          ELSE UNCHANGED rows
       /\ UNCHANGED <<deadline, expired, store, puts, claim, work, faults>>

(* The last recipient's receipt arrives.                                   *)
Saved(a) ==
    /\ ~deadline /\ owed[a]
    /\ owed' = [owed EXCEPT ![a] = FALSE]
    /\ asset' = [asset EXCEPT ![a] = "PURGE_PENDING"]
    /\ UNCHANGED <<deadline, expired, session, store, puts, looks, claim, work, faults>>

(* Or a departure waives the last delivery: the asset then waits for the   *)
(* hard deadline.                                                          *)
Waive(a) ==
    /\ owed[a]
    /\ owed' = [owed EXCEPT ![a] = FALSE]
    /\ UNCHANGED <<deadline, expired, session, asset, store, puts, looks, claim, work, faults>>

-----------------------------------------------------------------------------
(***************************************************************************)
(* The object store.                                                       *)
(***************************************************************************)
(* A PUT whose grant is valid and whose key holds no ciphertext starts to  *)
(* stream; it may land at any later time, the grant long expired.          *)
BeginPut(a, v) ==
    /\ session[a] \in {"CREATED", "COMMITTED"} /\ ~expired[a]
    /\ store[a][v] # "CIPHERTEXT" /\ <<a, v>> \notin puts
    /\ puts' = puts \cup {<<a, v>>}
    /\ UNCHANGED <<deadline, expired, rows, store, looks, claim, work, faults>>

(* Slip: the PUT is not create-only. *)
OverwritingPut(a, v) ==
    /\ <<a, v>> \in puts
    /\ puts' = puts \ {<<a, v>>}
    /\ store' = [store EXCEPT ![a][v] = "CIPHERTEXT"]
    /\ UNCHANGED <<deadline, expired, rows, looks, claim, work, faults>>

(* The write is create-only: any object, a tombstone too, keeps its key.   *)
FinishPut(a, v) ==
    /\ <<a, v>> \in puts
    /\ puts' = puts \ {<<a, v>>}
    /\ store' = IF store[a][v] = "EMPTY" THEN [store EXCEPT ![a][v] = "CIPHERTEXT"] ELSE store
    /\ UNCHANGED <<deadline, expired, rows, looks, claim, work, faults>>

AbortPut(a, v) ==
    /\ <<a, v>> \in puts
    /\ puts' = puts \ {<<a, v>>}
    /\ UNCHANGED <<deadline, expired, rows, store, looks, claim, work, faults>>

-----------------------------------------------------------------------------
(***************************************************************************)
(* A cleanup worker.                                                       *)
(***************************************************************************)
(* Slip: an upload is retired with its grant, before the hard deadline. *)
EligibleOnceExpired(i) ==
    LET a == i[2] IN
    IF i[1] = "upload" THEN session[a] = "CREATED" /\ expired[a]
    ELSE expired[a] /\ (asset[a] = "PURGE_PENDING" \/ (asset[a] = "COMMITTED" /\ deadline))

Eligible(i) ==
    LET a == i[2] IN
    /\ expired[a]
    /\ IF i[1] = "upload" THEN session[a] = "CREATED" /\ deadline
       ELSE asset[a] = "PURGE_PENDING" \/ (asset[a] = "COMMITTED" /\ deadline)

Fresh(t) == (\A i \in Items : claim[i].token # t) /\ (\A w \in Workers : work[w].token # t)

(* Slip: the worker keeps the id of the row and not its kind. *)
TakeIdOnly(w, i, t) ==
    /\ ~work[w].busy /\ Fresh(t) /\ Eligible(i)
    /\ claim' = [claim EXCEPT ![i] = [token |-> t, due |-> FALSE]]
    /\ work' = [work EXCEPT ![w] = [busy |-> TRUE, item |-> i[2], token |-> t, keys |-> Variants]]
    /\ UNCHANGED <<deadline, expired, rows, store, puts, looks, faults>>

(* Worker w owns item i under token t and has read its keys.               *)
Take(w, i, t) ==
    /\ ~work[w].busy /\ Fresh(t) /\ Eligible(i)
    /\ claim' = [claim EXCEPT ![i] = [token |-> t, due |-> FALSE]]
    /\ work' = [work EXCEPT ![w] = [busy |-> TRUE, item |-> i, token |-> t, keys |-> Variants]]
    /\ UNCHANGED <<deadline, expired, rows, store, puts, looks, faults>>

(* Slip: on conflict do nothing, a claim is never taken over. *)
ClaimUntaken(i) == claim[i].token = NoToken /\ \E w \in Workers, t \in Tokens : Take(w, i, t)

(* The claim is new, or its lease or backoff is over.                      *)
Claim(i) == /\ claim[i].token = NoToken \/ claim[i].due
            /\ \E w \in Workers, t \in Tokens : Take(w, i, t)

(* Slip: delete removes the object and leaves no marker. *)
UnlinkObject(w, v) ==
    /\ work[w].busy /\ v \in work[w].keys
    /\ store' = [store EXCEPT ![work[w].item[2]][v] = "EMPTY"]
    /\ work' = [work EXCEPT ![w].keys = @ \ {v}]
    /\ UNCHANGED <<deadline, expired, rows, puts, looks, claim, faults>>

(* store.delete: a marker that is never removed replaces the object.  The  *)
(* worker does not look whether its lease still runs.                      *)
DeleteObject(w, v) ==
    /\ work[w].busy /\ v \in work[w].keys
    /\ store' = [store EXCEPT ![work[w].item[2]][v] = "TOMBSTONE"]
    /\ work' = [work EXCEPT ![w].keys = @ \ {v}]
    /\ UNCHANGED <<deadline, expired, rows, puts, looks, claim, faults>>

(* The second transaction closes the row if the item is still eligible and *)
(* the claim still this worker's; otherwise it changes nothing.            *)
Finalize(w) ==
    LET i == work[w].item  a == i[2] IN
    /\ work[w].busy /\ work[w].keys = {}
    /\ IF Eligible(i) /\ claim[i].token = work[w].token
       THEN /\ claim' = [claim EXCEPT ![i] = NoClaim]
            /\ IF i[1] = "upload"
               THEN session' = [session EXCEPT ![a] = "EXPIRED"] /\ UNCHANGED <<asset, owed>>
               ELSE /\ asset' = [asset EXCEPT ![a] = IF @ = "PURGE_PENDING" THEN "PURGED"
                                                     ELSE "EXPIRED"]
                    /\ owed' = [owed EXCEPT ![a] = FALSE]
                    /\ UNCHANGED session
       ELSE UNCHANGED <<claim, rows>>
    /\ work' = [work EXCEPT ![w] = Idle]
    /\ UNCHANGED <<deadline, expired, store, puts, looks, faults>>

(* A request to the store or to the database fails: the claim, if it is    *)
(* still this worker's, is due again after a backoff.                      *)
Fail(w) ==
    LET i == work[w].item IN
    /\ work[w].busy /\ faults < MaxFaults
    /\ faults' = faults + 1
    /\ claim' = IF claim[i].token = work[w].token THEN [claim EXCEPT ![i].due = FALSE]
                ELSE claim
    /\ work' = [work EXCEPT ![w] = Idle]
    /\ UNCHANGED <<deadline, expired, rows, store, puts, looks>>

(* The isolate is evicted: nothing records it.                             *)
Crash(w) ==
    /\ work[w].busy /\ faults < MaxFaults
    /\ faults' = faults + 1
    /\ work' = [work EXCEPT ![w] = Idle]
    /\ UNCHANGED <<deadline, expired, rows, store, puts, looks, claim>>

-----------------------------------------------------------------------------
Clock == DeadlinePasses \/ (\E a \in Assets : GrantExpires(a)) \/ (\E i \in Items : LeaseEnds(i))

Service == \E a \in Assets : \/ CreateUpload(a) \/ RenewUpload(a) \/ InspectUpload(a)
                             \/ Commit(a) \/ Saved(a) \/ Waive(a)

Store == \E a \in Assets, v \in Variants : BeginPut(a, v) \/ FinishPut(a, v) \/ AbortPut(a, v)

Worker(w) == \/ \E v \in Variants : DeleteObject(w, v)
             \/ Finalize(w) \/ Fail(w) \/ Crash(w)

Next == \/ Clock \/ Service \/ Store
        \/ \E i \in Items : Claim(i)
        \/ \E w \in Workers : Worker(w)

(* Time passes, the handler is scheduled every minute, and a worker that   *)
(* neither fails nor crashes goes on.  Nothing is assumed of the phones.   *)
Fairness ==
    /\ WF_vars(DeadlinePasses)
    /\ \A i \in Items : WF_vars(LeaseEnds(i)) /\ WF_vars(Claim(i))
    /\ \A w \in Workers : /\ WF_vars(Finalize(w))
                          /\ \A v \in Variants : WF_vars(DeleteObject(w, v))

Spec == Init /\ [][Next]_vars
FairSpec == Spec /\ Fairness

-----------------------------------------------------------------------------
Closed(a) == asset[a] \in {"PURGED", "EXPIRED"} \/ session[a] = "EXPIRED"

ClaimRow == [token : Tokens \cup {NoToken}, due : BOOLEAN]
Job == [busy : BOOLEAN, item : Items \cup {NoItem}, token : Tokens \cup {NoToken},
        keys : SUBSET Variants]

(* Types of the rows, the store, the claims and the workers.               *)
TypeOK ==
    /\ deadline \in BOOLEAN
    /\ expired \in [Assets -> BOOLEAN]
    /\ session \in [Assets -> {"NONE", "CREATED", "COMMITTED", "EXPIRED"}]
    /\ asset \in [Assets -> {"NONE", "COMMITTED", "PURGE_PENDING", "PURGED", "EXPIRED"}]
    /\ owed \in [Assets -> BOOLEAN]
    /\ store \in [Assets -> [Variants -> {"EMPTY", "CIPHERTEXT", "TOMBSTONE"}]]
    /\ puts \subseteq Assets \X Variants
    /\ looks \in [Assets -> SUBSET SUBSET Variants]
    /\ claim \in [Items -> ClaimRow]
    /\ work \in [Workers -> Job]
    /\ \A w \in Workers : work[w].busy => work[w].item \in Items

(* "The R2 adapter fences late PUTs": once a row is closed each of its     *)
(* keys holds a tombstone, whatever PUT or worker is still under way.      *)
RetiredForGood ==
    \A a \in Assets : Closed(a) => \A v \in Variants : store[a][v] = "TOMBSTONE"

(* No worker, however late, takes away what a recipient may still fetch or *)
(* an uploader still commit: a commit decides on an inspection that is     *)
(* still true.                                                             *)
NeverRetiredEarly ==
    \A a \in Assets : ~deadline =>
        /\ owed[a] => Held(a) = Variants
        /\ session[a] = "CREATED" => \A seen \in looks[a] : seen \subseteq Held(a)

(* Cleanup implements the promise of Retention.                            *)
Phase(a) == IF Closed(a) THEN "CLOSED"
            ELSE IF deadline \/ (asset[a] # "NONE" /\ ~owed[a]) THEN "RELEASED"
            ELSE IF owed[a] THEN "OWED"
            ELSE "OPEN"

Promised == INSTANCE Retention WITH
    phase <- [a \in Assets |-> Phase(a)],
    readable <- [a \in Assets |-> Held(a)],
    erased <- [a \in Assets |-> {v \in Variants : store[a][v] = "TOMBSTONE"}]

(* Every step of a worker, a PUT or a request is a step Retention allows,  *)
(* or none it can see.                                                     *)
ImplementsRetention == Promised!Spec

(* Crashes, failures and lost leases delay cleanup but never stop it: all  *)
(* ciphertext goes, and no claim is left behind.                           *)
EverythingRetired ==
    <>[](\A a \in Assets : Held(a) = {} /\ \A i \in Items : claim[i] = NoClaim)
=============================================================================
