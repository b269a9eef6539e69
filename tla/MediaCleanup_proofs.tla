------------------------ MODULE MediaCleanup_proofs ------------------------
(* Proofs about MediaCleanup, for any number of assets, workers, tokens    *)
(* and faults: the fences that keep retired keys retired, and that cleanup *)
(* implements Retention.                                                   *)
EXTENDS MediaCleanup, TLAPS

(* The rows and the store keep their types: the actions that touch neither *)
(* claims nor workers.                                                     *)
LEMMA ServiceType == ASSUME TypeOK, Service \/ Store PROVE TypeOK'
  <1>1. ASSUME NEW a \in Assets, CreateUpload(a) PROVE TypeOK'
    BY <1>1 DEF CreateUpload, TypeOK, rows
  <1>2. ASSUME NEW a \in Assets, RenewUpload(a) PROVE TypeOK'
    BY <1>2 DEF RenewUpload, TypeOK, rows
  <1>3. ASSUME NEW a \in Assets, InspectUpload(a) PROVE TypeOK'
    <2>1. Held(a) \in SUBSET Variants
      BY DEF Held
    <2>2. looks[a] \cup {Held(a)} \in SUBSET SUBSET Variants
      BY <2>1 DEF TypeOK
    <2>. QED
      BY <1>3, <2>2 DEF InspectUpload, TypeOK, rows
  <1>4. ASSUME NEW a \in Assets, Commit(a) PROVE TypeOK'
    <2>1. PICK seen \in looks[a] : Commit(a)!(seen)
      BY <1>4 DEF Commit
    <2>2. looks' \in [Assets -> SUBSET SUBSET Variants]
      <3>1. looks[a] \ {seen} \in SUBSET SUBSET Variants
        BY DEF TypeOK
      <3>. QED
        BY <2>1, <3>1 DEF TypeOK
    <2>3. UNCHANGED <<deadline, expired, store, puts, claim, work, faults>>
      BY <2>1
    <2>4. CASE UNCHANGED rows
      BY <2>2, <2>3, <2>4 DEF TypeOK, rows
    <2>5. CASE /\ session' = [session EXCEPT ![a] = "COMMITTED"]
               /\ asset' = [asset EXCEPT ![a] = "COMMITTED"]
               /\ owed' = [owed EXCEPT ![a] = TRUE]
      BY <2>2, <2>3, <2>5 DEF TypeOK
    <2>. QED
      BY <2>1, <2>4, <2>5
  <1>5. ASSUME NEW a \in Assets, Saved(a) PROVE TypeOK'
    BY <1>5 DEF Saved, TypeOK, rows
  <1>6. ASSUME NEW a \in Assets, Waive(a) PROVE TypeOK'
    BY <1>6 DEF Waive, TypeOK, rows
  <1>7. ASSUME NEW a \in Assets, NEW v \in Variants, BeginPut(a, v) PROVE TypeOK'
    BY <1>7 DEF BeginPut, TypeOK, rows
  <1>8. ASSUME NEW a \in Assets, NEW v \in Variants, FinishPut(a, v) PROVE TypeOK'
    BY <1>8 DEF FinishPut, TypeOK, rows
  <1>9. ASSUME NEW a \in Assets, NEW v \in Variants, AbortPut(a, v) PROVE TypeOK'
    BY <1>9 DEF AbortPut, TypeOK, rows
  <1>. QED
    BY <1>1, <1>2, <1>3, <1>4, <1>5, <1>6, <1>7, <1>8, <1>9 DEF Service, Store

(* So do those of the clock and of the workers.                            *)
LEMMA WorkerType ==
    ASSUME TypeOK, Clock \/ (\E i \in Items : Claim(i)) \/ (\E w \in Workers : Worker(w))
    PROVE  TypeOK'
  <1>1. CASE DeadlinePasses
    BY <1>1 DEF DeadlinePasses, TypeOK, rows
  <1>2. ASSUME NEW a \in Assets, GrantExpires(a) PROVE TypeOK'
    BY <1>2 DEF GrantExpires, TypeOK, rows
  <1>3. ASSUME NEW i \in Items, LeaseEnds(i) PROVE TypeOK'
    <2>1. [claim[i] EXCEPT !.due = TRUE] \in ClaimRow
      BY DEF TypeOK, ClaimRow
    <2>. QED
      BY <1>3, <2>1 DEF LeaseEnds, TypeOK, rows
  <1>4. ASSUME NEW i \in Items, NEW w \in Workers, NEW t \in Tokens, Take(w, i, t) PROVE TypeOK'
    <2>1. [token |-> t, due |-> FALSE] \in ClaimRow
      BY DEF ClaimRow
    <2>2. [busy |-> TRUE, item |-> i, token |-> t, keys |-> Variants] \in Job
      BY DEF Job
    <2>. QED
      BY <1>4, <2>1, <2>2 DEF Take, TypeOK, rows
  <1>5. ASSUME NEW w \in Workers, NEW v \in Variants, DeleteObject(w, v) PROVE TypeOK'
    <2>1. PICK i \in Items : work[w].item = i
      BY <1>5 DEF DeleteObject, TypeOK
    <2>2. i[2] \in Assets
      BY DEF Items
    <2>3. store' \in [Assets -> [Variants -> {"EMPTY", "CIPHERTEXT", "TOMBSTONE"}]]
      BY <1>5, <2>1, <2>2 DEF DeleteObject, TypeOK
    <2>4. /\ [work[w] EXCEPT !.keys = @ \ {v}] \in Job
          /\ [work[w] EXCEPT !.keys = @ \ {v}].item = work[w].item
      BY DEF TypeOK, Job
    <2>5. work' = [work EXCEPT ![w] = [work[w] EXCEPT !.keys = @ \ {v}]]
      BY <1>5 DEF DeleteObject
    <2>. QED
      BY <1>5, <2>1, <2>3, <2>4, <2>5 DEF DeleteObject, TypeOK, rows
  <1>6. ASSUME NEW w \in Workers, Finalize(w) PROVE TypeOK'
    <2>1. work[w].item \in Items /\ work[w].item[2] \in Assets
      BY <1>6 DEF Finalize, TypeOK, Items
    <2>2. Idle \in Job /\ ~Idle.busy /\ NoClaim \in ClaimRow
      BY DEF Idle, Job, NoClaim, ClaimRow
    <2>3. claim' \in [Items -> ClaimRow]
      BY <1>6, <2>1, <2>2 DEF Finalize, TypeOK
    <2>4. work' \in [Workers -> Job] /\ \A x \in Workers : work'[x].busy => work'[x].item \in Items
      BY <1>6, <2>2 DEF Finalize, TypeOK
    <2>. HIDE DEF Idle, NoClaim
    <2>. QED
      BY <1>6, <2>1, <2>3, <2>4 DEF Finalize, TypeOK, rows
  <1>7. ASSUME NEW w \in Workers, Fail(w) PROVE TypeOK'
    <2>1. Idle \in Job /\ ~Idle.busy
      BY DEF Idle, Job
    <2>2. claim' \in [Items -> ClaimRow]
      BY <1>7 DEF Fail, TypeOK, ClaimRow
    <2>. QED
      BY <1>7, <2>1, <2>2 DEF Fail, TypeOK, rows
  <1>8. ASSUME NEW w \in Workers, Crash(w) PROVE TypeOK'
    <2>1. Idle \in Job /\ ~Idle.busy
      BY DEF Idle, Job
    <2>. QED
      BY <1>8, <2>1 DEF Crash, TypeOK, rows
  <1>. QED
    BY <1>1, <1>2, <1>3, <1>4, <1>5, <1>6, <1>7, <1>8 DEF Clock, Claim, Worker

(* The types hold initially.                                               *)
LEMMA InitType == ASSUME Init PROVE TypeOK
  <1>1. Idle \in Job /\ ~Idle.busy /\ NoClaim \in ClaimRow
    BY DEF Idle, Job, NoClaim, ClaimRow
  <1>. QED
    BY <1>1 DEF Init, TypeOK

(* Type correctness of the rows, the store, the claims and the workers.    *)
THEOREM TypeCorrect == Spec => []TypeOK
  <1>1. Init => TypeOK
    BY InitType
  <1>2. TypeOK /\ [Next]_vars => TypeOK'
    <2>1. CASE UNCHANGED vars
      BY <2>1 DEF vars, rows, TypeOK
    <2>. QED
      BY <2>1, ServiceType, WorkerType DEF Next
  <1>. QED
    BY <1>1, <1>2, PTL DEF Spec

-----------------------------------------------------------------------------
(***************************************************************************)
(* The fences.  A key is fenced only for an asset that is released, which  *)
(* is what a claim established and nothing undoes; a worker past its lease *)
(* therefore does no harm, and the second eligibility check is what keeps  *)
(* the row from being closed twice.                                        *)
(***************************************************************************)
Released(a) == deadline \/ asset[a] \in {"PURGE_PENDING", "PURGED"}

Rows == \A a \in Assets :
    /\ asset[a] # "NONE" <=> session[a] = "COMMITTED"
    /\ owed[a] => asset[a] = "COMMITTED"
    /\ asset[a] = "EXPIRED" \/ session[a] = "EXPIRED" => deadline

Fences == \A a \in Assets, v \in Variants :
    /\ store[a][v] = "TOMBSTONE" => Released(a)
    /\ Closed(a) => store[a][v] = "TOMBSTONE"

Sights == \A a \in Assets : ~deadline =>
    /\ owed[a] => Held(a) = Variants
    /\ session[a] \in {"NONE", "CREATED"} => \A seen \in looks[a] : seen \subseteq Held(a)

Jobs == \A w \in Workers : work[w].busy =>
    /\ Released(work[w].item[2])
    /\ \A v \in Variants \ work[w].keys : store[work[w].item[2]][v] = "TOMBSTONE"

IInv == TypeOK /\ Rows /\ Fences /\ Sights /\ Jobs

(* The invariant holds initially.                                          *)
LEMMA InitIInv == Init => IInv
  <1>. SUFFICES ASSUME Init PROVE IInv
    OBVIOUS
  <1>1. TypeOK
    BY InitType
  <1>2. Rows /\ Fences
    BY DEF Init, Rows, Fences, Closed, Released
  <1>3. Sights
    BY DEF Init, Sights
  <1>4. Jobs
    BY DEF Init, Jobs, Idle
  <1>. QED
    BY <1>1, <1>2, <1>3, <1>4 DEF IInv

(* Requests and PUTs keep the fences: none of them writes a fenced key or  *)
(* takes an asset out of its release.                                      *)
LEMMA ServiceKeepsIInv == ASSUME IInv, Service \/ Store PROVE IInv'
  <1>. USE DEF IInv, TypeOK, Rows, Fences, Sights, Jobs, Released, Closed, Held, rows
  <1>0. TypeOK'
    BY ServiceType
  <1>1. ASSUME NEW a \in Assets, CreateUpload(a) PROVE IInv'
    BY <1>0, <1>1 DEF CreateUpload
  <1>2. ASSUME NEW a \in Assets, RenewUpload(a) PROVE IInv'
    BY <1>0, <1>2 DEF RenewUpload
  <1>3. ASSUME NEW a \in Assets, InspectUpload(a) PROVE IInv'
    BY <1>0, <1>3 DEF InspectUpload
  <1>4. ASSUME NEW a \in Assets, Commit(a) PROVE IInv'
    <2>1. PICK seen \in looks[a] : Commit(a)!(seen)
      BY <1>4 DEF Commit
    <2>2. \A b \in Assets : looks'[b] \subseteq looks[b]
      BY <2>1
    <2>3. UNCHANGED <<deadline, expired, store, puts, claim, work, faults>>
      BY <2>1
    <2>4. CASE UNCHANGED rows
      BY <1>0, <2>2, <2>3, <2>4
    <2>5. CASE session[a] = "CREATED" /\ ~expired[a] /\ ~deadline /\ seen = Variants
      <3>1. /\ session' = [session EXCEPT ![a] = "COMMITTED"]
            /\ asset' = [asset EXCEPT ![a] = "COMMITTED"]
            /\ owed' = [owed EXCEPT ![a] = TRUE]
        BY <2>1, <2>5
      <3>2. Variants = Held(a)
        BY <2>5
      <3>3. Rows'
        BY <3>1, <2>3
      <3>4. Fences'
        BY <3>1, <2>3, <2>5
      <3>5. Sights'
        <4>. SUFFICES ASSUME NEW b \in Assets, ~deadline
             PROVE /\ owed'[b] => Held(b) = Variants
                   /\ session'[b] \in {"NONE", "CREATED"} =>
                        \A s \in looks'[b] : s \subseteq Held(b)
          BY <2>3
        <4>1. CASE b = a
          BY <3>1, <3>2, <4>1
        <4>2. CASE b # a
          BY <3>1, <2>2, <4>2
        <4>. QED
          BY <4>1, <4>2
      <3>6. Jobs'
        <4>. SUFFICES ASSUME NEW w \in Workers, work[w].busy
             PROVE  Released(work[w].item[2])' /\ work[w].item[2] # a
          BY <2>3
        <4>1. Released(work[w].item[2]) /\ work[w].item[2] \in Assets
          BY DEF Items
        <4>2. ~Released(a)
          BY <2>5
        <4>. QED
          BY <4>1, <4>2, <3>1, <2>3
      <3>. QED
        BY <1>0, <3>3, <3>4, <3>5, <3>6
    <2>. QED
      BY <2>1, <2>4, <2>5
  <1>5. ASSUME NEW a \in Assets, Saved(a) PROVE IInv'
    BY <1>0, <1>5 DEF Saved
  <1>6. ASSUME NEW a \in Assets, Waive(a) PROVE IInv'
    BY <1>0, <1>6 DEF Waive
  <1>7. ASSUME NEW a \in Assets, NEW v \in Variants, BeginPut(a, v) PROVE IInv'
    BY <1>0, <1>7 DEF BeginPut
  <1>8. ASSUME NEW a \in Assets, NEW v \in Variants, FinishPut(a, v) PROVE IInv'
    BY <1>0, <1>8 DEF FinishPut
  <1>9. ASSUME NEW a \in Assets, NEW v \in Variants, AbortPut(a, v) PROVE IInv'
    BY <1>0, <1>9 DEF AbortPut
  <1>. QED
    BY <1>1, <1>2, <1>3, <1>4, <1>5, <1>6, <1>7, <1>8, <1>9 DEF Service, Store

(* The clock and the workers keep the fences: a claim is taken only of a   *)
(* released item, and a row is closed only by a worker that fenced all of  *)
(* its keys.                                                               *)
LEMMA WorkerKeepsIInv ==
    ASSUME IInv, Clock \/ (\E i \in Items : Claim(i)) \/ (\E w \in Workers : Worker(w))
    PROVE  IInv'
  <1>. USE DEF IInv, Rows, Fences, Sights, Jobs, Released, Closed, Held, rows
  <1>0. TypeOK /\ TypeOK'
    BY WorkerType
  <1>a. ASSUME NEW w \in Workers, work[w].busy
        PROVE  work[w].item \in Items /\ work[w].item[2] \in Assets
    BY <1>0, <1>a DEF TypeOK, Items
  <1>1. CASE DeadlinePasses
    BY <1>0, <1>1 DEF DeadlinePasses
  <1>2. ASSUME NEW a \in Assets, GrantExpires(a) PROVE IInv'
    BY <1>0, <1>2 DEF GrantExpires
  <1>3. ASSUME NEW i \in Items, LeaseEnds(i) PROVE IInv'
    BY <1>0, <1>3 DEF LeaseEnds
  <1>4. ASSUME NEW i \in Items, NEW w \in Workers, NEW t \in Tokens, Take(w, i, t) PROVE IInv'
    <2>1. UNCHANGED <<deadline, expired, session, asset, owed, store, looks>>
      BY <1>4 DEF Take
    <2>2. Released(i[2])
      BY <1>4 DEF Take, Eligible
    <2>3. \A x \in Workers : \/ work'[x] = work[x]
                             \/ work'[x].item = i /\ work'[x].keys = Variants
      BY <1>0, <1>4 DEF Take, TypeOK
    <2>. QED
      BY <1>0, <2>1, <2>2, <2>3
  <1>5. ASSUME NEW w \in Workers, NEW v \in Variants, DeleteObject(w, v) PROVE IInv'
    <2>. DEFINE a == work[w].item[2]
    <2>1. a \in Assets /\ Released(a) /\ work[w].busy
      BY <1>5, <1>a DEF DeleteObject
    <2>2. UNCHANGED <<deadline, expired, session, asset, owed, looks>>
      BY <1>5 DEF DeleteObject
    <2>3. store' = [store EXCEPT ![a][v] = "TOMBSTONE"]
      BY <1>5 DEF DeleteObject
    <2>4. \A x \in Workers : /\ work'[x].busy = work[x].busy /\ work'[x].item = work[x].item
                             /\ work'[x].keys = IF x = w THEN work[w].keys \ {v} ELSE work[x].keys
      BY <1>0, <1>5 DEF DeleteObject, TypeOK, Job
    <2>. HIDE DEF a
    <2>5. \A b \in Assets, u \in Variants : store'[b][u] =
             IF b = a /\ u = v THEN "TOMBSTONE" ELSE store[b][u]
      BY <1>0, <2>1, <2>3 DEF TypeOK
    <2>6. Rows' /\ Fences'
      BY <2>1, <2>2, <2>5
    <2>7. Sights'
      BY <2>1, <2>2, <2>5
    <2>8. Jobs'
      <3>. SUFFICES ASSUME NEW x \in Workers, work'[x].busy
           PROVE /\ deadline' \/ asset'[work[x].item[2]] \in {"PURGE_PENDING", "PURGED"}
                 /\ \A u \in Variants \ work'[x].keys : store'[work[x].item[2]][u] = "TOMBSTONE"
        BY <2>4
      <3>1. work[x].item[2] \in Assets /\ Released(work[x].item[2])
        <4>1. work[x].busy
          BY <2>4
        <4>2. work[x].item[2] \in Assets
          BY <4>1, <1>a
        <4>. QED
          BY <4>1, <4>2
      <3>2. deadline' \/ asset'[work[x].item[2]] \in {"PURGE_PENDING", "PURGED"}
        BY <3>1, <2>2
      <3>3. CASE x = w
        BY <3>1, <3>2, <3>3, <2>4, <2>5 DEF a
      <3>4. CASE x # w
        BY <3>1, <3>2, <3>4, <2>4, <2>5
      <3>. QED
        BY <3>3, <3>4
    <2>. QED
      BY <1>0, <2>6, <2>7, <2>8
  <1>6. ASSUME NEW w \in Workers, Finalize(w) PROVE IInv'
    <2>. DEFINE i == work[w].item  a == i[2]
    <2>1. i \in Items /\ a \in Assets /\ Released(a) /\ \A v \in Variants : store[a][v] = "TOMBSTONE"
      BY <1>6, <1>a DEF Finalize
    <2>2. UNCHANGED <<deadline, expired, store, looks>>
      BY <1>6 DEF Finalize
    <2>3. \A x \in Workers : work'[x].busy => work'[x] = work[x]
      BY <1>0, <1>6 DEF Finalize, TypeOK, Idle
    <2>. HIDE DEF a, i
    <2>4. CASE UNCHANGED rows
      BY <1>0, <2>2, <2>3, <2>4
    <2>5. CASE /\ session[a] = "CREATED" /\ deadline
               /\ session' = [session EXCEPT ![a] = "EXPIRED"] /\ UNCHANGED <<asset, owed>>
      BY <1>0, <2>1, <2>2, <2>3, <2>5 DEF TypeOK
    <2>6. CASE /\ asset[a] = "PURGE_PENDING" \/ (asset[a] = "COMMITTED" /\ deadline)
               /\ asset' = [asset EXCEPT ![a] = IF asset[a] = "PURGE_PENDING" THEN "PURGED"
                                                ELSE "EXPIRED"]
               /\ owed' = [owed EXCEPT ![a] = FALSE] /\ UNCHANGED session
      <3>1. Rows' /\ Fences' /\ Sights'
        BY <1>0, <2>1, <2>2, <2>6 DEF TypeOK
      <3>2. Jobs'
        <4>. SUFFICES ASSUME NEW x \in Workers, work[x].busy, work'[x] = work[x]
             PROVE  deadline' \/ asset'[work[x].item[2]] \in {"PURGE_PENDING", "PURGED"}
          BY <2>2, <2>3
        <4>1. Released(work[x].item[2]) /\ work[x].item[2] \in Assets
          BY <1>a
        <4>. QED
          BY <1>0, <4>1, <2>2, <2>6 DEF TypeOK
      <3>. QED
        BY <1>0, <3>1, <3>2
    <2>. QED
      BY <1>6, <2>4, <2>5, <2>6 DEF Finalize, Eligible, i, a
  <1>7. ASSUME NEW w \in Workers, Fail(w) \/ Crash(w) PROVE IInv'
    <2>1. UNCHANGED <<deadline, expired, session, asset, owed, store, looks>>
      BY <1>7 DEF Fail, Crash
    <2>2. \A x \in Workers : work'[x].busy => work'[x] = work[x]
      BY <1>0, <1>7 DEF Fail, Crash, TypeOK, Idle
    <2>. QED
      BY <1>0, <2>1, <2>2
  <1>. QED
    BY <1>1, <1>2, <1>3, <1>4, <1>5, <1>6, <1>7 DEF Clock, Claim, Worker

(* The strengthened invariant is inductive.                                *)
THEOREM Inductive == Spec => []IInv
  <1>1. IInv /\ [Next]_vars => IInv'
    <2>1. CASE UNCHANGED vars
      BY <2>1 DEF vars, rows, IInv, TypeOK, Rows, Fences, Sights, Jobs, Released, Closed, Held
    <2>. QED
      BY <2>1, ServiceKeepsIInv, WorkerKeepsIInv DEF Next
  <1>. QED
    BY <1>1, InitIInv, PTL DEF Spec

(* However late a PUT or a worker is, the keys of a closed row stay fenced.*)
THEOREM RetirementIsFinal == Spec => []RetiredForGood
  <1>1. IInv => RetiredForGood
    BY DEF IInv, Fences, RetiredForGood
  <1>. QED
    BY <1>1, Inductive, PTL

(* Cleanup takes nothing from a recipient that is owed it, nor from an     *)
(* uploader whose commit is under way.                                     *)
THEOREM RetirementIsNeverEarly == Spec => []NeverRetiredEarly
  <1>1. IInv => NeverRetiredEarly
    BY DEF IInv, Sights, NeverRetiredEarly
  <1>. QED
    BY <1>1, Inductive, PTL

-----------------------------------------------------------------------------
(***************************************************************************)
(* Cleanup implements Retention.  A delete is Erase the first time a key   *)
(* is fenced and no step at all when another worker was there before; the  *)
(* second transaction is Close.                                            *)
(***************************************************************************)
Gone(a) == {v \in Variants : store[a][v] = "TOMBSTONE"}

(* A step that leaves each asset's phase and store alone is a stutter.     *)
LEMMA Stutters ==
    ASSUME \A a \in Assets : Phase(a)' = Phase(a), store' = store
    PROVE  UNCHANGED Promised!vars
  BY DEF Promised!vars, Held

(* A step that takes every asset of S from OPEN or OWED to RELEASED and    *)
(* leaves the store alone is Release.                                      *)
LEMMA Releases ==
    ASSUME NEW S \in SUBSET Assets, store' = store,
           \A a \in S : Phase(a) \in {"OPEN", "OWED"} /\ Phase(a)' = "RELEASED",
           \A a \in Assets \ S : Phase(a)' = Phase(a)
    PROVE  Promised!Next
  <1>1. Promised!Release(S)
    BY DEF Promised!Release, Held
  <1>. QED
    BY <1>1 DEF Promised!Next

(* So is one that releases a single asset.                                 *)
LEMMA ReleasesOne ==
    ASSUME NEW a \in Assets, store' = store, Phase(a) \in {"OPEN", "OWED"},
           Phase(a)' = "RELEASED", \A b \in Assets \ {a} : Phase(b)' = Phase(b)
    PROVE  Promised!Next
  <1>1. {a} \in SUBSET Assets
    OBVIOUS
  <1>2. \A b \in {a} : Phase(b) \in {"OPEN", "OWED"} /\ Phase(b)' = "RELEASED"
    OBVIOUS
  <1>. QED
    BY <1>1, <1>2, Releases

(* A step that owes a complete asset to its recipients is Promise.         *)
LEMMA Promises ==
    ASSUME NEW a \in Assets, store' = store, Phase(a) = "OPEN", Held(a) = Variants,
           \A b \in Assets : Phase(b)' = IF b = a THEN "OWED" ELSE Phase(b)
    PROVE  Promised!Next
  <1>1. Promised!Promise(a)
    BY DEF Promised!Promise, Held
  <1>. QED
    BY <1>1 DEF Promised!Next

(* A step that creates one object under a key that had none is Write.      *)
LEMMA Writes ==
    ASSUME NEW a \in Assets, NEW v \in Variants, v \notin Held(a) \cup Gone(a),
           \A b \in Assets : Phase(b)' = Phase(b),
           \A b \in Assets : Held(b)' = IF b = a THEN Held(a) \cup {v} ELSE Held(b),
           \A b \in Assets : Gone(b)' = Gone(b)
    PROVE  Promised!Next
  <1>1. Promised!Write(a, v)
    BY DEF Promised!Write, Gone
  <1>. QED
    BY <1>1 DEF Promised!Next

(* Requests and PUTs are steps of Retention.                               *)
LEMMA ServiceImplements ==
    ASSUME IInv, IInv', Service \/ Store PROVE Promised!Next \/ UNCHANGED Promised!vars
  <1>. USE DEF IInv, TypeOK, Rows, Sights, Held, rows
  <1>1. ASSUME NEW a \in Assets, CreateUpload(a) PROVE UNCHANGED Promised!vars
    <2>1. \A b \in Assets : Phase(b)' = Phase(b)
      BY <1>1 DEF CreateUpload, Phase, Closed
    <2>. QED
      BY <1>1, <2>1, Stutters DEF CreateUpload
  <1>2. ASSUME NEW a \in Assets, RenewUpload(a) \/ InspectUpload(a) PROVE UNCHANGED Promised!vars
    BY <1>2, Stutters DEF RenewUpload, InspectUpload, Phase, Closed
  <1>3. ASSUME NEW a \in Assets, Commit(a) PROVE Promised!Next \/ UNCHANGED Promised!vars
    <2>1. PICK seen \in looks[a] : Commit(a)!(seen)
      BY <1>3 DEF Commit
    <2>2. deadline' = deadline /\ store' = store
      BY <2>1
    <2>3. CASE UNCHANGED rows
      BY <2>2, <2>3, Stutters DEF Phase, Closed
    <2>4. CASE session[a] = "CREATED" /\ ~expired[a] /\ ~deadline /\ seen = Variants
      <3>1. /\ session' = [session EXCEPT ![a] = "COMMITTED"]
            /\ asset' = [asset EXCEPT ![a] = "COMMITTED"]
            /\ owed' = [owed EXCEPT ![a] = TRUE]
        BY <2>1, <2>4
      <3>2. Phase(a) = "OPEN" /\ Held(a) = Variants
        BY <2>4 DEF Phase, Closed
      <3>3. \A b \in Assets : Phase(b)' = IF b = a THEN "OWED" ELSE Phase(b)
        BY <2>2, <2>4, <3>1 DEF Phase, Closed
      <3>. QED
        BY <2>2, <3>2, <3>3, Promises
    <2>. QED
      BY <2>1, <2>3, <2>4
  <1>4. ASSUME NEW a \in Assets, Saved(a) PROVE Promised!Next
    <2>1. Phase(a) = "OWED" /\ Phase(a)' = "RELEASED"
      BY <1>4 DEF Saved, Phase, Closed
    <2>2. store' = store /\ \A b \in Assets \ {a} : Phase(b)' = Phase(b)
      BY <1>4 DEF Saved, Phase, Closed
    <2>. QED
      BY <2>1, <2>2, ReleasesOne
  <1>5. ASSUME NEW a \in Assets, Waive(a) PROVE Promised!Next \/ UNCHANGED Promised!vars
    <2>1. store' = store /\ \A b \in Assets \ {a} : Phase(b)' = Phase(b)
      BY <1>5 DEF Waive, Phase, Closed
    <2>2. CASE deadline
      BY <1>5, <2>1, <2>2, Stutters DEF Waive, Phase, Closed
    <2>3. CASE ~deadline
      <3>1. Phase(a) = "OWED" /\ Phase(a)' = "RELEASED"
        BY <1>5, <2>3 DEF Waive, Phase, Closed
      <3>. QED
        BY <2>1, <3>1, ReleasesOne
    <2>. QED
      BY <2>2, <2>3
  <1>6. ASSUME NEW a \in Assets, NEW v \in Variants, BeginPut(a, v) \/ AbortPut(a, v)
        PROVE  UNCHANGED Promised!vars
    BY <1>6, Stutters DEF BeginPut, AbortPut, Phase, Closed
  <1>7. ASSUME NEW a \in Assets, NEW v \in Variants, FinishPut(a, v)
        PROVE  Promised!Next \/ UNCHANGED Promised!vars
    <2>1. \A b \in Assets : Phase(b)' = Phase(b)
      BY <1>7 DEF FinishPut, Phase, Closed
    <2>2. CASE store' = store
      BY <2>1, <2>2, Stutters
    <2>3. CASE store[a][v] = "EMPTY" /\ store' = [store EXCEPT ![a][v] = "CIPHERTEXT"]
      <3>1. \A b \in Assets : Held(b)' = IF b = a THEN Held(a) \cup {v} ELSE Held(b)
        BY <2>3
      <3>2. \A b \in Assets : Gone(b)' = Gone(b)
        BY <2>3 DEF Gone
      <3>3. v \notin Held(a) \cup Gone(a)
        BY <2>3 DEF Gone
      <3>. HIDE DEF IInv, TypeOK, Rows, Sights, Held, rows
      <3>. QED
        BY <2>1, <3>1, <3>2, <3>3, Writes
    <2>. QED
      BY <1>7, <2>2, <2>3 DEF FinishPut
  <1>. QED
    BY <1>1, <1>2, <1>3, <1>4, <1>5, <1>6, <1>7 DEF Service, Store

(* A step that fences one key of a released asset is Erase.                *)
LEMMA Erases ==
    ASSUME NEW a \in Assets, NEW v \in Variants, Phase(a) = "RELEASED", v \notin Gone(a),
           \A b \in Assets : Phase(b)' = Phase(b),
           \A b \in Assets : Held(b)' = IF b = a THEN Held(a) \ {v} ELSE Held(b),
           \A b \in Assets : Gone(b)' = IF b = a THEN Gone(a) \cup {v} ELSE Gone(b)
    PROVE  Promised!Next
  <1>1. Promised!Erase(a, v)
    BY DEF Promised!Erase, Gone
  <1>. QED
    BY <1>1 DEF Promised!Next

(* A step that closes a released asset, all of its keys fenced, is Close.  *)
LEMMA Closes ==
    ASSUME NEW a \in Assets, store' = store, Phase(a) = "RELEASED", Gone(a) = Variants,
           \A b \in Assets : Phase(b)' = IF b = a THEN "CLOSED" ELSE Phase(b)
    PROVE  Promised!Next
  <1>1. Promised!Close(a)
    BY DEF Promised!Close, Gone, Held
  <1>. QED
    BY <1>1 DEF Promised!Next

(* The clock and the workers take steps of Retention.                      *)
LEMMA WorkerImplements ==
    ASSUME IInv, IInv', Clock \/ (\E i \in Items : Claim(i)) \/ (\E w \in Workers : Worker(w))
    PROVE  Promised!Next \/ UNCHANGED Promised!vars
  <1>. USE DEF IInv, Rows, Fences, Released, rows
  <1>1. CASE DeadlinePasses
    <2>. DEFINE S == {a \in Assets : Phase(a) \in {"OPEN", "OWED"}}
    <2>1. store' = store /\ S \in SUBSET Assets
      BY <1>1 DEF DeadlinePasses
    <2>2. \A a \in S : Phase(a) \in {"OPEN", "OWED"} /\ Phase(a)' = "RELEASED"
      BY <1>1 DEF DeadlinePasses, Phase, Closed
    <2>3. \A a \in Assets \ S : Phase(a)' = Phase(a)
      BY <1>1 DEF DeadlinePasses, Phase, Closed
    <2>. HIDE DEF S, IInv, Rows, Fences, Released, rows
    <2>. QED
      BY <2>1, <2>2, <2>3, Releases
  <1>2. ASSUME UNCHANGED <<deadline, session, asset, owed, store>> PROVE UNCHANGED Promised!vars
    <2>1. \A a \in Assets : Phase(a)' = Phase(a)
      BY <1>2 DEF Phase, Closed
    <2>. QED
      BY <1>2, <2>1, Stutters
  <1>5. CASE \/ \E a \in Assets : GrantExpires(a)
             \/ \E i \in Items : LeaseEnds(i) \/ Claim(i)
             \/ \E w \in Workers : Fail(w) \/ Crash(w)
    <2>1. UNCHANGED <<deadline, session, asset, owed, store>>
      BY <1>5 DEF GrantExpires, LeaseEnds, Claim, Take, Fail, Crash
    <2>. QED
      BY <1>2, <2>1
  <1>3. ASSUME NEW w \in Workers, NEW v \in Variants, DeleteObject(w, v)
        PROVE  Promised!Next \/ UNCHANGED Promised!vars
    <2>. DEFINE a == work[w].item[2]
    <2>1. a \in Assets /\ Released(a)
      BY <1>3 DEF DeleteObject, TypeOK, Jobs, Items
    <2>2. store' = [store EXCEPT ![a][v] = "TOMBSTONE"]
      BY <1>3 DEF DeleteObject
    <2>3. \A b \in Assets : Phase(b)' = Phase(b)
      BY <1>3 DEF DeleteObject, Phase, Closed
    <2>. HIDE DEF a
    <2>4. CASE store[a][v] = "TOMBSTONE"
      <3>1. store' = store
        BY <2>1, <2>2, <2>4 DEF TypeOK
      <3>. QED
        BY <2>3, <3>1, Stutters
    <2>5. CASE store[a][v] # "TOMBSTONE"
      <3>1. ~Closed(a)
        BY <2>1, <2>5
      <3>2. Phase(a) = "RELEASED"
        BY <2>1, <3>1 DEF Phase, TypeOK
      <3>3. \A b \in Assets, u \in Variants : store'[b][u] =
               IF b = a /\ u = v THEN "TOMBSTONE" ELSE store[b][u]
        BY <2>1, <2>2 DEF TypeOK
      <3>4. v \notin Gone(a)
        BY <2>5 DEF Gone
      <3>5. \A b \in Assets : Held(b)' = IF b = a THEN Held(a) \ {v} ELSE Held(b)
        BY <3>3 DEF Held
      <3>6. \A b \in Assets : Gone(b)' = IF b = a THEN Gone(a) \cup {v} ELSE Gone(b)
        BY <3>3 DEF Gone
      <3>. QED
        BY <2>1, <2>3, <3>2, <3>4, <3>5, <3>6, Erases
    <2>. QED
      BY <2>4, <2>5
  <1>4. ASSUME NEW w \in Workers, Finalize(w)
        PROVE  Promised!Next \/ UNCHANGED Promised!vars
    <2>. DEFINE i == work[w].item  a == i[2]
    <2>1. i \in Items /\ a \in Assets
      BY <1>4 DEF Finalize, TypeOK, Items
    <2>2. Gone(a) = Variants
      BY <1>4 DEF Finalize, Jobs, Gone
    <2>3. store' = store /\ deadline' = deadline
      BY <1>4 DEF Finalize
    <2>. HIDE DEF a, i
    <2>4. CASE UNCHANGED rows
      BY <2>3, <2>4, Stutters DEF Phase, Closed
    <2>5. CASE /\ session[a] = "CREATED" /\ deadline
               /\ session' = [session EXCEPT ![a] = "EXPIRED"] /\ UNCHANGED <<asset, owed>>
      <3>1. Phase(a) = "RELEASED"
        BY <2>1, <2>5 DEF Phase, Closed, TypeOK
      <3>2. \A b \in Assets : Phase(b)' = IF b = a THEN "CLOSED" ELSE Phase(b)
        BY <2>1, <2>3, <2>5 DEF Phase, Closed, TypeOK
      <3>. QED
        BY <2>1, <2>2, <2>3, <3>1, <3>2, Closes
    <2>6. CASE /\ asset[a] = "PURGE_PENDING" \/ (asset[a] = "COMMITTED" /\ deadline)
               /\ asset' = [asset EXCEPT ![a] = IF asset[a] = "PURGE_PENDING" THEN "PURGED"
                                                ELSE "EXPIRED"]
               /\ owed' = [owed EXCEPT ![a] = FALSE] /\ UNCHANGED session
      <3>1. Phase(a) = "RELEASED"
        BY <2>1, <2>6 DEF Phase, Closed, TypeOK
      <3>2. \A b \in Assets : Phase(b)' = IF b = a THEN "CLOSED" ELSE Phase(b)
        BY <2>1, <2>3, <2>6 DEF Phase, Closed, TypeOK
      <3>. QED
        BY <2>1, <2>2, <2>3, <3>1, <3>2, Closes
    <2>. QED
      BY <1>4, <2>4, <2>5, <2>6 DEF Finalize, Eligible, i, a
  <1>. QED
    BY <1>1, <1>5, <1>3, <1>4 DEF Clock, Worker

(* Cleanup implements Retention: its initial state is an initial state     *)
(* there, and each of its steps is a step of Retention or none it can see. *)
THEOREM CleanupImplementsRetention == Spec => ImplementsRetention
  <1>1. Init => Promised!Init
    BY DEF Init, Promised!Init, Phase, Closed, Held
  <1>2. IInv /\ IInv' /\ [Next]_vars => [Promised!Next]_(Promised!vars)
    <2>1. CASE UNCHANGED vars
      BY <2>1, Stutters DEF vars, rows, Phase, Closed
    <2>. QED
      BY <2>1, ServiceImplements, WorkerImplements DEF Next
  <1>. QED
    BY <1>1, <1>2, Inductive, PTL DEF Spec, Promised!Spec, ImplementsRetention
=============================================================================
