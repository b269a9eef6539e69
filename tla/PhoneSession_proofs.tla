------------------------ MODULE PhoneSession_proofs -------------------------
(***************************************************************************)
(* Proofs about PhoneSession, for any accounts and any number of events.   *)
(*                                                                         *)
(* Both properties speak of the key store and the screen, and both are     *)
(* broken by jobs: a continuation of an earlier session selects its        *)
(* account, publishes its trip or draws its identity once that session is  *)
(* over.  The invariant therefore says of every suspended job whose work   *)
(* it may still do.                                                        *)
(***************************************************************************)
EXTENDS PhoneSession, TLAPS

Someone == Accounts \cup {NoOne}

Natives == [selected : Someone, active : BOOLEAN, clearing : BOOLEAN,
            identities : SUBSET Accounts, keys : SUBSET Accounts]

Apps == [mounted : BOOLEAN, sessionKey : Someone, account : Someone, public : Someone,
         screen : Screens, owner : Someone, runs : BOOLEAN, device : Someone,
         scoped : {"NONE", "LIVE", "DEAD"}, attempt : {"NONE", "PENDING", "DONE"},
         watch : BOOLEAN]

Erasures == [account : Someone, step : EraseSteps, saved : BOOLEAN, live : BOOLEAN,
             gone : SUBSET Accounts]

(* The steps of an erasure that has moved the fence.                       *)
Underway == {"pausing", "clearing", "erased", "left", "finished", "stopped"}

(* A job by itself: it works for an account, and a launch that awaits its  *)
(* session is the current one.                                             *)
Sound(j) ==
  /\ j \in Job
  /\ j.kind \in {"LAUNCH", "PROVISION", "OBSERVE", "REFRESH"} => j.account \in Accounts
  /\ j.kind = "PROVISION" =>
       j.step \in {"drawing", "identifying", "restored", "registering", "installed"}
  /\ j.kind = "LAUNCH" /\ j.step \in {"clearing", "provisioning", "reading", "listing"} =>
       j.current

(* A job in the session: what may select an account or publish a trip does *)
(* so for the signed-in account, and nothing draws the identity of an      *)
(* account whose erasure has begun.                                        *)
Fits(j) ==
  /\ ~app.mounted /\ j.current => j.kind \in {"OBSERVE", "SIGN_OUT"}
  /\ j.kind = "PROVISION" => j.account \notin erasure.gone /\ erasure.step \notin Underway
  /\ app.mounted /\ j.kind = "PROVISION" =>
       /\ j.account = auth /\ app.sessionKey = auth
       /\ j.step \in {"restored", "installed"} => native.selected \in {NoOne, auth}
  /\ app.mounted /\ j.kind = "LAUNCH" /\ j.current => j.account = auth
  /\ app.mounted /\ j.kind = "OBSERVE" /\ j.current => auth = NoOne \/ j.account = auth

Fit == \A j \in jobs : Sound(j) /\ Fits(j)

Types ==
  /\ auth \in Someone /\ ready \in BOOLEAN /\ trip \in [Accounts -> Stages]
  /\ native \in Natives /\ app \in Apps /\ erasure \in Erasures
  /\ events \in 0 .. MaxEvents
  /\ native.active => native.selected # NoOne

(* The session's screens and the erasure's exclude each other.             *)
Screened ==
  /\ app.watch => app.mounted
  /\ app.screen = "TRIP" \/ app.watch => app.owner \in Accounts
  /\ app.mounted => erasure.step = "none"
  /\ ~app.mounted /\ erasure.step = "none" => app.sessionKey = NoOne
  /\ erasure.step # "none" \/ erasure.saved => erasure.account \in Accounts

(* What the mounted session knows is about the signed-in account.          *)
Seated ==
  app.mounted =>
    /\ app.attempt # "NONE" \/ app.device # NoOne => app.sessionKey = auth /\ auth # NoOne
    /\ app.device \in {NoOne, auth}
    /\ app.attempt = "DONE" \/ app.device # NoOne => native.selected \in {NoOne, auth}
    /\ app.screen = "TRIP" /\ app.public = auth /\ auth # NoOne => app.owner = auth

(* Nothing of an erased account is left, nor of the one being erased once  *)
(* the key store has forgotten it.                                         *)
Erasing ==
  /\ auth \notin erasure.gone
  /\ erasure.step \in {"left", "finished"} => auth = NoOne
  /\ \A a \in Accounts :
       a \in erasure.gone
         \/ (erasure.step \in {"erased", "left", "finished"} /\ a = erasure.account) =>
       a \notin native.identities /\ a \notin native.keys /\ native.selected # a

IInv == Types /\ Screened /\ Seated /\ Erasing /\ Fit

-----------------------------------------------------------------------------
(* Jobs that carry over.                                                   *)

(* The session a job lives in stays the same, or only loses its device.    *)
SameSession ==
  /\ app'.mounted = app.mounted /\ app'.sessionKey = app.sessionKey /\ auth' = auth
  /\ erasure'.gone = erasure.gone
  /\ erasure'.step \in Underway => erasure.step \in Underway
  /\ app.mounted => native'.selected \in {native.selected, NoOne, auth}

(* In the same session every job still fits, and so does a new one that    *)
(* fitted the session before.                                              *)
LEMMA StaysFit ==
  ASSUME Fit, SameSession, \A k \in jobs' : k \in jobs \/ (Sound(k) /\ Fits(k))
  PROVE  Fit'
<1> SUFFICES ASSUME NEW k \in jobs' PROVE Sound(k) /\ Fits(k)'
  BY DEF Fit
<1>1. Sound(k) /\ Fits(k)
  BY DEF Fit
<1> QED
  BY <1>1 DEF SameSession, Fits

(* What is left once a new generation has begun.                           *)
LEMMA OvertakenJobs ==
  ASSUME NEW js, \A j \in js : Sound(j), NEW k \in Overtaken(js)
  PROVE  /\ Sound(k) /\ ~k.current
         /\ k.kind = "PROVISION" =>
              \E j \in js : j.kind = "PROVISION" /\ j.account = k.account /\ j.step = k.step
<1>1. PICK j \in js : k = [j EXCEPT !.current = FALSE] /\ Counts(k)
  BY DEF Overtaken
<1>2. Sound(j) /\ j \in Job
  BY DEF Sound
<1>3. /\ k \in Job /\ ~k.current /\ k.kind = j.kind /\ k.account = j.account
      /\ k.step = j.step
  BY <1>1, <1>2 DEF Job
<1>4. k.kind = "LAUNCH" =>
        k.step \in {"pausing", "fetching", "fetched", "imported", "looking", "looked", "leaving"}
  BY <1>1, <1>3 DEF Counts
<1>5. Sound(k)
  BY <1>2, <1>3, <1>4 DEF Sound
<1> QED
  BY <1>3, <1>5

(* What is left behind the fence provisions nothing.                       *)
LEMMA FencedJobs ==
  ASSUME NEW js, \A j \in js : Sound(j), NEW k \in Fenced(js)
  PROVE  /\ Sound(k) /\ k.kind # "PROVISION"
         /\ \E j \in js : j.kind = k.kind /\ j.account = k.account /\ j.current = k.current
<1>1. PICK j \in js : k = [j EXCEPT !.live = FALSE] /\ Counts(k)
  BY DEF Fenced
<1>2. Sound(j) /\ j \in Job
  BY DEF Sound
<1>3. /\ k \in Job /\ ~k.live /\ k.kind = j.kind /\ k.account = j.account
      /\ k.step = j.step /\ k.current = j.current
  BY <1>1, <1>2 DEF Job
<1>4. k.kind = "PROVISION" => k.step = "leaving"
  BY <1>1, <1>3 DEF Counts
<1>5. Sound(k) /\ k.kind # "PROVISION"
  BY <1>2, <1>3, <1>4 DEF Sound
<1> QED
  BY <1>3, <1>5

(* Both at once.                                                           *)
LEMMA FencedOvertakenJobs ==
  ASSUME NEW js, \A j \in js : Sound(j), NEW k \in Fenced(Overtaken(js))
  PROVE  Sound(k) /\ k.kind # "PROVISION" /\ ~k.current
<1> DEFINE os == Overtaken(js)
<1>1. \A j \in os : Sound(j) /\ ~j.current
  BY OvertakenJobs
<1> HIDE DEF os
<1>2. /\ Sound(k) /\ k.kind # "PROVISION"
      /\ \E j \in os : j.current = k.current
  BY <1>1, FencedJobs DEF os
<1> QED
  BY <1>1, <1>2

-----------------------------------------------------------------------------
(* The launch effect.                                                      *)

(* The fence takes the provider's port and its attempt.                    *)
LEMMA AppFencedType ==
  ASSUME NEW v \in Apps
  PROVE  LET w == AppFenced(v) IN
         /\ w \in Apps /\ w.mounted = v.mounted /\ w.sessionKey = v.sessionKey
         /\ w.account = v.account /\ w.public = v.public /\ w.screen = v.screen
         /\ w.owner = v.owner /\ w.device = v.device /\ w.watch = v.watch
         /\ w.attempt \in {"NONE", v.attempt} /\ w.attempt # "PENDING"
<1> DEFINE scoped == IF v.scoped = "LIVE" THEN "DEAD" ELSE v.scoped
           attempt == IF v.attempt = "PENDING" THEN "NONE" ELSE v.attempt
<1>1. /\ scoped \in {"NONE", "LIVE", "DEAD"} /\ attempt \in {"NONE", "DONE"}
      /\ attempt \in {"NONE", v.attempt}
  BY DEF Apps
<1>2. AppFenced(v) = [v EXCEPT !.scoped = scoped, !.attempt = attempt]
  BY DEF AppFenced
<1> HIDE DEF scoped, attempt
<1> QED
  BY <1>1, <1>2 DEF Apps

(* A provider that forgets its device.                                     *)
LEMMA ForgottenType ==
  ASSUME NEW v \in Apps
  PROVE  LET w == Forgotten(v) IN
         /\ w \in Apps /\ w.mounted = v.mounted /\ w.sessionKey = v.sessionKey
         /\ w.account = v.account /\ w.public = v.public /\ w.screen = v.screen
         /\ w.owner = v.owner /\ w.watch = v.watch
         /\ w.device = NoOne /\ w.attempt = "NONE"
  BY DEF Forgotten, Apps, Someone

(* Nobody is signed in: the session ends behind both generations.          *)
LEMMA SignedOutKeeps ==
  ASSUME IInv, SignedOutEffect, auth' = NoOne, ready' \in BOOLEAN, erasure.step = "none",
         UNCHANGED <<trip, native, erasure>>, events' \in 0 .. MaxEvents
  PROVE  IInv'
<1> DEFINE v == Forgotten(AppFenced(app))
<1>0. v \in Apps /\ v.screen = app.screen /\ v.owner = app.owner /\ v.device = NoOne
      /\ v.attempt = "NONE"
  BY AppFencedType, ForgottenType DEF IInv, Types
<1>1. app' = [v EXCEPT !.mounted = TRUE, !.sessionKey = NoOne, !.watch = FALSE]
  BY DEF SignedOutEffect
<1> HIDE DEF v
<1>2. app' \in Apps /\ app'.mounted = TRUE /\ app'.sessionKey = NoOne /\ app'.device = NoOne
      /\ app'.attempt = "NONE" /\ app'.watch = FALSE /\ app'.screen = app.screen
      /\ app'.owner = app.owner
  BY <1>0, <1>1 DEF Apps, Someone
<1>3. Fit'
  <2> SUFFICES ASSUME NEW k \in jobs' PROVE Sound(k) /\ Fits(k)'
    BY DEF Fit
  <2>1. CASE k \in Fenced(Overtaken(jobs))
    <3>1. Sound(k) /\ k.kind # "PROVISION" /\ ~k.current
      BY <2>1, FencedOvertakenJobs DEF IInv, Fit
    <3> QED
      BY <3>1, <1>2 DEF Fits
  <2>2. CASE k = NewJob("PAUSE", NoOne, "pausing")
    <3>1. k \in Job /\ k.kind = "PAUSE"
      BY <2>2 DEF NewJob, Job, Steps, Someone, Stages
    <3> QED
      BY <3>1, <1>2 DEF Fits, Sound
  <2> QED
    BY <2>1, <2>2 DEF SignedOutEffect
<1>4. Types'
  BY <1>2 DEF IInv, Types, Someone
<1>5. Screened' /\ Seated'
  BY <1>2 DEF IInv, Screened, Seated
<1>6. NoOne \notin erasure.gone
  BY PhoneAssumption DEF IInv, Types, Erasures
<1>7. Erasing'
  BY <1>6 DEF IInv, Erasing
<1> QED
  BY <1>3, <1>4, <1>5, <1>7 DEF IInv

(* A job that a new session of account a may keep.                         *)
Carries(k, a) ==
  /\ Sound(k)
  /\ k.kind = "PROVISION" =>
       /\ k.account = a
       /\ k.step \in {"restored", "installed"} => native.selected \in {NoOne, a}
  /\ k.kind \in {"LAUNCH", "OBSERVE"} /\ k.current => k.account = a

(* The session of account a gets going.                                    *)
LEMMA ProvisionsKeeps ==
  ASSUME IInv, NEW a \in Accounts, NEW known \in Apps, NEW others,
         Provisions(a, known, others), auth' = a, a \notin erasure.gone, ready' \in BOOLEAN,
         erasure.step = "none", known.mounted, known.device \in {NoOne, a},
         known.attempt = "DONE" \/ known.device # NoOne => native.selected \in {NoOne, a},
         known.screen = "TRIP" \/ known.watch => known.owner \in Accounts,
         known.screen = "TRIP" /\ known.public = a => known.owner = a,
         \A k \in others : Carries(k, a),
         UNCHANGED <<trip, native, erasure>>, events' \in 0 .. MaxEvents
  PROVE  IInv'
<1> DEFINE attempt == IF known.attempt = "NONE" THEN "PENDING" ELSE known.attempt
           waits == NewJob("LAUNCH", a, "provisioning")
           draws == NewJob("PROVISION", a, "drawing")
<1>1. a # NoOne /\ a \in Someone
  BY PhoneAssumption DEF Someone
<1>2. /\ attempt \in {"NONE", "PENDING", "DONE"}
      /\ attempt = "DONE" => known.attempt = "DONE"
  BY DEF Apps
<1>3. app' = [known EXCEPT !.sessionKey = a, !.attempt = attempt]
  BY DEF Provisions
<1> HIDE DEF attempt
<1>4. /\ app' \in Apps /\ app'.mounted /\ app'.sessionKey = a
      /\ app'.device = known.device /\ app'.attempt = attempt /\ app'.watch = known.watch
      /\ app'.screen = known.screen /\ app'.owner = known.owner /\ app'.public = known.public
  BY <1>1, <1>2, <1>3 DEF Apps
<1>5. waits \in Job /\ waits.kind = "LAUNCH" /\ waits.account = a /\ waits.current = TRUE
  BY <1>1 DEF NewJob, Job, Steps, Someone, Stages
<1>6. /\ draws \in Job /\ draws.kind = "PROVISION" /\ draws.account = a
      /\ draws.step = "drawing"
  BY <1>1 DEF NewJob, Job, Steps, Someone, Stages
<1>7. /\ [draws EXCEPT !.current = FALSE] \in Job
      /\ [draws EXCEPT !.current = FALSE].kind = "PROVISION"
      /\ [draws EXCEPT !.current = FALSE].account = a
      /\ [draws EXCEPT !.current = FALSE].step = "drawing"
      /\ ~[draws EXCEPT !.current = FALSE].current
  <2> HIDE DEF draws
  <2> QED
    BY <1>6 DEF Job
<1>8. \A k \in jobs' : k \in others \/ k = waits \/ k = [draws EXCEPT !.current = FALSE]
  BY DEF Provisions
<1> HIDE DEF waits, draws
<1>9. \A k \in jobs' : Carries(k, a)
  BY <1>5, <1>7, <1>8 DEF Carries, Sound
<1>10. Fit'
  <2> SUFFICES ASSUME NEW k \in jobs' PROVE Sound(k) /\ Fits(k)'
    BY DEF Fit
  <2>1. Carries(k, a)
    BY <1>9
  <2>2. erasure.step \notin Underway
    BY DEF Underway
  <2> QED
    BY <1>4, <2>1, <2>2 DEF Fits, Carries
<1>11. Types'
  BY <1>1, <1>4 DEF IInv, Types
<1>12. Screened' /\ Seated'
  BY <1>1, <1>2, <1>4 DEF IInv, Screened, Seated
<1>13. Erasing'
  BY DEF IInv, Erasing
<1> QED
  BY <1>10, <1>11, <1>12, <1>13 DEF IInv

(* What an effect finds when it runs for another account than before.      *)
LEMMA OvertakenCarry ==
  ASSUME IInv, NEW a \in Accounts, app.sessionKey = a, app.mounted
  PROVE  \A k \in Overtaken(jobs) : Carries(k, a)
<1> SUFFICES ASSUME NEW k \in Overtaken(jobs) PROVE Carries(k, a)
  OBVIOUS
<1>1. /\ Sound(k) /\ ~k.current
      /\ k.kind = "PROVISION" =>
           \E j \in jobs : j.kind = "PROVISION" /\ j.account = k.account /\ j.step = k.step
  BY OvertakenJobs DEF IInv, Fit
<1>2. \A j \in jobs : Fits(j)
  BY DEF IInv, Fit
<1> QED
  BY <1>1, <1>2 DEF Carries, Fits

(* Someone is: a new session waits for the teardown, a known one goes on.  *)
LEMMA SignedInKeeps ==
  ASSUME IInv, NEW a \in Accounts, NEW isReady, SignedInEffect(a, isReady),
         auth' = a, ready' \in BOOLEAN, erasure.step = "none", a \notin erasure.gone,
         UNCHANGED <<trip, native, erasure>>, events' \in 0 .. MaxEvents
  PROVE  IInv'
<1> DEFINE v == Setup(a)
<1>1. a # NoOne /\ a \in Someone
  BY PhoneAssumption DEF Someone
<1>2. /\ v \in Apps /\ v.mounted = TRUE /\ v.screen = "PROVISIONING"
      /\ v.watch = FALSE /\ v.sessionKey = app.sessionKey
      /\ v.device = app.device /\ v.attempt = app.attempt
  BY <1>1 DEF IInv, Types, Setup, Apps, Screens
<1>3. app.sessionKey = a => app.mounted
  BY <1>1 DEF IInv, Screened
<1>4. \A j \in jobs : Sound(j)
  BY DEF IInv, Fit
<1>5. CASE app.sessionKey # a
  <2> DEFINE x == Forgotten(AppFenced(v))
             launch == NewJob("LAUNCH", a, "pausing")
             starts == [launch EXCEPT !.flag = Preserves(a)]
  <2>1. /\ x \in Apps /\ x.mounted = TRUE /\ x.screen = "PROVISIONING" /\ x.watch = FALSE
        /\ x.device = NoOne /\ x.attempt = "NONE"
    <3> HIDE DEF v
    <3> QED
      BY <1>2, AppFencedType, ForgottenType
  <2>2. /\ app' = [x EXCEPT !.account = a]
        /\ jobs' = Fenced(Overtaken(jobs)) \cup {starts}
    BY <1>5 DEF SignedInEffect
  <2>3. /\ launch \in Job /\ launch.kind = "LAUNCH" /\ launch.account = a
        /\ launch.step = "pausing"
    BY <1>1 DEF NewJob, Job, Steps, Someone, Stages
  <2>5. Preserves(a) \in BOOLEAN
    BY DEF Preserves
  <2> HIDE DEF x, v, launch
  <2>6. /\ starts \in Job /\ starts.kind = "LAUNCH" /\ starts.account = a
        /\ starts.step = "pausing"
    BY <2>3, <2>5 DEF Job
  <2>7. /\ app' \in Apps /\ app'.mounted /\ app'.screen = "PROVISIONING" /\ ~app'.watch
        /\ app'.device = NoOne /\ app'.attempt = "NONE"
    BY <1>1, <2>1, <2>2 DEF Apps
  <2> HIDE DEF starts
  <2>8. Fit'
    <3> SUFFICES ASSUME NEW k \in jobs' PROVE Sound(k) /\ Fits(k)'
      BY DEF Fit
    <3>1. CASE k \in Fenced(Overtaken(jobs))
      <4>1. Sound(k) /\ k.kind # "PROVISION" /\ ~k.current
        BY <1>4, <3>1, FencedOvertakenJobs
      <4> QED
        BY <4>1, <2>7 DEF Fits
    <3>2. CASE k = starts
      BY <2>6, <2>7, <3>2 DEF Fits, Sound
    <3> QED
      BY <2>2, <3>1, <3>2
  <2>9. Types'
    BY <1>1, <2>7 DEF IInv, Types
  <2>10. Screened' /\ Seated'
    BY <2>7 DEF IInv, Screened, Seated
  <2>11. Erasing'
    BY DEF IInv, Erasing
  <2> QED
    BY <2>8, <2>9, <2>10, <2>11 DEF IInv
<1>6. CASE app.sessionKey = a /\ isReady
  <2>1. Provisions(a, v, Overtaken(jobs))
    BY <1>6 DEF SignedInEffect
  <2>2. \A k \in Overtaken(jobs) : Carries(k, a)
    BY <1>3, <1>6, OvertakenCarry
  <2> HIDE DEF v
  <2>3. /\ v.device \in {NoOne, a}
        /\ v.attempt = "DONE" \/ v.device # NoOne => native.selected \in {NoOne, a}
    BY <1>2, <1>3, <1>6 DEF IInv, Seated
  <2> QED
    BY <1>2, <2>1, <2>2, <2>3, ProvisionsKeeps
<1>7. CASE app.sessionKey = a /\ ~isReady
  <2>1. app' = v /\ jobs' = Overtaken(jobs)
    BY <1>7 DEF SignedInEffect
  <2> HIDE DEF v
  <2>2. \A k \in jobs' : Carries(k, a) /\ ~k.current
    BY <1>3, <1>4, <1>7, <2>1, OvertakenCarry, OvertakenJobs
  <2>3. Fit'
    <3> SUFFICES ASSUME NEW k \in jobs' PROVE Sound(k) /\ Fits(k)'
      BY DEF Fit
    <3>1. erasure.step \notin Underway
      BY DEF Underway
    <3> QED
      BY <1>2, <1>7, <2>1, <2>2, <3>1 DEF Fits, Carries
  <2>4. Types'
    BY <1>1, <1>2, <2>1 DEF IInv, Types
  <2>5. Screened' /\ Seated'
    BY <1>1, <1>2, <1>3, <1>7, <2>1 DEF IInv, Screened, Seated
  <2>6. Erasing'
    BY DEF IInv, Erasing
  <2> QED
    BY <2>3, <2>4, <2>5, <2>6 DEF IInv
<1> QED
  BY <1>5, <1>6, <1>7

(* Whatever account the effect runs for.                                   *)
LEMMA EffectKeeps ==
  ASSUME IInv, NEW a \in Someone, NEW isReady, Effect(a, isReady),
         auth' = a, ready' \in BOOLEAN, erasure.step = "none", a \notin erasure.gone,
         UNCHANGED <<trip, native, erasure>>, events' \in 0 .. MaxEvents
  PROVE  IInv'
<1>1. CASE a = NoOne
  BY <1>1, SignedOutKeeps DEF Effect
<1>2. CASE a # NoOne
  BY <1>2, SignedInKeeps DEF Effect, Someone
<1> QED
  BY <1>1, <1>2

-----------------------------------------------------------------------------
(* Steps that take nothing up.                                             *)

(* The refs stay, or the provider knows less than before.                  *)
Eases ==
  /\ app' \in Apps
  /\ app'.mounted = app.mounted /\ app'.sessionKey = app.sessionKey
  /\ app'.device \in {app.device, NoOne} /\ app'.attempt \in {app.attempt, "NONE"}
  /\ app'.watch => app.watch
  /\ app'.screen = "TRIP" => app.screen = "TRIP" /\ app'.public = app.public
  /\ app'.owner = app.owner

(* Accounts whose material may appear in the key store.                    *)
Free(a) ==
  /\ a \notin erasure.gone
  /\ erasure.step \in {"erased", "left", "finished"} => a # erasure.account

(* The key store keeps its session or loses it.                            *)
KeepsSession ==
  /\ native' \in Natives
  /\ native'.active => native'.selected # NoOne
  /\ native'.selected \in {native.selected, NoOne}
  /\ \A a \in Accounts : a \in native'.identities => a \in native.identities \/ Free(a)
  /\ \A a \in Accounts : a \in native'.keys => a \in native.keys \/ Free(a)

(* The erasure stays, or loses its native port.                            *)
SameErasure ==
  /\ erasure'.step = erasure.step /\ erasure'.account = erasure.account
  /\ erasure'.gone = erasure.gone /\ erasure'.saved = erasure.saved

(* Such a step keeps the invariant.                                        *)
LEMMA EasedKeeps ==
  ASSUME IInv, Eases, KeepsSession, UNCHANGED <<auth, ready>>,
         erasure' \in Erasures, SameErasure,
         trip' \in [Accounts -> Stages], events' \in 0 .. MaxEvents,
         \A k \in jobs' : k \in jobs \/ (Sound(k) /\ Fits(k))
  PROVE  IInv'
<1>1. SameSession
  BY DEF SameSession, Eases, KeepsSession, SameErasure
<1>2. Fit'
  BY <1>1, StaysFit DEF IInv
<1>3. Types'
  <2>1. app' \in Apps /\ native' \in Natives
    BY DEF Eases, KeepsSession
  <2> QED
    BY <2>1 DEF IInv, Types, KeepsSession
<1>4. Screened'
  BY DEF IInv, Screened, Eases, SameErasure
<1>5. Seated'
  BY DEF IInv, Seated, Eases, KeepsSession
<1>6. NoOne \notin Accounts
  BY PhoneAssumption
<1>7. Erasing'
  BY <1>6 DEF IInv, Erasing, KeepsSession, Free, SameErasure
<1> QED
  BY <1>2, <1>3, <1>4, <1>5, <1>7 DEF IInv

(* So does one that leaves the erasure alone.                              *)
LEMMA QuietKeeps ==
  ASSUME IInv, Eases, KeepsSession, UNCHANGED <<auth, ready, erasure>>,
         trip' \in [Accounts -> Stages], events' \in 0 .. MaxEvents,
         \A k \in jobs' : k \in jobs \/ (Sound(k) /\ Fits(k))
  PROVE  IInv'
<1>1. erasure' \in Erasures /\ SameErasure
  BY DEF IInv, Types, SameErasure
<1> QED
  BY <1>1, EasedKeeps

(* Nothing changes but a screen other than a trip's.                       *)
LEMMA ShownEases ==
  ASSUME app \in Apps, NEW screen \in Screens \ {"TRIP"}, Shows(screen)
  PROVE  Eases
  BY DEF Shows, Eases, Apps

(* Nor do the refs.                                                        *)
LEMMA SameEases ==
  ASSUME app \in Apps, UNCHANGED app
  PROVE  Eases
  BY DEF Eases

(* Nor does the key store.                                                 *)
LEMMA SameKeepsSession ==
  ASSUME Types, UNCHANGED native
  PROVE  KeepsSession
  BY DEF Types, KeepsSession

(* One job ends, or another takes its place.                               *)
LEMMA EndsOne ==
  ASSUME NEW j, End(j)
  PROVE  \A k \in jobs' : k \in jobs
  BY DEF End

(* One that takes another's place must fit as it did.                      *)
LEMMA MovesOne ==
  ASSUME NEW j, NEW x, Move(j, x), Sound(x), Fits(x)
  PROVE  \A k \in jobs' : k \in jobs \/ (Sound(k) /\ Fits(k))
  BY DEF Move

(* A job that goes on to another step, or with another flag, still fits.   *)
LEMMA GoesOn ==
  ASSUME NEW j, Sound(j), Fits(j), NEW k \in Job,
         k.kind = j.kind, k.account = j.account, k.current = j.current,
         k.kind = "PROVISION" => k.step \in {"drawing", "identifying", "registering"},
         k.kind = "LAUNCH" => k.current \/ k.step \in {"looking", "looked", "retired"}
  PROVE  Sound(k) /\ Fits(k)
<1>1. Sound(k)
  BY DEF Sound
<1>2. Fits(k)
  BY DEF Fits
<1> QED
  BY <1>1, <1>2

(* The engine stops and the session is cleared, or either fails.           *)
LEMMA TeardownKeeps ==
  ASSUME IInv, NEW j \in jobs, PauseReturns(j) \/ PauseFails(j) \/ ClearLands
  PROVE  IInv'
<1>1. Types /\ app \in Apps /\ Sound(j) /\ Fits(j) /\ j \in Job
  BY DEF IInv, Types, Fit, Sound
<1>2. CASE PauseReturns(j)
  <2> DEFINE clears == j.live /\ ~(j.kind = "LAUNCH" /\ j.flag)
             k == [j EXCEPT !.step = "clearing"]
  <2>1. Eases
    BY <1>1, <1>2, SameEases DEF PauseReturns
  <2>2. native' = [native EXCEPT !.clearing = clears] /\ clears \in BOOLEAN
    BY <1>2 DEF PauseReturns
  <2>3. KeepsSession
    <3> HIDE DEF clears
    <3> QED
      BY <1>1, <2>2 DEF Types, Natives, KeepsSession
  <2>4. CASE j.kind = "PAUSE" \/ ~j.current
    BY <1>1, <1>2, <2>1, <2>3, <2>4, QuietKeeps, EndsOne DEF PauseReturns, IInv, Types
  <2>5. CASE ~(j.kind = "PAUSE" \/ ~j.current)
    <3>1. /\ k \in Job /\ k.kind = j.kind /\ k.account = j.account /\ k.current = j.current
          /\ k.step = "clearing"
      BY <1>1 DEF Job, Steps
    <3>2. k.kind # "PROVISION"
      BY <1>1, <1>2, <3>1 DEF PauseReturns, Sound
    <3> HIDE DEF k
    <3>3. Sound(k) /\ Fits(k)
      BY <1>1, <2>5, <3>1, <3>2, GoesOn
    <3>4. Move(j, k)
      BY <1>2, <2>5 DEF PauseReturns, k
    <3> QED
      BY <1>2, <2>1, <2>3, <3>3, <3>4, QuietKeeps, MovesOne DEF PauseReturns, IInv, Types
  <2> QED
    BY <2>4, <2>5
<1>3. CASE PauseFails(j)
  <2>1. Eases
    BY <1>1, <1>3, SameEases, ShownEases DEF PauseFails, Screens
  <2>2. KeepsSession
    BY <1>1, <1>3 DEF Types, Natives, KeepsSession, PauseFails
  <2> QED
    BY <1>3, <2>1, <2>2, QuietKeeps, EndsOne DEF PauseFails, IInv, Types
<1>4. CASE ClearLands
  <2>1. Eases
    BY <1>1, <1>4, SameEases DEF ClearLands
  <2>2. KeepsSession
    BY <1>1, <1>4 DEF Types, Natives, KeepsSession, ClearLands, Someone
  <2> QED
    BY <1>4, <2>1, <2>2, QuietKeeps DEF ClearLands, IInv, Types
<1> QED
  BY <1>2, <1>3, <1>4

(* An account whose session has been torn down gets a device.              *)
LEMMA TornDownKeeps ==
  ASSUME IInv, NEW j \in jobs, TornDown(j)
  PROVE  IInv'
<1>1. Types /\ app \in Apps /\ Sound(j) /\ Fits(j) /\ j \in Job
  BY DEF IInv, Types, Fit, Sound
<1>2. CASE ~(j.current /\ ready)
  <2>1. Eases /\ KeepsSession
    BY <1>1, <1>2, SameEases, SameKeepsSession DEF TornDown
  <2> QED
    BY <1>2, <2>1, QuietKeeps, EndsOne DEF TornDown, IInv, Types
<1>3. CASE j.current /\ ready
  <2>1. j.kind = "LAUNCH" /\ j.account \in Accounts
    BY <1>1 DEF TornDown, Sound
  <2>2. app.mounted /\ j.account = auth
    BY <1>1, <1>3, <2>1 DEF Fits
  <2>3. \A k \in jobs \ {j} : Carries(k, auth)
    <3> SUFFICES ASSUME NEW k \in jobs PROVE Carries(k, auth)
      OBVIOUS
    <3>1. Sound(k) /\ Fits(k)
      BY DEF IInv, Fit
    <3>2. auth # NoOne
      BY <2>1, <2>2, PhoneAssumption
    <3> QED
      BY <2>2, <3>1, <3>2 DEF Carries, Fits
  <2>4. Provisions(auth, app, jobs \ {j})
    BY <1>3, <2>2 DEF TornDown
  <2>5. erasure.step = "none" /\ auth \notin erasure.gone
    BY <2>2 DEF IInv, Screened, Erasing
  <2>6. /\ app.device \in {NoOne, auth}
        /\ app.attempt = "DONE" \/ app.device # NoOne => native.selected \in {NoOne, auth}
        /\ app.screen = "TRIP" \/ app.watch => app.owner \in Accounts
        /\ app.screen = "TRIP" /\ app.public = auth => app.owner = auth
    BY <2>1, <2>2, PhoneAssumption DEF IInv, Seated, Screened
  <2>7. UNCHANGED <<auth, ready, trip, native, erasure, events>>
    BY DEF TornDown
  <2>8. auth' = auth /\ ready' \in BOOLEAN /\ events' \in 0 .. MaxEvents
        /\ UNCHANGED <<trip, native, erasure>>
    BY <1>1, <2>7 DEF Types
  <2> QED
    BY <1>1, <2>1, <2>2, <2>3, <2>4, <2>5, <2>6, <2>8, ProvisionsKeeps
<1> QED
  BY <1>2, <1>3

-----------------------------------------------------------------------------
(* Provisioning.                                                           *)

(* An identity is drawn for an account nobody is erasing.                  *)
LEMMA IdentifyKeeps ==
  ASSUME IInv, NEW j \in jobs, Identify(j)
  PROVE  IInv'
<1> DEFINE k == [j EXCEPT !.step = "identifying"]
<1>1. Types /\ app \in Apps /\ Sound(j) /\ Fits(j) /\ j \in Job
  BY DEF IInv, Types, Fit, Sound
<1>2. j.kind = "PROVISION" /\ j.account \in Accounts /\ Free(j.account)
  BY <1>1 DEF Identify, Sound, Fits, Free, Underway
<1>3. Eases
  BY <1>1, SameEases DEF Identify
<1>4. KeepsSession
  BY <1>1, <1>2 DEF Identify, Types, Natives, KeepsSession
<1>5. /\ k \in Job /\ k.kind = j.kind /\ k.account = j.account /\ k.current = j.current
      /\ k.step = "identifying"
  BY <1>1 DEF Job, Steps
<1>6. Move(j, k)
  BY DEF Identify
<1> HIDE DEF k
<1>7. Sound(k) /\ Fits(k)
  BY <1>1, <1>2, <1>5, GoesOn
<1> QED
  BY <1>3, <1>4, <1>6, <1>7, QuietKeeps, MovesOne DEF Identify, IInv, Types

(* A saved session is restored only if it is selected.                     *)
LEMMA RestoreKeeps ==
  ASSUME IInv, NEW j \in jobs, Restore(j)
  PROVE  IInv'
<1>1. Types /\ app \in Apps /\ Sound(j) /\ Fits(j) /\ j \in Job
  BY DEF IInv, Types, Fit, Sound
<1>2. Eases /\ KeepsSession
  BY <1>1, SameEases, SameKeepsSession DEF Restore
<1>3. PICK step \in {"restored", "registering"} :
         /\ step = "restored" => InSession(j.account)
         /\ Move(j, [j EXCEPT !.step = step])
  BY DEF Restore
<1> DEFINE k == [j EXCEPT !.step = step]
<1>4. /\ k \in Job /\ k.kind = j.kind /\ k.account = j.account /\ k.step = step
      /\ k.current = j.current
  BY <1>1 DEF Job, Steps
<1>5. Move(j, k)
  BY <1>3
<1> HIDE DEF k
<1>6. Sound(k)
  BY <1>1, <1>4 DEF Sound, Restore
<1>7. Fits(k)
  BY <1>1, <1>3, <1>4 DEF Fits, Restore, InSession
<1> QED
  BY <1>2, <1>5, <1>6, <1>7, QuietKeeps, MovesOne DEF Restore, IInv, Types

(* The one step that selects an account: it is the signed-in one, or one   *)
(* whose screens are gone and whose erasure has yet to move the fence.     *)
LEMMA InstallKeeps ==
  ASSUME IInv, NEW j \in jobs, InstallSession(j)
  PROVE  IInv'
<1> DEFINE k == [j EXCEPT !.step = "installed"]
           a == j.account
           active == native.active /\ native.selected = a
<1>1. Types /\ app \in Apps /\ Sound(j) /\ Fits(j) /\ j \in Job
  BY DEF IInv, Types, Fit, Sound
<1>2. /\ j.kind = "PROVISION" /\ a \in Accounts /\ Free(a) /\ a # NoOne
      /\ app.mounted => a = auth
  BY <1>1, PhoneAssumption DEF InstallSession, Sound, Fits, Free, Underway
<1>3. /\ k \in Job /\ k.kind = j.kind /\ k.account = a /\ k.step = "installed"
      /\ k.current = j.current
  BY <1>1 DEF Job, Steps
<1>4. native' = [native EXCEPT !.selected = a, !.active = active] /\ active \in BOOLEAN
  BY DEF InstallSession, Installed
<1>5. /\ native' \in Natives /\ native'.selected = a
      /\ native'.identities = native.identities /\ native'.keys = native.keys
  <2> HIDE DEF active, a
  <2> QED
    BY <1>1, <1>2, <1>4 DEF Types, Natives, Someone
<1>6. UNCHANGED <<auth, ready, trip, app, erasure, events>> /\ jobs' = (jobs \ {j}) \cup {k}
  BY DEF InstallSession, Move
<1> HIDE DEF k, active, a
<1>7. Fit'
  <2> SUFFICES ASSUME NEW x \in jobs' PROVE Sound(x) /\ Fits(x)'
    BY DEF Fit
  <2>1. CASE x \in jobs
    <3>1. Sound(x) /\ Fits(x)
      BY <2>1 DEF IInv, Fit
    <3> QED
      BY <1>2, <1>5, <1>6, <3>1 DEF Fits
  <2>2. CASE x = k
    <3>1. Sound(k)
      BY <1>1, <1>2, <1>3 DEF Sound, a
    <3>2. Fits(k)'
      BY <1>1, <1>2, <1>3, <1>5, <1>6 DEF Fits, a
    <3> QED
      BY <2>2, <3>1, <3>2
  <2> QED
    BY <1>6, <2>1, <2>2
<1>8. Types'
  BY <1>1, <1>2, <1>5, <1>6 DEF Types
<1>9. Screened' /\ Seated'
  BY <1>2, <1>5, <1>6 DEF IInv, Screened, Seated
<1>10. Erasing'
  BY <1>2, <1>5, <1>6 DEF IInv, Erasing, Free
<1> QED
  BY <1>7, <1>8, <1>9, <1>10 DEF IInv

(* The attempt is done: its session is selected, or has been cleared.      *)
LEMMA ProvisionedKeeps ==
  ASSUME IInv, NEW j \in jobs, Provisioned(j)
  PROVE  IInv'
<1>1. Types /\ app \in Apps /\ Sound(j) /\ Fits(j) /\ j \in Job
  BY DEF IInv, Types, Fit, Sound
<1>2. /\ app' \in Apps /\ app'.mounted = app.mounted /\ app'.sessionKey = app.sessionKey
      /\ app'.device = app.device /\ app'.watch = app.watch /\ app'.screen = app.screen
      /\ app'.owner = app.owner /\ app'.public = app.public
  BY <1>1 DEF Provisioned, Apps
<1>3. UNCHANGED <<auth, ready, trip, native, erasure, events>> /\ End(j)
  BY DEF Provisioned
<1>4. j.account \in Accounts /\ NoOne \notin Accounts
  BY <1>1, PhoneAssumption DEF Provisioned, Sound
<1>5. app.mounted => /\ app.sessionKey = auth /\ auth # NoOne
                     /\ native.selected \in {NoOne, auth}
  BY <1>1, <1>4 DEF Provisioned, Fits
<1>6. Fit'
  BY <1>2, <1>3, StaysFit, EndsOne DEF IInv, SameSession
<1>7. Types'
  BY <1>1, <1>2, <1>3 DEF Types
<1>8. Screened'
  BY <1>2, <1>3 DEF IInv, Screened
<1>9. Seated'
  BY <1>2, <1>3, <1>5 DEF IInv, Seated
<1>10. Erasing'
  BY <1>3 DEF IInv, Erasing
<1> QED
  BY <1>6, <1>7, <1>8, <1>9, <1>10 DEF IInv

(* The attempt fails, and the launch that waits for it.                    *)
LEMMA ProvisionFailsKeeps ==
  ASSUME IInv, NEW j \in jobs, ProvisionFails(j)
  PROVE  IInv'
<1> DEFINE screen == IF Waiting = {} THEN app.screen ELSE "FAILED"
<1>1. Types /\ app \in Apps
  BY DEF IInv, Types
<1>2. screen \in Screens /\ (screen = "TRIP" => app.screen = "TRIP")
  BY <1>1 DEF Apps, Screens
<1>3. app' = [app EXCEPT !.attempt = "NONE", !.screen = screen]
  BY DEF ProvisionFails
<1> HIDE DEF screen
<1>4. Eases
  BY <1>1, <1>2, <1>3 DEF Eases, Apps
<1>5. KeepsSession
  BY <1>1, SameKeepsSession DEF ProvisionFails
<1>6. jobs' \subseteq jobs
  BY DEF ProvisionFails
<1> QED
  BY <1>4, <1>5, <1>6, QuietKeeps DEF ProvisionFails, IInv, Types

(* The launch has its device: the one its session has provisioned.         *)
LEMMA HasDeviceKeeps ==
  ASSUME IInv, NEW j \in jobs, HasDevice(j)
  PROVE  IInv'
<1> DEFINE k == [j EXCEPT !.step = "reading"]
<1>1. Types /\ app \in Apps /\ Sound(j) /\ Fits(j) /\ j \in Job
  BY DEF IInv, Types, Fit, Sound
<1>2. j.current /\ j.kind = "LAUNCH" /\ j.account \in Accounts
  BY <1>1 DEF HasDevice, Sound
<1>3. app.mounted /\ j.account = auth
  BY <1>1, <1>2 DEF Fits
<1>4. /\ app' \in Apps /\ app'.mounted = app.mounted /\ app'.sessionKey = app.sessionKey
      /\ app'.device = auth /\ app'.attempt = app.attempt /\ app'.watch = app.watch
      /\ app'.screen = app.screen /\ app'.owner = app.owner /\ app'.public = app.public
  BY <1>1, <1>2, <1>3 DEF HasDevice, Apps, Someone
<1>5. UNCHANGED <<auth, ready, trip, native, erasure, events>> /\ Move(j, k)
  BY DEF HasDevice
<1>6. /\ k \in Job /\ k.kind = j.kind /\ k.account = j.account /\ k.current = j.current
      /\ k.step = "reading"
  BY <1>1 DEF Job, Steps
<1> HIDE DEF k
<1>7. Sound(k) /\ Fits(k)
  BY <1>1, <1>2, <1>6, GoesOn
<1>8. Fit'
  BY <1>4, <1>5, <1>7, StaysFit, MovesOne DEF IInv, SameSession
<1>9. Types'
  BY <1>1, <1>4, <1>5 DEF Types
<1>10. Screened'
  BY <1>4, <1>5 DEF IInv, Screened
<1>11. app.attempt = "DONE"
  BY DEF HasDevice
<1>12. Seated'
  BY <1>3, <1>4, <1>5, <1>11 DEF IInv, Seated
<1>13. Erasing'
  BY <1>5 DEF IInv, Erasing
<1> QED
  BY <1>8, <1>9, <1>10, <1>12, <1>13 DEF IInv

(* The launch reads which trip the engine runs.                            *)
LEMMA ReadNativeKeeps ==
  ASSUME IInv, NEW j \in jobs, ReadNative(j)
  PROVE  IInv'
<1> DEFINE k == [j EXCEPT !.step = "listing", !.live = TRUE, !.flag = native.active]
<1>1. Types /\ app \in Apps /\ Sound(j) /\ Fits(j) /\ j \in Job /\ native.active \in BOOLEAN
  BY DEF IInv, Types, Fit, Sound, Natives
<1>2. Eases
  BY <1>1 DEF ReadNative, Eases, Apps
<1>3. KeepsSession
  BY <1>1, SameKeepsSession DEF ReadNative
<1>4. /\ k \in Job /\ k.kind = j.kind /\ k.account = j.account /\ k.current = j.current
      /\ k.step = "listing"
  BY <1>1 DEF Job, Steps
<1>5. Move(j, k)
  BY DEF ReadNative
<1> HIDE DEF k
<1>6. j.current /\ k.kind = "LAUNCH"
  BY <1>1, <1>4 DEF ReadNative, Sound
<1>7. Sound(k) /\ Fits(k)
  BY <1>1, <1>4, <1>6, GoesOn
<1> QED
  BY <1>2, <1>3, <1>5, <1>7, QuietKeeps, MovesOne DEF ReadNative, IInv, Types

(* It observes the trip, or looks for one to retire.                       *)
LEMMA ListTripsKeeps ==
  ASSUME IInv, NEW j \in jobs, ListTrips(j)
  PROVE  IInv'
<1> DEFINE observes == [j EXCEPT !.kind = "OBSERVE", !.step = "fetching", !.flag = TRUE]
           looks == [j EXCEPT !.step = "looking"]
<1>1. Types /\ app \in Apps /\ Sound(j) /\ Fits(j) /\ j \in Job
  BY DEF IInv, Types, Fit, Sound
<1>2. j.current /\ j.kind = "LAUNCH" /\ j.account \in Accounts
  BY <1>1 DEF ListTrips, Sound
<1>3. KeepsSession
  BY <1>1, SameKeepsSession DEF ListTrips
<1>4. CASE Move(j, observes) /\ UNCHANGED app
  <2>1. /\ observes \in Job /\ observes.kind = "OBSERVE" /\ observes.account = j.account
        /\ observes.current = j.current
    BY <1>1 DEF Job, Steps
  <2> HIDE DEF observes
  <2>2. Sound(observes) /\ Fits(observes)
    BY <1>1, <1>2, <2>1 DEF Sound, Fits
  <2>3. Eases
    BY <1>1, <1>4, SameEases
  <2> QED
    BY <1>3, <1>4, <2>2, <2>3, QuietKeeps, MovesOne DEF ListTrips, IInv, Types
<1>5. CASE Move(j, looks) /\ UNCHANGED app
  <2>1. /\ looks \in Job /\ looks.kind = j.kind /\ looks.account = j.account
        /\ looks.current = j.current
    BY <1>1 DEF Job, Steps
  <2> HIDE DEF looks
  <2>2. Sound(looks) /\ Fits(looks)
    BY <1>1, <1>2, <2>1, GoesOn
  <2>3. Eases
    BY <1>1, <1>5, SameEases
  <2> QED
    BY <1>3, <1>5, <2>2, <2>3, QuietKeeps, MovesOne DEF ListTrips, IInv, Types
<1>6. CASE Shows("NO_TRIP") /\ End(j)
  <2>1. Eases
    BY <1>1, <1>6, ShownEases DEF Screens
  <2> QED
    BY <1>3, <1>6, <2>1, QuietKeeps, EndsOne DEF ListTrips, IInv, Types
<1> QED
  BY <1>4, <1>5, <1>6 DEF ListTrips

(* It fails, or is too late.                                               *)
LEMMA LaunchFailsKeeps ==
  ASSUME IInv, NEW j \in jobs, LaunchFails(j) \/ Deadline(j)
  PROVE  IInv'
<1>1. Types /\ app \in Apps
  BY DEF IInv, Types
<1>2. Eases
  BY <1>1, ShownEases DEF LaunchFails, Deadline, Screens
<1>3. KeepsSession
  BY <1>1, SameKeepsSession DEF LaunchFails, Deadline
<1>4. jobs' \subseteq jobs
  BY DEF LaunchFails, Deadline, End
<1> QED
  BY <1>1, <1>2, <1>3, <1>4, QuietKeeps DEF LaunchFails, Deadline, Types

-----------------------------------------------------------------------------
(* Observing a trip.                                                       *)

(* A trip is published for the account that signed in.                     *)
LEMMA PublishKeeps ==
  ASSUME IInv, NEW j \in jobs, j.kind = "OBSERVE", NEW runs \in BOOLEAN, Publish(j, runs),
         UNCHANGED <<auth, ready, trip, native, erasure, events>>
  PROVE  IInv'
<1>1. Types /\ app \in Apps /\ Sound(j) /\ Fits(j) /\ j \in Job
  BY DEF IInv, Types, Fit, Sound
<1>2. KeepsSession
  BY <1>1, SameKeepsSession
<1>3. CASE ~(j.current /\ app.mounted)
  <2>1. End(j) /\ UNCHANGED app
    BY <1>3 DEF Publish
  <2> QED
    BY <1>1, <1>2, <2>1, QuietKeeps, EndsOne, SameEases DEF Types
<1>4. CASE j.current /\ app.mounted
  <2>1. j.account \in Accounts /\ (auth = NoOne \/ j.account = auth)
    BY <1>1, <1>4 DEF Sound, Fits
  <2>2. /\ app' \in Apps /\ app'.mounted = app.mounted /\ app'.sessionKey = app.sessionKey
        /\ app'.device = app.device /\ app'.attempt = app.attempt
        /\ app'.owner = j.account
    <3> DEFINE a == j.account
    <3>1. app' = [app EXCEPT !.screen = "TRIP", !.owner = a, !.runs = runs, !.watch = TRUE]
      BY <1>4 DEF Publish
    <3>2. a \in Someone
      BY <2>1 DEF Someone
    <3> HIDE DEF a
    <3>3. /\ app'.mounted = app.mounted /\ app'.sessionKey = app.sessionKey
          /\ app'.device = app.device /\ app'.attempt = app.attempt /\ app'.owner = a
      BY <1>1, <3>1 DEF Apps
    <3>4. app' \in Apps
      BY <1>1, <3>1, <3>2 DEF Apps, Screens
    <3> QED
      BY <3>3, <3>4 DEF a
  <2>3. jobs' \subseteq jobs
    BY <1>4 DEF Publish
  <2>4. Fit'
    BY <2>2, <2>3, StaysFit DEF IInv, SameSession
  <2>5. Types'
    BY <1>1, <2>2 DEF Types
  <2>6. Screened'
    BY <1>4, <2>1, <2>2 DEF IInv, Screened
  <2>7. Seated'
    BY <1>4, <2>1, <2>2 DEF IInv, Seated
  <2>8. Erasing'
    BY DEF IInv, Erasing
  <2> QED
    BY <2>4, <2>5, <2>6, <2>7, <2>8 DEF IInv
<1> QED
  BY <1>3, <1>4

(* An observation ends without a screen.                                   *)
LEMMA UnobservedKeeps ==
  ASSUME IInv, NEW j \in jobs, Unobserved(j),
         UNCHANGED <<auth, ready, trip, native, erasure, events>>
  PROVE  IInv'
<1>1. Types /\ app \in Apps
  BY DEF IInv, Types
<1>2. Eases
  BY <1>1, SameEases, ShownEases DEF Unobserved, Screens
<1> QED
  BY <1>1, <1>2, SameKeepsSession, QuietKeeps, EndsOne DEF Unobserved, Types

(* A started trip the engine refuses is shown all the same.                *)
LEMMA UnpreparedKeeps ==
  ASSUME IInv, NEW j \in jobs, j.kind = "OBSERVE", Unprepared(j),
         UNCHANGED <<auth, ready, trip, native, erasure, events>>
  PROVE  IInv'
  BY PublishKeeps, UnobservedKeeps DEF Unprepared

(* The projection arrives.                                                 *)
LEMMA FetchKeeps ==
  ASSUME IInv, NEW j \in jobs, Fetch(j)
  PROVE  IInv'
<1> DEFINE k == [j EXCEPT !.step = "fetched", !.saw = trip[j.account]]
<1>1. Types /\ app \in Apps /\ Sound(j) /\ Fits(j) /\ j \in Job
  BY DEF IInv, Types, Fit, Sound
<1>2. trip[j.account] \in Stages
  BY <1>1 DEF Types, Sound, Fetch
<1>3. /\ k \in Job /\ k.kind = j.kind /\ k.account = j.account /\ k.current = j.current
  BY <1>1, <1>2 DEF Job, Steps
<1>4. Move(j, k) /\ k.kind = "OBSERVE"
  BY <1>3 DEF Fetch
<1> HIDE DEF k
<1>5. Sound(k) /\ Fits(k)
  BY <1>1, <1>3, <1>4, GoesOn
<1> QED
  BY <1>1, <1>4, <1>5, QuietKeeps, MovesOne, SameEases, SameKeepsSession DEF Fetch, Types

(* A key is imported, and a trip handed to the engine, in the session      *)
(* selected for its account.                                               *)
LEMMA ImportKeeps ==
  ASSUME IInv, NEW j \in jobs, ImportKey(j)
  PROVE  IInv'
<1> DEFINE k == [j EXCEPT !.step = "imported"]
<1>1. Types /\ app \in Apps /\ Sound(j) /\ Fits(j) /\ j \in Job
  BY DEF IInv, Types, Fit, Sound
<1>2. CASE ~(j.live /\ InSession(j.account))
  BY <1>2, UnpreparedKeeps DEF ImportKey
<1>3. CASE j.live /\ InSession(j.account)
  <2>1. j.account \in Accounts /\ native.selected = j.account
    BY <1>1, <1>3 DEF ImportKey, InSession, Sound
  <2>2. Free(j.account)
    BY <2>1 DEF IInv, Erasing, Free
  <2>3. native' = [native EXCEPT !.keys = native.keys \cup {j.account}] /\ Move(j, k)
    BY <1>3 DEF ImportKey
  <2>4. KeepsSession
    BY <1>1, <2>1, <2>2, <2>3 DEF Types, Natives, KeepsSession
  <2>5. /\ k \in Job /\ k.kind = j.kind /\ k.account = j.account /\ k.current = j.current
    BY <1>1 DEF Job, Steps
  <2>6. k.kind = "OBSERVE" /\ UNCHANGED app
    BY <1>3, <2>5 DEF ImportKey
  <2> HIDE DEF k
  <2>7. Sound(k) /\ Fits(k)
    BY <1>1, <2>5, <2>6, GoesOn
  <2> QED
    BY <1>1, <2>3, <2>4, <2>6, <2>7, QuietKeeps, MovesOne, SameEases DEF ImportKey, Types
<1> QED
  BY <1>2, <1>3

(* A trip is handed to the engine in the session of its account.           *)
LEMMA ActivateKeeps ==
  ASSUME IInv, NEW j \in jobs, Activate(j)
  PROVE  IInv'
<1> DEFINE k == [j EXCEPT !.step = "activated"]
<1>1. Types /\ app \in Apps /\ Sound(j) /\ Fits(j) /\ j \in Job
  BY DEF IInv, Types, Fit, Sound
<1>2. CASE ~(j.live /\ InSession(j.account) /\ j.account \in native.keys)
  BY <1>2, UnpreparedKeeps DEF Activate
<1>3. CASE j.live /\ InSession(j.account) /\ j.account \in native.keys
  <2>1. native.selected # NoOne
    BY <1>1, <1>3, PhoneAssumption DEF Activate, InSession, Sound
  <2>2. native' = [native EXCEPT !.active = TRUE] /\ Move(j, k) /\ UNCHANGED app
    BY <1>3 DEF Activate
  <2>3. KeepsSession
    BY <1>1, <2>1, <2>2 DEF Types, Natives, KeepsSession
  <2>4. /\ k \in Job /\ k.kind = j.kind /\ k.account = j.account /\ k.current = j.current
    BY <1>1 DEF Job, Steps
  <2>5. k.kind = "OBSERVE"
    BY <1>3, <2>4 DEF Activate
  <2> HIDE DEF k
  <2>6. Sound(k) /\ Fits(k)
    BY <1>1, <2>4, <2>5, GoesOn
  <2> QED
    BY <1>1, <2>2, <2>3, <2>6, QuietKeeps, MovesOne, SameEases DEF Activate, Types
<1> QED
  BY <1>2, <1>3

(* The observation ends, well or badly.                                    *)
LEMMA ObservedKeeps ==
  ASSUME IInv, NEW j \in jobs, Observed(j) \/ ObserveFails(j)
  PROVE  IInv'
<1>1. CASE Observed(j)
  <2> DEFINE runs == j.step = "activated" /\ j.live
  <2>1. runs \in BOOLEAN /\ Publish(j, runs)
    BY <1>1 DEF Observed
  <2> HIDE DEF runs
  <2> QED
    BY <1>1, <2>1, PublishKeeps DEF Observed
<1>2. CASE ObserveFails(j)
  BY <1>2, UnpreparedKeeps, UnobservedKeeps DEF ObserveFails
<1> QED
  BY <1>1, <1>2

(* Polls and refreshes start for the owner of the trip on screen.          *)
LEMMA PollKeeps ==
  ASSUME IInv, Poll
  PROVE  IInv'
<1> DEFINE new == NewJob("OBSERVE", app.owner, "fetching")
           k == [new EXCEPT !.live = (app.scoped = "LIVE")]
<1>1. Types /\ app \in Apps
  BY DEF IInv, Types
<1>2. app.owner \in Accounts /\ (auth = NoOne \/ app.owner = auth) /\ app.mounted
  BY DEF IInv, Screened, Seated, Poll
<1>3. new \in Job /\ new.kind = "OBSERVE" /\ new.account = app.owner
  BY <1>2 DEF NewJob, Job, Steps, Someone, Stages
<1> HIDE DEF new
<1>4. k \in Job /\ k.kind = "OBSERVE" /\ k.account = app.owner
  BY <1>3 DEF Job
<1>5. jobs' = jobs \cup {k}
  BY DEF Poll, new
<1> HIDE DEF k
<1>6. Sound(k) /\ Fits(k)
  BY <1>2, <1>4 DEF Sound, Fits
<1> QED
  BY <1>1, <1>5, <1>6, QuietKeeps, SameEases, SameKeepsSession DEF Poll, Types

(* So do the refreshes of a watched trip.                                  *)
LEMMA AskKeeps ==
  ASSUME IInv, AskLifecycle
  PROVE  IInv'
<1> DEFINE new == NewJob("REFRESH", app.owner, "asking")
           k == [new EXCEPT !.live = (app.scoped = "LIVE")]
<1>1. Types /\ app \in Apps
  BY DEF IInv, Types
<1>2. app.owner \in Accounts /\ app.mounted
  BY DEF IInv, Screened, AskLifecycle
<1>3. new \in Job /\ new.kind = "REFRESH" /\ new.account = app.owner
  BY <1>2 DEF NewJob, Job, Steps, Someone, Stages
<1> HIDE DEF new
<1>4. k \in Job /\ k.kind = "REFRESH" /\ k.account = app.owner
  BY <1>3 DEF Job
<1>5. jobs' = jobs \cup {k}
  BY DEF AskLifecycle, new
<1> HIDE DEF k
<1>6. Sound(k) /\ Fits(k)
  BY <1>2, <1>4 DEF Sound, Fits
<1> QED
  BY <1>1, <1>5, <1>6, QuietKeeps, SameEases, SameKeepsSession DEF AskLifecycle, Types

-----------------------------------------------------------------------------
(* Retiring a trip and signing out.                                        *)

(* What the generations leave of the jobs fits where they did.             *)
LEMMA OvertakenFit ==
  ASSUME Fit, NEW js \in SUBSET jobs, NEW k \in Overtaken(js)
  PROVE  Sound(k) /\ Fits(k)
<1>1. \A j \in js : Sound(j) /\ Fits(j)
  BY DEF Fit
<1>2. /\ Sound(k) /\ ~k.current
      /\ k.kind = "PROVISION" =>
           \E j \in js : j.kind = "PROVISION" /\ j.account = k.account /\ j.step = k.step
  BY <1>1, OvertakenJobs
<1>3. Fits(k)
  BY <1>1, <1>2 DEF Fits
<1> QED
  BY <1>2, <1>3

(* What the fence leaves of them provisions nothing.                       *)
LEMMA FencedFit ==
  ASSUME Fit, NEW js \in SUBSET jobs, NEW k \in Fenced(js)
  PROVE  Sound(k) /\ Fits(k) /\ k.kind # "PROVISION"
<1>1. \A j \in js : Sound(j) /\ Fits(j)
  BY DEF Fit
<1>2. /\ Sound(k) /\ k.kind # "PROVISION"
      /\ \E j \in js : j.kind = k.kind /\ j.account = k.account /\ j.current = k.current
  BY <1>1, FencedJobs
<1>3. Fits(k)
  BY <1>1, <1>2 DEF Fits
<1> QED
  BY <1>2, <1>3

(* An erasure behind the fence is otherwise the same.                      *)
LEMMA FencedErasure ==
  ASSUME Types, FenceErasure
  PROVE  erasure' \in Erasures /\ SameErasure
  BY DEF Types, FenceErasure, Erasures, SameErasure

(* So are the refs.                                                        *)
LEMMA FencedEases ==
  ASSUME app \in Apps, app' = AppFenced(app)
  PROVE  Eases
<1>1. /\ app' \in Apps /\ app'.mounted = app.mounted /\ app'.sessionKey = app.sessionKey
      /\ app'.public = app.public /\ app'.screen = app.screen /\ app'.owner = app.owner
      /\ app'.device = app.device /\ app'.watch = app.watch
      /\ app'.attempt \in {"NONE", app.attempt}
  BY AppFencedType
<1> QED
  BY <1>1 DEF Eases

(* A refresh finds its trip left, and overtakes the rest.                  *)
LEMMA LifecycleAnswersKeeps ==
  ASSUME IInv, NEW j \in jobs, LifecycleAnswers(j) \/ LifecycleFails(j)
  PROVE  IInv'
<1> DEFINE k == [j EXCEPT !.step = "looking"]
           others == jobs \ {j}
<1>1. Types /\ app \in Apps /\ Sound(j) /\ Fits(j) /\ j \in Job /\ Fit
  BY DEF IInv, Types, Fit, Sound
<1>2. UNCHANGED <<auth, ready, trip, native, erasure, events>>
  BY DEF LifecycleAnswers, LifecycleFails
<1>3. CASE End(j) /\ UNCHANGED app
  BY <1>1, <1>2, <1>3, QuietKeeps, EndsOne, SameEases, SameKeepsSession DEF Types
<1>4. CASE /\ jobs' = Overtaken(others) \cup {k} /\ j.kind = "REFRESH"
           /\ app' = [app EXCEPT !.scoped = "NONE", !.watch = FALSE]
  <2>1. Eases
    BY <1>1, <1>4 DEF Eases, Apps
  <2>2. /\ k \in Job /\ k.kind = j.kind /\ k.account = j.account /\ k.current = j.current
    BY <1>1 DEF Job, Steps
  <2> HIDE DEF k
  <2>3. Sound(k) /\ Fits(k)
    BY <1>1, <1>4, <2>2, GoesOn
  <2>4. others \in SUBSET jobs
    OBVIOUS
  <2> HIDE DEF others
  <2>5. \A x \in Overtaken(others) : Sound(x) /\ Fits(x)
    BY <1>1, <2>4, OvertakenFit
  <2> QED
    BY <1>1, <1>2, <1>4, <2>1, <2>3, <2>5, QuietKeeps, SameKeepsSession DEF Types
<1> QED
  BY <1>3, <1>4 DEF LifecycleAnswers, LifecycleFails

(* It looks for the trip the engine runs.                                  *)
LEMMA LookKeeps ==
  ASSUME IInv, NEW j \in jobs, LookForTrip(j)
  PROVE  IInv'
<1> DEFINE k == [j EXCEPT !.step = "looked", !.flag = native.active]
<1>1. Types /\ app \in Apps /\ Sound(j) /\ Fits(j) /\ j \in Job /\ native.active \in BOOLEAN
  BY DEF IInv, Types, Fit, Sound, Natives
<1>2. /\ k \in Job /\ k.kind = j.kind /\ k.account = j.account /\ k.current = j.current
      /\ k.step = "looked"
  BY <1>1 DEF Job, Steps
<1>3. Move(j, k)
  BY DEF LookForTrip
<1> HIDE DEF k
<1>4. k.kind # "PROVISION"
  BY <1>1, <1>2 DEF LookForTrip, Sound
<1>5. Sound(k) /\ Fits(k)
  BY <1>1, <1>2, <1>4, GoesOn
<1> QED
  BY <1>1, <1>3, <1>5, QuietKeeps, MovesOne, SameEases, SameKeepsSession DEF LookForTrip, Types

(* The trip is retired behind the fence.                                   *)
LEMMA RetireTripKeeps ==
  ASSUME IInv, NEW j \in jobs, RetireTrip(j)
  PROVE  IInv'
<1> DEFINE k == [j EXCEPT !.step = "retired"]
           others == jobs \ {j}
           active == native.active /\ ~j.flag
<1>1. Types /\ app \in Apps /\ Sound(j) /\ Fits(j) /\ j \in Job /\ Fit
  BY DEF IInv, Types, Fit, Sound
<1>2. /\ k \in Job /\ k.kind = j.kind /\ k.account = j.account /\ k.current = j.current
      /\ k.step = "retired"
  BY <1>1 DEF Job, Steps
<1>3. jobs' = Fenced(others) \cup {k}
  BY DEF RetireTrip
<1> HIDE DEF k
<1>4. k.kind # "PROVISION"
  BY <1>1, <1>2 DEF RetireTrip, Sound
<1>5. Sound(k) /\ Fits(k)
  BY <1>1, <1>2, <1>4, GoesOn
<1>6. others \in SUBSET jobs
  OBVIOUS
<1>7. native' = [native EXCEPT !.active = active] /\ active \in BOOLEAN
      /\ (active => native.selected # NoOne)
  BY <1>1 DEF RetireTrip, Types
<1> HIDE DEF others, active
<1>8. \A x \in Fenced(others) : Sound(x) /\ Fits(x)
  BY <1>1, <1>6, FencedFit
<1>9. KeepsSession
  BY <1>1, <1>7 DEF Types, Natives, KeepsSession
<1>10. Eases /\ erasure' \in Erasures /\ SameErasure
  BY <1>1, FencedEases, FencedErasure DEF RetireTrip
<1> QED
  BY <1>1, <1>3, <1>5, <1>8, <1>9, <1>10, EasedKeeps DEF RetireTrip, Types

(* The phone goes on to an empty home, or launches again.                  *)
LEMMA RetiredKeeps ==
  ASSUME IInv, NEW j \in jobs, Retired(j) \/ RetireFails(j)
  PROVE  IInv'
<1>1. Types /\ app \in Apps /\ Sound(j) /\ Fits(j) /\ j \in Job
  BY DEF IInv, Types, Fit, Sound
<1>2. UNCHANGED <<auth, ready, trip, native, erasure, events>>
  BY DEF Retired, RetireFails
<1>3. CASE End(j) /\ UNCHANGED app
  BY <1>1, <1>2, <1>3, QuietKeeps, EndsOne, SameEases, SameKeepsSession DEF Types
<1>4. CASE End(j) /\ Shows("FAILED")
  <2>1. Eases
    BY <1>1, <1>4, ShownEases DEF Screens
  <2> QED
    BY <1>1, <1>2, <1>4, <2>1, QuietKeeps, EndsOne, SameKeepsSession DEF Types
<1>5. CASE /\ End(j)
           /\ app' = [app EXCEPT !.scoped = "LIVE", !.screen = "NO_TRIP", !.watch = FALSE]
  <2>1. Eases
    BY <1>1, <1>5 DEF Eases, Apps, Screens
  <2> QED
    BY <1>1, <1>2, <1>5, <2>1, QuietKeeps, EndsOne, SameKeepsSession DEF Types
<1>6. CASE j.kind = "REFRESH" /\ j.current /\ Effect(auth, ready)
  <2>1. app.mounted
    BY <1>1, <1>6 DEF Fits
  <2>2. erasure.step = "none" /\ auth \notin erasure.gone
    BY <2>1 DEF IInv, Screened, Erasing
  <2>3. /\ auth \in Someone /\ auth' = auth /\ ready' \in BOOLEAN
        /\ events' \in 0 .. MaxEvents /\ UNCHANGED <<trip, native, erasure>>
    BY <1>1, <1>2 DEF Types
  <2> QED
    BY <1>6, <2>2, <2>3, EffectKeeps
<1> QED
  BY <1>3, <1>4, <1>5, <1>6 DEF Retired, RetireFails

(* A sign-out starts behind both generations.                              *)
LEMMA ClearAndSignOutKeeps ==
  ASSUME IInv, NEW others \in SUBSET jobs, ClearAndSignOut(others),
         UNCHANGED <<auth, ready, trip, native>>, events' \in 0 .. MaxEvents
  PROVE  IInv'
<1> DEFINE new == NewJob("SIGN_OUT", auth, "pausing")
           v == AppFenced(app)
<1>1. Types /\ app \in Apps /\ Fit
  BY DEF IInv, Types
<1>2. /\ v \in Apps /\ v.mounted = app.mounted /\ v.sessionKey = app.sessionKey
      /\ v.public = app.public /\ v.screen = app.screen /\ v.owner = app.owner
      /\ v.device = app.device /\ v.watch = app.watch /\ v.attempt \in {"NONE", app.attempt}
  BY <1>1, AppFencedType
<1>3. app' = [v EXCEPT !.watch = FALSE] /\ FenceErasure
  BY DEF ClearAndSignOut
<1> HIDE DEF v
<1>4. Eases
  BY <1>2, <1>3 DEF Eases, Apps
<1>5. KeepsSession /\ erasure' \in Erasures /\ SameErasure
  BY <1>1, <1>3, SameKeepsSession, FencedErasure
<1>6. new \in Job /\ new.kind = "SIGN_OUT"
  BY <1>1 DEF NewJob, Job, Steps, Someone, Stages, Types
<1>7. jobs' = Fenced(Overtaken(others)) \cup {new}
  BY DEF ClearAndSignOut
<1> HIDE DEF new
<1>8. Sound(new) /\ Fits(new)
  BY <1>6 DEF Sound, Fits
<1>9. \A j \in others : Sound(j)
  BY <1>1 DEF Fit
<1>10. \A k \in Fenced(Overtaken(others)) : Sound(k) /\ Fits(k)
  <2> SUFFICES ASSUME NEW k \in Fenced(Overtaken(others)) PROVE Sound(k) /\ Fits(k)
    OBVIOUS
  <2>1. Sound(k) /\ k.kind # "PROVISION" /\ ~k.current
    BY <1>9, FencedOvertakenJobs
  <2> QED
    BY <2>1 DEF Fits
<1> QED
  BY <1>1, <1>4, <1>5, <1>7, <1>8, <1>10, EasedKeeps DEF Types

(* A refused token starts one.                                             *)
LEMMA TokenRefusedKeeps ==
  ASSUME IInv, NEW j \in jobs, TokenRefused(j)
  PROVE  IInv'
<1> DEFINE others == jobs \ {j}
<1>1. others \in SUBSET jobs /\ ClearAndSignOut(others) /\ events' \in 0 .. MaxEvents
      /\ UNCHANGED <<auth, ready, trip, native>>
  BY DEF TokenRefused, IInv, Types
<1> HIDE DEF others
<1> QED
  BY <1>1, ClearAndSignOutKeeps

(* The session has been cleared.                                           *)
LEMMA SignedOutStepKeeps ==
  ASSUME IInv, NEW j \in jobs, SignedOut(j)
  PROVE  IInv'
<1> DEFINE k == [j EXCEPT !.step = "leaving"]
           v == Forgotten(app)
<1>1. Types /\ app \in Apps /\ Sound(j) /\ Fits(j) /\ j \in Job
  BY DEF IInv, Types, Fit, Sound
<1>2. /\ v \in Apps /\ v.mounted = app.mounted /\ v.sessionKey = app.sessionKey
      /\ v.owner = app.owner /\ v.watch = app.watch /\ v.device = NoOne /\ v.attempt = "NONE"
  BY <1>1, ForgottenType
<1>3. app' = [v EXCEPT !.public = NoOne, !.screen = "SIGNED_OUT"]
  BY DEF SignedOut
<1> HIDE DEF v
<1>4. Eases
  BY <1>2, <1>3 DEF Eases, Apps, Someone, Screens
<1>5. KeepsSession
  BY <1>1, SameKeepsSession DEF SignedOut
<1>6. /\ k \in Job /\ k.kind = j.kind /\ k.account = j.account /\ k.current = j.current
  BY <1>1 DEF Job, Steps
<1>7. Move(j, k) /\ k.kind = "SIGN_OUT"
  BY <1>6 DEF SignedOut
<1> HIDE DEF k
<1>8. Sound(k) /\ Fits(k)
  BY <1>1, <1>6, <1>7, GoesOn
<1> QED
  BY <1>1, <1>4, <1>5, <1>7, <1>8, QuietKeeps, MovesOne DEF SignedOut, Types

-----------------------------------------------------------------------------
(* The erasure.                                                            *)

(* Behind the erasure's screen a job matters only if it could draw an      *)
(* identity or be taken for a launch.                                      *)
LEMMA UnmountedKeeps ==
  ASSUME IInv, Types', ~app'.mounted, ~app'.watch, app'.screen = "TRIP" => app'.owner \in Accounts,
         erasure'.step = "none" => app'.sessionKey = NoOne,
         erasure'.step # "none" \/ erasure'.saved => erasure'.account \in Accounts,
         Erasing',
         \A k \in jobs' :
           /\ Sound(k)
           /\ k.current => k.kind \in {"OBSERVE", "SIGN_OUT"}
           /\ k.kind = "PROVISION" =>
                k.account \notin erasure'.gone /\ erasure'.step \notin Underway
  PROVE  IInv'
<1>1. Fit'
  <2> SUFFICES ASSUME NEW k \in jobs' PROVE Sound(k) /\ Fits(k)'
    BY DEF Fit
  <2> QED
    BY DEF Fits
<1>2. Screened' /\ Seated'
  BY DEF Screened, Seated
<1> QED
  BY <1>1, <1>2 DEF IInv

(* While an account is erased the session's screens are gone.              *)
LEMMA BehindTheScreen ==
  ASSUME IInv, erasure.step # "none"
  PROVE  /\ ~app.mounted /\ ~app.watch /\ (app.screen = "TRIP" => app.owner \in Accounts)
         /\ erasure.account \in Accounts /\ erasure \in Erasures /\ native \in Natives
         /\ \A k \in jobs :
              /\ Sound(k)
              /\ k.current => k.kind \in {"OBSERVE", "SIGN_OUT"}
              /\ k.kind = "PROVISION" =>
                   k.account \notin erasure.gone /\ erasure.step \notin Underway
<1>1. ~app.mounted
  BY DEF IInv, Screened
<1>2. /\ ~app.watch /\ (app.screen = "TRIP" => app.owner \in Accounts)
      /\ erasure.account \in Accounts
  BY <1>1 DEF IInv, Screened
<1>3. \A k \in jobs :
        /\ Sound(k)
        /\ k.current => k.kind \in {"OBSERVE", "SIGN_OUT"}
        /\ k.kind = "PROVISION" =>
             k.account \notin erasure.gone /\ erasure.step \notin Underway
  BY <1>1 DEF IInv, Fit, Fits
<1> QED
  BY <1>1, <1>2, <1>3 DEF IInv, Types

(* The deletion is remembered, and the fence moved.                        *)
LEMMA RememberKeeps ==
  ASSUME IInv, RememberErasure
  PROVE  IInv'
<1> DEFINE v == AppFenced(app)
<1>1. /\ ~app.mounted /\ ~app.watch /\ (app.screen = "TRIP" => app.owner \in Accounts)
      /\ erasure.account \in Accounts /\ erasure \in Erasures
      /\ \A j \in jobs : Sound(j) /\ (j.current => j.kind \in {"OBSERVE", "SIGN_OUT"})
  BY BehindTheScreen DEF RememberErasure
<1>2. app \in Apps
  BY DEF IInv, Types
<1>3. /\ app' \in Apps /\ app'.mounted = app.mounted /\ app'.watch = app.watch
      /\ app'.screen = app.screen /\ app'.owner = app.owner
  BY <1>2, AppFencedType DEF RememberErasure
<1>4. erasure' = [erasure EXCEPT !.step = "pausing", !.saved = TRUE, !.live = TRUE]
  BY DEF RememberErasure
<1>5. /\ erasure' \in Erasures /\ erasure'.step = "pausing" /\ erasure'.gone = erasure.gone
      /\ erasure'.account = erasure.account
  BY <1>1, <1>4 DEF Erasures, EraseSteps
<1>6. UNCHANGED <<auth, ready, trip, native, events>> /\ jobs' = Fenced(jobs)
  BY DEF RememberErasure
<1>7. \A k \in jobs' : /\ Sound(k) /\ k.kind # "PROVISION"
                       /\ k.current => k.kind \in {"OBSERVE", "SIGN_OUT"}
  <2> SUFFICES ASSUME NEW k \in Fenced(jobs)
               PROVE  /\ Sound(k) /\ k.kind # "PROVISION"
                      /\ k.current => k.kind \in {"OBSERVE", "SIGN_OUT"}
    BY <1>6
  <2>1. /\ Sound(k) /\ k.kind # "PROVISION"
        /\ \E j \in jobs : j.kind = k.kind /\ j.account = k.account /\ j.current = k.current
    BY <1>1, FencedJobs
  <2> QED
    BY <1>1, <2>1
<1>8. Types'
  BY <1>3, <1>5, <1>6 DEF IInv, Types
<1>9. Erasing'
  BY <1>5, <1>6 DEF IInv, Erasing
<1>10. /\ ~app'.mounted /\ ~app'.watch /\ (app'.screen = "TRIP" => app'.owner \in Accounts)
       /\ erasure'.step # "none" /\ erasure'.account \in Accounts
  BY <1>1, <1>3, <1>5
<1>11. \A k \in jobs' :
         /\ Sound(k)
         /\ k.current => k.kind \in {"OBSERVE", "SIGN_OUT"}
         /\ k.kind = "PROVISION" =>
              k.account \notin erasure'.gone /\ erasure'.step \notin Underway
  BY <1>7
<1>12. /\ erasure'.step = "none" => app'.sessionKey = NoOne
       /\ erasure'.step # "none" \/ erasure'.saved => erasure'.account \in Accounts
  BY <1>10
<1> HIDE DEF v
<1> QED
  BY <1>8, <1>9, <1>10, <1>11, <1>12, UnmountedKeeps

(* The erasure's own calls.                                                *)
LEMMA ErasureGoesOn ==
  ASSUME IInv, NEW from \in EraseSteps \ {"none"}, NEW to \in EraseSteps \ {"none"},
         EraseStep(from, to), UNCHANGED <<trip, app, jobs, events>>,
         auth' \in {auth, NoOne}, ready' \in BOOLEAN, native' \in Natives,
         native'.active => native'.selected # NoOne,
         to \in Underway => from \in Underway, Erasing'
  PROVE  IInv'
<1>1. erasure.step = from /\ erasure' = [erasure EXCEPT !.step = to]
  BY DEF EraseStep
<1>2. /\ ~app.mounted /\ ~app.watch /\ (app.screen = "TRIP" => app.owner \in Accounts)
      /\ erasure.account \in Accounts /\ erasure \in Erasures
      /\ \A k \in jobs :
           /\ Sound(k)
           /\ k.current => k.kind \in {"OBSERVE", "SIGN_OUT"}
           /\ k.kind = "PROVISION" =>
                k.account \notin erasure.gone /\ erasure.step \notin Underway
  BY <1>1, BehindTheScreen
<1>3. /\ erasure' \in Erasures /\ erasure'.step = to /\ erasure'.gone = erasure.gone
      /\ erasure'.account = erasure.account
  BY <1>1, <1>2 DEF Erasures
<1>4. Types'
  BY <1>3 DEF IInv, Types, Someone
<1> QED
  BY <1>1, <1>2, <1>3, <1>4, UnmountedKeeps

(* The erasure's calls, in order, and their failures.                      *)
LEMMA ErasureStepKeeps ==
  ASSUME IInv, ErasurePaused \/ EraseAccount \/ LeaveClerk \/ EraseFails \/ EraseAgain
  PROVE  IInv'
<1>1. Types /\ erasure \in Erasures /\ native \in Natives /\ NoOne \notin erasure.gone
  BY PhoneAssumption DEF IInv, Types, Erasures
<1>2. CASE ErasurePaused
  <2>1. EraseStep("pausing", "clearing") /\ native' = [native EXCEPT !.clearing = erasure.live]
    BY <1>2 DEF ErasurePaused
  <2>2. UNCHANGED <<auth, ready, trip, app, jobs, events>>
    BY <1>2 DEF ErasurePaused
  <2>3. /\ native' \in Natives /\ native'.selected = native.selected
        /\ native'.active = native.active
        /\ native'.keys = native.keys /\ native'.identities = native.identities
    BY <1>1, <2>1 DEF Natives, Erasures
  <2>4. erasure'.step = "clearing" /\ erasure'.gone = erasure.gone
    BY <1>1, <2>1 DEF EraseStep, Erasures
  <2>5. Erasing'
    BY <2>2, <2>3, <2>4 DEF IInv, Erasing
  <2> QED
    BY <1>1, <2>1, <2>2, <2>3, <2>5, ErasureGoesOn DEF EraseSteps, Underway, Types
<1>3. CASE EraseAccount
  <2> DEFINE a == erasure.account
             selected == IF native.selected = a THEN NoOne ELSE native.selected
             active == native.active /\ native.selected # a
  <2>1. /\ EraseStep("clearing", "erased")
        /\ native' = [native EXCEPT !.identities = native.identities \ {a},
                                    !.keys = native.keys \ {a},
                                    !.selected = selected, !.active = active]
    BY <1>3 DEF EraseAccount, Erased
  <2>2. UNCHANGED <<auth, ready, trip, app, jobs, events>>
    BY <1>3 DEF EraseAccount
  <2>3. a \in Accounts
    BY <2>1, BehindTheScreen DEF EraseStep
  <2>4. /\ selected \in {native.selected, NoOne} /\ selected \in Someone /\ selected # a
        /\ active \in BOOLEAN /\ (active => selected # NoOne)
    BY <1>1, <2>3, PhoneAssumption DEF Natives, Someone, Types
  <2> HIDE DEF selected, active
  <2>5. /\ native' \in Natives /\ native'.selected = selected
        /\ native'.keys = native.keys \ {a} /\ native'.identities = native.identities \ {a}
    BY <1>1, <2>1, <2>4 DEF Natives
  <2>6. native'.active = active
    BY <1>1, <2>1 DEF Natives
  <2>7. /\ erasure'.step = "erased" /\ erasure'.gone = erasure.gone
        /\ erasure'.account = a
    BY <1>1, <2>1 DEF EraseStep, Erasures
  <2>8. Erasing'
    BY <2>2, <2>3, <2>4, <2>5, <2>7, PhoneAssumption DEF IInv, Erasing
  <2> QED
    BY <1>1, <2>1, <2>2, <2>4, <2>5, <2>6, <2>8, ErasureGoesOn DEF EraseSteps, Underway, Types
<1>4. CASE LeaveClerk
  <2>1. EraseStep("erased", "left") /\ auth' = NoOne /\ ready' = FALSE
        /\ UNCHANGED <<trip, native, app, jobs, events>>
    BY <1>4 DEF LeaveClerk
  <2>2. /\ erasure.step = "erased" /\ erasure'.step = "left" /\ erasure'.gone = erasure.gone
        /\ erasure'.account = erasure.account
    BY <1>1, <2>1 DEF EraseStep, Erasures
  <2>3. Erasing'
    BY <1>1, <2>1, <2>2 DEF IInv, Erasing
  <2> QED
    BY <1>1, <2>1, <2>3, ErasureGoesOn DEF EraseSteps, Underway, Types
<1>5. CASE EraseFails
  <2> DEFINE clearing == native.clearing /\ erasure.step # "clearing"
             from == erasure.step
  <2>1. /\ from \in EraseSteps \ {"none"} /\ erasure' = [erasure EXCEPT !.step = "failed"]
        /\ native' = [native EXCEPT !.clearing = clearing] /\ clearing \in BOOLEAN
    BY <1>5 DEF EraseFails, EraseSteps
  <2>2. UNCHANGED <<auth, ready, trip, app, jobs, events>>
    BY <1>5 DEF EraseFails
  <2> HIDE DEF clearing
  <2>3. /\ native' \in Natives /\ native'.selected = native.selected
        /\ native'.active = native.active
        /\ native'.keys = native.keys /\ native'.identities = native.identities
    BY <1>1, <2>1 DEF Natives
  <2>4. erasure'.step = "failed" /\ erasure'.gone = erasure.gone
    BY <1>1, <2>1 DEF Erasures
  <2>5. Erasing'
    BY <2>2, <2>3, <2>4 DEF IInv, Erasing
  <2>6. EraseStep(from, "failed")
    BY <2>1 DEF EraseStep
  <2>7. "failed" \in EraseSteps \ {"none"} /\ "failed" \notin Underway
    BY DEF EraseSteps, Underway
  <2> HIDE DEF from
  <2> QED
    BY <1>1, <2>1, <2>2, <2>3, <2>5, <2>6, <2>7, ErasureGoesOn DEF Types
<1>6. CASE EraseAgain
  <2>1. /\ EraseStep("failed", "remembering")
        /\ UNCHANGED <<auth, ready, trip, native, app, jobs, events>>
    BY <1>6 DEF EraseAgain
  <2>2. erasure'.step = "remembering" /\ erasure'.gone = erasure.gone
    BY <1>1, <2>1 DEF EraseStep, Erasures
  <2>3. Erasing'
    BY <2>1, <2>2 DEF IInv, Erasing
  <2> QED
    BY <1>1, <2>1, <2>3, ErasureGoesOn DEF EraseSteps, Underway, Types
<1> QED
  BY <1>2, <1>3, <1>4, <1>5, <1>6

(* The deletion is forgotten: the account is gone.                         *)
LEMMA FinishKeeps ==
  ASSUME IInv, FinishErasure
  PROVE  IInv'
<1> DEFINE gone == erasure.gone \cup {erasure.account}
<1>1. /\ ~app.mounted /\ ~app.watch /\ (app.screen = "TRIP" => app.owner \in Accounts)
      /\ erasure.account \in Accounts /\ erasure \in Erasures /\ erasure.step \in Underway
      /\ \A k \in jobs : /\ Sound(k) /\ k.kind # "PROVISION"
                         /\ k.current => k.kind \in {"OBSERVE", "SIGN_OUT"}
  BY BehindTheScreen DEF FinishErasure, Underway
<1>2. erasure' = [erasure EXCEPT !.step = "finished", !.saved = FALSE, !.gone = gone]
  BY DEF FinishErasure
<1>3. gone \subseteq Accounts
  BY <1>1 DEF Erasures
<1> HIDE DEF gone
<1>4. /\ erasure' \in Erasures /\ erasure'.step = "finished" /\ erasure'.gone = gone
      /\ erasure'.account = erasure.account
  BY <1>1, <1>2, <1>3 DEF Erasures, EraseSteps
<1>5. UNCHANGED <<auth, ready, trip, native, app, jobs, events>>
  BY DEF FinishErasure
<1>6. Types'
  BY <1>4, <1>5 DEF IInv, Types
<1>7. auth = NoOne /\ NoOne \notin gone
  BY <1>3, PhoneAssumption DEF IInv, Erasing, FinishErasure
<1>8. \A a \in gone : a \notin native.identities /\ a \notin native.keys /\ native.selected # a
  BY <1>1, <1>3 DEF IInv, Erasing, FinishErasure, gone
<1>9. erasure.account \in gone
  BY DEF gone
<1>10. Erasing'
  BY <1>4, <1>5, <1>7, <1>8, <1>9 DEF Erasing
<1>11. /\ ~app'.mounted /\ ~app'.watch /\ (app'.screen = "TRIP" => app'.owner \in Accounts)
       /\ erasure'.step # "none" /\ erasure'.account \in Accounts
  BY <1>1, <1>4, <1>5
<1> QED
  BY <1>1, <1>5, <1>6, <1>10, <1>11, UnmountedKeeps

(* A provider that has just mounted knows nothing.                         *)
LEMMA NewAppType == NewApp \in Apps /\ NewApp.mounted = FALSE /\ NewApp.sessionKey = NoOne
                    /\ NewApp.screen = "BLANK" /\ NewApp.watch = FALSE
                    /\ NewApp.attempt = "NONE" /\ NewApp.device = NoOne
  BY DEF NewApp, Apps, Someone, Screens

(* Nor is anything being erased.                                           *)
LEMMA NoErasureType ==
  ASSUME NEW gone \in SUBSET Accounts
  PROVE  /\ NoErasure(gone) \in Erasures /\ NoErasure(gone).step = "none"
         /\ NoErasure(gone).gone = gone /\ NoErasure(gone).saved = FALSE
  BY DEF NoErasure, Erasures, EraseSteps, Someone

(* The session's screens come back to nobody's session.                    *)
LEMMA DismissKeeps ==
  ASSUME IInv, DismissErasure
  PROVE  IInv'
<1> DEFINE new == NewJob("PAUSE", NoOne, "pausing")
<1>1. /\ ~app.mounted /\ erasure \in Erasures
      /\ \A k \in jobs : Sound(k) /\ (k.current => k.kind \in {"OBSERVE", "SIGN_OUT"})
  BY BehindTheScreen DEF DismissErasure
<1>2. auth = NoOne /\ UNCHANGED <<auth, ready, trip, native, events>>
  BY DEF DismissErasure, IInv, Erasing
<1>3. /\ erasure' \in Erasures /\ erasure'.step = "none" /\ erasure'.gone = erasure.gone
      /\ erasure'.saved = FALSE
  <2>1. erasure' = NoErasure(erasure.gone) /\ erasure.gone \in SUBSET Accounts
    BY <1>1 DEF DismissErasure, Erasures
  <2> QED
    BY <2>1, NoErasureType
<1>4. /\ app' \in Apps /\ app'.mounted = TRUE /\ app'.screen = "BLANK" /\ app'.watch = FALSE
      /\ app'.attempt = "NONE" /\ app'.device = NoOne
  BY NewAppType DEF DismissErasure, Apps
<1>5. new \in Job /\ new.kind = "PAUSE"
  BY DEF NewJob, Job, Steps, Someone, Stages
<1>6. jobs' = Fenced(jobs) \cup {new}
  BY DEF DismissErasure
<1> HIDE DEF new
<1>7. Fit'
  <2> SUFFICES ASSUME NEW k \in jobs' PROVE Sound(k) /\ Fits(k)'
    BY DEF Fit
  <2>1. CASE k \in Fenced(jobs)
    <3>1. /\ Sound(k) /\ k.kind # "PROVISION"
          /\ \E j \in jobs : j.kind = k.kind /\ j.account = k.account /\ j.current = k.current
      BY <1>1, <2>1, FencedJobs
    <3> QED
      BY <1>1, <1>2, <1>4, <3>1 DEF Fits
  <2>2. CASE k = new
    BY <1>4, <1>5, <2>2 DEF Sound, Fits
  <2> QED
    BY <1>6, <2>1, <2>2
<1>8. Types'
  BY <1>2, <1>3, <1>4 DEF IInv, Types
<1>9. Screened' /\ Seated'
  BY <1>2, <1>3, <1>4 DEF Screened, Seated
<1>10. Erasing'
  BY <1>2, <1>3 DEF IInv, Erasing
<1> QED
  BY <1>7, <1>8, <1>9, <1>10 DEF IInv

-----------------------------------------------------------------------------
(* The environment.                                                        *)

(* Clerk signs out at the end of a sign-out, or fails to.                  *)
LEMMA ClerkKeeps ==
  ASSUME IInv, NEW j \in jobs, ClerkSignsOut(j)
  PROVE  IInv'
<1>1. Types /\ app \in Apps /\ events' \in 0 .. MaxEvents
      /\ UNCHANGED <<trip, native, erasure>>
  BY DEF IInv, Types, ClerkSignsOut
<1>2. CASE End(j) /\ UNCHANGED <<auth, ready, app>>
  BY <1>1, <1>2, QuietKeeps, EndsOne, SameEases, SameKeepsSession DEF Types
<1>3. CASE auth' = NoOne /\ ready' = FALSE /\ app.mounted /\ auth # NoOne /\ SignedOutEffect
  BY <1>1, <1>3, SignedOutKeeps DEF IInv, Screened
<1>4. CASE /\ auth' = NoOne /\ ready' = FALSE /\ ~(app.mounted /\ auth # NoOne)
           /\ End(j) /\ UNCHANGED app
  <2>1. jobs' \subseteq jobs
    BY <1>4 DEF End
  <2>2. Fit'
    <3> SUFFICES ASSUME NEW k \in jobs' PROVE Sound(k) /\ Fits(k)'
      BY DEF Fit
    <3>1. Sound(k) /\ Fits(k)
      BY <2>1 DEF IInv, Fit
    <3> QED
      BY <1>1, <1>4, <3>1 DEF Fits
  <2>3. Types'
    BY <1>1, <1>4 DEF Types, Someone
  <2>4. Screened' /\ Seated'
    BY <1>1, <1>4 DEF IInv, Screened, Seated
  <2>5. NoOne \notin erasure.gone
    BY <1>1, PhoneAssumption DEF Types, Erasures
  <2>6. Erasing'
    BY <1>1, <1>4, <2>5 DEF IInv, Erasing
  <2> QED
    BY <2>2, <2>3, <2>4, <2>6 DEF IInv
<1> QED
  BY <1>2, <1>3, <1>4 DEF ClerkSignsOut

(* Another account, or the same one ready or trying again.                 *)
LEMMA LaunchesKeep ==
  ASSUME IInv,
         (\E a \in Someone : AuthChanges(a)) \/ ProfileCompletes \/ Retry
           \/ (Start /\ erasure.step = "none")
  PROVE  IInv'
<1>1. Types /\ auth \in Someone /\ ready \in BOOLEAN /\ auth \notin erasure.gone
  BY DEF IInv, Types, Erasing
<1>2. UNCHANGED <<trip, native, erasure>> /\ erasure.step = "none"
  BY DEF AuthChanges, ProfileCompletes, Retry, Start, EraseStep, IInv, Screened
<1>3. events' \in 0 .. MaxEvents
  <2>1. CASE Happens
    BY <1>1, <2>1, PhoneAssumption DEF Types, Happens
  <2>2. CASE UNCHANGED events
    BY <1>1, <2>2 DEF Types
  <2> QED
    BY <2>1, <2>2 DEF AuthChanges, ProfileCompletes, Retry, Start
<1>4. ASSUME NEW a \in Someone, AuthChanges(a)
      PROVE  IInv'
  <2>1. auth' = a /\ ready' \in BOOLEAN /\ Effect(a, ready') /\ a \notin erasure.gone
    BY <1>4 DEF AuthChanges
  <2> QED
    BY <1>2, <1>3, <2>1, EffectKeeps
<1>5. CASE ProfileCompletes \/ Retry \/ (Start /\ erasure.step = "none")
  <2>1. auth' = auth /\ ready' \in BOOLEAN /\ \E isReady : Effect(auth, isReady)
    BY <1>1, <1>5 DEF ProfileCompletes, Retry, Start, EraseStep
  <2> QED
    BY <1>1, <1>2, <1>3, <2>1, EffectKeeps
<1> QED
  BY <1>4, <1>5

(* The user signs out.                                                     *)
LEMMA PressKeeps ==
  ASSUME IInv, PressSignOut
  PROVE  IInv'
<1>1. events' \in 0 .. MaxEvents
  BY PhoneAssumption DEF IInv, Types, PressSignOut, Happens
<1>2. ClearAndSignOut(jobs) /\ UNCHANGED <<auth, ready, trip, native>>
  BY DEF PressSignOut
<1> DEFINE all == jobs
<1>3. all \in SUBSET jobs /\ ClearAndSignOut(all)
  BY <1>2
<1> HIDE DEF all
<1> QED
  BY <1>1, <1>2, <1>3, ClearAndSignOutKeeps

(* The user deletes the account: the session's screens go.                 *)
LEMMA DeleteKeeps ==
  ASSUME IInv, DeleteAccount
  PROVE  IInv'
<1>1. Types /\ app \in Apps /\ erasure \in Erasures /\ auth \in Accounts
  BY DEF IInv, Types, DeleteAccount, Someone
<1>2. events' \in 0 .. MaxEvents /\ UNCHANGED <<auth, ready, trip, native>>
  BY PhoneAssumption DEF IInv, Types, DeleteAccount, Happens
<1>3. /\ app' = [app EXCEPT !.mounted = FALSE, !.watch = FALSE]
      /\ erasure' = [erasure EXCEPT !.account = auth, !.step = "remembering"]
  BY DEF DeleteAccount
<1>4. /\ app' \in Apps /\ ~app'.mounted /\ ~app'.watch /\ app'.screen = app.screen
      /\ app'.owner = app.owner
  BY <1>1, <1>3 DEF Apps
<1>5. /\ erasure' \in Erasures /\ erasure'.step = "remembering"
      /\ erasure'.gone = erasure.gone /\ erasure'.account = auth
  BY <1>1, <1>3 DEF Erasures, EraseSteps, Someone
<1>6. ASSUME NEW k \in jobs'
      PROVE  /\ Sound(k)
             /\ k.current => k.kind \in {"OBSERVE", "SIGN_OUT"}
             /\ k.kind = "PROVISION" =>
                  k.account \notin erasure'.gone /\ erasure'.step \notin Underway
  <2>1. PICK j \in jobs :
           /\ k = [j EXCEPT !.current = j.current /\ j.kind \in {"OBSERVE", "SIGN_OUT"}]
           /\ Counts(k)
    BY DEF DeleteAccount
  <2> DEFINE current == j.current /\ j.kind \in {"OBSERVE", "SIGN_OUT"}
  <2>2. Sound(j) /\ Fits(j) /\ j \in Job
    BY DEF IInv, Fit, Sound
  <2>3. current \in BOOLEAN /\ k = [j EXCEPT !.current = current]
    BY <2>1
  <2> HIDE DEF current
  <2>4. /\ k \in Job /\ k.kind = j.kind /\ k.account = j.account /\ k.step = j.step
        /\ k.current = current
    BY <2>2, <2>3 DEF Job
  <2>5. k.current => k.kind \in {"OBSERVE", "SIGN_OUT"}
    BY <2>4 DEF current
  <2>6. k.kind = "LAUNCH" =>
          k.step \in {"pausing", "fetching", "fetched", "imported", "looking", "looked", "leaving"}
    BY <2>1, <2>4, <2>5 DEF Counts
  <2>7. Sound(k)
    BY <2>2, <2>4, <2>6 DEF Sound
  <2>8. k.kind = "PROVISION" => k.account \notin erasure.gone
    BY <2>2, <2>4 DEF Fits
  <2> QED
    BY <1>5, <2>5, <2>7, <2>8 DEF Underway
<1>7. Types'
  BY <1>1, <1>2, <1>4, <1>5 DEF Types
<1>8. Erasing'
  BY <1>2, <1>5 DEF IInv, Erasing
<1>9. /\ app'.screen = "TRIP" => app'.owner \in Accounts
      /\ erasure'.step # "none" /\ erasure'.account \in Accounts
  BY <1>1, <1>4, <1>5 DEF IInv, Screened
<1> QED
  BY <1>4, <1>6, <1>7, <1>8, <1>9, UnmountedKeeps

(* The process dies: what the phone remembers stays.                       *)
LEMMA KillKeeps ==
  ASSUME IInv, Kill
  PROVE  IInv'
<1>1. Types /\ native \in Natives /\ erasure \in Erasures
  BY DEF IInv, Types
<1>2. events' \in 0 .. MaxEvents /\ UNCHANGED <<auth, ready, trip>> /\ jobs' = {}
  BY PhoneAssumption DEF IInv, Types, Kill, Happens
<1>3. /\ app' \in Apps /\ ~app'.mounted /\ app'.sessionKey = NoOne /\ ~app'.watch
      /\ app'.screen # "TRIP"
  BY NewAppType DEF Kill
<1>4. /\ native' \in Natives /\ native'.selected = native.selected
      /\ native'.active = native.active
      /\ native'.keys = native.keys /\ native'.identities = native.identities
  BY <1>1 DEF Kill, Natives
<1>5. /\ erasure' \in Erasures /\ erasure'.step \in {"none", "stopped"}
      /\ erasure'.gone = erasure.gone
      /\ erasure'.step # "none" \/ erasure'.saved => erasure'.account \in Accounts
  <2>1. CASE erasure.saved
    <3>1. erasure' = [erasure EXCEPT !.step = "stopped"]
      BY <2>1 DEF Kill
    <3>2. erasure.account \in Accounts
      BY <2>1 DEF IInv, Screened
    <3> QED
      BY <1>1, <3>1, <3>2 DEF Erasures, EraseSteps
  <2>2. CASE ~erasure.saved
    <3>1. erasure' = NoErasure(erasure.gone) /\ erasure.gone \in SUBSET Accounts
      BY <1>1, <2>2 DEF Kill, Erasures
    <3> QED
      BY <3>1, NoErasureType
  <2> QED
    BY <2>1, <2>2
<1>6. Types'
  BY <1>1, <1>2, <1>3, <1>4, <1>5 DEF Types
<1>7. Erasing'
  BY <1>2, <1>4, <1>5 DEF IInv, Erasing
<1> QED
  BY <1>2, <1>3, <1>5, <1>6, <1>7, UnmountedKeeps

(* A remembered erasure is taken up before any session mounts.             *)
LEMMA ResumeKeeps ==
  ASSUME IInv, EraseStep("stopped", "remembering"),
         UNCHANGED <<auth, ready, trip, native, app, jobs, events>>
  PROVE  IInv'
<1>1. Types /\ erasure \in Erasures /\ native \in Natives
  BY DEF IInv, Types
<1>2. erasure'.step = "remembering" /\ erasure'.gone = erasure.gone
  BY <1>1 DEF EraseStep, Erasures
<1>3. Erasing'
  BY <1>2 DEF IInv, Erasing
<1> QED
  BY <1>1, <1>3, ErasureGoesOn DEF EraseSteps, Underway, Types

(* The server moves a trip.                                                *)
LEMMA TripMovesKeeps ==
  ASSUME IInv, NEW a \in Accounts, NEW stage \in Stages, TripMoves(a, stage)
  PROVE  IInv'
<1>1. Types /\ app \in Apps
  BY DEF IInv, Types
<1>2. trip' \in [Accounts -> Stages]
  BY <1>1 DEF Types, TripMoves
<1> QED
  BY <1>1, <1>2, QuietKeeps, SameEases, SameKeepsSession DEF TripMoves, Types

-----------------------------------------------------------------------------
(* The theorems.                                                           *)

(* The invariant holds at first,                                           *)
LEMMA InitHolds == PhoneInit => IInv
<1> SUFFICES ASSUME PhoneInit PROVE IInv
  OBVIOUS
<1>1. /\ native = [selected |-> NoOne, active |-> FALSE, clearing |-> FALSE,
                   identities |-> {}, keys |-> {}]
      /\ app = NewApp /\ erasure = NoErasure({}) /\ jobs = {} /\ auth = NoOne
      /\ events = 0 /\ ready = FALSE /\ trip \in [Accounts -> {"LOBBY", "ACTIVE"}]
  BY DEF PhoneInit
<1>2. native \in Natives
  BY <1>1 DEF Natives, Someone
<1> DEFINE none == {}
<1>3. none \in SUBSET Accounts /\ erasure = NoErasure(none)
  BY <1>1
<1> HIDE DEF none
<1>4. erasure \in Erasures /\ erasure.step = "none" /\ erasure.gone = none /\ ~erasure.saved
  BY <1>3, NoErasureType
<1>5. /\ app \in Apps /\ ~app.mounted /\ app.sessionKey = NoOne /\ app.screen = "BLANK"
      /\ ~app.watch
  BY <1>1, NewAppType
<1>6. trip \in [Accounts -> Stages] /\ events \in 0 .. MaxEvents
  BY <1>1, PhoneAssumption DEF Stages
<1>7. Types
  BY <1>1, <1>2, <1>4, <1>5, <1>6 DEF Types, Someone
<1>8. Screened /\ Seated
  BY <1>4, <1>5 DEF Screened, Seated
<1>9. Erasing
  BY <1>1, <1>4 DEF Erasing, none
<1>10. Fit
  BY <1>1 DEF Fit
<1> QED
  BY <1>7, <1>8, <1>9, <1>10 DEF IInv

(* every continuation keeps it,                                            *)
LEMMA JobStepKeeps ==
  ASSUME IInv, JobStep \/ JobFails
  PROVE  IInv'
<1>1. ASSUME NEW j \in jobs,
             \/ PauseReturns(j) \/ TornDown(j) \/ Identify(j) \/ Restore(j)
             \/ InstallSession(j) \/ Provisioned(j) \/ HasDevice(j) \/ ReadNative(j)
             \/ ListTrips(j)
      PROVE  IInv'
  BY <1>1, TeardownKeeps, TornDownKeeps, IdentifyKeeps, RestoreKeeps, InstallKeeps,
     ProvisionedKeeps, HasDeviceKeeps, ReadNativeKeeps, ListTripsKeeps
<1>2. ASSUME NEW j \in jobs,
             \/ Fetch(j) \/ ImportKey(j) \/ Activate(j) \/ Observed(j)
             \/ LifecycleAnswers(j) \/ LookForTrip(j) \/ RetireTrip(j) \/ Retired(j)
             \/ RetireFails(j) \/ SignedOut(j) \/ ClerkSignsOut(j)
      PROVE  IInv'
  BY <1>2, FetchKeeps, ImportKeeps, ActivateKeeps, ObservedKeeps, LifecycleAnswersKeeps,
     LookKeeps, RetireTripKeeps, RetiredKeeps, SignedOutStepKeeps, ClerkKeeps
<1>3. ASSUME NEW j \in jobs,
             \/ PauseFails(j) \/ ProvisionFails(j) \/ LaunchFails(j) \/ Deadline(j)
             \/ ObserveFails(j) \/ LifecycleFails(j) \/ TokenRefused(j)
      PROVE  IInv'
  BY <1>3, TeardownKeeps, ProvisionFailsKeeps, LaunchFailsKeeps, ObservedKeeps,
     LifecycleAnswersKeeps, TokenRefusedKeeps
<1>4. CASE JobStep
  BY <1>1, <1>2, <1>4 DEF JobStep
<1>5. CASE JobFails
  BY <1>3, <1>5 DEF JobFails
<1> QED
  BY <1>4, <1>5

(* so does whatever happens to the app,                                    *)
LEMMA EnvironmentKeeps ==
  ASSUME IInv, Environment
  PROVE  IInv'
<1>1. CASE Start
  <2>1. CASE erasure.step = "none"
    BY <1>1, <2>1, LaunchesKeep
  <2>2. CASE erasure.step # "none"
    BY <1>1, <2>2, ResumeKeeps DEF Start
  <2> QED
    BY <2>1, <2>2
<1>2. CASE (\E a \in Accounts \cup {NoOne} : AuthChanges(a)) \/ ProfileCompletes \/ Retry
  BY <1>2, LaunchesKeep DEF Someone
<1>3. CASE PressSignOut \/ DeleteAccount \/ Kill
  BY <1>3, PressKeeps, DeleteKeeps, KillKeeps
<1>4. CASE \E a \in Accounts, stage \in Stages : TripMoves(a, stage)
  BY <1>4, TripMovesKeeps
<1> QED
  BY <1>1, <1>2, <1>3, <1>4 DEF Environment

(* and so does every step.                                                 *)
LEMMA NextKeeps == IInv /\ [PhoneNext]_vars => IInv'
<1> SUFFICES ASSUME IInv, [PhoneNext]_vars PROVE IInv'
  OBVIOUS
<1>1. CASE JobStep \/ JobFails
  BY <1>1, JobStepKeeps
<1>2. CASE ClearLands
  <2>1. Types /\ app \in Apps
    BY DEF IInv, Types
  <2>2. Eases
    BY <1>2, <2>1, SameEases DEF ClearLands
  <2>3. KeepsSession
    BY <1>2, <2>1 DEF Types, Natives, KeepsSession, ClearLands, Someone
  <2> QED
    BY <1>2, <2>1, <2>2, <2>3, QuietKeeps DEF ClearLands, Types
<1>3. CASE Poll \/ AskLifecycle
  BY <1>3, PollKeeps, AskKeeps
<1>4. CASE EraseStepTaken
  BY <1>4, RememberKeeps, ErasureStepKeeps, FinishKeeps, DismissKeeps DEF EraseStepTaken
<1>5. CASE Environment
  BY <1>5, EnvironmentKeeps
<1>6. CASE UNCHANGED vars
  BY <1>6 DEF vars, IInv, Types, Screened, Seated, Erasing, Fit, Fits
<1> QED
  BY <1>1, <1>2, <1>3, <1>4, <1>5, <1>6 DEF PhoneNext

(* The invariant holds in every reachable state.                           *)
THEOREM PhoneInductive == PhoneSpec => []IInv
  BY InitHolds, NextKeeps, PTL DEF PhoneSpec

(* Every variable keeps its range, and no trip is active out of session.   *)
THEOREM PhoneTypeCorrect == PhoneSpec => []PhoneTypeOK
<1>1. IInv => PhoneTypeOK
  <2> SUFFICES ASSUME IInv PROVE PhoneTypeOK
    OBVIOUS
  <2>1. Types /\ jobs \subseteq Job
    BY DEF IInv, Fit, Sound
  <2> QED
    BY <2>1 DEF Types, PhoneTypeOK, Natives, Apps, Erasures, Someone
<1> QED
  BY <1>1, PhoneInductive, PTL

(* Nothing an earlier session started brings another account back, to the  *)
(* key store or to the screen.                                             *)
THEOREM SessionsNeverMix == PhoneSpec => []OnlyTheSignedIn
<1>1. IInv => OnlyTheSignedIn
  <2> SUFFICES ASSUME IInv PROVE OnlyTheSignedIn
    OBVIOUS
  <2>1. Seated /\ NoOne \notin Accounts
    BY PhoneAssumption DEF IInv
  <2> QED
    BY <2>1 DEF OnlyTheSignedIn, Seated, ShowsTrip
<1> QED
  BY <1>1, PhoneInductive, PTL

(* A finished erasure left no key, identity or session of the account.     *)
THEOREM ErasureIsComplete == PhoneSpec => []ErasedIsGone
<1>1. IInv => ErasedIsGone
  <2> SUFFICES ASSUME IInv PROVE ErasedIsGone
    OBVIOUS
  <2>1. erasure.gone \subseteq Accounts
    BY DEF IInv, Types, Erasures
  <2> QED
    BY <2>1 DEF IInv, Erasing, ErasedIsGone
<1> QED
  BY <1>1, PhoneInductive, PTL
=============================================================================
