---------------------------- MODULE PhoneSession ----------------------------
(***************************************************************************)
(* One phone's session: the accounts that sign in and out of it, the       *)
(* asynchronous work AppSessionProvider.tsx starts for them, the fence     *)
(* that stands between that work and the native key store, the native key  *)
(* store itself, and the erasure of a deleted account.                     *)
(*                                                                         *)
(* JavaScript runs one continuation at a time and suspends at every await. *)
(* A job is one suspended continuation: "step" says what it waits for, and *)
(* an action is what runs from one await to the next.  Two counters of the *)
(* code decide whether a continuation still counts.  runGeneration, which  *)
(* every launch, sign-out and retirement advances, becomes the flag        *)
(* "current" of a job; the generation of nativeSessionFence.ts, which      *)
(* every teardown advances, becomes the flag "live" of the native port the *)
(* job captured.  A job that is neither can do nothing more and is         *)
(* dropped.                                                                *)
(*                                                                         *)
(* Native calls run one at a time in the order they were dispatched, so a  *)
(* call takes effect when it is dispatched and answers later.  The one     *)
(* exception is clearDeviceSession, which waits for the transfer engine to *)
(* stop before it touches the key store.                                   *)
(*                                                                         *)
(* Each account has one trip.  What a lost answer leaves of a creation, a  *)
(* join or a mutation is the subject of TripCreation and TripRoom.         *)
(***************************************************************************)
EXTENDS Naturals, FiniteSets

CONSTANTS
  Accounts, NoOne,
  MaxEvents   \* bounds sign-ins, sign-outs, retries, deletions and restarts

ASSUME PhoneAssumption == NoOne \notin Accounts /\ MaxEvents \in Nat

VARIABLES
  auth,     \* the account Clerk says is signed in
  ready,    \* its profile and terms are complete
  trip,     \* the server's word on each account's trip
  native,   \* the phone's key store
  app,      \* the refs and the snapshot of AppSessionProvider
  erasure,  \* the deletion the phone is carrying out
  jobs,     \* the suspended continuations
  events    \* how often something outside the app has happened

vars == <<auth, ready, trip, native, app, erasure, jobs, events>>

Stages == {"LOBBY", "ACTIVE", "LEFT"}
Screens == {"BLANK", "PROVISIONING", "FAILED", "SIGNED_OUT", "NO_TRIP", "TRIP"}
Steps == {"pausing", "clearing", "provisioning", "reading", "listing",
          "drawing", "identifying", "restored", "registering", "installed",
          "fetching", "fetched", "imported", "activated", "looking", "looked",
          "retired", "asking", "leaving"}

EraseSteps == {"none", "remembering", "pausing", "clearing", "erased", "left",
               "finished", "failed", "stopped"}

Job == [kind : {"LAUNCH", "PROVISION", "OBSERVE", "REFRESH", "SIGN_OUT", "PAUSE"},
        account : Accounts \cup {NoOne}, step : Steps,
        current : BOOLEAN, live : BOOLEAN,
        flag : BOOLEAN,    \* what it preserves, found active, or was launched for
        saw : Stages]      \* the projection it holds

(* The refs of a provider that has just mounted.                           *)
NewApp == [mounted |-> FALSE, sessionKey |-> NoOne, account |-> NoOne,
           public |-> NoOne, screen |-> "BLANK", owner |-> NoOne, runs |-> FALSE,
           device |-> NoOne, scoped |-> "NONE", attempt |-> "NONE", watch |-> FALSE]

NoErasure(gone) ==
  [account |-> NoOne, step |-> "none", saved |-> FALSE, live |-> FALSE, gone |-> gone]

PhoneInit ==
  /\ auth = NoOne /\ ready = FALSE
  /\ trip \in [Accounts -> {"LOBBY", "ACTIVE"}]
  /\ native = [selected |-> NoOne, active |-> FALSE, clearing |-> FALSE,
               identities |-> {}, keys |-> {}]
  /\ app = NewApp
  /\ erasure = NoErasure({})
  /\ jobs = {}
  /\ events = 0

-----------------------------------------------------------------------------
(* The two generations.                                                    *)

NewJob(kind, account, step) ==
  [kind |-> kind, account |-> account, step |-> step, current |-> TRUE,
   live |-> TRUE, flag |-> FALSE, saw |-> "LOBBY"]

(* A continuation without native work ahead of it stops at its isCurrent   *)
(* check; one with native work ahead stops at the fence.                   *)
Counts(j) ==
  \/ j.kind \in {"PROVISION", "PAUSE"} /\ j.live
  \/ j.kind \notin {"PROVISION", "PAUSE"} /\ j.current
  \/ j.live /\ j.step \in {"pausing", "fetching", "fetched", "imported", "looking", "looked"}
  \/ j.step = "leaving"

(* runGeneration moves on.                                                 *)
Overtaken(js) == {j \in {[k EXCEPT !.current = FALSE] : k \in js} : Counts(j)}

(* Slip: a teardown pauses the engine without moving the fence.            *)
FencedNever(js) == js

(* The native fence moves on: every port captured so far is dead.          *)
Fenced(js) == {j \in {[k EXCEPT !.live = FALSE] : k \in js} : Counts(j)}
FenceErasure == erasure' = [erasure EXCEPT !.live = FALSE]
AppFenced(a) ==
  [a EXCEPT !.scoped = IF @ = "LIVE" THEN "DEAD" ELSE @,
            !.attempt = IF @ = "PENDING" THEN "NONE" ELSE @]

Move(j, k) == jobs' = (jobs \ {j}) \cup {k}
End(j) == jobs' = jobs \ {j}
Shows(screen) == app' = [app EXCEPT !.screen = screen, !.watch = FALSE]

InSession(a) == native.selected = a

-----------------------------------------------------------------------------
(* The launch effect, which runs whenever the account, its readiness or    *)
(* the retry counter changes.                                              *)

Forgotten(a) == [a EXCEPT !.device = NoOne, !.scoped = "NONE", !.attempt = "NONE"]

SignedOutEffect ==
  /\ app' = [Forgotten(AppFenced(app)) EXCEPT !.mounted = TRUE, !.sessionKey = NoOne,
                                              !.watch = FALSE]
  /\ jobs' = Fenced(Overtaken(jobs)) \cup {NewJob("PAUSE", NoOne, "pausing")}

(* The rest of run() once the earlier session has been torn down.  The     *)
(* attempt to provision this session's device is made once and shared.     *)
Provisions(a, known, others) ==
  /\ app' = [known EXCEPT !.sessionKey = a,
                          !.attempt = IF @ = "NONE" THEN "PENDING" ELSE @]
  /\ jobs' = others \cup {NewJob("LAUNCH", a, "provisioning")}
               \cup (IF known.attempt = "NONE"
                     THEN {[NewJob("PROVISION", a, "drawing") EXCEPT !.current = FALSE]}
                     ELSE {})

(* A session is kept only by a cold launch of the account last seen here.  *)
Preserves(a) == app.sessionKey = NoOne /\ app.account \in {NoOne, a}

Setup(a) == [app EXCEPT !.mounted = TRUE, !.public = a, !.screen = "PROVISIONING",
                        !.watch = FALSE]

SignedInEffect(a, isReady) ==
  IF app.sessionKey # a
  THEN /\ app' = [Forgotten(AppFenced(Setup(a))) EXCEPT !.account = a]
       /\ jobs' = Fenced(Overtaken(jobs)) \cup
                    {[NewJob("LAUNCH", a, "pausing") EXCEPT !.flag = Preserves(a)]}
  ELSE IF isReady THEN Provisions(a, Setup(a), Overtaken(jobs))
  ELSE app' = Setup(a) /\ jobs' = Overtaken(jobs)

Effect(a, isReady) ==
  IF a = NoOne THEN SignedOutEffect ELSE SignedInEffect(a, isReady)

-----------------------------------------------------------------------------
(* pauseTransfers: fence, stop the engine, and, unless another teardown    *)
(* has fenced since, clear the device session.                             *)

PauseReturns(j) ==
  /\ j.step = "pausing" /\ ~native.clearing
  /\ native' = [native EXCEPT !.clearing = j.live /\ ~(j.kind = "LAUNCH" /\ j.flag)]
  /\ IF j.kind = "PAUSE" \/ ~j.current THEN End(j)
     ELSE Move(j, [j EXCEPT !.step = "clearing"])
  /\ UNCHANGED <<auth, ready, trip, app, erasure, events>>

(* Slip: the session goes and its trip stays active.                       *)
ClearLandsOnSession ==
  /\ native.clearing
  /\ native' = [native EXCEPT !.clearing = FALSE, !.selected = NoOne]
  /\ UNCHANGED <<auth, ready, trip, app, erasure, jobs, events>>

ClearLands ==
  /\ native.clearing
  /\ native' = [native EXCEPT !.clearing = FALSE, !.selected = NoOne, !.active = FALSE]
  /\ UNCHANGED <<auth, ready, trip, app, erasure, jobs, events>>

(* The engine or the key store refuses.  A launch shows the failure; a     *)
(* sign-out is abandoned where it stands.                                  *)
PauseFails(j) ==
  /\ \/ j.step = "pausing" /\ ~native.clearing
     \/ j.step = "clearing" /\ native.clearing
  /\ native' = [native EXCEPT !.clearing = FALSE]
  /\ End(j)
  /\ IF j.kind = "LAUNCH" /\ j.current THEN Shows("FAILED") ELSE UNCHANGED app
  /\ UNCHANGED <<auth, ready, trip, erasure, events>>

(* An account whose profile is incomplete stops here.                      *)
TornDown(j) ==
  /\ j.kind = "LAUNCH" /\ j.step = "clearing" /\ ~native.clearing
  /\ IF j.current /\ ready THEN Provisions(j.account, app, jobs \ {j})
     ELSE End(j) /\ UNCHANGED app
  /\ UNCHANGED <<auth, ready, trip, native, erasure, events>>

-----------------------------------------------------------------------------
(* ProvisionDevice.ts: the identity, then the saved session or a newly     *)
(* registered one.                                                         *)

Identify(j) ==
  /\ j.kind = "PROVISION" /\ j.step = "drawing"
  /\ native' = [native EXCEPT !.identities = @ \cup {j.account}]
  /\ Move(j, [j EXCEPT !.step = "identifying"])
  /\ UNCHANGED <<auth, ready, trip, app, erasure, events>>

(* A session about to expire is not restored.                              *)
Restore(j) ==
  /\ j.kind = "PROVISION" /\ j.step = "identifying"
  /\ \E step \in {"restored", "registering"} :
       /\ step = "restored" => InSession(j.account)
       /\ Move(j, [j EXCEPT !.step = step])
  /\ UNCHANGED <<auth, ready, trip, native, app, erasure, events>>

(* Selecting another account's scope ends the one selected before.         *)
Installed(a) == [native EXCEPT !.selected = a, !.active = @ /\ native.selected = a]

InstallSession(j) ==
  /\ j.kind = "PROVISION" /\ j.step = "registering"
  /\ native' = Installed(j.account)
  /\ Move(j, [j EXCEPT !.step = "installed"])
  /\ UNCHANGED <<auth, ready, trip, app, erasure, events>>

Provisioned(j) ==
  /\ j.kind = "PROVISION" /\ j.step \in {"restored", "installed"}
  /\ app' = [app EXCEPT !.attempt = "DONE"]
  /\ End(j)
  /\ UNCHANGED <<auth, ready, trip, native, erasure, events>>

Waiting == {j \in jobs : j.kind = "LAUNCH" /\ j.step = "provisioning"}

(* The launch that waits for the attempt forgets it and shows the failure. *)
ProvisionFails(j) ==
  /\ j.kind = "PROVISION"
  /\ jobs' = (jobs \ {j}) \ Waiting
  /\ app' = [app EXCEPT !.attempt = "NONE", !.screen = IF Waiting = {} THEN @ ELSE "FAILED"]
  /\ UNCHANGED <<auth, ready, trip, native, erasure, events>>

HasDevice(j) ==
  /\ j.kind = "LAUNCH" /\ j.step = "provisioning" /\ app.attempt = "DONE"
  /\ app' = [app EXCEPT !.device = j.account]
  /\ Move(j, [j EXCEPT !.step = "reading"])
  /\ UNCHANGED <<auth, ready, trip, native, erasure, events>>

(* getNativeSnapshot is not fenced: it tells which trip the engine runs.   *)
ReadNative(j) ==
  /\ j.kind = "LAUNCH" /\ j.step = "reading"
  /\ app' = [app EXCEPT !.scoped = "LIVE"]
  /\ Move(j, [j EXCEPT !.step = "listing", !.live = TRUE, !.flag = native.active])
  /\ UNCHANGED <<auth, ready, trip, native, erasure, events>>

(* The trip library decides: a trip left is retired, when the engine runs  *)
(* it or the recovery record names it; one still joined is observed.       *)
ListTrips(j) ==
  /\ j.kind = "LAUNCH" /\ j.step = "listing"
  /\ \/ /\ trip[j.account] # "LEFT"
        /\ Move(j, [j EXCEPT !.kind = "OBSERVE", !.step = "fetching", !.flag = TRUE])
        /\ UNCHANGED app
     \/ /\ trip[j.account] = "LEFT"
        /\ Move(j, [j EXCEPT !.step = "looking"])
        /\ UNCHANGED app
     \/ /\ trip[j.account] = "LEFT" /\ ~j.flag
        /\ Shows("NO_TRIP") /\ End(j)
  /\ UNCHANGED <<auth, ready, trip, native, erasure, events>>

LaunchFails(j) ==
  /\ j.kind = "LAUNCH" /\ j.step \in {"reading", "listing"}
  /\ Shows("FAILED") /\ End(j)
  /\ UNCHANGED <<auth, ready, trip, native, erasure, events>>

(* The launch's thirty-second deadline shows a failure and cancels nothing. *)
Deadline(j) ==
  /\ j.kind = "LAUNCH" \/ (j.kind = "OBSERVE" /\ j.flag)
  /\ j.current
  /\ app.screen = "PROVISIONING"
  /\ Shows("FAILED")
  /\ UNCHANGED <<auth, ready, trip, native, erasure, jobs, events>>

-----------------------------------------------------------------------------
(* HydrateTrip.ts and ActivateObservedTrip.ts: fetch the projection,       *)
(* import its key, hand an active trip to the engine, publish.  A          *)
(* published projection starts the refresh of the trip anew.               *)

Publish(j, runs) ==
  IF j.current /\ app.mounted
  THEN /\ app' = [app EXCEPT !.screen = "TRIP", !.owner = j.account,
                             !.runs = runs, !.watch = TRUE]
       /\ jobs' = {k \in jobs \ {j} : k.step # "asking"}
  ELSE End(j) /\ UNCHANGED app

(* A launch reports what it could not observe; a poll keeps the screen.    *)
Unobserved(j) ==
  /\ End(j)
  /\ IF j.flag /\ j.current /\ app.mounted THEN Shows("FAILED") ELSE UNCHANGED app

(* What the engine refuses, a trip that has started survives unprepared.   *)
Unprepared(j) == IF j.saw = "ACTIVE" THEN Publish(j, FALSE) ELSE Unobserved(j)

Fetch(j) ==
  /\ j.kind = "OBSERVE" /\ j.step = "fetching"
  /\ Move(j, [j EXCEPT !.step = "fetched", !.saw = trip[j.account]])
  /\ UNCHANGED <<auth, ready, trip, native, app, erasure, events>>

ImportKey(j) ==
  /\ j.kind = "OBSERVE" /\ j.step = "fetched" /\ j.saw # "LEFT"
  /\ IF j.live /\ InSession(j.account)
     THEN /\ native' = [native EXCEPT !.keys = @ \cup {j.account}]
          /\ Move(j, [j EXCEPT !.step = "imported"])
          /\ UNCHANGED app
     ELSE Unprepared(j) /\ UNCHANGED native
  /\ UNCHANGED <<auth, ready, trip, erasure, events>>

Activate(j) ==
  /\ j.kind = "OBSERVE" /\ j.step = "imported" /\ j.saw = "ACTIVE"
  /\ IF j.live /\ InSession(j.account) /\ j.account \in native.keys
     THEN /\ native' = [native EXCEPT !.active = TRUE]
          /\ Move(j, [j EXCEPT !.step = "activated"])
          /\ UNCHANGED app
     ELSE Unprepared(j) /\ UNCHANGED native
  /\ UNCHANGED <<auth, ready, trip, erasure, events>>

Observed(j) ==
  /\ j.kind = "OBSERVE"
  /\ \/ j.step = "activated"
     \/ j.step = "imported" /\ j.saw = "LOBBY" /\ j.live
  /\ Publish(j, j.step = "activated" /\ j.live)
  /\ UNCHANGED <<auth, ready, trip, native, erasure, events>>

(* The network, the server or the engine fails the observation.            *)
ObserveFails(j) ==
  /\ j.kind = "OBSERVE"
  /\ IF j.step \in {"imported", "activated"} THEN Unprepared(j) ELSE Unobserved(j)
  /\ UNCHANGED <<auth, ready, trip, native, erasure, events>>

(* The screens of a trip refetch its projection.                           *)
Poll ==
  /\ app.mounted /\ app.screen = "TRIP" /\ app.public = auth /\ app.scoped # "NONE"
  /\ ~\E j \in jobs : j.kind = "OBSERVE"
  /\ jobs' = jobs \cup {[NewJob("OBSERVE", app.owner, "fetching")
                          EXCEPT !.live = (app.scoped = "LIVE")]}
  /\ UNCHANGED <<auth, ready, trip, native, app, erasure, events>>

-----------------------------------------------------------------------------
(* The five-second refresh of a shown trip, and retireTrip.                *)

AskLifecycle ==
  /\ app.watch
  /\ ~\E j \in jobs : j.kind = "REFRESH"
  /\ jobs' = jobs \cup {[NewJob("REFRESH", app.owner, "asking")
                          EXCEPT !.live = (app.scoped = "LIVE")]}
  /\ UNCHANGED <<auth, ready, trip, native, app, erasure, events>>

(* A trip that has been left overtakes everything else on this phone.      *)
LifecycleAnswers(j) ==
  /\ j.kind = "REFRESH" /\ j.step = "asking"
  /\ IF j.current /\ trip[j.account] = "LEFT"
     THEN /\ jobs' = Overtaken(jobs \ {j}) \cup {[j EXCEPT !.step = "looking"]}
          /\ app' = [app EXCEPT !.scoped = "NONE", !.watch = FALSE]
     ELSE End(j) /\ UNCHANGED app
  /\ UNCHANGED <<auth, ready, trip, native, erasure, events>>

LifecycleFails(j) ==
  /\ j.kind = "REFRESH" /\ j.step = "asking"
  /\ End(j)
  /\ UNCHANGED <<auth, ready, trip, native, app, erasure, events>>

LookForTrip(j) ==
  /\ j.step = "looking" /\ j.live
  /\ Move(j, [j EXCEPT !.step = "looked", !.flag = native.active])
  /\ UNCHANGED <<auth, ready, trip, native, app, erasure, events>>

(* Ports captured before the retirement are dead; its own was captured     *)
(* after.                                                                  *)
RetireTrip(j) ==
  /\ j.step = "looked" /\ j.live
  /\ j.flag => InSession(j.account)
  /\ native' = [native EXCEPT !.active = @ /\ ~j.flag]
  /\ jobs' = Fenced(jobs \ {j}) \cup {[j EXCEPT !.step = "retired"]}
  /\ app' = AppFenced(app)
  /\ FenceErasure
  /\ UNCHANGED <<auth, ready, trip, events>>

(* A launch goes on to an empty home; a refresh launches again.            *)
Retired(j) ==
  /\ j.step = "retired"
  /\ \/ /\ j.kind = "LAUNCH" /\ j.current
        /\ End(j)
        /\ app' = [app EXCEPT !.scoped = "LIVE", !.screen = "NO_TRIP", !.watch = FALSE]
     \/ j.kind = "REFRESH" /\ j.current /\ Effect(auth, ready)
     \/ ~j.current /\ End(j) /\ UNCHANGED app
  /\ UNCHANGED <<auth, ready, trip, native, erasure, events>>

RetireFails(j) ==
  /\ j.step \in {"looking", "looked", "retired"}
  /\ \/ j.kind = "REFRESH" /\ j.current /\ Effect(auth, ready)
     \/ j.kind = "LAUNCH" /\ j.current /\ Shows("FAILED") /\ End(j)
     \/ ~j.current /\ End(j) /\ UNCHANGED app
  /\ UNCHANGED <<auth, ready, trip, native, erasure, events>>

-----------------------------------------------------------------------------
(* clearAndSignOut, pressed by the user or forced by a refused token.      *)

ClearAndSignOut(others) ==
  /\ jobs' = Fenced(Overtaken(others)) \cup {NewJob("SIGN_OUT", auth, "pausing")}
  /\ app' = [AppFenced(app) EXCEPT !.watch = FALSE]
  /\ FenceErasure

TokenRefused(j) ==
  /\ j.current
  /\ \/ j.kind = "LAUNCH" /\ j.step = "listing"
     \/ j \in Waiting /\ (\E k \in jobs : k.step = "registering")
     \/ j.kind = "OBSERVE" /\ j.step \in {"fetching", "fetched"}
  /\ ClearAndSignOut(jobs \ {j})
  /\ UNCHANGED <<auth, ready, trip, native, events>>

SignedOut(j) ==
  /\ j.kind = "SIGN_OUT" /\ j.step = "clearing" /\ ~native.clearing
  /\ app' = [Forgotten(app) EXCEPT !.public = NoOne, !.screen = "SIGNED_OUT"]
  /\ Move(j, [j EXCEPT !.step = "leaving"])
  /\ UNCHANGED <<auth, ready, trip, native, erasure, events>>

ClerkSignsOut(j) ==
  /\ j.step = "leaving"
  /\ \/ /\ auth' = NoOne /\ ready' = FALSE
        /\ IF app.mounted /\ auth # NoOne THEN SignedOutEffect ELSE End(j) /\ UNCHANGED app
     \/ End(j) /\ UNCHANGED <<auth, ready, app>>
  /\ UNCHANGED <<trip, native, erasure, events>>

-----------------------------------------------------------------------------
(* AccountPrivacy.tsx: the deletion the server accepted is carried out on  *)
(* the phone behind a screen that replaces the session's, and, once        *)
(* remembered, taken up again after a restart.                             *)

EraseStep(from, to) == erasure.step = from /\ erasure' = [erasure EXCEPT !.step = to]

(* Slip: the erasure leaves the work already started its native port.      *)
RememberErasureUnfenced ==
  /\ erasure.step = "remembering"
  /\ erasure' = [erasure EXCEPT !.step = "pausing", !.saved = TRUE, !.live = TRUE]
  /\ UNCHANGED <<auth, ready, trip, native, app, jobs, events>>

RememberErasure ==
  /\ erasure.step = "remembering"
  /\ erasure' = [erasure EXCEPT !.step = "pausing", !.saved = TRUE, !.live = TRUE]
  /\ jobs' = Fenced(jobs)
  /\ app' = AppFenced(app)
  /\ UNCHANGED <<auth, ready, trip, native, events>>

ErasurePaused ==
  /\ EraseStep("pausing", "clearing") /\ ~native.clearing
  /\ native' = [native EXCEPT !.clearing = erasure.live]
  /\ UNCHANGED <<auth, ready, trip, app, jobs, events>>

Erased(a) ==
  [native EXCEPT !.identities = @ \ {a}, !.keys = @ \ {a},
                 !.selected = IF @ = a THEN NoOne ELSE @,
                 !.active = @ /\ native.selected # a]

EraseAccount ==
  /\ EraseStep("clearing", "erased") /\ ~native.clearing
  /\ native' = Erased(erasure.account)
  /\ UNCHANGED <<auth, ready, trip, app, jobs, events>>

LeaveClerk ==
  /\ EraseStep("erased", "left")
  /\ auth' = NoOne /\ ready' = FALSE
  /\ UNCHANGED <<trip, native, app, jobs, events>>

(* clearPendingErasure comes last.                                         *)
FinishErasure ==
  /\ erasure.step = "left"
  /\ erasure' = [erasure EXCEPT !.step = "finished", !.saved = FALSE,
                                !.gone = @ \cup {erasure.account}]
  /\ UNCHANGED <<auth, ready, trip, native, app, jobs, events>>

EraseFails ==
  /\ \/ erasure.step \in {"remembering", "erased", "left"}
     \/ erasure.step = "pausing" /\ ~native.clearing
     \/ erasure.step = "clearing"
  /\ erasure' = [erasure EXCEPT !.step = "failed"]
  /\ native' = [native EXCEPT !.clearing = @ /\ erasure.step # "clearing"]
  /\ UNCHANGED <<auth, ready, trip, app, jobs, events>>

EraseAgain ==
  /\ EraseStep("failed", "remembering")
  /\ UNCHANGED <<auth, ready, trip, native, app, jobs, events>>

(* The session's screens come back, with refs of their own.                *)
DismissErasure ==
  /\ erasure.step = "finished"
  /\ erasure' = NoErasure(erasure.gone)
  /\ app' = [NewApp EXCEPT !.mounted = TRUE]
  /\ jobs' = Fenced(jobs) \cup {NewJob("PAUSE", NoOne, "pausing")}
  /\ UNCHANGED <<auth, ready, trip, native, events>>

-----------------------------------------------------------------------------
(* What happens to the app from outside.                                   *)

Happens == events < MaxEvents /\ events' = events + 1

(* Clerk reports another account, or none.                                 *)
AuthChanges(a) ==
  /\ Happens /\ app.mounted /\ a # auth /\ a \notin erasure.gone
  /\ auth' = a
  /\ ready' \in IF a = NoOne THEN {FALSE} ELSE BOOLEAN
  /\ Effect(a, ready')
  /\ UNCHANGED <<trip, native, erasure>>

ProfileCompletes ==
  /\ app.mounted /\ auth # NoOne /\ ~ready
  /\ ready' = TRUE
  /\ Effect(auth, TRUE)
  /\ UNCHANGED <<auth, trip, native, erasure, events>>

Retry ==
  /\ Happens /\ app.mounted /\ auth # NoOne /\ app.screen = "FAILED"
  /\ Effect(auth, ready)
  /\ UNCHANGED <<auth, ready, trip, native, erasure>>

PressSignOut ==
  /\ Happens /\ app.mounted /\ auth # NoOne
  /\ ~\E j \in jobs : j.kind = "SIGN_OUT"
  /\ ClearAndSignOut(jobs)
  /\ UNCHANGED <<auth, ready, trip, native>>

(* The server has accepted the deletion.  The session's screens go, and    *)
(* with them every effect; what they had started runs on.                  *)
DeleteAccount ==
  /\ Happens /\ app.mounted /\ auth # NoOne /\ ready
  /\ erasure' = [erasure EXCEPT !.account = auth, !.step = "remembering"]
  /\ app' = [app EXCEPT !.mounted = FALSE, !.watch = FALSE]
  /\ jobs' = {j \in {[k EXCEPT !.current = @ /\ k.kind \in {"OBSERVE", "SIGN_OUT"}]
                        : k \in jobs} : Counts(j)}
  /\ UNCHANGED <<auth, ready, trip, native>>

Kill ==
  /\ Happens
  /\ app' = NewApp
  /\ jobs' = {}
  /\ native' = [native EXCEPT !.clearing = FALSE]
  /\ erasure' = IF erasure.saved THEN [erasure EXCEPT !.step = "stopped"]
                ELSE NoErasure(erasure.gone)
  /\ UNCHANGED <<auth, ready, trip>>

(* A remembered erasure is taken up before any session mounts.             *)
Start ==
  /\ ~app.mounted
  /\ \/ /\ erasure.step = "none"
        /\ Effect(auth, ready)
        /\ UNCHANGED erasure
     \/ EraseStep("stopped", "remembering") /\ UNCHANGED <<app, jobs>>
  /\ UNCHANGED <<auth, ready, trip, native, events>>

TripMoves(a, stage) ==
  /\ \/ trip[a] = "LOBBY" /\ stage = "ACTIVE"
     \/ trip[a] # "LEFT" /\ stage = "LEFT"
  /\ trip' = [trip EXCEPT ![a] = stage]
  /\ UNCHANGED <<auth, ready, native, app, erasure, jobs, events>>

-----------------------------------------------------------------------------
(* The components compose.                                                 *)

JobStep ==
  \E j \in jobs :
    \/ PauseReturns(j) \/ TornDown(j) \/ Identify(j) \/ Restore(j)
    \/ InstallSession(j) \/ Provisioned(j) \/ HasDevice(j) \/ ReadNative(j)
    \/ ListTrips(j) \/ Fetch(j) \/ ImportKey(j) \/ Activate(j) \/ Observed(j)
    \/ LifecycleAnswers(j) \/ LookForTrip(j) \/ RetireTrip(j) \/ Retired(j) \/ RetireFails(j)
    \/ SignedOut(j) \/ ClerkSignsOut(j)

JobFails ==
  \E j \in jobs :
    \/ PauseFails(j) \/ ProvisionFails(j) \/ LaunchFails(j) \/ Deadline(j)
    \/ ObserveFails(j) \/ LifecycleFails(j) \/ TokenRefused(j)

EraseStepTaken ==
  RememberErasure \/ ErasurePaused \/ EraseAccount \/ LeaveClerk \/ FinishErasure
    \/ EraseFails \/ EraseAgain \/ DismissErasure

Environment ==
  \/ \E a \in Accounts \cup {NoOne} : AuthChanges(a)
  \/ ProfileCompletes \/ Retry \/ PressSignOut \/ DeleteAccount \/ Kill \/ Start
  \/ \E a \in Accounts, stage \in Stages : TripMoves(a, stage)

PhoneNext ==
  JobStep \/ JobFails \/ ClearLands \/ Poll \/ AskLifecycle
    \/ EraseStepTaken \/ Environment

PhoneSpec == PhoneInit /\ [][PhoneNext]_vars

-----------------------------------------------------------------------------

(* Every variable keeps its range, and no trip is active out of session.   *)
PhoneTypeOK ==
  /\ auth \in Accounts \cup {NoOne} /\ ready \in BOOLEAN
  /\ trip \in [Accounts -> Stages]
  /\ native \in [selected : Accounts \cup {NoOne}, active : BOOLEAN, clearing : BOOLEAN,
                 identities : SUBSET Accounts, keys : SUBSET Accounts]
  /\ app \in [mounted : BOOLEAN, sessionKey : Accounts \cup {NoOne},
              account : Accounts \cup {NoOne}, public : Accounts \cup {NoOne},
              screen : Screens, owner : Accounts \cup {NoOne}, runs : BOOLEAN,
              device : Accounts \cup {NoOne}, scoped : {"NONE", "LIVE", "DEAD"},
              attempt : {"NONE", "PENDING", "DONE"}, watch : BOOLEAN]
  /\ erasure \in [account : Accounts \cup {NoOne}, step : EraseSteps, saved : BOOLEAN,
                  live : BOOLEAN, gone : SUBSET Accounts]
  /\ jobs \subseteq Job /\ events \in 0 .. MaxEvents
  /\ native.active => native.selected # NoOne

(* The screen resolvedSnapshot lets through.                               *)
ShowsTrip(a) ==
  app.mounted /\ auth = a /\ ready /\ app.public = a /\ app.screen = "TRIP"

(* Once a session knows its device, no other account is selected in the    *)
(* key store, and a shown trip is the signed-in account's own: nothing an  *)
(* earlier session started, and nothing an overtaken teardown still does,  *)
(* brings another account back, however the two interleave.                *)
OnlyTheSignedIn ==
  /\ (app.mounted /\ app.device # NoOne) =>
       app.device = auth /\ native.selected \in {NoOne, auth}
  /\ \A a \in Accounts : ShowsTrip(a) => app.owner = a

(* A phone that has forgotten a deletion holds no key, identity or session *)
(* of the deleted account, whatever was running when it was asked for and  *)
(* however often the erasure failed or the process died on the way.        *)
ErasedIsGone ==
  \A a \in erasure.gone :
    a \notin native.identities \cup native.keys /\ native.selected # a
=============================================================================
