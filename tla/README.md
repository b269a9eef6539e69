# CrewRoll in TLA+

CrewRoll lets the people on a trip share every photo they take, end-to-end
encrypted: each phone discovers the photos taken during the trip, uploads their
ciphertext, and saves to its own gallery what the others uploaded. The server
keeps the ciphertext only until everybody has it. This directory is a formal model of
that system: TLA+ modules translated from the TypeScript, Kotlin and Swift
sources, TLC instances that check them, and TLAPS proofs.

- [The system](#the-system) - components, state, interactions, what makes them right
- [Modules](#modules) - which module stands for which code
- [Runs](#runs) - what each instance checks, its bounds, and why they are enough
- [Fairness](#fairness)
- [Proofs](#proofs)
- [What the code does not do as described](#what-the-code-does-not-do-as-described)
- [What is not modelled](#what-is-not-modelled)
- [Plan](#plan)

`PROJECT.json` is the machine-readable index: components, runs, the mutant that
each property kills, the source lines of every definition, hazards, findings
and theorems.

## The system

Paths are below `src/`; `cp` is `services/control-plane`.

| Component | State | Operations | What makes it right | Module |
| --- | --- | --- | --- | --- |
| Trip lifecycle `cp/src/db/trips/kyselyTripLifecycle.ts` | `trips`, `trip_members`, `user_active_trips`, `deliveries` | end, finish-and-leave, leave now, pause, resume, final-pass acknowledgement, settle, scheduled expiry | nobody is settled early, the outcome is honest and final, the slots are freed | TripMedia |
| Media service `cp/src/db/media/kyselyMediaService.ts`, `capturePolicy.ts` | `upload_sessions`, `upload_objects`, `assets`, `deliveries`, `inbox_events`, `receipts` | create or renew an upload, publish a preview, commit, grant a download, receipt | right recipients, paused photos stay private, purge only what all have | TripMedia |
| Media cleanup `cp/src/db/media/mediaCleanup.ts` | `media_cleanup_claims` | claim, delete, close, back off | never early, final, eventually complete | MediaCleanup |
| Object store `cp/worker/r2CiphertextStore.ts` | objects and tombstones | signed PUT and GET, inspect, delete | an object is written once and a deleted key stays deleted | MediaCleanup |
| Trip admission `cp/src/modules/trips/*` | memberships, invites, envelopes, idempotency records | request, approve, reject, readiness, start | envelopes follow the approval; an exact retry is the same command | TripRoom |
| Device continuity `cp/src/db/trips/kyselyTripContinuity.ts` | `trip_device_requests`, deliveries | request, approve, decline a new phone; move a pending guest; the host's invite | nothing is lost or sent twice across the change | TripRoom |
| Trip creation `createTrip.ts`, `resolveCreateTripOutcome.ts`, `src/application/trips/CreateImmediateTrip.ts` | idempotency and tombstone records, recovery record, provisional native key | create, resolve an unknown outcome | exactly once, the key follows the outcome | TripCreation |
| Device registry `cp/src/modules/devices/*` | `devices`, push tokens | register, update push, revoke | a revoked or stale device cannot act, a push token opens | AccountErasure |
| Account service and identity `cp/src/db/account/*`, `cp/src/modules/{account,identity}` | `users`, `account_deletions`, `account_deleted_subjects` | request and run deletion, provider events, profile sync | an erasure completes, takes everything, and nothing comes back | AccountErasure |
| Photo engines `modules/crewroll-transfer/{android,ios}` | durable ledger per account and phone, gallery | preview lane, bulk lanes, policy stop, reconcile | every photo shared, every copy saved, a crash loses nothing | TripSync |
| Native keys `identitykeys/*` | keystore records | identity, trip keys, session, erasure | a key outlives every retry that needs it | TripCreation, PhoneSession |
| Client commands and journals `src/application/trips`, `src/infrastructure/storage` | one pending mutation, one recovery record, one pending erasure | join, approve, start, readiness, hydrate, recover | unknown outcomes are resolved, not repeated | TripRoom, TripCreation |
| App session `src/bootstrap` | session, generation fence, selection | sign in, provision, observe, retire, sign out, delete | nothing of one account runs under another | PhoneSession |
| API client, screens, reads, runtime, cryptography, contracts | none of their own | - | data and presentation | - |

**Interactions.** Phones and apps call the control plane over HTTP; every
mutation is one PostgreSQL transaction that locks the rows it decides on. Phones
PUT and GET ciphertext in the object store directly, through grants the media
service signs: the store and the database share no transaction, and a grant outlives
the transaction that issued it. A scheduled handler (`cp/worker/index.ts:27-42`)
runs the expiry of trips, media cleanup and account deletion every minute. In the
app, TypeScript drives the native engine and the key store through a module boundary;
the engine keeps its own ledger and polls on its own schedule.

**What is hard.** Departures, ends, pauses and expiry interleave with uploads that take
minutes; replies are lost after the server has moved, and requests the phone gave up on
arrive later; phones stop anywhere between discovery and receipt; cleanup and
account deletion work outside any transaction while late PUTs, renewed grants
and slower workers are about; reads have side effects (a state read may end a trip,
settle a member and close the trip); in the app every `await` is a point at which another
account may have signed in. The `hazards` of `PROJECT.json` list these one by one, at the
line where each bites, with the property that watches it or the reason there is none.

## Modules

### TripMedia - one trip as the database holds it

Translates the lifecycle, media and cleanup transactions of one trip, and
what admission does to the roster. Every one of these transactions takes the trip
row `FOR UPDATE` before it reads what it decides on, so each is one atomic
action. The tables are one record `db` (trip row, member rows, slots, sessions,
assets, deliveries, announced previews); handlers that call each other in the
code (`state` -> `end` -> `depart`, `state` -> `settle` -> `depart`) are
operators from a database to a database, and an action installs the result.
`staged` is what the object store holds; `now` is the clock.

| Code | TLA+ |
| --- | --- |
| `depart`, `end`, `settle`, `state`, `expire` | `Depart`, `End`, `Settle`, `ReadState`, `Expire` |
| `change` END, LEAVE, LEAVE_NOW, PAUSE, RESUME | `EndTrip`, `Leave`, `LeaveNow`, `Pause`, `Resume` |
| `read`, `drained` | `ReadTransferState`, `Drained` |
| `requestJoin`, `approveJoinRequest`, `rejectJoinRequest`, `startTrip` | `RequestJoin`, `ApproveJoin`, `RejectJoin`, `StartTrip` |
| `createUpload` | `CreateUpload`, `RenewUpload` |
| `publishPreview`, `commit`, `saved` | `PublishPreview`, `Commit`, `Saved` |
| `cleanupMedia`, one item | `RetireAsset`, `RetireUpload` |
| object PUT | `PutObject` |

Abstractions. A member has one phone, the one it was admitted with (TripRoom has
the change of phones). A request whose expected version is stale is refused
unchanged and is no action; the acknowledgement of the final pass does carry the
version its pass observed, because the code accepts a stale one and ignores it.
`VERIFIED` sessions, `HELD` deliveries and `drained_at` as a time occur nowhere the
properties can tell. Capacity, invites, envelopes and readiness restrict admission
further than this module does: it admits more histories. Retiring an item is one
step here; MediaCleanup justifies that.

Clocks. A photo is dated by its phone, everything else by the server; `createUpload` accepts a
photo dated up to a minute past its own clock (`kyselyMediaService.ts:528-533`), and so does
`CreateUpload`, up to `ClockAhead`. What was accepted may therefore be dated inside a pause that
begins next: `PausedCapturesStayPrivate` says that this is the only way (`AcceptedBefore`). It may
also be dated after the approval of a guest who joins after its commit: that guest is shown the
preview (which is selected by capture time) and is never sent the original. That is why
`PreviewsAreHonoured` and `GracefulLeaverMissesNothing` speak of members approved before the
upload began.

### MediaCleanup and Retention - how ciphertext is retired

`MediaCleanup` opens the one step of TripMedia: a worker claims an item with a
token and a lease in one transaction, deletes its objects over the network, and closes the
row in a second transaction that checks eligibility and the token again. Around it
run the things that could go wrong: PUTs that passed the grant check and land
much later, renewed grants, commits that inspected the store before their
transaction, workers that fail, crash or outlive their lease. Time appears
as flags (a grant, a lease, the deadline has passed): the handlers compare the clock with
nothing else, so that every order of these events is a behaviour.

`Retention` is the promise, stated without any mechanism: per asset a phase (open,
owed, released, closed), the objects a download would find and the objects erased
for good. `MediaCleanup!ImplementsRetention` is the refinement, checked by TLC
and proved by TLAPS.

### TripSync - the phones against the server

Extends TripMedia with the photo engine of each member: `photo` (capture times),
`work` (the durable ledger record of each photo a phone found), `upload` (what
`publish` holds in memory), `pass` (the preview lane's pass with the policy it read),
`inbox` (the ledger records of received photos). A phone step is a request and the
use of its reply; with `heard` false the reply is lost and only the server has
moved. `Stop` drops everything in memory, as a policy change or the death
of the process does.

| Engine (`NativePhotoTransferEngine.kt`; `ApplePhotoTransferEngine.swift` has the same control) | TLA+ |
| --- | --- |
| `previewPass`: policy, discovery, outgoing (four at most), acknowledgement | `ReadPolicy`, `Discover` (`Batches`), `AnnouncePreview`, `EndPass` |
| `publish`: session, PUT, preview, commit | `RequestUpload`, `SendObject`, `AnnouncePreview`, `CommitOriginal` |
| 409 on a capture, fresh policy, `ignored` | `RefuseUpload`, `RecheckRefused` |
| replays the server answers | `SessionReplay`, `PreviewReplay`, `CommitReplay`, `ReceiptReplay` |
| 401 on an expired replay, `blocker` | `ExpiredReplay`, `Reconcile` |
| `receive` | `SaveCopy`, `Acknowledge` |
| `policy`, `stop` | `Stop` |
| `NativeCapturePolicy.windows` | `Windows` |

Assumptions. A photo is visible in the phone's library when it is taken. The phone's clock
and the server's agree here: capture times and server times are points of one clock. The
poll gates are scheduling. Local work succeeds: export, encryption and the verification
of a photo (`NativePhotoTransferEngine.kt:267`, `307-308`), decryption and saving set a blocker or a
retry time when they fail, which is left out, so `EndSettles` speaks of phones whose local steps
succeed. A record that stays blocked keeps its phone's final pass open until the hard deadline. A photo captured in the very tick in which a pause ends is
excluded where the order inside the tick would matter (`AtResumption`).

`Windows` is the loop of `NativeCapturePolicy.windows` without its loop: after the excluded windows
in a set `S` the cursor stands where every window of `S` is over (`CursorAt`), which is nowhere
if one of them has no end; what is shared lies between the cursor before a window and that window,
or after the last. `IgnoredForGood` speaks of the upload only before the hard deadline: past it the
server refuses an upload that had begun, and the phone ignores that photo too.
`CompleteMeansDelivered` is, before that deadline, about those who stayed (`Leavers` bounds who may
leave) and about a leaver for photos whose upload began before it left: the server cuts a leaver's
queue there.

### TripRoom - who is in the trip, and on which phone

The commands of `modules/trips` (join, approve, reject, readiness, start) and the
continuity service (replacement phones, the host's invite) as functions of the rows
`room`: for each command its checks in the code's order, which yield the first
problem (`JoinProblem`, `ApproveProblem`, `ReadinessProblem`, `StartProblem`,
`ResolveProblem` ...), and its effect (`Join`, `Approve`, `SetReadiness`, `Start`,
`ReplacePhone` ...). `Execute` replays a recorded command or runs it.

On the other side are the phones: `client` holds the durable records of the code
(`journal`, `tripMutationJournal.ts`; `joining`, the recovery record) and the one
request in flight, `shown` the projection on the host's screen, `keys` the phones that
hold the trip key. A phone sends (`AskToJoin`, `AskToApprove`, `PublishReadiness`,
`PressStart`, `RequestRecovery` ...), replays what its journal remembers
(`ReplayJournal`, `ReplayJoin`) and gets an answer (`Answered`), loses it
(`AnswerLost`), gives up while the request travels on (`GivenUp`, `ArrivesLate`), or is turned
away unseen (`TurnedAway`: a bearer token refused twice, or too many requests). The codes of a
refusal that is final for the phone (`StartTerminal`, `ReadinessTerminal`) clear the journal, those
of `TurnedAway` included, though an earlier copy of the command may still run: `dropped` remembers
such readiness commands, and `ReadinessAgrees` excuses a phone whose server flag was set by one that
ran after the last accepted report, and no other.
An envelope is the pair of phones it was sealed by and for; a photo is the set of phones
that are owed it or hold it. A phone replays a journal before it originates anything, as
`runExclusive` makes it.

### TripCreation and CreateOutcome - one command, one outcome

A create command from the press of the button to its outcome. The phone draws a trip id,
makes a provisional native key, wraps it, writes a recovery record and sends the request,
twice if the first is not answered; a launch that finds the record asks the server. A
workflow of the app is a member of `jobs` with the place (`pc`) it is suspended at and
whether it still counts. The server's request is two steps, `CreateBegins` (which takes
the advisory lock and reads the clock) and `CreateCommits` or `CreateAborts`; the resolver
answers STILL_UNKNOWN while the lock is taken and otherwise writes the tombstone that
refuses any later copy. Keys, idempotency records and trips run out by the clock.

Native calls fail at any point (`NativeFault`). What a failed import leads to differs: after a
create (`Import`) and in a lobby the app shows a failure; a trip that has started is
shown all the same, as ACTIVATION_FAILED, by a launch (`Hydrate`) and by every poll, retry and
answer to Start (`Poll`), and a later readiness or approval answer shows it as READY without
looking at the key (`Republish`). `ShownTripHasKey` says that the creating phone holds the key
nevertheless: the trip was started from its screen (`PressStart`), where the key was, and no step
takes an installed key away. On a joiner's phone or a replacement ACTIVATION_FAILED may really mean a
missing key; the property is not about those. The account has one phone here, and Start's
journal and its replays are TripRoom's. The longest trip (`Offered`) is the form's bound
(`TripEndField.tsx:52`); the use case itself asks only for an end in the future, and the server
enforces both (`InWindow`).

| Code | TLA+ |
| --- | --- |
| `createTrip.ts` | `CreateBegins`, `CreateCommits`, `CreateAborts`, `Replays`, `Forgets` |
| `resolveCreateTripOutcome.ts` | `Answer`, `Resolve`, `LateResolve` |
| `CreateImmediateTrip.ts` | `Press`, `MakeKey`, `Wrap`, `CreateTimesOut`, `Discard`, `Clear`, `Confirm`, `Import` |
| launch and recovery | `Launch`, `Ask`, `AskTimesOut`, `List`, `Hydrate`, `Refresh` |
| the trip on the screen | `PressStart`, `Poll`, `Republish`; `StartTrip` and `TripEnds` on the server |
| `collectExpired` of the native store | `CollectExpired` |

`CreateOutcome` is the abstract specification: each command is created or refused, once
and for good. The refinement maps a trip to CREATED once its row exists and to REFUSED once a
phone was told so (`refused`); it needs a tombstone to outlive the window in which a late copy
could still commit, `MaxWindow <= TombstoneLife`, which is the relation of the constants 14 and
21 days (`resolveCreateTripOutcome.ts:11`).

### PhoneSession - one phone, several accounts

`AppSessionProvider.tsx`, `nativeSessionFence.ts`, the native key store as it serves them,
and the erasure of `AccountPrivacy.tsx`. JavaScript runs one continuation at a time:
a job is a suspended continuation, `step` says what it awaits, and an action is what
runs from one await to the next. The two generation counters of the code are flags of the job:
`current` (the launch, observation or retirement has not been overtaken) and `live` (its native
port has not been fenced). A job that is neither can do nothing more and leaves the set.

| Code | TLA+ |
| --- | --- |
| `AuthBridge` effects, sign-in and sign-out | `AuthChanges`, `ProfileCompletes`, `SignedInEffect`, `SignedOutEffect`, `PressSignOut`, `Retry` |
| launch and provisioning | `Identify`, `Restore`, `InstallSession`, `Provisioned`, `ReadNative`, `ListTrips`, `Deadline` |
| observation of a trip | `Fetch`, `ImportKey`, `Activate`, `Observed`, `Poll` |
| lifecycle refresh and retirement | `AskLifecycle`, `LifecycleAnswers`, `LookForTrip`, `RetireTrip`, `Retired` |
| teardown | `PauseReturns`, `ClearLands`, `TornDown`, `ClearAndSignOut` |
| account erasure | `DeleteAccount`, `RememberErasure`, `EraseAccount`, `LeaveClerk`, `FinishErasure`, `EraseAgain` |

Native calls take effect in the order of their dispatch, except `clearDeviceSession`, which
first waits for the engine to stop (`ClearLands`). Each account has one trip, which the
environment moves through its stages.

### AccountErasure - an account's phones and its deletion

One account on the server. Requests (registration, push-token update, revocation,
profile sync, deletion) are served in the pieces the code has: the guard's query, the
snapshot they authorize on, the calls to Clerk and to the push-token key, the transaction that
looks again. `deletion` is the job row, carried out by leased workers in the code's stages:
ask for and save Apple's grant, revoke it, remove the identity, note it, list a batch of objects,
delete each, erase the rows. A worker may fail, crash or outlive its lease at any of them, and a row
that comes due again is claimed by another. `clerk` and `apple` are the providers' state,
`heard` that the `user.deleted` event came.

Abstractions. One account, requests numbered in the order of their arrival, a device id named
after the request that drew it. The identity at Clerk is LIVE, REMOVED by a worker or GONE by
somebody else's hand (a 404 counts as removed). Apple's grant, once it can be read, can be
revoked; if it could never be read the deletion would not end. Not in the module: terms,
suspension, blocks, reports, rate limits, idempotency replays, and the expiries after 30 and 90
days.

`MCTripMedia`, `MCMediaCleanup`, `MCTripSync`, `MCTripRoom`, `MCTripCreation`, `MCPhoneSession`
and `MCAccountErasure` declare model values, bounds, symmetry sets and views; they
change no definition.

## Runs

| Run | Instance | Shows |
| --- | --- | --- |
| trip_crew | host, 2 guests, 1 photo, 3 ticks (about 730 000 states) | `PurgeNeedsEverySave`, `GracefulLeaverMissesNothing`, `HonestCompletion`, `PreviewsAreHonoured` |
| trip_transfers | host, guest, 1 photo, a pause, grants of one tick (766 968) | `TypeOK`, `RecipientsCanDownload`, `NoOrphanCiphertext`, `RosterConsistent`, `PausedCapturesStayPrivate`, `OutcomesAreFinal`, `SlotsEventuallyFree` |
| cleanup | 1 asset, 2 workers, 4 tokens, 2 faults (117 064) | `TypeOK`, `RetiredForGood`, `NeverRetiredEarly`, `ImplementsRetention`, `EverythingRetired` |
| sync_crew | 2 phones, 2 photos of a leaver, quota 1, 1 fault, 2 ticks (854 754) | `SyncTypeOK`, `NoPhotoLeftBehind`, `CompleteMeansDelivered` |
| sync_ends | 2 phones, 1 photo, a pause each or 2 faults (147 122) | `EndSettles`, `PoliciesAgree`, `IgnoredForGood` |
| room | host and guest with two phones each, 2 seats, 1 photo (644 026) | `RoomTypeOK`, `EnvelopesFollowApproval`, `ReadinessAgrees`, `ReplacementIsOwedEverything`, `StartedAsSeen` |
| creation | one create with 2 faults, or two with one (344 549) | `CreationTypeOK`, `ShownTripHasKey`, `OneOutcome`, `DiscardOnlyWhenDecided`, `UnknownSettles` |
| phone | 2 accounts, 3 outside events (1 028 279) | `PhoneTypeOK`, `OnlyTheSignedIn`, `ErasedIsGone` |
| erasure | 1 installation, 2 requests, 2 objects, 2 workers, 1 fault (229 336) | `AccountTypeOK`, `DeletedCannotAct`, `NothingLeftBehind`, `TokensOpen`, `EventuallyErased` |
| trip_late_upload, trip_false_complete, sync_retry | small | disagreements, see below |

**Bounds.** The clock of the trip runs (`MaxTime`) reaches the hard deadline, at which expiry and
cleanup become due. `EndsAt < HardDeleteAt` keeps a tick of ENDING between them,
and `UploadTtl` is short enough that grants expire and are renewed
on the way. Three members give the host, one who leaves and one who stays, which is
what the fan-out, the settlement of others and the waiver need; photos of one trip
meet only in the quota, the final pass and the completion, for which sync_crew
has two photos and a quota of one. The guest who may leave takes both, so that its batch of one is
exceeded and the second waits for a later pass; with `Shooter <- ByBoth` each phone takes one
(1 115 042 states, no error). The theorems about TripSync hold for every `Batch` and every `Shooter`.
`JoinUntil` stops admission so that no run spends itself on
joins that share nothing. `MaxPauses` and one pause a tick bound the pause
history: a finished pause and an ongoing one are both cases of the window
cursor, and the proof of `PausedCapturesStayPrivate` has no bound. `ClockAhead` is one tick: a
capture dated before, inside and after the tick of each server step. `MaxFaults` bounds lost
replies, crashes and overrun leases; a fault can fall at every step. In sync_ends a behaviour
has pauses or faults, not both (`Mixed`). There grants outlive the run (`UploadTtl = 4`,
`MaxTime = 2`), because a commit reply lost past its grant blocks the phone, which is the
disagreement of sync_retry; in sync_crew they last a tick and expire under a lost reply.

In room a behaviour takes one of three bounds (`Limits`): the guest's readiness commands
are lost and come late; the guest replaces its phone as a pending and as an active member, with a
photo shared; the host replaces its phone, approved by itself or by the guest. Each
phone originates at most three commands, which is what a command, one that crosses it and its
repetition need; with two seats and one use of the invite both limits are met. In creation
`Once` has every fault and expiry around one create, `Twice` a second create over a first that
is undecided; the lifetimes are one and two ticks, in the order of the code's 24 hours, 14 and
21 days. In phone three outside events are a sign-in, an interruption and what crosses it;
two accounts are what can be confused. In erasure two requests are one that
overtakes another, and a batch of one makes two objects take two runs of the worker.

Deadlock is not checked: a trip that has ended and been cleaned up, a room whose phones
have used up their commands and an account that is erased do stop.

**Symmetry and views.** Guests are interchangeable, and so are photos and accounts (`CrewSymmetry`,
`Symmetric`; safety runs only). `Essential` of the trip runs drops from the fingerprint the trip's version, which
only grows, is compared only for equality with an observed one, and may be carried by an
acknowledgement as it is or older in every state, and the final pass of members who have left, which
is read of participants alone: states that differ in these alone have the same future, and
no property of these runs tells them apart. (The symmetric form of a state is chosen before the view is taken,
so that the count of trip_crew differs a little from one run to the next.) `Observed` of TripSync keeps, for
each phone, whether the version its pass observed is still current; `Observed` of TripRoom keeps
how far each version a phone remembers is behind the room's, up to two, and of the recorded commands
those of which a copy is alive.

**Mutants.** Each checked property names a variant of a modelled definition that
a plausible slip of the code would produce (`Slip:` in the modules); with it in
place the run reports that property violated.

## Fairness

- `TripMedia!FairSpec`: time passes, and the minute schedule runs the expiry of the
  trip and each retirement (`cp/worker/index.ts:27-42`). Nothing is assumed of people
  or phones. A pass takes at most 100 trips and 100 items, oldest deadline first;
  weak fairness says that the backlog is worked off.
- `MediaCleanup!FairSpec`: the deadline passes, leases run out, due items are
  claimed, a worker at work goes on. Failures and crashes are bounded by `MaxFaults`:
  cleanup succeeds once they stop.
- `TripSync!FairSync`: each engine keeps running (its lanes are scheduled every second,
  `NativePhotoTransferEngine.kt:91-92`) and finitely many replies are lost. Time
  need not pass: `EndSettles` is about phones alone bringing a trip to its end.
- `TripCreation!FairCreation`: the server finishes what it began, a suspended workflow of the
  app goes on, the app is opened again and its user tries again, time passes. `UnknownSettles`
  says that an unknown outcome does not stay on the screen for ever.
- `AccountErasure!FairSpec`: the minute schedule claims what is due, a stage goes on, backoffs
  and leases end. `EventuallyErased` needs nothing of phones, users or provider events.

Room and phone have no liveness property: nothing obliges a user to press a button, and
a lost answer is repeated only while somebody looks at the app.

## Proofs

Eight modules hold proofs, for every value of the constants and with nothing assumed beyond the
named assumptions on them (a finite crew with its owner; natural numbers for times and
limits; the end before the hard deadline; no account, claim token, name, phone or envelope equal to the absent one; the
window of a trip within the life of a tombstone; a batch of at least one object).

- **TripMedia_proofs**: `TypeCorrect` (`[]TypeOK`), `SafePurge` (`[]PurgeNeedsEverySave`),
  `DownloadsServed` (`[]RecipientsCanDownload`), `NothingOrphaned`
  (`[]NoOrphanCiphertext`). None of the three is inductive alone. The invariant `IInv` is
  the types, `Books` (a purged asset has only receipts, a READY delivery has a committed asset,
  an asset has a committed session) and `Shelf` (a committed asset's objects are
  staged; a retired row's grant has expired and nothing is staged behind it). The
  grant's expiry in `Shelf` is what keeps a late `PutObject` out. The argument
  rests on one observation: membership and lifecycle steps touch the media tables only by
  waiving deliveries (`OnlyWaives`, composed along `Depart`, `End`,
  `Settle`, `ReadState`), so that only media and cleanup steps need a case each.
  The same module has `RosterStaysConsistent` (`[]RosterConsistent`) and `OutcomesStayFinal`
  (`OutcomesAreFinal`, an action property). The books of the roster (`Roll`) add that nobody has
  left who never had a row: `RequestJoin`, which needs that there is none, then re-admits
  nobody who left. Handlers that call one another are covered by one
  relation between databases, `Rolls` (types, books, what is kept of ended trips and of leavers),
  which composes. Finality of deliveries needs that a delivery exists only of a committed asset
  (`Sent`): the commit, the only step that writes a whole row of deliveries, overwrites none.
  `PausedStaysPrivate` (`[]PausedCapturesStayPrivate`) has an invariant of
  its own: that no upload is dated more than `ClockAhead` past its acceptance nor accepted in the
  future (`Past`), so that a pause that begins now finds every upload accepted before it. Every
  step changes a row's pauses in one of four ways (`Follows`).
- **TripDelivery_proofs**: `GracefulLeaversMissNothing` (`[]GracefulLeaverMissesNothing`),
  `CompletionIsHonest` (`[]HonestCompletion`) and `PreviewsHonoured` (`[]PreviewsAreHonoured`). One
  invariant carries all three, `Sound(w)`: the course of the trip (an ended one is empty), the crew
  (nobody departs in the future), the uploads (a session is committed exactly when its asset exists,
  and expires only past the deadline), and for each photo and member `Pair`: what is shared with a
  member still `Owed` has a delivery, and who finished was `Served`. `Admitted` ties approval to
  the upload's beginning where the phone's clock may be ahead. It is a predicate of a
  database and not of the state, because one request may end the trip, settle its caller and
  complete the trip: `DepartSound`, `EndSound`, `SettleSound` and `TouchSound` show
  that each of these keeps it, and a handler keeps it because it is made of them. The heart is
  `SettleSound`: the caller settled has no READY delivery and no upload begun before its cutoff is
  open, so that whatever was shared with it is committed and received.
- **TripSync_proofs**: `PhonesDriveTheServer` (`SyncSpec => [][Next]_vars`), `SyncTypeCorrect`
  (`[]SyncTypeOK`), `PoliciesStayAgreed` (`[]PoliciesAgree`), `IgnoredPhotosAreLost`
  (`[]IgnoredForGood`), `NothingLeftBehind` (`[]NoPhotoLeftBehind`), `CompleteIsDelivered`
  (`[]CompleteMeansDelivered`) and `ServerPromisesStand`, TripMedia's promises in this composition,
  whose trip starts with its crew aboard. The invariant `SyncInv` is all of the above and
  `Synced(w)`: what the ledgers record is so at the server (`Recorded`); a pass that began on a
  leaving policy will look where a shared photo is, or has looked and found it in the ledger
  (`Searched`); whoever acknowledged a final pass has nothing uncommitted, and who stayed and
  finished has every photo (`Home`). `Searched` is why an acknowledgement can be trusted: the
  windows of such a pass, read at or after the departure, cover all that the member will ever
  share, because from then on requests only take away from it (`Narrows`). `WindowsAllowed`, that the phone's
  cursor and the server's capture check accept the same instants, takes the least beginning of
  the windows after an instant. A phone step is proved in two halves, what it does to the tables
  (`ServerSynced`) and what to the phones (`PhonesSynced`: a step that is `Calm`, or shown
  otherwise).
- **MediaCleanup_proofs**: `TypeCorrect`, `RetirementIsFinal` (`[]RetiredForGood`),
  `RetirementIsNeverEarly` (`[]NeverRetiredEarly`), and `CleanupImplementsRetention`
  (`Spec => ImplementsRetention`). `IInv` adds to the types how rows relate
  (`Rows`), that a tombstone exists only for an asset that is released, which nothing
  undoes (`Fences`), that an inspection of an open upload stays true before the deadline
  (`Sights`), and that a worker's item is released and what it has worked off is fenced
  (`Jobs`). The token never occurs in the safety argument: a worker past its lease
  does no harm because deletion is idempotent and final. The refinement maps each step to
  a write, a promise, a release, an erasure, a closing or a stutter.
- **TripCreation_proofs**: `CreationTypeCorrect`, `ShownTripAlwaysHasKey` (`[]ShownTripHasKey`),
  `KeysDiscardedWhenDecided` (`DiscardOnlyWhenDecided`) and `CreationHasOneOutcome`, the refinement of
  CreateOutcome. `IInv` adds to the types `Rows` (a refusal lasts until its trip's window
  has closed, so that a late copy meets the refusal or a window that is over), `Phone` (what
  the place of each workflow says of its trip: a workflow that has not sent its request
  yet has none on the wire, one that discards has been refused or never sent) and `Keyed` (a trip
  that is started, or whose Start is on its way, has its key on the phone). `Keyed` is what the
  publication of a trip whose import failed rests on; it holds because Start is pressed on a
  screen that had the key and no step takes an installed key away (`InstalledStays`).
- **AccountErasure_proofs**: `AccountTypeCorrect`, `DeletedNeverActs` (`[]DeletedCannotAct`),
  `TokensAlwaysOpen` (`[]TokensOpen`), `ErasureLeavesNothing` (`[]NothingLeftBehind`). `IInv` adds
  to the types `Access` (a user row is DELETED exactly while its deletion is pending),
  `Shelf` (what may still be put has an upload row or a tombstone, and a pending deletion
  lists every row whose object it has not deleted) and `Identity` (what the job row and the place
  of a worker say of Clerk and of Apple).

- **TripRoom_proofs**: `RoomTypeCorrect` (`[]RoomTypeOK`), `EnvelopesSafe`
  (`[]EnvelopesFollowApproval`), `StartsAsSeen` (`StartedAsSeen`, an action property) and
  `ReplacementsAreOwed` (`[]ReplacementIsOwedEverything`). `RoomInv` is the types, `Sealed` (a
  membership names a phone of its account; an envelope exists only for an admitted account) and
  `InTime`: what a screen shows, and what a Start command on its way saw, was read at a
  version no newer than the trip's, and is the roster as long as the version is the same.
  Each command is first shown to pass only what its checks allow (`NoProblem` reads the list
  of tests, the `Passed` lemmas name what is left), then to be a step that moves the version
  whenever it moves the roster (`Moves`). `Owed` adds what a photo owes: nobody who
  was not yet admitted is covered, and of a covered member the phone in use is owed the photo
  unless the member took it and no phone of the member was ever owed it.
  `ReadinessSettles` (`[]ReadinessAgrees`). The invariant `Agreed` follows
  every copy of a readiness command: it is the one its phone still retains, was carried out, was
  dropped unseen (`Loose`), or can never be, because its phone is revoked, its account has left or
  the trip is over. `Goes`
  says of every server step that it undoes none of these and changes the readiness of a phone
  in use only by a command of that phone which had not run. That the phone settles a command
  only on an answer that shows its value, or refuses it for good, or remembers it as dropped, does
  the rest.

- **PhoneSession_proofs**: `PhoneTypeCorrect`, `SessionsNeverMix` (`[]OnlyTheSignedIn`) and
  `ErasureIsComplete` (`[]ErasedIsGone`). What could break them is a job that an earlier session
  suspended and that resumes in a later one, so `IInv` speaks of the jobs (`Fit`): one that
  provisions belongs to the signed-in account while the session is mounted, and there is none
  once an erasure has moved the fence; one that launches or observes and whose generation is
  current works for the signed-in account. The rest is about the state the jobs meet: a
  session that knows its device has selected nobody else (`Seated`), what is shown was published
  for its owner (`Screened`), an account that is gone has nothing left and nobody who
  could bring it back (`Erasing`).

Every invariant, action property and refinement of the passing runs is a theorem. Only
model-checked are the liveness properties (`SlotsEventuallyFree`, `EverythingRetired`, `EndSettles`,
`UnknownSettles`, `EventuallyErased`): fairness and ENABLED are outside the prover. `Sound`
and `Synced` were given to TLC as invariants of small instances before they were proved.

## What the code does not do as described

1. **An upload accepted during a graceful leave may never commit**
   (trip_late_upload). The runbook and the leave dialog promise that a leaving guest's
   phone finishes its uploads. `commit` (`kyselyMediaService.ts:780-796`)
   leaves out members who asked to leave before the session was created, the
   source included, and then requires the source's own inbox event: the
   transaction always rolls back. The leave waits for the hard deadline.
   `GracefulLeaverMissesNothing` and `NoPhotoLeftBehind` hold
   because the stuck leave never completes.
2. **A trip can end COMPLETE with undelivered photos** (trip_false_complete). Expiry takes
   100 trips a pass; assets are retired independently. A trip left over whose
   deliveries have just expired is settled by the next read as COMPLETE. `HonestCompletion`
   is the part that does hold: before the hard deadline COMPLETE is honest.
3. **A lost commit reply is not always safe to retry** (sync_retry). Once the
   grant has expired, the replay of a committed session answers 401 and the phone
   blocks the record as if it had been revoked.

Seen while modelling and left out of the checked properties, so that each of them says what
the code does achieve:

- *Session teardown* (`src/bootstrap`). A retry pressed while a forced sign-out waits for the
  engine lets `clearDeviceSession` land after the trip was activated again
  (`AppSessionProvider.tsx:447-473`, `AppProviders.tsx:90-104`): `OnlyTheSignedIn` speaks of which
  account's session runs, not of its having one. A sign-out abandoned at the Clerk
  call leaves a trip its user has left on the screen (`:1302`). A superseded sign-out skips the
  teardown that the comment at `:1042` says must run. A retry does not fence the launch it
  overtakes. The iOS `clearDeviceSession` re-checks its session before the engine has
  stopped (`CrewRollTransferModule.swift:73-90`).
- *Erasure on the phone*. The pending erasure is remembered after the server's answer
  (`AccountPrivacy.tsx:183`): a death in between leaves the private data until the account signs in
  again. A recovery record saved by a workflow that is not fenced can land after
  `clearLocalAccountRecords`. `ErasedIsGone` is about erasures that were remembered.
- *The room*. A lobby whose host has replaced its phone cannot start: the envelopes are compared with the
  host's current phone (`startTrip.ts:262`), and nobody seals them again. A readiness command
  that meets `TRIP_STATE_CONFLICT` stays in the journal (`SetTripReadiness.ts:211-214`). An approval
  sealed for a pending guest's old phone is stored for its new one, which cannot open
  it and asks for the key again (`kyselyTripContinuity.ts:303-306`).
- *Blocks*. Somebody who blocks a person leaves the trip named in the request
  (`kyselyAccountService.ts:213-246`). When that is an earlier trip the two share, both stay in
  their current one, where every command that updates either membership is refused with
  `INVITE_INVALID` (`kyselyTripUnitOfWork.ts:966`).
- *Deletion*. A registration that began before the deletion and commits after the erasure
  inserts the user again: `insertUser` (`kyselyDeviceUnitOfWork.ts:289`) does not look at
  `account_deleted_subjects`, whose purpose `docs/runbooks/account-safety-operations.md:30`
  describes. `DeletedCannotAct` speaks of the time until the erasure. `stopParticipation` writes
  INCOMPLETE_EXPIRED over a trip that was COMPLETE already (`accountDeletion.ts:64-80`), which
  `OutcomesAreFinal` of TripMedia, having no deletion, does not see.
- *Readiness*. `RATE_LIMITED` and `AUTH_*` are among the codes that clear the readiness journal
  (`SetTripReadiness.ts:24-36`), although an earlier copy of the same command may still run and undo
  a report made since.
- *Previews*. A photo dated up to a minute ahead, committed just before a guest is approved, gives
  that guest a preview and never the original (`kyselyMediaService.ts:352-368`, `528-533`).
- *Lifecycle*. A guest still PENDING_KEY when the trip ends has no media policy and never
  acknowledges a final pass (`kyselyTripLifecycle.ts:213`): the trip waits for the hard deadline.

## What is not modelled

- **Trip previews and reads, feeds, gallery, screens, the design system**: reads of one snapshot
  and presentation; `Hydrate` of TripRoom uses what `getTrip` returns.
- **API runtime, worker host, API client, contracts, generated code, tools, site**:
  composition, typing, build policies; no protocol state.
- **Media cryptography**: formats, encryption, signatures, checksums are data, tested
  with vectors. The store's checksum checks are the guard that an object is the one announced.
- **Background sync job**: it decides when the engine runs; TripSync covers every schedule.
- **Native keys**: key material, storage formats, command decoding and the timer of the cleanup
  scheduler; the order of the key operations is in TripCreation and PhoneSession, where they run one
  at a time as the serial queue makes them.
- **Device credentials**: renewal, key checks, idempotent replays of registration, and an
  installation another account owns.
- **Terms, blocks, reports, suspension, rate limits**, and the expiries after 30 and 90 days.
- Row locks: each transaction is one step. The order in which admission and lifecycle
  take their locks differs (`approveJoinRequest.ts:210` against
  `kyselyTripLifecycle.ts:25`); PostgreSQL breaks such a deadlock by aborting one side.
- Poll gates and retry timers, except as scheduling; local export, verification and save failures
  of the engine (`NativePhotoTransferEngine.kt:267`, `307-308`); clock skew in TripSync (TripMedia
  has it); photos a media store shows late.

About half of the lines the map does not reach are presentation, contracts, tools and
storage formats; `PROJECT.json` lists each component with its status.

## Plan

Done: TripMedia, Retention, MediaCleanup, TripSync, TripRoom, CreateOutcome, TripCreation,
PhoneSession, AccountErasure, and the proofs above. What would come next, in this order:

1. Blocks and reports in TripRoom: what a block does to a shared trip, the commands refused after it.
2. Device credentials beside AccountErasure: renewal across revocation, an installation that
   changes hands, registration replayed by its idempotency key.
3. The account's deletion composed with TripMedia: departures of a deleted member, trips that
   were final before.
4. Proofs: the abstract promise of a delivery, as Retention states it for cleanup, implemented by
   TripMedia; the refinement of TripMedia's retirement step by MediaCleanup.
