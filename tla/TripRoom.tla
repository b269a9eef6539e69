------------------------------ MODULE TripRoom ------------------------------
(***************************************************************************)
(* Who is in a trip and on which phone: joining by invite, approval,       *)
(* readiness, Start, the owner's invite and the replacement of a phone.    *)
(*                                                                         *)
(* The server side is the commands of modules/trips and the continuity     *)
(* service of db/trips, one atomic transaction each; the phone side is the *)
(* commands of src/application/trips with their durable records: the       *)
(* mutation journal (readiness and Start) and the recovery record (join).  *)
(* A request may be lost, its answer may be lost, the server may refuse it *)
(* before it looks at it, and a request the phone has given up on may      *)
(* still arrive later.                                                     *)
(***************************************************************************)
EXTENDS Naturals, FiniteSets, Sequences

CONSTANTS
  Users, Host,   \* accounts; the one that created the trip
  Phones,        \* app installations, each with its own device identity
  UserOf,        \* the account of an installation
  First,         \* the installation the trip was created on
  Assets,        \* committed photographs
  MaxMembers,    \* seats in a trip (10 in the code)
  MaxUses,       \* uses of an invite before it is saved again (9 in the code)
  Limits,        \* bounds, one chosen per behaviour: the commands each phone
                 \* originates, the requests it loses, loses the answer of or
                 \* has refused unseen, the accounts that may depart and the
                 \* photos that may be shared
  None

ASSUME RoomAssumption ==
  /\ Host \in Users
  /\ UserOf \in [Phones -> Users]
  /\ First \in Phones /\ UserOf[First] = Host
  /\ MaxMembers \in Nat \ {0}
  /\ MaxUses \in Nat
  /\ Limits \subseteq [sent : [Phones -> Nat], lost : [Phones -> Nat],
                      leavers : SUBSET Users, assets : SUBSET Assets]
  /\ None \notin Users \cup Phones \cup [sender : Phones, sealedFor : Phones]

VARIABLES
  room,    \* the trip's rows on the server
  client,  \* the durable records and the request in flight of each phone
  shown,   \* the projection the host's screen shows
  keys,    \* phones whose key store holds the trip key
  late,    \* requests their phones gave up on, still on the way
  limit    \* the bounds of this behaviour

roomVars == <<room, client, shown, keys, late, limit>>

-----------------------------------------------------------------------------
(* The server's rows.                                                      *)

Seated(r) == {u \in Users : r.member[u].state \in {"PENDING", "ACTIVE"}}
Members(r) == {u \in Users : r.member[u].state = "ACTIVE"}
Nominated(r, p) == r.member[UserOf[p]].phone = p
PendingOf(r, u) ==
  {p \in Phones : UserOf[p] = u /\ r.request[p].state = "PENDING"}

(* Trip, invite and owner's envelope as a committed create leaves them.    *)
NewRoom ==
  [state    |-> "LOBBY", past |-> FALSE, version |-> 1,
   member   |-> [u \in Users |->
                   IF u = Host
                   THEN [state |-> "ACTIVE", phone |-> First, ready |-> FALSE]
                   ELSE [state |-> "NONE", phone |-> None, ready |-> FALSE]],
   envelope |-> [p \in Phones |->
                   IF p = First THEN [sender |-> First, sealedFor |-> First]
                                ELSE None],
   request  |-> [p \in Phones |->
                   [state |-> "NONE", previous |-> None, approver |-> None]],
   revoked  |-> {}, uses |-> 0, saved |-> FALSE, done |-> {},
   covers   |-> [a \in Assets |-> {}],
   delivery |-> [a \in Assets |-> [p \in Phones |-> "NONE"]]]

Open(r) == r.state \in {"LOBBY", "ACTIVE"} /\ ~r.past
InviteLive(r) == Open(r) /\ r.uses < MaxUses

(* A command fails with the first problem it meets, in the code's order.   *)
FirstProblem(tests) ==
  IF \E i \in DOMAIN tests : tests[i][1]
  THEN tests[CHOOSE i \in DOMAIN tests :
               /\ tests[i][1]
               /\ \A j \in 1..(i - 1) : ~tests[j][1]][2]
  ELSE "OK"

(* Reauthorization of the caller, and the checks every owner command makes. *)
CallerProblem(r, c) ==
  LET m == r.member[UserOf[c.by]] IN
  FirstProblem(<<
    <<c.by \in r.revoked, "DEVICE_REVOKED">>,
    <<m.state # "ACTIVE", "NOT_FOUND">>,
    <<m.phone # c.by, "DEVICE_NOT_PARTICIPANT">>,
    <<c.kind # "READINESS" /\ UserOf[c.by] # Host, "TRIP_OWNER_REQUIRED">> >>)

(* What readProjection discloses to a phone, or that it cannot.            *)
Readable(r, p) ==
  /\ r.member[UserOf[p]].state = "ACTIVE"
  /\ Nominated(r, p)
  /\ p \notin r.revoked
  /\ r.envelope[p] # None
  /\ UserOf[p] = Host =>
       \A u \in Seated(r) : r.member[u].phone \notin r.revoked

Roster(r) == [u \in Users |-> IF u \in Seated(r) THEN r.member[u] ELSE None]

(* Start asks for an envelope of every member sealed by the owner's phone. *)
KeyDirectoryComplete(r) ==
  \A u \in Members(r) :
    LET e == r.envelope[r.member[u].phone] IN
    e # None /\ e.sender = r.member[Host].phone

Bump(r) == [r EXCEPT !.version = @ + 1]
Keep(r, c) == [r EXCEPT !.done = @ \cup {c.id}]

-----------------------------------------------------------------------------
(* requestJoin.                                                            *)

JoinProblem(r, c) ==
  FirstProblem(<<
    <<c.by \in r.revoked, "DEVICE_REVOKED">>,
    <<~InviteLive(r), "INVITE_INVALID">>,
    <<r.member[UserOf[c.by]].state \notin {"NONE", "LEFT"}, "CONFLICT">>,
    <<Cardinality(Seated(r)) >= MaxMembers, "TRIP_FULL">>,
    <<Host \notin Members(r) \/ r.member[Host].phone \in r.revoked, "INTERNAL_ERROR">>,
    <<r.member[UserOf[c.by]].state = "LEFT", "CONFLICT">> >>)

(* Slip: the membership is recorded for the account, not the phone. *)
JoinByAccount(r, c) ==
  Keep(Bump([r EXCEPT
    !.member[UserOf[c.by]] =
        [state |-> "PENDING", phone |-> UserOf[c.by], ready |-> FALSE],
    !.uses = @ + 1]), c)

Join(r, c) ==
  Keep(Bump([r EXCEPT
    !.member[UserOf[c.by]] = [state |-> "PENDING", phone |-> c.by, ready |-> FALSE],
    !.uses = @ + 1]), c)

(* The membership a replayed join answers with; the row is read, not kept. *)
JoinReplayProblem(r, c) ==
  LET m == r.member[UserOf[c.by]] IN
  FirstProblem(<<
    <<c.by \in r.revoked, "DEVICE_REVOKED">>,
    <<m.phone # c.by, "INTERNAL_ERROR">>,
    <<m.state = "ACTIVE" /\ r.envelope[c.by] = None, "INTERNAL_ERROR">> >>)

(* approveJoinRequest: the envelope goes to the phone nominated now; the   *)
(* bytes were sealed for the phone the host's screen had disclosed.        *)
ApproveProblem(r, c) ==
  LET m == r.member[c.about] IN
  FirstProblem(<<
    <<CallerProblem(r, c) # "OK", CallerProblem(r, c)>>,
    <<r.past, "TRIP_STATE_CONFLICT">>,
    <<r.state \notin {"LOBBY", "ACTIVE"}, "MEMBERSHIP_FROZEN">>,
    <<m.state = "NONE", "NOT_FOUND">>,
    <<m.state # "PENDING", "CONFLICT">>,
    <<m.phone \in r.revoked, "DEVICE_REVOKED">>,
    <<m.state = "PENDING" /\ r.envelope[m.phone] # None, "INTERNAL_ERROR">> >>)

(* Slip: the envelope is stored for the phone it was sealed for. *)
ApproveForSealed(r, c) ==
  Keep(Bump([r EXCEPT
    !.member[c.about].state = "ACTIVE",
    !.envelope[c.value] = [sender |-> c.by, sealedFor |-> c.value]]), c)

Approve(r, c) ==
  Keep(Bump([r EXCEPT
    !.member[c.about].state = "ACTIVE",
    !.envelope[r.member[c.about].phone] =
        [sender |-> c.by, sealedFor |-> c.value]]), c)

(* rejectJoinRequest frees the seat and keeps the refused membership.      *)
RejectProblem(r, c) ==
  LET m == r.member[c.about] IN
  FirstProblem(<<
    <<CallerProblem(r, c) # "OK", CallerProblem(r, c)>>,
    <<r.past, "TRIP_STATE_CONFLICT">>,
    <<r.state \notin {"LOBBY", "ACTIVE"}, "MEMBERSHIP_FROZEN">>,
    <<m.state = "NONE", "NOT_FOUND">>,
    <<m.state # "PENDING", "CONFLICT">> >>)

Reject(r, c) == Keep(Bump([r EXCEPT !.member[c.about].state = "REJECTED"]), c)

(* setTripReadiness: a value that is already there bumps no version.       *)
ReadinessProblem(r, c) ==
  FirstProblem(<<
    <<CallerProblem(r, c) # "OK", CallerProblem(r, c)>>,
    <<r.past, "TRIP_STATE_CONFLICT">>,
    <<r.state \notin {"LOBBY", "ACTIVE"}, "MEMBERSHIP_FROZEN">> >>)

SetReadiness(r, c) ==
  LET u == UserOf[c.by] IN
  Keep(IF r.member[u].ready = c.value THEN r
       ELSE Bump([r EXCEPT !.member[u].ready = c.value]), c)

(* Slip: the expected version is not compared. *)
StartUnversioned(r, c) ==
  FirstProblem(<<
    <<CallerProblem(r, c) # "OK", CallerProblem(r, c)>>,
    <<r.state # "LOBBY", "TRIP_STATE_CONFLICT">>,
    <<Seated(r) # Members(r), "PENDING_JOIN_REQUESTS">>,
    <<~KeyDirectoryComplete(r), "KEY_ENVELOPE_MISSING">>,
    <<\E u \in Seated(r) : ~r.member[u].ready,
      "PHOTO_LIBRARY_ACCESS_REQUIRED">> >>)

(* startTrip. The time is not looked at; the version must be the one seen. *)
StartProblem(r, c) ==
  FirstProblem(<<
    <<CallerProblem(r, c) # "OK", CallerProblem(r, c)>>,
    <<r.state # "LOBBY", "TRIP_STATE_CONFLICT">>,
    <<c.version # r.version, "VERSION_CONFLICT">>,
    <<Seated(r) # Members(r), "PENDING_JOIN_REQUESTS">>,
    <<~KeyDirectoryComplete(r), "KEY_ENVELOPE_MISSING">>,
    <<\E u \in Seated(r) : r.member[u].phone \in r.revoked, "DEVICE_REVOKED">>,
    <<\E u \in Seated(r) : ~r.member[u].ready,
      "PHOTO_LIBRARY_ACCESS_REQUIRED">> >>)

Start(r, c) == Keep(Bump([r EXCEPT !.state = "ACTIVE"]), c)

-----------------------------------------------------------------------------
(* The continuity service. It keeps no command record: an exact state      *)
(* replay returns early, every other change is a compare-and-set of the    *)
(* trip version.                                                           *)

ContinuityProblem(r, c) ==
  LET m == r.member[UserOf[c.by]] IN
  FirstProblem(<<
    <<c.by \in r.revoked, "AUTH_INVALID">>,
    <<m.state \notin {"PENDING", "ACTIVE"}, "NOT_FOUND">>,
    <<~Open(r) \/ (m.state = "PENDING" /\ c.kind # "REQUEST"),
      "TRIP_STATE_CONFLICT">> >>)

(* SAVE_INVITE reopens the owner's code once its uses are spent.           *)
SaveInviteProblem(r, c) ==
  FirstProblem(<<
    <<ContinuityProblem(r, c) # "OK", ContinuityProblem(r, c)>>,
    <<c.version # r.version, "VERSION_CONFLICT">>,
    <<~Nominated(r, c.by) \/ UserOf[c.by] # Host, "TRIP_OWNER_REQUIRED">> >>)

SaveInvite(r, c) ==
  Bump([r EXCEPT !.saved = TRUE, !.uses = IF @ < MaxUses THEN @ ELSE 0])

(* REQUEST_DEVICE by a phone that is not the nominated one.                *)
AlreadyAsked(r, c) ==
  Nominated(r, c.by) \/ r.request[c.by].state \in {"PENDING", "APPROVED"}

RequestProblem(r, c) ==
  FirstProblem(<<
    <<ContinuityProblem(r, c) # "OK", ContinuityProblem(r, c)>>,
    <<~AlreadyAsked(r, c) /\ c.version # r.version, "VERSION_CONFLICT">> >>)

(* A pending guest's membership moves to the new phone at once: it never   *)
(* had a key. An active member's asks for approval, replacing the requests *)
(* of its other phones.                                                    *)
MovePending(r, c) ==
  LET u == UserOf[c.by] IN
  Bump([r EXCEPT !.member[u].phone = c.by, !.member[u].ready = FALSE,
                 !.revoked = @ \cup {r.member[u].phone}])

Cancelled(r, u) ==
  [p \in Phones |-> IF p \in PendingOf(r, u)
                    THEN [r.request[p] EXCEPT !.state = "CANCELLED"]
                    ELSE r.request[p]]

AskForPhone(r, c) ==
  LET u == UserOf[c.by] IN
  Bump([r EXCEPT !.request = [Cancelled(r, u) EXCEPT ![c.by] =
    [state |-> "PENDING", previous |-> r.member[u].phone, approver |-> None]]])

RequestPhone(r, c) ==
  IF AlreadyAsked(r, c) THEN r
  ELSE IF r.member[UserOf[c.by]].state = "PENDING" THEN MovePending(r, c)
  ELSE AskForPhone(r, c)

(* APPROVE_DEVICE and REJECT_DEVICE, by the host, by the member's own      *)
(* connected phone, or by any member for the host.                         *)
Resolved(value) == IF value THEN "APPROVED" ELSE "REJECTED"

AlreadyResolved(r, c) ==
  /\ r.request[c.about].approver = c.by
  /\ r.request[c.about].state = Resolved(c.value)

MayResolve(c) ==
  \/ UserOf[c.by] = Host
  \/ UserOf[c.by] = UserOf[c.about]
  \/ UserOf[c.about] = Host

ResolveProblem(r, c) ==
  LET m == r.member[UserOf[c.about]] IN
  FirstProblem(<<
    <<ContinuityProblem(r, c) # "OK", ContinuityProblem(r, c)>>,
    <<AlreadyResolved(r, c), "OK">>,
    <<c.version # r.version, "VERSION_CONFLICT">>,
    <<~Nominated(r, c.by), "DEVICE_NOT_PARTICIPANT">>,
    <<r.request[c.about].state # "PENDING", "CONFLICT">>,
    <<~MayResolve(c), "TRIP_OWNER_REQUIRED">>,
    <<m.state # "ACTIVE" \/ m.phone # r.request[c.about].previous, "CONFLICT">>,
    <<c.about \in r.revoked, "DEVICE_REVOKED">> >>)

(* Slip: the new phone is owed nothing. *)
ReissuedNothing(r, new, old) ==
  [a \in Assets |-> [r.delivery[a] EXCEPT
     ![old] = IF @ = "READY" THEN "EXPIRED" ELSE @]]

(* Receipts of the old phone are no proof for the new one: what was still  *)
(* owed to the old phone expires, and every retained original the member   *)
(* is entitled to is owed to the new phone.                                *)
Reissued(r, new, old) ==
  [a \in Assets |-> [p \in Phones |->
     IF p = new /\ UserOf[new] \in r.covers[a] THEN "READY"
     ELSE IF p = old /\ r.delivery[a][old] = "READY" THEN "EXPIRED"
     ELSE r.delivery[a][p]]]

ReplacePhone(r, c) ==
  LET u == UserOf[c.about]
      old == r.request[c.about].previous IN
  [r EXCEPT
    !.envelope[c.about] = [sender |-> c.by, sealedFor |-> c.about],
    !.member[u].phone = c.about, !.member[u].ready = FALSE,
    !.revoked = @ \cup {old},
    !.delivery = Reissued(r, c.about, old),
    !.request = [Cancelled(r, u) EXCEPT ![c.about] =
       [r.request[c.about] EXCEPT !.state = "APPROVED", !.approver = c.by]]]

Resolve(r, c) ==
  CASE AlreadyResolved(r, c) -> r
    [] ~AlreadyResolved(r, c) /\ c.value -> Bump(ReplacePhone(r, c))
    [] OTHER -> Bump([r EXCEPT !.request[c.about].state = "REJECTED",
                               !.request[c.about].approver = c.by])

-----------------------------------------------------------------------------
(* One request, one transaction: the rows it leaves and the code it        *)
(* answers. A command already recorded changes nothing.                    *)

Replayed(r, c) ==
  [room |-> r,
   code |-> IF c.kind = "JOIN" THEN JoinReplayProblem(r, c)
                               ELSE CallerProblem(r, c)]

Handled(r, problem, next) ==
  [room |-> IF problem = "OK" THEN next ELSE r, code |-> problem]

Run(r, c) ==
  CASE c.kind = "JOIN"        -> Handled(r, JoinProblem(r, c), Join(r, c))
    [] c.kind = "APPROVE"     -> Handled(r, ApproveProblem(r, c), Approve(r, c))
    [] c.kind = "REJECT"      -> Handled(r, RejectProblem(r, c), Reject(r, c))
    [] c.kind = "READINESS"   -> Handled(r, ReadinessProblem(r, c), SetReadiness(r, c))
    [] c.kind = "START"       -> Handled(r, StartProblem(r, c), Start(r, c))
    [] c.kind = "SAVE_INVITE" -> Handled(r, SaveInviteProblem(r, c), SaveInvite(r, c))
    [] c.kind = "REQUEST"     -> Handled(r, RequestProblem(r, c), RequestPhone(r, c))
    [] c.kind = "RESOLVE"     -> Handled(r, ResolveProblem(r, c), Resolve(r, c))

(* Slip: a recorded command runs again. *)
ExecuteAgain(r, c) == Run(r, c)

Execute(r, c) == IF c.id \in r.done THEN Replayed(r, c) ELSE Run(r, c)

-----------------------------------------------------------------------------
(* The phones.                                                             *)

NewClient == [journal |-> None, joining |-> None, waiting |-> None,
              told |-> None, dropped |-> {}, sent |-> 0, lost |-> 0]

RoomInit ==
  /\ room = NewRoom
  /\ client = [p \in Phones |-> NewClient]
  /\ shown = [p \in Phones |-> None]
  /\ keys = {First}
  /\ late = {}
  /\ limit \in Limits

Command(p, kind, about, value) ==
  [id |-> <<p, client[p].sent>>, kind |-> kind, by |-> p, about |-> about,
   value |-> value, saw |-> None,
   version |-> IF kind \in {"SAVE_INVITE", "REQUEST", "RESOLVE"}
               THEN room.version ELSE 0]

(* A phone has one command in flight. Once the trip is closed every new    *)
(* command but Start is refused without effect, so none is sent.           *)
Idle(p) ==
  /\ client[p].waiting = None
  /\ client[p].sent < limit.sent[p]
  /\ Open(room) \/ room.state = "LOBBY"

Send(p, c) ==
  /\ client' = [client EXCEPT ![p].waiting = c, ![p].sent = @ + 1]
  /\ UNCHANGED <<room, shown, keys, late, limit>>

(* JoinTrip.request, after the preview showed the trip: the recovery       *)
(* record is saved, then the request goes.                                 *)
AskToJoin(p) ==
  /\ Idle(p) /\ client[p].joining = None
  /\ p \notin room.revoked /\ InviteLive(room)
  /\ room.member[UserOf[p]].state = "NONE"
  /\ LET c == Command(p, "JOIN", None, None) IN
     /\ client' = [client EXCEPT ![p].waiting = c, ![p].joining = c,
                                 ![p].sent = @ + 1]
     /\ UNCHANGED <<room, shown, keys, late, limit>>

(* The pending poll and a relaunch replay the recorded join.               *)
ReplayJoin(p) ==
  /\ client[p].waiting = None /\ client[p].joining # None
  /\ client' = [client EXCEPT ![p].waiting = client[p].joining]
  /\ UNCHANGED <<room, shown, keys, late, limit>>

(* HydrateTrip and ActivateObservedTrip: read the projection, open the     *)
(* envelope, show it.                                                      *)
Hydrate(p) ==
  /\ Readable(room, p)
  /\ keys' = IF room.envelope[p].sealedFor = p THEN keys \cup {p} ELSE keys
  /\ shown' = [shown EXCEPT ![p] =
       IF UserOf[p] = Host
       THEN [version |-> room.version, state |-> room.state, roster |-> Roster(room)]
       ELSE None]
  /\ <<keys', shown'>> # <<keys, shown>>
  /\ UNCHANGED <<room, client, late, limit>>

(* ApproveMember: a fresh projection, the key wrapped for the phone in it. *)
AskToApprove(p, u) ==
  /\ Idle(p) /\ p \in keys /\ UserOf[p] = Host /\ Readable(room, p)
  /\ Open(room) /\ room.member[u].state = "PENDING"
  /\ Send(p, Command(p, "APPROVE", u, room.member[u].phone))

AskToReject(p, u) ==
  /\ Idle(p) /\ UserOf[p] = Host /\ Readable(room, p)
  /\ Open(room) /\ room.member[u].state = "PENDING"
  /\ Send(p, Command(p, "REJECT", u, None))

(* SetTripReadiness.publish, after reconcile saw a different value.        *)
PublishReadiness(p, value) ==
  /\ Idle(p) /\ client[p].journal = None
  /\ Readable(room, p) /\ Open(room)
  /\ room.member[UserOf[p]].ready # value
  /\ LET c == Command(p, "READINESS", None, value) IN
     /\ client' = [client EXCEPT ![p].waiting = c, ![p].journal = c,
                                 ![p].sent = @ + 1]
     /\ UNCHANGED <<room, shown, keys, late, limit>>

(* StartAndActivateTrip.start on what the screen shows, unless it already  *)
(* shows a blocker.                                                        *)
Startable(view) ==
  /\ view.state = "LOBBY"
  /\ \A u \in Users : view.roster[u] # None =>
       view.roster[u].state = "ACTIVE" /\ view.roster[u].ready

PressStart(p) ==
  /\ Idle(p) /\ client[p].journal = None
  /\ shown[p] # None /\ Startable(shown[p])
  /\ LET c == [Command(p, "START", None, None) EXCEPT
                 !.version = shown[p].version, !.saw = shown[p].roster] IN
     /\ client' = [client EXCEPT ![p].waiting = c, ![p].journal = c,
                                 ![p].sent = @ + 1]
     /\ UNCHANGED <<room, shown, keys, late, limit>>

(* reconcile and every launch replay the retained command unchanged.       *)
ReplayJournal(p) ==
  /\ client[p].waiting = None /\ client[p].journal # None
  /\ client' = [client EXCEPT ![p].waiting = client[p].journal]
  /\ UNCHANGED <<room, shown, keys, late, limit>>

(* ensureOwnerInvite, requestDeviceRecovery and resolveDeviceRecovery read *)
(* the continuity projection and send a change of the version they read.   *)
EnsureInvite(p) ==
  /\ Idle(p) /\ Nominated(room, p) /\ UserOf[p] = Host /\ Open(room)
  /\ p \notin room.revoked
  /\ ~room.saved \/ room.uses >= MaxUses
  /\ Send(p, Command(p, "SAVE_INVITE", None, None))

RequestRecovery(p) ==
  /\ Idle(p) /\ p \notin room.revoked
  /\ UserOf[p] \in Seated(room) /\ ~Nominated(room, p) /\ Open(room)
  /\ room.request[p].state # "PENDING"
  /\ Send(p, Command(p, "REQUEST", None, None))

ResolveRecovery(p, q, value) ==
  /\ Idle(p) /\ p \notin room.revoked
  /\ room.member[UserOf[p]].state = "ACTIVE" /\ Nominated(room, p) /\ Open(room)
  /\ room.request[q].state = "PENDING" /\ q # p
  /\ value => p \in keys
  /\ LET c == Command(p, "RESOLVE", q, value) IN MayResolve(c) /\ Send(p, c)

-----------------------------------------------------------------------------
(* Answers.                                                                *)

(* Answers that end a retained command.  Of the first line no command of a *)
(* phone's own meets any but those of Unseen.                              *)
StartTerminal ==
  {"AUTH_REQUIRED", "AUTH_INVALID", "DEVICE_NOT_OWNED", "IDEMPOTENCY_CONFLICT",
   "INVALID_REQUEST", "RATE_LIMITED",
   "DEVICE_REVOKED", "DEVICE_NOT_PARTICIPANT", "NOT_FOUND", "TRIP_OWNER_REQUIRED",
   "TRIP_STATE_CONFLICT", "VERSION_CONFLICT", "PENDING_JOIN_REQUESTS",
   "KEY_ENVELOPE_MISSING", "PHOTO_LIBRARY_ACCESS_REQUIRED"}
ReadinessTerminal ==
  {"AUTH_REQUIRED", "AUTH_INVALID", "DEVICE_NOT_OWNED", "IDEMPOTENCY_CONFLICT",
   "INVALID_REQUEST", "RATE_LIMITED",
   "DEVICE_REVOKED", "DEVICE_NOT_PARTICIPANT", "NOT_FOUND", "MEMBERSHIP_FROZEN",
   "CONFLICT"}

(* validateAccepted and validateAndProject: the phone takes an answer for  *)
(* its command only if the projection shows the command's own effect.      *)
Accepts(r, c) ==
  IF c.kind = "START" THEN r.state = "ACTIVE" /\ r.version = c.version + 1
                      ELSE r.member[UserOf[c.by]].ready = c.value

Settles(c, out) ==
  \/ out.code = "OK" /\ Accepts(out.room, c)
  \/ out.code \in (IF c.kind = "START" THEN StartTerminal ELSE ReadinessTerminal)

(* What a phone's durable records become when the answer is handled; and   *)
(* what was told it last, with the commands dropped that may run since.    *)
Received(me, c, out) ==
  LET settled == me.journal = c /\ Settles(c, out)
      told == settled /\ c.kind = "READINESS" /\ out.code = "OK"
      decided == /\ me.joining = c /\ out.code = "OK"
                 /\ out.room.member[UserOf[c.by]].state \in {"ACTIVE", "REJECTED"}
  IN [me EXCEPT
        !.waiting = None,
        !.journal = IF settled THEN None ELSE @,
        !.joining = IF decided THEN None ELSE @,
        !.told = IF told THEN c.value ELSE @,
        !.dropped = IF told THEN {d \in @ : d.id \notin out.room.done} ELSE @]

Answered(p) ==
  /\ client[p].waiting # None
  /\ LET c == client[p].waiting
         out == Execute(room, c) IN
     /\ room' = out.room
     /\ client' = [client EXCEPT ![p] = Received(@, c, out)]
  /\ UNCHANGED <<shown, keys, late, limit>>

(* The server refuses the request without looking at the command: the      *)
(* bearer token, fresh or not, does not verify, or there are too many      *)
(* requests.  An earlier copy of the command may have run, or still run.   *)
Unseen == {"AUTH_REQUIRED", "AUTH_INVALID", "RATE_LIMITED"}

Refused(me, code) ==
  LET c == me.waiting IN
  [Received(me, c, [room |-> room, code |-> code]) EXCEPT
     !.lost = @ + 1,
     !.dropped = IF c.kind = "READINESS" THEN @ \cup {c} ELSE @]

TurnedAway(p) ==
  /\ client[p].waiting # None /\ client[p].lost < limit.lost[p]
  /\ \E code \in Unseen : client' = [client EXCEPT ![p] = Refused(@, code)]
  /\ UNCHANGED <<room, shown, keys, late, limit>>

(* The command runs and its answer is lost, or the app dies before it.     *)
AnswerLost(p) ==
  /\ client[p].waiting # None /\ client[p].lost < limit.lost[p]
  /\ room' = Execute(room, client[p].waiting).room
  /\ client' = [client EXCEPT ![p].waiting = None, ![p].lost = @ + 1]
  /\ UNCHANGED <<shown, keys, late, limit>>

(* The phone gives up first; the request may arrive later, or never.       *)
GivenUp(p) ==
  /\ client[p].waiting # None /\ client[p].lost < limit.lost[p]
  /\ late' = late \cup {client[p].waiting}
  /\ client' = [client EXCEPT ![p].waiting = None, ![p].lost = @ + 1]
  /\ UNCHANGED <<room, shown, keys, limit>>

ArrivesLate(c) ==
  /\ late' = late \ {c}
  /\ room' = Execute(room, c).room
  /\ UNCHANGED <<client, shown, keys, limit>>

-----------------------------------------------------------------------------
(* What the rest of the system does to these rows.                         *)

(* commitUpload fans a photo out to the members of the moment.             *)
ShareAsset(a) ==
  /\ room.state = "ACTIVE" /\ room.covers[a] = {}
  /\ \E source \in Members(room) :
       room' = [room EXCEPT
         !.covers[a] = Members(room),
         !.delivery[a] = [p \in Phones |->
            IF Nominated(room, p) /\ UserOf[p] \in Members(room) \ {source}
            THEN "READY" ELSE "NONE"]]
  /\ UNCHANGED <<client, shown, keys, late, limit>>

(* acknowledgeDelivery by the phone the delivery is for.                   *)
SaveAsset(a, p) ==
  /\ room.delivery[a][p] = "READY" /\ p \notin room.revoked /\ p \in keys
  /\ room' = [room EXCEPT !.delivery[a][p] = "SAVED"]
  /\ UNCHANGED <<client, shown, keys, late, limit>>

(* The lifecycle's departure: the seat is free, what was owed to the phone *)
(* expires, and the last to go closes the trip.                            *)
Departed(r, u) ==
  Bump([r EXCEPT
    !.member[u].state = "LEFT",
    !.state = IF Seated(r) = {u} THEN "OVER" ELSE @,
    !.delivery = [a \in Assets |-> [p \in Phones |->
      IF p = r.member[u].phone /\ @[a][p] = "READY" THEN "EXPIRED" ELSE @[a][p]]]])

Depart(u) ==
  /\ u \in Seated(room)
  /\ room' = Departed(room, u)
  /\ UNCHANGED <<client, shown, keys, late, limit>>

(* endTrip by the host, of a started trip, and the end time passing.       *)
EndTrip ==
  /\ room.state = "ACTIVE" /\ Host \in Members(room)
  /\ room' = Bump([room EXCEPT !.state = "ENDING"])
  /\ UNCHANGED <<client, shown, keys, late, limit>>

EndTimePasses ==
  /\ ~room.past
  /\ room' = [room EXCEPT !.past = TRUE]
  /\ UNCHANGED <<client, shown, keys, late, limit>>

-----------------------------------------------------------------------------
RoomNext ==
  \/ \E p \in Phones :
       \/ AskToJoin(p) \/ ReplayJoin(p) \/ Hydrate(p)
       \/ PressStart(p) \/ ReplayJournal(p)
       \/ EnsureInvite(p) \/ RequestRecovery(p)
       \/ Answered(p) \/ TurnedAway(p) \/ AnswerLost(p) \/ GivenUp(p)
       \/ \E u \in Users : AskToApprove(p, u) \/ AskToReject(p, u)
       \/ \E value \in BOOLEAN : PublishReadiness(p, value)
       \/ \E q \in Phones, value \in BOOLEAN : ResolveRecovery(p, q, value)
       \/ \E a \in limit.assets : SaveAsset(a, p)
  \/ \E c \in late : ArrivesLate(c)
  \/ \E a \in limit.assets : ShareAsset(a)
  \/ \E u \in limit.leavers : Depart(u)
  \/ EndTrip \/ EndTimePasses

RoomSpec == RoomInit /\ [][RoomNext]_roomVars
-----------------------------------------------------------------------------
(* Properties.                                                             *)

Memberships == [state : {"NONE", "PENDING", "ACTIVE", "REJECTED", "LEFT"},
                phone : Phones \cup {None}, ready : BOOLEAN]
Requests == [state : {"NONE", "PENDING", "APPROVED", "REJECTED", "CANCELLED"},
             previous : Phones \cup {None}, approver : Phones \cup {None}]
Envelopes == [sender : Phones, sealedFor : Phones]

(* The rows and the phones' records keep their shape.                      *)
RoomTypeOK ==
  /\ room.state \in {"LOBBY", "ACTIVE", "ENDING", "OVER"} /\ room.past \in BOOLEAN
  /\ room.version \in Nat \ {0} /\ room.uses \in Nat /\ room.saved \in BOOLEAN
  /\ room.member \in [Users -> Memberships]
  /\ room.envelope \in [Phones -> Envelopes \cup {None}]
  /\ room.request \in [Phones -> Requests]
  /\ room.revoked \subseteq Phones
  /\ room.covers \in [Assets -> SUBSET Users]
  /\ room.delivery \in
       [Assets -> [Phones -> {"NONE", "READY", "SAVED", "EXPIRED"}]]
  /\ keys \subseteq Phones /\ limit \in Limits
  /\ \A p \in Phones : client[p].sent \in 0..limit.sent[p] /\ client[p].lost \in 0..limit.lost[p]

(* A trip starts with exactly the crew, phones and readiness the host's    *)
(* screen showed when Start was pressed, however late the command arrives: *)
(* every change of any of them must have moved the version.                *)
StartedAsSeen ==
  [][room.state = "LOBBY" /\ room'.state = "ACTIVE" =>
       \E c \in late \cup {client[p].waiting : p \in Phones} :
         /\ c # None /\ c.kind = "START" /\ c.saw = Roster(room)
         /\ Roster(room') = Roster(room)]_roomVars

(* Exactly the approved members have an envelope on the phone they use; a  *)
(* pending, refused or replaced-before-approval phone never has one.       *)
EnvelopesFollowApproval ==
  \A p \in Phones :
    LET m == room.member[UserOf[p]] IN
    m.phone = p => /\ m.state = "ACTIVE" => room.envelope[p] # None
                   /\ m.state \in {"PENDING", "REJECTED"} => room.envelope[p] = None

(* A phone whose readiness command was accepted and that retains none      *)
(* agrees with the server, whatever older copy of a command arrives late.  *)
(* Only a command it dropped when the server refused a replay unseen, and  *)
(* that ran since the last acceptance, can make them differ.               *)
ReadinessAgrees ==
  \A p \in Phones :
    LET me == client[p]  m == room.member[UserOf[p]] IN
    /\ me.told # None /\ me.journal = None
    /\ m.state = "ACTIVE" /\ m.phone = p
    => \/ m.ready = me.told
       \/ \E c \in me.dropped : c.id \in room.done /\ c.value = m.ready

(* Replacing a phone loses no photo: every shared original a member is     *)
(* entitled to is owed to, or saved on, the phone in use. The uploader's   *)
(* own first phone needs none, so it is only asked of replacements.        *)
ReplacementIsOwedEverything ==
  \A a \in Assets, p \in Phones :
    /\ UserOf[p] \in room.covers[a] \cap Members(room) /\ Nominated(room, p)
    /\ \E old \in room.revoked : room.delivery[a][old] # "NONE"
                                /\ UserOf[old] = UserOf[p]
    => room.delivery[a][p] \in {"READY", "SAVED"}

=============================================================================
