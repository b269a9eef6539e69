---------------------------- MODULE TripCreation ----------------------------
(***************************************************************************)
(* Creating a trip from one phone: the create request and its one retry,   *)
(* the provisional trip key, the recovery record that outlives the app,    *)
(* the launch that asks the server what became of an unanswered create,    *)
(* and the server's idempotency record that answers it.                    *)
(*                                                                         *)
(* A request is lost or late, an answer is lost, the app is killed between *)
(* any two awaits, a launch that was overtaken by another carries on, and  *)
(* time passes: keys, idempotency records and trips run out.               *)
(***************************************************************************)
EXTENDS Naturals, FiniteSets

CONSTANTS
  Trips,          \* trip ids in the order the phone draws them (UUIDv7); each
                  \* comes with its command id
  KeyLife,        \* a provisional key's life (24 hours in the code)
  MaxWindow,      \* the longest trip (14 days)
  Grace,          \* from a trip's end to its hard deletion (7 days)
  TombstoneLife,  \* a refusal's life (21 days)
  Limits,         \* bounds, one chosen per behaviour: the creates pressed, the
                  \* faults (losses, native errors, kills) and the clock
  None

(* The last conjunct is the relation of TERMINAL_LIFETIME_MS to            *)
(* TRIP_CREATE_MAX_DURATION_MS.                                            *)
ASSUME CreationAssumption ==
  /\ KeyLife \in Nat /\ MaxWindow \in Nat /\ Grace \in Nat
  /\ TombstoneLife \in Nat
  /\ Limits \subseteq [presses : SUBSET Trips, faults : Nat, time : Nat]
  /\ Trips \subseteq Nat /\ None \notin Trips
  /\ MaxWindow <= TombstoneLife

VARIABLES
  now,
  ends,      \* the end written in each trip's create request; 0 before it
  trip,      \* the server's trips: NONE, LOBBY, STARTED (its owner takes part
             \* in either), OVER
  starts,    \* trips whose START the phone has sent and may yet be carried out
  command,   \* the idempotency record of each create command
  wire,      \* copies of create requests on their way
  serving,   \* create transactions that have begun
  asks,      \* outcome requests their phone gave up on, still on their way
  refused,   \* history: trips whose outcome was answered TERMINAL_NOT_COMMITTED
  key,       \* the phone's trip keys: NONE, PROVISIONAL, INSTALLED
  expiry,    \* when each provisional key runs out
  record,    \* the recovery record in secure storage
  jobs,      \* the app's asynchronous workflows
  phase,     \* the screen: DOWN, LAUNCHING, NO_TRIP, FAILED, UNKNOWN, FAILURE,
             \* TRIP, ACTIVATION_FAILED (the trip, and that its key or session
             \* could not be set up)
  shown,     \* the trip on the screen
  faults,
  limit

serverVars == <<trip, starts, command, serving, refused>>
phoneVars == <<key, expiry, record, jobs, phase, shown>>
creationVars == <<now, ends, wire, asks, faults, limit, serverVars, phoneVars>>

NoRecord == [state |-> "NONE", trip |-> None]
NoCommand == [kind |-> "NONE", expires |-> 0]

CreationInit ==
  /\ now = 0
  /\ ends = [t \in Trips |-> 0]
  /\ trip = [t \in Trips |-> "NONE"]
  /\ starts = {}
  /\ command = [t \in Trips |-> NoCommand]
  /\ wire = {} /\ serving = {} /\ asks = {} /\ refused = {}
  /\ key = [t \in Trips |-> "NONE"]
  /\ expiry = [t \in Trips |-> 0]
  /\ record = NoRecord
  /\ jobs = {}
  /\ phase = "NO_TRIP"
  /\ shown = None
  /\ faults = 0
  /\ limit \in Limits

-----------------------------------------------------------------------------
(* The server: createTrip and resolveCreateTripOutcome.                    *)

(* Slip: the record of a command is believed for ever. *)
LiveForEver(t, at) == command[t].kind # "NONE"
Live(t, at) == command[t].kind # "NONE" /\ command[t].expires > at
(* Slip: a refusal outlives the client's request timeout, not the longest trip. *)
RefusalForADay == [kind |-> "REFUSED", expires |-> now + KeyLife]
Refusal == [kind |-> "REFUSED", expires |-> now + TombstoneLife]
HardDeleteAt(t) == ends[t] + Grace
InWindow(t, at) == ends[t] > at /\ ends[t] <= at + MaxWindow
Open(t) == trip[t] \in {"LOBBY", "STARTED"}
SlotTaken == \E u \in Trips : Open(u)
(* Slip: create transactions do not take the command's lock. *)
NeverLocked(t) == FALSE
Locked(t) == \E s \in serving : s.trip = t

(* What a create transaction that began at `at` does with a request.       *)
Creates(t, at) ==
  /\ ~Live(t, at) /\ InWindow(t, at)
  /\ ~SlotTaken /\ trip[t] = "NONE"
(* An expired record is deleted before the later checks refuse.            *)
Forgets(t, at) == ~Live(t, at) /\ InWindow(t, at)
(* A replay reads the projection, which only a participant may.            *)
Replays(t, at) ==
  Live(t, at) /\ command[t].kind = "CREATED" /\ Open(t)

(* The transaction holds the command's lock and has read its time; another *)
(* copy of the request waits for the lock.                                 *)
CreateBegins(r) ==
  /\ r \in wire /\ ~Locked(r.trip)
  /\ wire' = wire \ {r}
  /\ serving' = serving \cup {[trip |-> r.trip, copy |-> r.copy, began |-> now]}
  /\ UNCHANGED <<limit, now, ends, trip, starts, command, asks, refused,
                 phoneVars, faults>>

(* The jobs still waiting for this copy's answer.                          *)
Waiting(s) == {j \in jobs : /\ j.trip = s.trip
                            /\ j.pc = IF s.copy = 1 THEN "FIRST" ELSE "SECOND"}

(* The workflow ends with an error. A create's own screen, if it is still  *)
(* open, offers to check the trip's status; a launch shows its failure.    *)
Rejected(gone, left) ==
  /\ jobs' = left \cup {[j EXCEPT !.pc = "UNSURE"] : j \in {i \in gone : i.open}}
  /\ phase' = IF \E j \in gone : j.current /\ j.kind # "CREATE"
              THEN "FAILURE" ELSE phase
  /\ UNCHANGED shown

CreateCommits(s) ==
  LET t == s.trip
      answered == Waiting(s)
  IN
  /\ s \in serving
  /\ serving' = serving \ {s}
  /\ IF Creates(t, s.began)
     THEN /\ trip' = [trip EXCEPT ![t] = "LOBBY"]
          /\ command' = [command EXCEPT ![t] =
                           [kind |-> "CREATED", expires |-> HardDeleteAt(t)]]
     ELSE /\ command' = IF Forgets(t, s.began)
                        THEN [command EXCEPT ![t] = NoCommand] ELSE command
          /\ UNCHANGED trip
  /\ IF Creates(t, s.began) \/ Replays(t, s.began)
     THEN /\ jobs' = (jobs \ answered) \cup {[j EXCEPT !.pc = "CONFIRM"] : j \in answered}
          /\ UNCHANGED <<phase, shown>>
     ELSE Rejected(answered, jobs \ answered)
  /\ UNCHANGED <<limit, now, ends, starts, wire, asks, refused, key, expiry,
                 record, faults>>

(* The transaction fails: nothing is written, the answer is an error.      *)
CreateAborts(s) ==
  /\ s \in serving /\ faults < limit.faults
  /\ faults' = faults + 1
  /\ serving' = serving \ {s}
  /\ Rejected(Waiting(s), jobs \ Waiting(s))
  /\ UNCHANGED <<limit, now, ends, trip, starts, command, wire, asks, refused,
                 key, expiry, record>>

(* The outcome request: what it answers and what it writes.                *)
Answer(t) ==
  IF Locked(t) THEN "STILL_UNKNOWN"
  ELSE IF Live(t, now) /\ command[t].kind = "CREATED"
       THEN IF Open(t) THEN "COMMITTED" ELSE "PROBLEM"
       ELSE "TERMINAL_NOT_COMMITTED"

Resolve(t) ==
  IF Answer(t) = "TERMINAL_NOT_COMMITTED"
  THEN /\ command' = IF Live(t, now) THEN command
                     ELSE [command EXCEPT ![t] = Refusal]
       /\ refused' = refused \cup {t}
  ELSE UNCHANGED <<command, refused>>

LateResolve(t) ==
  /\ t \in asks
  /\ asks' = asks \ {t}
  /\ Resolve(t)
  /\ UNCHANGED <<limit, now, ends, trip, starts, wire, serving, phoneVars, faults>>

(* startTrip carries out the START the host's phone sent (TripRoom has its *)
(* journal, its replays and its refusals).                                 *)
StartTrip(t) ==
  /\ t \in starts /\ trip[t] = "LOBBY"
  /\ starts' = starts \ {t}
  /\ trip' = [trip EXCEPT ![t] = "STARTED"]
  /\ UNCHANGED <<limit, now, ends, command, wire, serving, asks, refused,
                 phoneVars, faults>>

(* The owner leaves or ends the trip, or its end settles it.               *)
TripEnds(t) ==
  /\ Open(t)
  /\ shown = t \/ now >= ends[t]
  /\ trip' = [trip EXCEPT ![t] = "OVER"]
  /\ UNCHANGED <<limit, now, ends, starts, command, wire, serving, asks, refused,
                 phoneVars, faults>>

-----------------------------------------------------------------------------
(* The phone's key store: every command first collects what has expired.   *)

Expired(t) == key[t] = "PROVISIONAL" /\ expiry[t] <= now
(* Slip: keys are collected by age, whatever their state. *)
CollectedByAge == [t \in Trips |-> IF expiry[t] <= now THEN "NONE" ELSE key[t]]
Collected == [t \in Trips |-> IF Expired(t) THEN "NONE" ELSE key[t]]
Imported(t) == [Collected EXCEPT ![t] = "INSTALLED"]

CollectExpired ==
  /\ Collected # key
  /\ key' = Collected
  /\ UNCHANGED <<limit, now, ends, wire, asks, faults, serverVars,
                 expiry, record, jobs, phase, shown>>

-----------------------------------------------------------------------------
(* The workflows.                                                          *)

Job(kind, pc, t) ==
  [kind |-> kind, pc |-> pc, trip |-> t,
   current |-> TRUE,               \* its run of the app session is the latest
   live |-> TRUE,                  \* its native fence has not been invalidated
   open |-> kind = "CREATE"]       \* its create screen has not been dismissed

Dismissed(js) == {[j EXCEPT !.open = FALSE] : j \in {i \in js : i.pc # "UNSURE"}}
Overtaken(js) == {[j EXCEPT !.current = FALSE] : j \in Dismissed(js)}
Fenced(js) == {[j EXCEPT !.live = FALSE] : j \in js}
Moved(j, pc) == (jobs \ {j}) \cup {[j EXCEPT !.pc = pc]}
Publish(j, where, t) ==
  IF j.current THEN phase' = where /\ shown' = t ELSE UNCHANGED <<phase, shown>>

(* A native command is refused behind an invalidated fence, or fails.      *)
NativeFault(j) ==
  \/ ~j.live /\ UNCHANGED faults
  \/ faults < limit.faults /\ faults' = faults + 1

(* The longest trip the create form's end field accepts.                   *)
Offered(e) == e <= now + MaxWindow

(* The user confirms the create form.                                      *)
Press(t, e) ==
  /\ phase \in {"NO_TRIP", "FAILED"} /\ ends[t] = 0
  /\ t \in limit.presses
  /\ \A u \in Trips : u < t => ends[u] # 0
  /\ e > now /\ Offered(e) /\ e + Grace <= limit.time
  /\ ends' = [ends EXCEPT ![t] = e]
  /\ record' = [state |-> "UNKNOWN_CREATE", trip |-> t]
  /\ jobs' = Dismissed(jobs) \cup {Job("CREATE", "KEY", t)}
  /\ phase' = "NO_TRIP"
  /\ UNCHANGED <<limit, now, wire, asks, faults, serverVars, key, expiry, shown>>

MakeKey(j) ==
  /\ j.pc = "KEY" /\ j.live
  /\ key' = [Collected EXCEPT ![j.trip] = "PROVISIONAL"]
  /\ expiry' = [expiry EXCEPT ![j.trip] = now + KeyLife]
  /\ jobs' = Moved(j, "WRAP")
  /\ UNCHANGED <<limit, now, ends, wire, asks, faults, serverVars, record, phase, shown>>

(* The key is wrapped for this phone and the request leaves.               *)
Wrap(j) ==
  /\ j.pc = "WRAP" /\ j.live /\ Collected[j.trip] # "NONE"
  /\ key' = Collected
  /\ wire' = wire \cup {[trip |-> j.trip, copy |-> 1]}
  /\ jobs' = Moved(j, "FIRST")
  /\ UNCHANGED <<limit, now, ends, asks, faults, serverVars, expiry, record, phase, shown>>

(* A native failure before the request leaves cleans the attempt up.       *)
NativeFails(j) ==
  /\ j.pc \in {"KEY", "WRAP"}
  /\ \/ NativeFault(j)
     \/ j.pc = "WRAP" /\ Collected[j.trip] = "NONE" /\ UNCHANGED faults
  /\ key' = IF j.live THEN Collected ELSE key
  /\ jobs' = Moved(j, "DISCARD")
  /\ UNCHANGED <<limit, now, ends, wire, asks, serverVars, expiry, record, phase, shown>>

(* Slip: an attempt that gives up cleans up after itself. *)
CreateTimesOutAndCleans(j) ==
  /\ faults < limit.faults /\ faults' = faults + 1
  /\ j.pc \in {"FIRST", "SECOND"}
  /\ wire' = IF j.pc = "FIRST" THEN wire \cup {[trip |-> j.trip, copy |-> 2]} ELSE wire
  /\ jobs' = Moved(j, IF j.pc = "FIRST" THEN "SECOND" ELSE "DISCARD")
  /\ UNCHANGED <<limit, now, ends, asks, serverVars, key, expiry, record, phase, shown>>
(* One retry of the same request after a transport failure, then none.     *)
CreateTimesOut(j) ==
  /\ faults < limit.faults /\ faults' = faults + 1
  /\ \/ /\ j.pc = "FIRST"
        /\ wire' = wire \cup {[trip |-> j.trip, copy |-> 2]}
        /\ jobs' = Moved(j, "SECOND")
        /\ UNCHANGED <<phase, shown>>
     \/ /\ j.pc = "SECOND"
        /\ Rejected({j}, jobs \ {j})
        /\ UNCHANGED wire
  /\ UNCHANGED <<limit, now, ends, asks, serverVars, key, expiry, record>>

(* cleanLocalAttempt: the provisional key, then the recovery record.       *)
Discard(j) ==
  /\ j.pc = "DISCARD"
  /\ IF j.live /\ Collected[j.trip] # "INSTALLED"
     THEN /\ key' = [Collected EXCEPT ![j.trip] = "NONE"]
          /\ jobs' = Moved(j, "CLEAR")
          /\ UNCHANGED <<phase, shown>>
     ELSE /\ key' = IF j.live THEN Collected ELSE key
          /\ Rejected({j}, jobs \ {j})
  /\ UNCHANGED <<limit, now, ends, wire, asks, faults, serverVars, expiry, record>>

Clear(j) ==
  /\ j.pc = "CLEAR"
  /\ record' = NoRecord
  /\ IF j.kind = "CREATE" THEN Rejected({j}, jobs \ {j})
     ELSE jobs' = jobs \ {j} /\ Publish(j, "FAILED", None)
  /\ UNCHANGED <<limit, now, ends, wire, asks, faults, serverVars, key, expiry>>

(* finishCommitted: the recovery record, then the key from the envelope.   *)
Confirm(j) ==
  /\ j.pc = "CONFIRM"
  /\ record' = [state |-> "CONFIRMED", trip |-> j.trip]
  /\ jobs' = Moved(j, "IMPORT")
  /\ UNCHANGED <<limit, now, ends, wire, asks, faults, serverVars, key, expiry, phase, shown>>

(* When the import fails the create is confirmed, but nothing is shown.    *)
Import(j) ==
  /\ j.pc = "IMPORT"
  /\ \/ /\ j.live
        /\ key' = Imported(j.trip)
        /\ jobs' = jobs \ {j}
        /\ Publish(j, "TRIP", j.trip)
        /\ UNCHANGED faults
     \/ /\ NativeFault(j)
        /\ key' = IF j.live THEN Collected ELSE key
        /\ Rejected({j}, jobs \ {j})
  /\ UNCHANGED <<limit, now, ends, wire, asks, serverVars, expiry, record>>

-----------------------------------------------------------------------------
(* Launches: cold starts, retries and checks of an unknown outcome.        *)

Launched(saved, js) ==
  LET unknown == saved.state = "UNKNOWN_CREATE" IN
  /\ jobs' = Overtaken(js) \cup
       {IF unknown THEN Job("RESOLVE", "ASK", saved.trip) ELSE Job("LIST", "LIST", None)}
  /\ phase' = IF unknown THEN "UNKNOWN" ELSE "LAUNCHING"
  /\ shown' = None

Launch ==
  /\ phase \in {"DOWN", "UNKNOWN", "FAILURE"} \/ \E j \in jobs : j.pc = "UNSURE"
  /\ ~\E j \in jobs : ~j.current /\ j.kind # "CREATE"
  /\ Launched(record, jobs)
  /\ UNCHANGED <<limit, now, ends, wire, asks, faults, serverVars, key, expiry, record>>

(* reconcileUnknownCreate receives the server's answer.                    *)
Ask(j) ==
  /\ j.pc = "ASK"
  /\ Resolve(j.trip)
  /\ LET answer == Answer(j.trip) IN
     \/ /\ answer = "STILL_UNKNOWN"
        /\ jobs' = jobs \ {j} /\ Publish(j, "UNKNOWN", None)
     \/ /\ answer = "PROBLEM"
        /\ Rejected({j}, jobs \ {j})
     \/ /\ answer = "TERMINAL_NOT_COMMITTED"
        /\ jobs' = Moved(j, "DISCARD") /\ UNCHANGED <<phase, shown>>
     \/ /\ answer = "COMMITTED"
        /\ jobs' = Moved(j, "CONFIRM") /\ UNCHANGED <<phase, shown>>
  /\ UNCHANGED <<limit, now, ends, trip, starts, wire, serving, asks, key, expiry, record,
                 faults>>

AskTimesOut(j) ==
  /\ j.pc = "ASK" /\ faults < limit.faults
  /\ faults' = faults + 1
  /\ asks' = asks \cup {j.trip}
  /\ Rejected({j}, jobs \ {j})
  /\ UNCHANGED <<limit, now, ends, wire, serverVars, key, expiry, record>>

(* The launch lists the account's trips. One it no longer takes part in is *)
(* retired, which fences every earlier workflow; the current one is shown. *)
List(j) ==
  LET retired == record.state = "CONFIRMED" /\ ~Open(record.trip)
      others == IF retired THEN Fenced(jobs \ {j}) ELSE jobs \ {j}
  IN
  /\ j.pc = "LIST"
  /\ record' = IF retired THEN NoRecord ELSE record
  /\ \/ /\ ~SlotTaken
        /\ jobs' = others /\ Publish(j, "NO_TRIP", None)
     \/ \E t \in Trips :
          /\ Open(t)
          /\ jobs' = others \cup {[j EXCEPT !.pc = "HYDRATE", !.trip = t]}
          /\ UNCHANGED <<phase, shown>>
  /\ UNCHANGED <<limit, now, ends, wire, asks, faults, serverVars, key, expiry>>

(* The projection is read and its envelope imported. A started trip is     *)
(* shown even when that fails.                                             *)
Hydrate(j) ==
  /\ j.pc = "HYDRATE"
  /\ \/ /\ j.live /\ Open(j.trip)
        /\ key' = Imported(j.trip)
        /\ jobs' = jobs \ {j}
        /\ Publish(j, "TRIP", j.trip)
        /\ UNCHANGED faults
     \/ /\ trip[j.trip] = "STARTED" /\ NativeFault(j)
        /\ key' \in IF j.live THEN {Collected, Imported(j.trip)} ELSE {key}
        /\ jobs' = jobs \ {j}
        /\ Publish(j, "ACTIVATION_FAILED", j.trip)
     \/ /\ trip[j.trip] = "LOBBY" /\ NativeFault(j)
        /\ key' = IF j.live THEN Collected ELSE key
        /\ Rejected({j}, jobs \ {j})
     \/ /\ ~Open(j.trip)
        /\ Rejected({j}, jobs \ {j})
        /\ UNCHANGED <<key, faults>>
  /\ UNCHANGED <<limit, now, ends, wire, asks, serverVars, expiry, record>>

-----------------------------------------------------------------------------
(* The trip on the screen.                                                 *)

OnScreen == phase \in {"TRIP", "ACTIVATION_FAILED"}

(* The host presses Start.                                                 *)
PressStart ==
  /\ phase = "TRIP" /\ trip[shown] = "LOBBY" /\ shown \notin starts
  /\ starts' = starts \cup {shown}
  /\ UNCHANGED <<limit, now, ends, wire, asks, faults, trip, command, serving, refused,
                 phoneVars>>

(* loadTripProjection polls the shown trip, retryActivation and the answer *)
(* to Start do the same: hydrate it again. It is one step, because what    *)
(* takes the trip off the screen overtakes it and its key is not taken     *)
(* away. A lobby whose import fails leaves the screen as it was.           *)
Poll ==
  /\ OnScreen /\ Open(shown)
  /\ \/ key' = Imported(shown) /\ phase' = "TRIP" /\ UNCHANGED faults
     \/ /\ trip[shown] = "STARTED"
        /\ faults < limit.faults /\ faults' = faults + 1
        /\ key' \in {Collected, Imported(shown)} /\ phase' = "ACTIVATION_FAILED"
  /\ UNCHANGED <<limit, now, ends, wire, asks, serverVars, expiry, record, jobs, shown>>

(* The answer to another command (readiness, approval, refusal) publishes  *)
(* the projection as READY without a look at the key.                      *)
Republish ==
  /\ phase = "ACTIVATION_FAILED" /\ Open(shown)
  /\ phase' = "TRIP"
  /\ UNCHANGED <<limit, now, ends, wire, asks, faults, serverVars, key, expiry, record,
                 jobs, shown>>

(* The shown trip's refresh finds it left: retire it and launch again.     *)
Refresh ==
  /\ OnScreen /\ ~Open(shown)
  /\ LET left == IF record = [state |-> "CONFIRMED", trip |-> shown]
                 THEN NoRecord ELSE record
     IN record' = left /\ Launched(left, Fenced(jobs))
  /\ UNCHANGED <<limit, now, ends, wire, asks, faults, serverVars, key, expiry>>

(* The app dies; what it had sent stays on its way.                        *)
Kill ==
  /\ phase # "DOWN" /\ faults < limit.faults
  /\ faults' = faults + 1
  /\ jobs' = {} /\ phase' = "DOWN" /\ shown' = None
  /\ asks' = asks \cup {j.trip : j \in {i \in jobs : i.pc = "ASK"}}
  /\ UNCHANGED <<limit, now, ends, wire, serverVars, key, expiry, record>>

Tick ==
  /\ now < limit.time
  /\ now' = now + 1
  /\ UNCHANGED <<limit, ends, wire, asks, faults, serverVars, phoneVars>>

-----------------------------------------------------------------------------
ServerStep ==
  \/ \E r \in wire : CreateBegins(r)
  \/ \E s \in serving : CreateCommits(s)

JobStep(j) ==
  MakeKey(j) \/ Wrap(j) \/ NativeFails(j) \/ Discard(j) \/ Clear(j)
  \/ Confirm(j) \/ Import(j) \/ Ask(j) \/ List(j) \/ Hydrate(j)

CreationNext ==
  \/ ServerStep
  \/ \E s \in serving : CreateAborts(s)
  \/ \E j \in jobs : JobStep(j) \/ CreateTimesOut(j) \/ AskTimesOut(j)
  \/ \E t \in Trips : \/ LateResolve(t) \/ StartTrip(t) \/ TripEnds(t)
                      \/ \E e \in 1..limit.time : Press(t, e)
  \/ PressStart \/ Poll \/ Republish
  \/ Launch \/ Refresh \/ CollectExpired \/ Kill \/ Tick

CreationSpec == CreationInit /\ [][CreationNext]_creationVars

(* Requests arrive, awaits return, an app that is closed or shows an       *)
(* unfinished create is opened or checked again, the shown trip is polled  *)
(* every five seconds, and time passes.                                    *)
CreationFairness ==
  /\ WF_creationVars(ServerStep)
  /\ WF_creationVars(\E j \in jobs : JobStep(j))
  /\ WF_creationVars(Launch)
  /\ WF_creationVars(Refresh)
  /\ WF_creationVars(Tick)
FairCreation == CreationSpec /\ CreationFairness

-----------------------------------------------------------------------------
CreationTypeOK ==
  /\ limit \in Limits /\ now \in 0..limit.time /\ faults \in 0..limit.faults
  /\ ends \in [Trips -> 0..limit.time]
  /\ trip \in [Trips -> {"NONE", "LOBBY", "STARTED", "OVER"}]
  /\ command \in [Trips -> [kind : {"NONE", "CREATED", "REFUSED"}, expires : Nat]]
  /\ wire \subseteq [trip : Trips, copy : 1..2]
  /\ serving \subseteq [trip : Trips, copy : 1..2, began : 0..limit.time]
  /\ \A r, s \in serving : r.trip = s.trip => r = s
  /\ starts \subseteq Trips /\ asks \subseteq Trips /\ refused \subseteq Trips
  /\ key \in [Trips -> {"NONE", "PROVISIONAL", "INSTALLED"}]
  /\ expiry \in [Trips -> Nat]
  /\ record \in [state : {"NONE", "UNKNOWN_CREATE", "CONFIRMED"}, trip : Trips \cup {None}]
  /\ jobs \subseteq
       [kind : {"CREATE", "RESOLVE", "LIST"},
        pc : {"KEY", "WRAP", "FIRST", "SECOND", "DISCARD", "CLEAR", "CONFIRM",
              "IMPORT", "ASK", "LIST", "HYDRATE", "UNSURE"},
        trip : Trips \cup {None}, current : BOOLEAN, live : BOOLEAN, open : BOOLEAN]
  /\ phase \in {"DOWN", "LAUNCHING", "NO_TRIP", "FAILED", "UNKNOWN", "FAILURE",
                "TRIP", "ACTIVATION_FAILED"}
  /\ shown \in Trips \cup {None}

(* Every create the phone cannot account for has one outcome: once the     *)
(* resolver has answered TERMINAL_NOT_COMMITTED no copy of the request     *)
(* creates the trip, though the refusal it left behind expires.            *)
outcome == [t \in Trips |-> IF trip[t] # "NONE" THEN "CREATED"
                            ELSE IF t \in refused THEN "REFUSED" ELSE "OPEN"]
Outcome == INSTANCE CreateOutcome
OneOutcome == Outcome!Spec

(* The phone erases a trip key before its 24 hours are over only when no   *)
(* request can still create that trip: it was refused, or none has left.   *)
DiscardOnlyWhenDecided ==
  [][\A t \in Trips :
       key[t] = "PROVISIONAL" /\ key'[t] = "NONE" /\ ~Expired(t) =>
         \/ t \in refused
         \/ trip[t] = "NONE" /\ \A r \in wire \cup serving : r.trip # t]_creationVars

(* A trip this phone created is never on its screen without its key:       *)
(* whichever workflow published it, after whatever crash, expiry or failed *)
(* import. A failed import does publish a started trip (activateObserved,  *)
(* publishObserved), but this one started from a screen that had its key.  *)
ShownTripHasKey == OnScreen => key[shown] = "INSTALLED"

(* No create stays unknown for ever: the record is confirmed, cleaned up   *)
(* or replaced, also when the trip was created, never shown, and ended.    *)
UnknownSettles ==
  \A t \in Trips :
    record = [state |-> "UNKNOWN_CREATE", trip |-> t]
      ~> record # [state |-> "UNKNOWN_CREATE", trip |-> t]
=============================================================================
