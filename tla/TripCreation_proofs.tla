------------------------ MODULE TripCreation_proofs ------------------------
(* Proofs about TripCreation, for any trips, clock and bounds: one outcome *)
(* for every create, no key erased while its trip may yet be created, no   *)
(* trip shown without its key.                                             *)
EXTENDS TripCreation, TLAPS

Pcs == {"KEY", "WRAP", "FIRST", "SECOND", "DISCARD", "CLEAR", "CONFIRM",
        "IMPORT", "ASK", "LIST", "HYDRATE", "UNSURE"}
JobRec == [kind : {"CREATE", "RESOLVE", "LIST"}, pc : Pcs,
           trip : Trips \cup {None}, current : BOOLEAN, live : BOOLEAN, open : BOOLEAN]

(* The request of t was composed; and no copy of it, nor its trip, exists. *)
Drawn(t) == t \in Trips /\ ends[t] # 0
Unsent(t) == trip[t] = "NONE" /\ \A r \in wire \cup serving : r.trip # t

(* What a workflow's place says of its trip.                               *)
Fits(j) ==
  /\ j.pc = "LIST" => j.kind = "LIST"
  /\ j.pc # "LIST" => Drawn(j.trip)
  /\ j.pc \in {"KEY", "WRAP"} => Unsent(j.trip)
  /\ j.pc \in {"KEY", "WRAP", "FIRST", "SECOND"} => j.kind = "CREATE"
  /\ j.pc = "DISCARD" => j.trip \in refused \/ (j.kind = "CREATE" /\ Unsent(j.trip))
  /\ j.pc \in {"CONFIRM", "IMPORT", "HYDRATE"} => trip[j.trip] # "NONE"

(* One create workflow for each trip.                                      *)
Single(js) == \A i, j \in js :
                i.kind = "CREATE" /\ j.kind = "CREATE" /\ i.trip = j.trip => i = j

(* The server's rows: a refusal lasts until its trip's window has closed.  *)
Rows ==
  /\ \A t \in Trips : ends[t] <= now + MaxWindow
  /\ \A s \in serving : s.began <= now
  /\ \A r \in wire \cup serving : Drawn(r.trip)
  /\ \A t \in asks : Drawn(t)
  /\ \A t \in Trips :
       /\ trip[t] # "NONE" => Drawn(t)
       /\ command[t].kind = "REFUSED" => Drawn(t) /\ ends[t] <= command[t].expires
       /\ t \in refused /\ trip[t] = "NONE" => command[t].kind = "REFUSED"

Phone ==
  /\ \A j \in jobs : Fits(j)
  /\ Single(jobs)
  /\ record.state = "UNKNOWN_CREATE" => Drawn(record.trip)
  /\ \A t \in Trips : key[t] = "INSTALLED" => trip[t] # "NONE"
  /\ OnScreen => shown \in Trips /\ key[shown] = "INSTALLED"

(* A trip is started from a screen that had its key.                       *)
Keyed == \A t \in Trips : t \in starts \/ trip[t] = "STARTED" => key[t] = "INSTALLED"

IInv == CreationTypeOK /\ Rows /\ Phone /\ Keyed

-----------------------------------------------------------------------------
(* What the helpers on sets of workflows do to them.                       *)

(* The same workflow, but for its flags.                                   *)
Alike(x, i) == x.kind = i.kind /\ x.pc = i.pc /\ x.trip = i.trip

(* Workflows that a function f changes in their flags alone.               *)
LEMMA Reflagged ==
  ASSUME NEW f, NEW js, NEW ks, \A i \in js : f[i] \in JobRec /\ Alike(f[i], i),
         \A x \in ks : \E i \in js : x = f[i]
  PROVE  /\ ks \subseteq JobRec
         /\ \A x \in ks : \E i \in js : Alike(x, i)
         /\ Single(js) => Single(ks)
  <1>1. ks \subseteq JobRec /\ \A x \in ks : \E i \in js : Alike(x, i)
    OBVIOUS
  <1>2. ASSUME Single(js), NEW x \in ks, NEW y \in ks,
               x.kind = "CREATE", y.kind = "CREATE", x.trip = y.trip
        PROVE  x = y
    <2>1. PICK i \in js : x = f[i]
      OBVIOUS
    <2>2. PICK j \in js : y = f[j]
      OBVIOUS
    <2>. QED
      BY <1>2, <2>1, <2>2 DEF Alike, Single
  <1>. QED
    BY <1>1, <1>2 DEF Single

(* So they are when screens close, launches begin or fences fall.          *)
LEMMA FlagsOnly ==
  ASSUME NEW js, js \subseteq JobRec,
         NEW ks, ks = Dismissed(js) \/ ks = Overtaken(js) \/ ks = Fenced(js)
  PROVE  /\ ks \subseteq JobRec
         /\ \A x \in ks : \E i \in js : Alike(x, i)
         /\ Single(js) => Single(ks)
  <1>. DEFINE closed == [i \in JobRec |-> [i EXCEPT !.open = FALSE]]
              stale  == [i \in JobRec |-> [i EXCEPT !.current = FALSE]]
              fenced == [i \in JobRec |-> [i EXCEPT !.live = FALSE]]
              mid    == Dismissed(js)
  <1>1. ASSUME NEW i \in JobRec
        PROVE  /\ closed[i] \in JobRec /\ Alike(closed[i], i)
               /\ stale[i] \in JobRec /\ Alike(stale[i], i)
               /\ fenced[i] \in JobRec /\ Alike(fenced[i], i)
    BY DEF JobRec, Alike
  <1>2. \A x \in Dismissed(js) : \E i \in js : x = closed[i]
    BY DEF Dismissed
  <1>3. \A x \in Overtaken(js) : \E i \in Dismissed(js) : x = stale[i]
    <2>1. Dismissed(js) \subseteq JobRec
      BY <1>1, <1>2
    <2>. QED
      BY <2>1 DEF Overtaken
  <1>4. \A x \in Fenced(js) : \E i \in js : x = fenced[i]
    BY DEF Fenced
  <1>. HIDE DEF closed, stale, fenced
  <1>5. /\ mid \subseteq JobRec
        /\ \A x \in mid : \E i \in js : Alike(x, i)
        /\ Single(js) => Single(mid)
    BY <1>1, <1>2, Reflagged
  <1>6. /\ Overtaken(js) \subseteq JobRec
        /\ \A x \in Overtaken(js) : \E i \in mid : Alike(x, i)
        /\ Single(mid) => Single(Overtaken(js))
    BY <1>1, <1>3, <1>5, Reflagged
  <1>7. /\ Fenced(js) \subseteq JobRec
        /\ \A x \in Fenced(js) : \E i \in js : Alike(x, i)
        /\ Single(js) => Single(Fenced(js))
    BY <1>1, <1>4, Reflagged
  <1>8. \A x \in Overtaken(js) : \E i \in js : Alike(x, i)
    BY <1>5, <1>6 DEF Alike
  <1>. QED
    BY <1>5, <1>6, <1>7, <1>8

(* One workflow goes on to another place.                                  *)
LEMMA MovedJobs ==
  ASSUME jobs \subseteq JobRec, NEW j \in jobs, NEW pc \in Pcs
  PROVE  LET y == [j EXCEPT !.pc = pc] IN
         /\ y \in JobRec /\ y.pc = pc /\ y.kind = j.kind /\ y.trip = j.trip
         /\ Moved(j, pc) \subseteq JobRec
         /\ \A x \in Moved(j, pc) : x = y \/ (x \in jobs /\ x # j)
         /\ Single(jobs) => Single(Moved(j, pc))
  <1>1. /\ [j EXCEPT !.pc = pc] \in JobRec
        /\ [j EXCEPT !.pc = pc].pc = pc
        /\ [j EXCEPT !.pc = pc].kind = j.kind /\ [j EXCEPT !.pc = pc].trip = j.trip
    BY DEF JobRec
  <1>. QED
    BY <1>1 DEF Moved, Single

(* A workflow that is refused leaves at most its screen.                   *)
LEMMA RejectedJobs ==
  ASSUME jobs \subseteq JobRec, NEW gone, gone \subseteq jobs, Rejected(gone, jobs \ gone)
  PROVE  /\ jobs' \subseteq JobRec
         /\ \A x \in jobs' :
              \/ x \in jobs \ gone
              \/ x.pc = "UNSURE" /\ \E i \in gone : x.kind = i.kind /\ x.trip = i.trip
         /\ Single(jobs) => Single(jobs')
         /\ phase' \in {phase, "FAILURE"} /\ shown' = shown
  <1>. DEFINE unsure == {[j EXCEPT !.pc = "UNSURE"] : j \in {i \in gone : i.open}}
              turned == [i \in JobRec |-> [i EXCEPT !.pc = "UNSURE"]]
  <1>1. ASSUME NEW i \in JobRec
        PROVE  /\ turned[i] \in JobRec /\ turned[i].pc = "UNSURE"
               /\ turned[i].kind = i.kind /\ turned[i].trip = i.trip
    BY DEF JobRec, Pcs
  <1>2. jobs' = unsure \cup (jobs \ gone)
    BY DEF Rejected
  <1>3. \A x \in unsure : \E i \in gone : x = turned[i]
    OBVIOUS
  <1>4. phase' \in {phase, "FAILURE"} /\ shown' = shown
    BY DEF Rejected
  <1>. HIDE DEF unsure, turned
  <1>5. jobs' \subseteq JobRec
    BY <1>1, <1>2, <1>3
  <1>6. \A x \in unsure : x.pc = "UNSURE" /\ \E i \in gone : x.kind = i.kind /\ x.trip = i.trip
    BY <1>1, <1>3
  <1>7. ASSUME Single(jobs), NEW x \in jobs', NEW y \in jobs',
               x.kind = "CREATE", y.kind = "CREATE", x.trip = y.trip
        PROVE  x = y
    <2>1. CASE x \in unsure /\ y \in unsure
      <3>1. PICK i \in gone : x = turned[i]
        BY <1>3, <2>1
      <3>2. PICK k \in gone : y = turned[k]
        BY <1>3, <2>1
      <3>3. i = k
        BY <1>1, <1>7, <3>1, <3>2 DEF Single
      <3>. QED
        BY <3>1, <3>2, <3>3
    <2>2. CASE x \in jobs \ gone \/ y \in jobs \ gone
      BY <1>2, <1>6, <1>7, <2>2 DEF Single
    <2>. QED
      BY <1>2, <2>1, <2>2
  <1>8. Single(jobs) => Single(jobs')
    BY <1>7 DEF Single
  <1>. QED
    BY <1>2, <1>4, <1>5, <1>6, <1>8

-----------------------------------------------------------------------------
(* Type correctness.                                                       *)

(* The types hold initially.                                               *)
LEMMA InitType == ASSUME CreationInit PROVE CreationTypeOK
  BY CreationAssumption DEF CreationInit, CreationTypeOK, NoCommand, NoRecord

(* The bounds of the chosen limit, in force or not.                        *)
LEMMA LimitType == ASSUME CreationTypeOK PROVE limit.time \in Nat /\ limit.faults \in Nat
  BY CreationAssumption DEF CreationTypeOK

(* The key store's collection keeps the keys' type.                        *)
LEMMA CollectedType ==
  ASSUME CreationTypeOK
  PROVE  /\ Collected \in [Trips -> {"NONE", "PROVISIONAL", "INSTALLED"}]
         /\ \A t \in Trips : Collected[t] = key[t] \/ (Expired(t) /\ Collected[t] = "NONE")
  BY DEF CreationTypeOK, Collected

(* So does the import of a trip's key, which leaves the others' as they    *)
(* are collected.                                                          *)
LEMMA ImportedType ==
  ASSUME CreationTypeOK, NEW u \in Trips
  PROVE  /\ Imported(u) \in [Trips -> {"NONE", "PROVISIONAL", "INSTALLED"}]
         /\ \A t \in Trips :
              Imported(u)[t] = IF t = u THEN "INSTALLED" ELSE Collected[t]
  BY CollectedType DEF Imported

(* Resolving an outcome keeps the records' type.                           *)
LEMMA ResolveType ==
  ASSUME CreationTypeOK, NEW t \in Trips, Resolve(t)
  PROVE  /\ command' \in [Trips -> [kind : {"NONE", "CREATED", "REFUSED"}, expires : Nat]]
         /\ refused' \subseteq Trips
  <1>1. Refusal \in [kind : {"NONE", "CREATED", "REFUSED"}, expires : Nat]
    BY CreationAssumption, LimitType DEF CreationTypeOK, Refusal
  <1>. QED
    BY <1>1 DEF Resolve, CreationTypeOK

(* The server's steps and the clock.                                       *)
LEMMA ServerType ==
  ASSUME CreationTypeOK, \A j \in jobs : Fits(j),
         \/ ServerStep
         \/ \E s \in serving : CreateAborts(s)
         \/ \E t \in Trips : LateResolve(t) \/ StartTrip(t) \/ TripEnds(t)
         \/ CollectExpired \/ Tick
  PROVE  CreationTypeOK'
  <1>0. jobs \subseteq JobRec
    BY DEF CreationTypeOK, JobRec, Pcs
  <1>. limit.time \in Nat /\ limit.faults \in Nat
    BY LimitType
  <1>1. ASSUME NEW r \in wire, CreateBegins(r) PROVE CreationTypeOK'
    <2>1. [trip |-> r.trip, copy |-> r.copy, began |-> now]
            \in [trip : Trips, copy : 1..2, began : 0..limit.time]
      BY <1>1 DEF CreateBegins, CreationTypeOK
    <2>2. \A x, y \in serving' : x.trip = y.trip => x = y
      BY <1>1 DEF CreateBegins, CreationTypeOK, Locked
    <2>. QED
      BY <1>1, <2>1, <2>2 DEF CreateBegins, CreationTypeOK, phoneVars
  <1>2. ASSUME NEW s \in serving, CreateCommits(s) PROVE CreationTypeOK'
    <2>1. s.trip \in Trips
      BY DEF CreationTypeOK
    <2>2. /\ trip' \in [Trips -> {"NONE", "LOBBY", "STARTED", "OVER"}]
          /\ command' \in [Trips -> [kind : {"NONE", "CREATED", "REFUSED"}, expires : Nat]]
      <3>1. [kind |-> "CREATED", expires |-> HardDeleteAt(s.trip)]
              \in [kind : {"NONE", "CREATED", "REFUSED"}, expires : Nat]
        <4>1. ends[s.trip] \in Nat
          BY <2>1 DEF CreationTypeOK
        <4>2. HardDeleteAt(s.trip) \in Nat
          BY <4>1, CreationAssumption DEF HardDeleteAt
        <4>. QED
          BY <4>2
      <3>2. NoCommand \in [kind : {"NONE", "CREATED", "REFUSED"}, expires : Nat]
        BY DEF NoCommand
      <3>3. [trip EXCEPT ![s.trip] = "LOBBY"] \in [Trips -> {"NONE", "LOBBY", "STARTED", "OVER"}]
        BY <2>1 DEF CreationTypeOK
      <3>4. \A c \in [kind : {"NONE", "CREATED", "REFUSED"}, expires : Nat] :
              [command EXCEPT ![s.trip] = c]
                \in [Trips -> [kind : {"NONE", "CREATED", "REFUSED"}, expires : Nat]]
        BY <2>1 DEF CreationTypeOK
      <3>5. trip' \in {trip, [trip EXCEPT ![s.trip] = "LOBBY"]}
        BY <1>2 DEF CreateCommits
      <3>6. command' \in {command, [command EXCEPT ![s.trip] = NoCommand],
                          [command EXCEPT ![s.trip] =
                             [kind |-> "CREATED", expires |-> HardDeleteAt(s.trip)]]}
        BY <1>2 DEF CreateCommits
      <3>7. /\ trip \in [Trips -> {"NONE", "LOBBY", "STARTED", "OVER"}]
            /\ command \in [Trips -> [kind : {"NONE", "CREATED", "REFUSED"}, expires : Nat]]
        BY DEF CreationTypeOK
      <3>8. trip' \in [Trips -> {"NONE", "LOBBY", "STARTED", "OVER"}]
        BY <3>3, <3>5, <3>7
      <3>9. command' \in [Trips -> [kind : {"NONE", "CREATED", "REFUSED"}, expires : Nat]]
        BY <3>1, <3>2, <3>4, <3>6, <3>7
      <3>. QED
        BY <3>8, <3>9
    <2>3. jobs' \subseteq JobRec /\ phase' \in {phase, "FAILURE"} /\ shown' = shown
      <3>. DEFINE confirm == {[j EXCEPT !.pc = "CONFIRM"] : j \in Waiting(s)}
      <3>1. Waiting(s) \subseteq jobs
        BY DEF Waiting
      <3>2. CASE Creates(s.trip, s.began) \/ Replays(s.trip, s.began)
        <4>1. \A x \in confirm : x \in JobRec
          BY <1>0, <3>1 DEF JobRec, Pcs
        <4>. QED
          BY <1>0, <1>2, <3>2, <4>1 DEF CreateCommits
      <3>3. CASE ~(Creates(s.trip, s.began) \/ Replays(s.trip, s.began))
        BY <1>0, <1>2, <3>1, <3>3, RejectedJobs DEF CreateCommits
      <3>. QED
        BY <3>2, <3>3
    <2>. QED
      BY <1>2, <2>2, <2>3 DEF CreateCommits, CreationTypeOK, JobRec, Pcs
  <1>3. ASSUME NEW s \in serving, CreateAborts(s) PROVE CreationTypeOK'
    <2>1. Waiting(s) \subseteq jobs
      BY DEF Waiting
    <2>2. jobs' \subseteq JobRec /\ phase' \in {phase, "FAILURE"} /\ shown' = shown
      BY <1>0, <1>3, <2>1, RejectedJobs DEF CreateAborts
    <2>. QED
      BY <1>3, <2>2 DEF CreateAborts, CreationTypeOK, JobRec, Pcs
  <1>4. ASSUME NEW t \in Trips, LateResolve(t) PROVE CreationTypeOK'
    BY <1>4, ResolveType DEF LateResolve, CreationTypeOK, phoneVars
  <1>5. ASSUME NEW t \in Trips, StartTrip(t) \/ TripEnds(t) PROVE CreationTypeOK'
    BY <1>5 DEF StartTrip, TripEnds, CreationTypeOK, phoneVars
  <1>6. CASE CollectExpired
    BY <1>6, CollectedType DEF CollectExpired, CreationTypeOK, serverVars
  <1>7. CASE Tick
    BY <1>7 DEF Tick, CreationTypeOK, serverVars, phoneVars
  <1>. QED
    BY <1>1, <1>2, <1>3, <1>4, <1>5, <1>6, <1>7 DEF ServerStep

(* The steps of one workflow.                                              *)
LEMMA JobType ==
  ASSUME CreationTypeOK, \A x \in jobs : Fits(x), NEW j \in jobs,
         JobStep(j) \/ CreateTimesOut(j) \/ AskTimesOut(j)
  PROVE  CreationTypeOK'
  <1>0. jobs \subseteq JobRec
    BY DEF CreationTypeOK, JobRec, Pcs
  <1>. limit.time \in Nat /\ limit.faults \in Nat
    BY LimitType
  <1>a. j \in JobRec /\ (j.pc # "LIST" => j.trip \in Trips)
    BY <1>0 DEF Fits, Drawn
  <1>b. \A pc \in Pcs : Moved(j, pc) \subseteq JobRec
    BY <1>0, MovedJobs
  <1>c. ASSUME Rejected({j}, jobs \ {j})
        PROVE  jobs' \subseteq JobRec /\ phase' \in {phase, "FAILURE"} /\ shown' = shown
    BY <1>0, <1>c, RejectedJobs
  <1>d. \A pc \in {"KEY", "WRAP", "FIRST", "SECOND", "DISCARD", "CLEAR", "CONFIRM",
                    "IMPORT", "ASK", "HYDRATE", "UNSURE"} : pc \in Pcs
    BY DEF Pcs
  <1>1. CASE MakeKey(j)
    <2>1. /\ key' \in [Trips -> {"NONE", "PROVISIONAL", "INSTALLED"}]
          /\ expiry' \in [Trips -> Nat]
      <3>1. now + KeyLife \in Nat
        BY CreationAssumption DEF CreationTypeOK
      <3>2. expiry' \in [Trips -> Nat]
        BY <1>1, <3>1 DEF MakeKey, CreationTypeOK
      <3>. QED
        BY <1>1, <3>2, CollectedType DEF MakeKey
    <2>2. jobs' \subseteq JobRec
      BY <1>1, <1>b, <1>d DEF MakeKey
    <2>. QED
      BY <1>1, <2>1, <2>2 DEF MakeKey, CreationTypeOK, serverVars, JobRec, Pcs
  <1>2. CASE Wrap(j)
    <2>1. wire' \subseteq [trip : Trips, copy : 1..2]
      <3>1. [trip |-> j.trip, copy |-> 1] \in [trip : Trips, copy : 1..2]
        BY <1>2, <1>a DEF Wrap
      <3>. QED
        BY <1>2, <3>1 DEF Wrap, CreationTypeOK
    <2>2. jobs' \subseteq JobRec
      BY <1>2, <1>b, <1>d DEF Wrap
    <2>. QED
      BY <1>2, <2>1, <2>2, CollectedType DEF Wrap, CreationTypeOK, serverVars, JobRec, Pcs
  <1>3. CASE NativeFails(j)
    <2>1. jobs' \subseteq JobRec
      BY <1>3, <1>b, <1>d DEF NativeFails
    <2>2. key' \in [Trips -> {"NONE", "PROVISIONAL", "INSTALLED"}] /\ faults' \in 0..limit.faults
      BY <1>3, CollectedType DEF NativeFails, NativeFault, CreationTypeOK
    <2>. QED
      BY <1>3, <2>1, <2>2 DEF NativeFails, CreationTypeOK, serverVars, JobRec, Pcs
  <1>4. CASE CreateTimesOut(j)
    <2>1. wire' \subseteq [trip : Trips, copy : 1..2]
      <3>1. [trip |-> j.trip, copy |-> 2] \in [trip : Trips, copy : 1..2]
        BY <1>4, <1>a DEF CreateTimesOut
      <3>. QED
        BY <1>4, <3>1 DEF CreateTimesOut, CreationTypeOK
    <2>2. jobs' \subseteq JobRec /\ phase' \in {phase, "FAILURE"} /\ shown' = shown
      BY <1>4, <1>b, <1>c, <1>d DEF CreateTimesOut
    <2>3. faults' \in 0..limit.faults
      BY <1>4 DEF CreateTimesOut, CreationTypeOK
    <2>. QED
      BY <1>4, <2>1, <2>2, <2>3 DEF CreateTimesOut, CreationTypeOK, serverVars, JobRec, Pcs
  <1>5. CASE Discard(j)
    <2>1. jobs' \subseteq JobRec /\ phase' \in {phase, "FAILURE"} /\ shown' = shown
      BY <1>5, <1>b, <1>c, <1>d DEF Discard
    <2>2. key' \in [Trips -> {"NONE", "PROVISIONAL", "INSTALLED"}]
      BY <1>5, <1>a, CollectedType DEF Discard, CreationTypeOK
    <2>. QED
      BY <1>5, <2>1, <2>2 DEF Discard, CreationTypeOK, serverVars, JobRec, Pcs
  <1>6. CASE Clear(j)
    <2>1. /\ jobs' \subseteq JobRec
          /\ phase' \in {phase, "FAILURE", "FAILED"} /\ shown' \in {shown, None}
      BY <1>6, <1>0, <1>c DEF Clear, Publish
    <2>. QED
      BY <1>6, <2>1 DEF Clear, NoRecord, CreationTypeOK, serverVars, JobRec, Pcs
  <1>7. CASE Confirm(j)
    <2>1. jobs' \subseteq JobRec
      BY <1>7, <1>b, <1>d DEF Confirm
    <2>. QED
      BY <1>7, <1>a, <2>1 DEF Confirm, CreationTypeOK, serverVars, JobRec, Pcs
  <1>8. CASE Import(j)
    <2>1. /\ jobs' \subseteq JobRec
          /\ phase' \in {phase, "FAILURE", "TRIP"} /\ shown' \in {shown, j.trip}
      BY <1>8, <1>0, <1>c DEF Import, Publish
    <2>2. /\ key' \in [Trips -> {"NONE", "PROVISIONAL", "INSTALLED"}]
          /\ faults' \in 0..limit.faults
      BY <1>8, <1>a, CollectedType, ImportedType DEF Import, NativeFault, CreationTypeOK
    <2>. QED
      BY <1>8, <1>a, <2>1, <2>2 DEF Import, CreationTypeOK, serverVars, JobRec, Pcs
  <1>9. CASE Ask(j)
    <2>1. /\ jobs' \subseteq JobRec
          /\ phase' \in {phase, "FAILURE", "UNKNOWN"} /\ shown' \in {shown, None}
      BY <1>9, <1>0, <1>b, <1>c, <1>d DEF Ask, Publish
    <2>. QED
      BY <1>9, <1>a, <2>1, ResolveType DEF Ask, CreationTypeOK, JobRec, Pcs
  <1>10. CASE AskTimesOut(j)
    <2>1. jobs' \subseteq JobRec /\ phase' \in {phase, "FAILURE"} /\ shown' = shown
      BY <1>10, <1>c DEF AskTimesOut
    <2>2. asks' \subseteq Trips /\ faults' \in 0..limit.faults
      BY <1>10, <1>a DEF AskTimesOut, CreationTypeOK
    <2>. QED
      BY <1>10, <2>1, <2>2 DEF AskTimesOut, CreationTypeOK, serverVars, JobRec, Pcs
  <1>11. CASE List(j)
    <2>1. jobs \ {j} \subseteq JobRec /\ Fenced(jobs \ {j}) \subseteq JobRec
      BY <1>0, FlagsOnly
    <2>2. \A t \in Trips : [j EXCEPT !.pc = "HYDRATE", !.trip = t] \in JobRec
      BY <1>a DEF JobRec, Pcs
    <2>3. /\ jobs' \subseteq JobRec
          /\ phase' \in {phase, "NO_TRIP"} /\ shown' \in {shown, None}
      BY <1>11, <2>1, <2>2 DEF List, Publish
    <2>4. record' \in {record, NoRecord}
      BY <1>11 DEF List
    <2>. QED
      BY <1>11, <2>3, <2>4 DEF List, NoRecord, CreationTypeOK, serverVars, JobRec, Pcs
  <1>12. CASE Hydrate(j)
    <2>1. /\ jobs' \subseteq JobRec
          /\ phase' \in {phase, "FAILURE", "TRIP", "ACTIVATION_FAILED"}
          /\ shown' \in {shown, j.trip}
      BY <1>12, <1>0, <1>c DEF Hydrate, Publish
    <2>2. /\ key' \in [Trips -> {"NONE", "PROVISIONAL", "INSTALLED"}]
          /\ faults' \in 0..limit.faults
      BY <1>12, <1>a, CollectedType, ImportedType DEF Hydrate, NativeFault, CreationTypeOK
    <2>. QED
      BY <1>12, <1>a, <2>1, <2>2 DEF Hydrate, CreationTypeOK, serverVars, JobRec, Pcs
  <1>. QED
    BY <1>1, <1>2, <1>3, <1>4, <1>5, <1>6, <1>7, <1>8, <1>9, <1>10, <1>11, <1>12 DEF JobStep

(* A launch keeps the types.                                               *)
LEMMA LaunchedType ==
  ASSUME CreationTypeOK, NEW saved, NEW js, js \subseteq JobRec, Launched(saved, js),
         saved \in [state : {"NONE", "UNKNOWN_CREATE", "CONFIRMED"}, trip : Trips \cup {None}]
  PROVE  /\ jobs' \subseteq JobRec
         /\ phase' \in {"UNKNOWN", "LAUNCHING"} /\ shown' = None
  <1>1. Overtaken(js) \subseteq JobRec
    BY FlagsOnly
  <1>2. Job("RESOLVE", "ASK", saved.trip) \in JobRec /\ Job("LIST", "LIST", None) \in JobRec
    BY DEF Job, JobRec, Pcs
  <1>. QED
    BY <1>1, <1>2 DEF Launched

(* The user's steps, the screen's and the operating system's.              *)
LEMMA AppType ==
  ASSUME CreationTypeOK, \A j \in jobs : Fits(j), OnScreen => shown \in Trips,
         \/ \E t \in Trips, e \in 1..limit.time : Press(t, e)
         \/ Launch \/ Refresh \/ Kill
         \/ PressStart \/ Poll \/ Republish
  PROVE  CreationTypeOK'
  <1>0. jobs \subseteq JobRec
    BY DEF CreationTypeOK, JobRec, Pcs
  <1>. limit.time \in Nat /\ limit.faults \in Nat
    BY LimitType
  <1>1. ASSUME NEW t \in Trips, NEW e \in 1..limit.time, Press(t, e) PROVE CreationTypeOK'
    <2>1. Dismissed(jobs) \subseteq JobRec
      BY <1>0, FlagsOnly
    <2>2. Job("CREATE", "KEY", t) \in JobRec
      BY DEF Job, JobRec, Pcs
    <2>3. ends' \in [Trips -> 0..limit.time] /\ jobs' \subseteq JobRec
      BY <1>1, <2>1, <2>2 DEF Press, CreationTypeOK
    <2>. QED
      BY <1>1, <2>3 DEF Press, CreationTypeOK, serverVars, JobRec, Pcs
  <1>2. CASE Launch
    <2>1. /\ jobs' \subseteq JobRec
          /\ phase' \in {"UNKNOWN", "LAUNCHING"} /\ shown' = None
      BY <1>0, <1>2, LaunchedType DEF Launch, CreationTypeOK
    <2>. QED
      BY <1>2, <2>1 DEF Launch, CreationTypeOK, serverVars, JobRec, Pcs
  <1>3. CASE Refresh
    <2>. DEFINE left == IF record = [state |-> "CONFIRMED", trip |-> shown]
                        THEN NoRecord ELSE record
    <2>1. left \in [state : {"NONE", "UNKNOWN_CREATE", "CONFIRMED"}, trip : Trips \cup {None}]
      BY DEF NoRecord, CreationTypeOK
    <2>2. Fenced(jobs) \subseteq JobRec
      BY <1>0, FlagsOnly
    <2>3. record' = left /\ Launched(left, Fenced(jobs))
      BY <1>3 DEF Refresh
    <2>. HIDE DEF left
    <2>4. /\ jobs' \subseteq JobRec
          /\ phase' \in {"UNKNOWN", "LAUNCHING"} /\ shown' = None
      BY <2>1, <2>2, <2>3, LaunchedType
    <2>. QED
      BY <1>3, <2>1, <2>3, <2>4 DEF Refresh, CreationTypeOK, serverVars, JobRec, Pcs
  <1>4. CASE Kill
    <2>1. asks' \subseteq Trips
      BY <1>4 DEF Kill, CreationTypeOK, Fits, Drawn
    <2>. QED
      BY <1>4, <2>1 DEF Kill, CreationTypeOK, serverVars
  <1>5. CASE PressStart
    BY <1>5 DEF PressStart, OnScreen, CreationTypeOK, phoneVars
  <1>6. CASE Poll
    <2>1. /\ key' \in [Trips -> {"NONE", "PROVISIONAL", "INSTALLED"}]
          /\ faults' \in 0..limit.faults /\ phase' \in {"TRIP", "ACTIVATION_FAILED"}
      BY <1>6, CollectedType, ImportedType DEF Poll, CreationTypeOK
    <2>. QED
      BY <1>6, <2>1 DEF Poll, CreationTypeOK, serverVars
  <1>7. CASE Republish
    BY <1>7 DEF Republish, CreationTypeOK, serverVars
  <1>. QED
    BY <1>1, <1>2, <1>3, <1>4, <1>5, <1>6, <1>7

(* Type correctness of a step from a state of the invariant.               *)
LEMMA TypeStep == ASSUME IInv, [CreationNext]_creationVars PROVE CreationTypeOK'
  <1>1. CreationTypeOK /\ (\A j \in jobs : Fits(j)) /\ (OnScreen => shown \in Trips)
    BY DEF IInv, Phone
  <1>2. CASE UNCHANGED creationVars
    BY <1>1, <1>2 DEF creationVars, serverVars, phoneVars, CreationTypeOK
  <1>. QED
    BY <1>1, <1>2, ServerType, JobType, AppType DEF CreationNext

-----------------------------------------------------------------------------
(* The server's rows.                                                      *)

(* What a resolved outcome leaves: a refusal that outlives the window.     *)
LEMMA ResolveRows ==
  ASSUME CreationTypeOK, Rows, NEW t \in Trips, Drawn(t), Resolve(t),
         UNCHANGED <<now, ends, trip>>
  PROVE  \A u \in Trips :
           /\ command'[u].kind = "REFUSED" => Drawn(u) /\ ends[u] <= command'[u].expires
           /\ u \in refused' /\ trip[u] = "NONE" => command'[u].kind = "REFUSED"
  <1>1. CASE Answer(t) # "TERMINAL_NOT_COMMITTED"
    BY <1>1 DEF Resolve, Rows
  <1>2. CASE Answer(t) = "TERMINAL_NOT_COMMITTED" /\ Live(t, now)
    <2>1. command[t].kind = "REFUSED"
      BY <1>2 DEF Answer, Live, CreationTypeOK
    <2>. QED
      BY <1>2, <2>1 DEF Resolve, Rows
  <1>3. CASE Answer(t) = "TERMINAL_NOT_COMMITTED" /\ ~Live(t, now)
    <2>1. command' = [command EXCEPT ![t] = Refusal] /\ refused' = refused \cup {t}
      BY <1>3 DEF Resolve
    <2>2. Refusal.kind = "REFUSED" /\ Refusal.expires = now + TombstoneLife
      BY DEF Refusal
    <2>3. ends[t] \in Nat /\ now \in Nat
      BY LimitType DEF CreationTypeOK
    <2>4. ends[t] <= Refusal.expires
      BY <2>2, <2>3, CreationAssumption DEF Rows
    <2>. HIDE DEF Refusal
    <2>. QED
      BY <2>1, <2>2, <2>4 DEF Rows, CreationTypeOK
  <1>. QED
    BY <1>1, <1>2, <1>3

(* A create transaction writes a trip only if it was never refused.        *)
LEMMA CommitRows == ASSUME CreationTypeOK, Rows, NEW s \in serving, CreateCommits(s) PROVE Rows'
  <1>. DEFINE t == s.trip
  <1>1. /\ t \in Trips /\ Drawn(t) /\ s.began \in Nat /\ now \in Nat /\ s.began <= now
        /\ ends[t] \in Nat
    BY LimitType DEF CreationTypeOK, Rows
  <1>2. UNCHANGED <<now, ends, wire, asks, refused>> /\ serving' \subseteq serving
    BY DEF CreateCommits
  <1>3. CASE Creates(t, s.began)
    <2>1. /\ trip' = [trip EXCEPT ![t] = "LOBBY"]
          /\ command' = [command EXCEPT ![t] = [kind |-> "CREATED", expires |-> HardDeleteAt(t)]]
      BY <1>3 DEF CreateCommits
    <2>. QED
      BY <1>1, <1>2, <2>1 DEF Rows, Drawn, CreationTypeOK
  <1>4. CASE ~Creates(t, s.began) /\ Forgets(t, s.began)
    <2>1. trip' = trip /\ command' = [command EXCEPT ![t] = NoCommand]
      BY <1>4 DEF CreateCommits
    <2>2. ~(command[t].kind = "REFUSED")
      <3>1. command[t].expires \in Nat
        BY <1>1 DEF CreationTypeOK
      <3>. QED
        BY <1>1, <1>4, <3>1 DEF Forgets, Live, InWindow, Rows
    <2>. QED
      BY <1>1, <1>2, <2>1, <2>2 DEF Rows, Drawn, NoCommand, CreationTypeOK
  <1>5. CASE ~Creates(t, s.began) /\ ~Forgets(t, s.began)
    <2>1. trip' = trip /\ command' = command
      BY <1>5 DEF CreateCommits
    <2>. QED
      BY <1>2, <2>1 DEF Rows, Drawn
  <1>. QED
    BY <1>3, <1>4, <1>5

(* Every step keeps the rows.                                              *)
LEMMA RowsStep == ASSUME IInv, [CreationNext]_creationVars PROVE Rows'
  <1>0. CreationTypeOK /\ Rows /\ \A j \in jobs : Fits(j)
    BY DEF IInv, Phone
  <1>. limit.time \in Nat /\ limit.faults \in Nat /\ now \in Nat
    BY <1>0, LimitType DEF CreationTypeOK
  <1>1. ASSUME NEW r \in wire, CreateBegins(r) PROVE Rows'
    BY <1>0, <1>1 DEF CreateBegins, Rows, Drawn, CreationTypeOK
  <1>2. ASSUME NEW s \in serving, CreateCommits(s) PROVE Rows'
    BY <1>0, <1>2, CommitRows
  <1>3. ASSUME NEW s \in serving, CreateAborts(s) PROVE Rows'
    BY <1>0, <1>3 DEF CreateAborts, Rows, Drawn
  <1>4. ASSUME NEW t \in Trips, LateResolve(t) PROVE Rows'
    <2>1. Drawn(t) /\ Resolve(t)
      BY <1>0, <1>4 DEF LateResolve, Rows
    <2>. QED
      BY <1>0, <1>4, <2>1, ResolveRows DEF LateResolve, Rows, Drawn
  <1>5. ASSUME NEW t \in Trips, StartTrip(t) \/ TripEnds(t) PROVE Rows'
    BY <1>0, <1>5 DEF StartTrip, TripEnds, Open, Rows, Drawn, phoneVars, CreationTypeOK
  <1>6. ASSUME NEW t \in Trips, NEW e \in 1..limit.time, Press(t, e) PROVE Rows'
    BY <1>0, <1>6 DEF Press, Offered, Rows, Drawn, serverVars, CreationTypeOK
  <1>7. ASSUME NEW j \in jobs, Wrap(j) PROVE Rows'
    BY <1>0, <1>7 DEF Wrap, Rows, Drawn, serverVars, Fits
  <1>8. ASSUME NEW j \in jobs, CreateTimesOut(j) PROVE Rows'
    BY <1>0, <1>8 DEF CreateTimesOut, Rows, Drawn, serverVars, Fits
  <1>9. ASSUME NEW j \in jobs, Ask(j) PROVE Rows'
    <2>1. j.trip \in Trips /\ Drawn(j.trip) /\ Resolve(j.trip)
      BY <1>0, <1>9 DEF Ask, Fits, Drawn
    <2>. QED
      BY <1>0, <1>9, <2>1, ResolveRows DEF Ask, Rows, Drawn
  <1>10. ASSUME NEW j \in jobs, AskTimesOut(j) PROVE Rows'
    BY <1>0, <1>10 DEF AskTimesOut, Rows, Drawn, serverVars, Fits
  <1>11. CASE Kill
    BY <1>0, <1>11 DEF Kill, Rows, Drawn, serverVars, Fits
  <1>12. CASE Tick
    BY <1>0, <1>12, CreationAssumption DEF Tick, Rows, Drawn, serverVars, CreationTypeOK
  <1>13. CASE UNCHANGED <<now, ends, wire, asks, trip, command, serving, refused>>
    BY <1>0, <1>13 DEF Rows, Drawn
  <1>14. ASSUME NEW j \in jobs, MakeKey(j) \/ NativeFails(j) \/ Discard(j) \/ Clear(j)
                \/ Confirm(j) \/ Import(j) \/ List(j) \/ Hydrate(j)
         PROVE  Rows'
    BY <1>13, <1>14 DEF serverVars, MakeKey, NativeFails, Discard, Clear, Confirm,
       Import, List, Hydrate
  <1>15. CASE Launch \/ Refresh \/ CollectExpired \/ PressStart \/ Poll \/ Republish
    BY <1>13, <1>15 DEF serverVars, Launch, Refresh, CollectExpired, PressStart, Poll,
       Republish
  <1>16. CASE UNCHANGED creationVars
    BY <1>13, <1>16 DEF creationVars, serverVars
  <1>. QED
    BY <1>1, <1>2, <1>3, <1>4, <1>5, <1>6, <1>7, <1>8, <1>9, <1>10, <1>11, <1>12,
       <1>14, <1>15, <1>16 DEF CreationNext, ServerStep, JobStep

-----------------------------------------------------------------------------
(* The phone's workflows, keys and screen.                                 *)

(* A workflow in place stays in place while no copy of its request appears *)
(* and no trip is forgotten.                                               *)
LEMMA StaysFit ==
  ASSUME NEW x, NEW i, Alike(x, i), Fits(i), ends' = ends, refused \subseteq refused',
         i.trip \in Trips => /\ Unsent(i.trip) => Unsent(i.trip)'
                             /\ trip[i.trip] # "NONE" => trip'[i.trip] # "NONE"
  PROVE  Fits(x)'
  BY DEF Alike, Fits, Drawn

(* A refused workflow's unsure screen fits anywhere its trip is drawn.     *)
LEMMA RejectedFit ==
  ASSUME jobs \subseteq JobRec, \A i \in jobs : Fits(i), Single(jobs),
         NEW gone, gone \subseteq jobs, \A i \in gone : i.pc # "LIST",
         Rejected(gone, jobs \ gone),
         ends' = ends, refused \subseteq refused',
         \A i \in jobs \ gone :
           i.trip \in Trips => /\ Unsent(i.trip) => Unsent(i.trip)'
                               /\ trip[i.trip] # "NONE" => trip'[i.trip] # "NONE"
  PROVE  /\ \A x \in jobs' : Fits(x)'
         /\ Single(jobs')
         /\ OnScreen' => OnScreen /\ shown' = shown
  <1>1. /\ \A x \in jobs' :
             \/ x \in jobs \ gone
             \/ x.pc = "UNSURE" /\ \E i \in gone : x.kind = i.kind /\ x.trip = i.trip
        /\ Single(jobs')
        /\ phase' \in {phase, "FAILURE"} /\ shown' = shown
    BY RejectedJobs
  <1>2. ASSUME NEW x \in jobs', x \in jobs \ gone PROVE Fits(x)'
    BY <1>2, StaysFit DEF Alike
  <1>3. ASSUME NEW x \in jobs', x.pc = "UNSURE", NEW i \in gone, x.trip = i.trip PROVE Fits(x)'
    BY <1>3 DEF Fits, Drawn
  <1>. QED
    BY <1>1, <1>2, <1>3 DEF OnScreen

(* A workflow that goes on fits its new place if that place fits.          *)
LEMMA MovedFit ==
  ASSUME jobs \subseteq JobRec, \A i \in jobs : Fits(i), Single(jobs),
         NEW j \in jobs, NEW pc \in Pcs, jobs' = Moved(j, pc),
         Fits([j EXCEPT !.pc = pc])',
         ends' = ends, refused \subseteq refused',
         \A i \in jobs \ {j} :
           i.trip \in Trips => /\ Unsent(i.trip) => Unsent(i.trip)'
                               /\ trip[i.trip] # "NONE" => trip'[i.trip] # "NONE"
  PROVE  (\A x \in jobs' : Fits(x)') /\ Single(jobs')
  <1>1. \A x \in jobs' : x = [j EXCEPT !.pc = pc] \/ (x \in jobs /\ x # j)
    BY MovedJobs
  <1>2. Single(jobs')
    BY MovedJobs
  <1>3. ASSUME NEW x \in jobs', x \in jobs, x # j PROVE Fits(x)'
    BY <1>3, StaysFit DEF Alike
  <1>. QED
    BY <1>1, <1>2, <1>3

(* Steps of the server and the clock leave the phone's invariant.          *)
LEMMA ServerPhone ==
  ASSUME IInv, CreationTypeOK',
         \/ ServerStep
         \/ \E s \in serving : CreateAborts(s)
         \/ \E t \in Trips : LateResolve(t) \/ StartTrip(t) \/ TripEnds(t)
         \/ CollectExpired \/ Tick
  PROVE  Phone'
  <1>0. CreationTypeOK /\ Rows /\ Phone /\ jobs \subseteq JobRec
    BY DEF IInv, CreationTypeOK, JobRec, Pcs
  <1>1. ASSUME NEW r \in wire, CreateBegins(r) PROVE Phone'
    <2>1. \A t : Unsent(t) => Unsent(t)'
      BY <1>1 DEF CreateBegins, Unsent
    <2>2. \A x \in jobs : Fits(x)'
      BY <1>0, <1>1, <2>1, StaysFit DEF CreateBegins, phoneVars, Phone, Alike
    <2>. QED
      BY <1>0, <1>1, <2>2 DEF CreateBegins, phoneVars, Phone, Drawn, Single, OnScreen
  <1>2. ASSUME NEW s \in serving, CreateCommits(s) PROVE Phone'
    <2>. DEFINE confirmed == [i \in JobRec |-> [i EXCEPT !.pc = "CONFIRM"]]
                answered == Waiting(s)
    <2>1. /\ answered \subseteq jobs
          /\ \A i \in answered : i.trip = s.trip /\ i.pc \in {"FIRST", "SECOND"}
      BY DEF Waiting
    <2>2. /\ \A t \in Trips : Unsent(t) => Unsent(t)'
          /\ \A t \in Trips : trip[t] # "NONE" => trip'[t] # "NONE"
      BY <1>0, <1>2 DEF CreateCommits, Unsent, CreationTypeOK, Creates
    <2>4. ASSUME NEW i \in jobs PROVE Fits(i)'
      BY <1>0, <1>2, <2>2, StaysFit DEF Phone, Alike, CreateCommits
    <2>5. /\ \A x \in jobs' : Fits(x)'
          /\ Single(jobs')
          /\ OnScreen' => OnScreen /\ shown' = shown
      <3>1. CASE Creates(s.trip, s.began) \/ Replays(s.trip, s.began)
        <4>1. /\ jobs' = (jobs \ answered) \cup {[j EXCEPT !.pc = "CONFIRM"] : j \in answered}
              /\ UNCHANGED <<phase, shown, ends>>
          BY <1>2, <3>1 DEF CreateCommits
        <4>2. \A x \in jobs' : x \in jobs \ answered \/ \E i \in answered : x = confirmed[i]
          BY <1>0, <2>1, <4>1
        <4>3. trip'[s.trip] # "NONE"
          BY <1>0, <1>2, <3>1 DEF CreateCommits, Creates, Replays, Open, CreationTypeOK
        <4>4. \A i \in answered : /\ confirmed[i] \in JobRec /\ confirmed[i].pc = "CONFIRM"
                                   /\ confirmed[i].kind = i.kind /\ confirmed[i].trip = i.trip
          BY <1>0, <2>1 DEF JobRec, Pcs
        <4>. HIDE DEF confirmed, answered
        <4>5. ASSUME NEW i \in answered PROVE Fits(confirmed[i])'
          <5>1. Drawn(s.trip)'
            BY <1>0, <4>1 DEF Rows, Drawn
          <5>. QED
            BY <2>1, <4>3, <4>4, <5>1 DEF Fits
        <4>6. Single(jobs')
          BY <1>0, <2>1, <4>2, <4>4 DEF Phone, Single
        <4>. QED
          BY <2>4, <4>1, <4>2, <4>5, <4>6 DEF OnScreen
      <3>2. CASE ~(Creates(s.trip, s.began) \/ Replays(s.trip, s.began))
        <4>1. Rejected(answered, jobs \ answered) /\ UNCHANGED <<ends, refused, trip>>
          BY <1>2, <3>2 DEF CreateCommits
        <4>. HIDE DEF answered
        <4>. QED
          BY <1>0, <2>1, <2>2, <4>1, RejectedFit DEF Phone
      <3>. QED
        BY <3>1, <3>2
    <2>. QED
      BY <1>0, <1>2, <2>2, <2>5 DEF Phone, CreateCommits, Drawn
  <1>3. ASSUME NEW s \in serving, CreateAborts(s) PROVE Phone'
    <2>1. Waiting(s) \subseteq jobs /\ \A i \in Waiting(s) : i.pc # "LIST"
      BY DEF Waiting
    <2>2. /\ \A t : Unsent(t) => Unsent(t)'
          /\ UNCHANGED <<ends, refused, trip, key, record>>
          /\ Rejected(Waiting(s), jobs \ Waiting(s))
      BY <1>3 DEF CreateAborts, Unsent
    <2>3. /\ \A x \in jobs' : Fits(x)'
          /\ Single(jobs')
          /\ OnScreen' => OnScreen /\ shown' = shown
      BY <1>0, <2>1, <2>2, RejectedFit DEF Phone
    <2>. QED
      BY <1>0, <2>2, <2>3 DEF Phone, Drawn
  <1>4. ASSUME NEW t \in Trips, LateResolve(t) \/ StartTrip(t) \/ TripEnds(t) PROVE Phone'
    <2>1. /\ UNCHANGED <<ends, wire, serving, phoneVars>> /\ refused \subseteq refused'
          /\ \A u \in Trips : (trip[u] = "NONE") <=> (trip'[u] = "NONE")
      BY <1>0, <1>4 DEF LateResolve, StartTrip, TripEnds, Open, Resolve, CreationTypeOK
    <2>2. \A x \in jobs : Fits(x)'
      BY <1>0, <2>1 DEF Phone, Fits, Drawn, Unsent
    <2>. QED
      BY <1>0, <2>1, <2>2 DEF Phone, Drawn, Single, phoneVars, OnScreen
  <1>5. CASE CollectExpired
    <2>1. \A x \in jobs : Fits(x)'
      BY <1>0, <1>5 DEF CollectExpired, serverVars, Phone, Fits, Drawn, Unsent
    <2>. QED
      BY <1>0, <1>5, <2>1, CollectedType DEF CollectExpired, serverVars, Phone, Drawn, Single, Expired, OnScreen
  <1>6. CASE Tick
    <2>1. \A x \in jobs : Fits(x)'
      BY <1>0, <1>6 DEF Tick, serverVars, Phone, Fits, Drawn, Unsent
    <2>. QED
      BY <1>0, <1>6, <2>1 DEF Tick, serverVars, phoneVars, Phone, Drawn, Single, OnScreen
  <1>. QED
    BY <1>1, <1>2, <1>3, <1>4, <1>5, <1>6 DEF ServerStep

(* Collecting expired keys leaves the installed ones.                      *)
LEMMA CollectedKeepsInstalled ==
  ASSUME CreationTypeOK
  PROVE  \A t \in Trips : Collected[t] = "INSTALLED" <=> key[t] = "INSTALLED"
  BY CollectedType DEF Expired

(* A workflow's step leaves the phone's invariant.                         *)
LEMMA JobPhone ==
  ASSUME IInv, CreationTypeOK', NEW j \in jobs,
         JobStep(j) \/ CreateTimesOut(j) \/ AskTimesOut(j)
  PROVE  Phone'
  <1>0. CreationTypeOK /\ Rows /\ Phone /\ jobs \subseteq JobRec
    BY DEF IInv, CreationTypeOK, JobRec, Pcs
  <1>a. Fits(j) /\ (\A i \in jobs : Fits(i)) /\ Single(jobs) /\ j \in JobRec
    BY <1>0 DEF Phone
  <1>b. \A t \in Trips : Collected[t] = "INSTALLED" <=> key[t] = "INSTALLED"
    BY <1>0, CollectedKeepsInstalled
  <1>c. ASSUME NEW pc \in Pcs
        PROVE  LET y == [j EXCEPT !.pc = pc] IN y.pc = pc /\ y.kind = j.kind /\ y.trip = j.trip
    BY <1>0, <1>c, MovedJobs
  <1>d. \A pc \in {"KEY", "WRAP", "FIRST", "SECOND", "DISCARD", "CLEAR", "CONFIRM",
                    "IMPORT", "ASK", "HYDRATE", "UNSURE"} : pc \in Pcs
    BY DEF Pcs
  (* Steps that send nothing and write nothing on the server.              *)
  <1>e. ASSUME UNCHANGED <<ends, wire, serving, trip>>, refused \subseteq refused'
        PROVE  /\ \A i \in jobs : /\ Unsent(i.trip) <=> Unsent(i.trip)'
                                  /\ trip[i.trip] # "NONE" <=> trip'[i.trip] # "NONE"
               /\ \A i \in jobs : Drawn(i.trip) <=> Drawn(i.trip)'
               /\ Drawn(record.trip) => ends'[record.trip] # 0
               /\ \A i \in jobs : Fits(i)'
    <2>1. \A i \in jobs : Unsent(i.trip) <=> Unsent(i.trip)'
      BY <1>e DEF Unsent
    <2>2. \A i \in jobs : Drawn(i.trip) <=> Drawn(i.trip)'
      BY <1>e DEF Drawn
    <2>3. \A i \in jobs : Fits(i)'
      BY <1>a, <1>e, <2>1, StaysFit DEF Alike
    <2>. QED
      BY <1>e, <2>1, <2>2, <2>3 DEF Drawn
  <1>f. ASSUME UNCHANGED <<ends, wire, serving, trip>>, refused \subseteq refused',
               Rejected({j}, jobs \ {j}), j.pc # "LIST"
        PROVE  /\ \A x \in jobs' : Fits(x)'
               /\ Single(jobs')
               /\ OnScreen' => OnScreen /\ shown' = shown
    BY <1>0, <1>a, <1>e, <1>f, RejectedFit
  <1>g. ASSUME UNCHANGED <<ends, wire, serving, trip>>, refused \subseteq refused',
               NEW pc \in Pcs, jobs' = Moved(j, pc), Fits([j EXCEPT !.pc = pc])'
        PROVE  (\A x \in jobs' : Fits(x)') /\ Single(jobs')
    BY <1>0, <1>a, <1>e, <1>g, MovedFit
  <1>h. ASSUME UNCHANGED <<ends, wire, serving, trip>>, refused \subseteq refused',
               jobs' = jobs \ {j}
        PROVE  (\A x \in jobs' : Fits(x)') /\ Single(jobs')
    BY <1>a, <1>e, <1>h DEF Single
  <1>1. CASE MakeKey(j)
    <2>1. Fits([j EXCEPT !.pc = "WRAP"])' /\ Unsent(j.trip) /\ j.trip \in Trips
      BY <1>1, <1>a, <1>c, <1>d, <1>e DEF MakeKey, serverVars, Fits, Drawn
    <2>2. (\A x \in jobs' : Fits(x)') /\ Single(jobs')
      BY <1>1, <1>d, <1>g, <2>1 DEF MakeKey, serverVars
    <2>3. key[j.trip] # "INSTALLED"
      BY <1>0, <2>1 DEF Phone, Unsent
    <2>4. \A t \in Trips : key'[t] = "INSTALLED" <=> key[t] = "INSTALLED"
      BY <1>0, <1>1, <1>b, <2>1, <2>3, CollectedType DEF MakeKey
    <2>. QED
      BY <1>0, <1>1, <2>2, <2>4 DEF MakeKey, serverVars, Phone, Drawn, OnScreen
  <1>2. CASE Wrap(j)
    <2>1. j.kind = "CREATE" /\ Drawn(j.trip)
      BY <1>2, <1>a DEF Wrap, Fits
    <2>2. \A i \in jobs \ {j} : Fits(i)'
      BY <1>2, <1>a, <2>1 DEF Wrap, serverVars, Fits, Single, Drawn, Unsent
    <2>3. Fits([j EXCEPT !.pc = "FIRST"])'
      BY <1>2, <1>c, <1>d, <2>1 DEF Wrap, Fits, Drawn
    <2>4. (\A x \in jobs' : Fits(x)') /\ Single(jobs')
      BY <1>0, <1>2, <1>a, <1>d, <2>2, <2>3, MovedJobs DEF Wrap
    <2>. QED
      BY <1>0, <1>2, <1>b, <2>4 DEF Wrap, serverVars, Phone, Drawn, OnScreen
  <1>3. CASE NativeFails(j)
    <2>1. Fits([j EXCEPT !.pc = "DISCARD"])'
      BY <1>3, <1>a, <1>c, <1>d, <1>e DEF NativeFails, serverVars, Fits
    <2>2. (\A x \in jobs' : Fits(x)') /\ Single(jobs')
      BY <1>3, <1>d, <1>g, <2>1 DEF NativeFails, serverVars
    <2>. QED
      BY <1>0, <1>3, <1>b, <2>2 DEF NativeFails, serverVars, Phone, Drawn, OnScreen
  <1>4. CASE CreateTimesOut(j)
    <2>1. j.kind = "CREATE" /\ Drawn(j.trip) /\ j.pc # "LIST"
      BY <1>4, <1>a DEF CreateTimesOut, Fits
    <2>2. /\ \A x \in jobs' : Fits(x)'
          /\ Single(jobs')
          /\ OnScreen' => OnScreen /\ shown' = shown
      <3>1. CASE j.pc = "FIRST"
        <4>1. /\ wire' = wire \cup {[trip |-> j.trip, copy |-> 2]}
              /\ jobs' = Moved(j, "SECOND") /\ UNCHANGED <<phase, shown>>
          BY <1>4, <3>1 DEF CreateTimesOut
        <4>2. \A i \in jobs \ {j} : Fits(i)'
          BY <1>4, <1>a, <2>1, <4>1 DEF CreateTimesOut, serverVars, Fits, Single, Drawn, Unsent
        <4>3. Fits([j EXCEPT !.pc = "SECOND"])'
          BY <1>4, <1>c, <1>d, <2>1 DEF CreateTimesOut, Fits, Drawn
        <4>. QED
          BY <1>0, <1>a, <1>d, <4>1, <4>2, <4>3, MovedJobs DEF OnScreen
      <3>2. CASE j.pc # "FIRST"
        BY <1>4, <1>f, <2>1, <3>2 DEF CreateTimesOut, serverVars
      <3>. QED
        BY <3>1, <3>2
    <2>. QED
      BY <1>0, <1>4, <2>2 DEF CreateTimesOut, serverVars, Phone, Drawn
  <1>5. CASE Discard(j)
    <2>1. UNCHANGED <<ends, wire, serving, trip, refused, record>> /\ j.trip \in Trips /\ j.pc = "DISCARD"
      BY <1>5, <1>a DEF Discard, serverVars, Fits, Drawn
    <2>2. Fits([j EXCEPT !.pc = "CLEAR"])'
      BY <1>a, <1>c, <1>d, <1>e, <2>1 DEF Fits
    <2>3. /\ \A x \in jobs' : Fits(x)'
          /\ Single(jobs')
          /\ OnScreen' => OnScreen /\ shown' = shown
      BY <1>5, <1>d, <1>f, <1>g, <2>1, <2>2 DEF Discard, OnScreen
    <2>4. \A t \in Trips : key'[t] = "INSTALLED" <=> key[t] = "INSTALLED"
      BY <1>0, <1>5, <1>b, <2>1, CollectedType DEF Discard
    <2>. QED
      BY <1>0, <2>1, <2>3, <2>4 DEF Phone, Drawn
  <1>6. CASE Clear(j)
    <2>1. UNCHANGED <<ends, wire, serving, trip, refused, key>> /\ j.pc = "CLEAR" /\ record' = NoRecord
      BY <1>6 DEF Clear, serverVars
    <2>2. /\ \A x \in jobs' : Fits(x)'
          /\ Single(jobs')
          /\ OnScreen' => OnScreen /\ shown' = shown
      BY <1>6, <1>f, <1>h, <2>1 DEF Clear, Publish, OnScreen
    <2>. QED
      BY <1>0, <2>1, <2>2 DEF Phone, NoRecord
  <1>7. CASE Confirm(j)
    <2>1. Fits([j EXCEPT !.pc = "IMPORT"])'
      BY <1>7, <1>a, <1>c, <1>d, <1>e DEF Confirm, serverVars, Fits
    <2>2. (\A x \in jobs' : Fits(x)') /\ Single(jobs')
      BY <1>7, <1>d, <1>g, <2>1 DEF Confirm, serverVars
    <2>. QED
      BY <1>0, <1>7, <2>2 DEF Confirm, serverVars, Phone, OnScreen
  <1>8. ASSUME UNCHANGED <<ends, wire, serving, trip, refused>>, j.pc \in {"IMPORT", "HYDRATE"},
               record' = record, key' \in {key, Collected, Imported(j.trip)},
               \/ /\ jobs' = jobs \ {j} /\ key'[j.trip] = "INSTALLED"
                  /\ Publish(j, "TRIP", j.trip) \/ Publish(j, "ACTIVATION_FAILED", j.trip)
               \/ Rejected({j}, jobs \ {j})
        PROVE  Phone'
    <2>1. j.trip \in Trips /\ trip[j.trip] # "NONE"
      BY <1>8, <1>a DEF Fits, Drawn
    <2>2. \A t \in Trips : /\ key[t] = "INSTALLED" => key'[t] = "INSTALLED"
                           /\ key'[t] = "INSTALLED" => key[t] = "INSTALLED" \/ t = j.trip
      BY <1>0, <1>8, <1>b, <2>1, ImportedType
    <2>3. CASE /\ jobs' = jobs \ {j} /\ key'[j.trip] = "INSTALLED"
               /\ Publish(j, "TRIP", j.trip) \/ Publish(j, "ACTIVATION_FAILED", j.trip)
      <3>1. (\A x \in jobs' : Fits(x)') /\ Single(jobs')
        BY <1>8, <1>h, <2>3
      <3>2. OnScreen' => (OnScreen /\ shown' = shown) \/ shown' = j.trip
        BY <2>3 DEF Publish, OnScreen
      <3>. QED
        BY <1>0, <1>8, <2>1, <2>2, <2>3, <3>1, <3>2 DEF Phone, Drawn
    <2>4. CASE Rejected({j}, jobs \ {j})
      <3>1. /\ \A x \in jobs' : Fits(x)'
            /\ Single(jobs')
            /\ OnScreen' => OnScreen /\ shown' = shown
        BY <1>8, <1>f, <2>4
      <3>. QED
        BY <1>0, <1>8, <2>1, <2>2, <3>1 DEF Phone, Drawn
    <2>. QED
      BY <1>8, <2>3, <2>4
  <1>i. j.trip \in Trips => Imported(j.trip)[j.trip] = "INSTALLED"
    BY <1>0, ImportedType
  <1>9. CASE Import(j)
    <2>1. /\ UNCHANGED <<ends, wire, serving, trip, refused, record>> /\ j.pc = "IMPORT"
          /\ j.trip \in Trips
      BY <1>9, <1>a DEF Import, serverVars, Fits, Drawn
    <2>2. \/ /\ key' = Imported(j.trip) /\ jobs' = jobs \ {j}
             /\ Publish(j, "TRIP", j.trip)
          \/ key' \in {key, Collected} /\ Rejected({j}, jobs \ {j})
      BY <1>9 DEF Import
    <2>. QED
      BY <1>8, <1>i, <2>1, <2>2
  <1>10. CASE Hydrate(j)
    <2>1. /\ UNCHANGED <<ends, wire, serving, trip, refused, record>> /\ j.pc = "HYDRATE"
          /\ j.trip \in Trips
      BY <1>10, <1>a DEF Hydrate, serverVars, Fits, Drawn
    <2>2. \/ /\ key' = Imported(j.trip) /\ jobs' = jobs \ {j}
             /\ Publish(j, "TRIP", j.trip)
          \/ /\ trip[j.trip] = "STARTED" /\ key' \in {key, Collected, Imported(j.trip)}
             /\ jobs' = jobs \ {j}
             /\ Publish(j, "ACTIVATION_FAILED", j.trip)
          \/ key' \in {key, Collected} /\ Rejected({j}, jobs \ {j})
      BY <1>10 DEF Hydrate
    <2>3. trip[j.trip] = "STARTED" => key[j.trip] = "INSTALLED"
      BY <2>1 DEF IInv, Keyed
    <2>. QED
      BY <1>8, <1>b, <1>i, <2>1, <2>2, <2>3
  <1>11. CASE Ask(j)
    <2>1. /\ UNCHANGED <<ends, wire, serving, trip, key, record>> /\ refused \subseteq refused'
          /\ j.pc = "ASK" /\ Drawn(j.trip) /\ Resolve(j.trip)
      BY <1>11, <1>a DEF Ask, Resolve, Fits
    <2>2. /\ \A x \in jobs' : Fits(x)'
          /\ Single(jobs')
          /\ OnScreen' => OnScreen /\ shown' = shown
      <3>1. CASE jobs' = jobs \ {j} /\ Publish(j, "UNKNOWN", None)
        BY <1>h, <2>1, <3>1 DEF Publish, OnScreen
      <3>2. CASE Rejected({j}, jobs \ {j})
        BY <1>f, <2>1, <3>2
      <3>3. CASE /\ Answer(j.trip) = "TERMINAL_NOT_COMMITTED"
                 /\ jobs' = Moved(j, "DISCARD") /\ UNCHANGED <<phase, shown>>
        <4>1. j.trip \in refused'
          BY <2>1, <3>3 DEF Resolve
        <4>2. Fits([j EXCEPT !.pc = "DISCARD"])'
          BY <1>c, <1>d, <1>e, <2>1, <4>1 DEF Fits
        <4>. QED
          BY <1>d, <1>g, <2>1, <3>3, <4>2 DEF OnScreen
      <3>4. CASE /\ Answer(j.trip) = "COMMITTED"
                 /\ jobs' = Moved(j, "CONFIRM") /\ UNCHANGED <<phase, shown>>
        <4>1. trip'[j.trip] # "NONE"
          BY <2>1, <3>4 DEF Answer, Open
        <4>2. Fits([j EXCEPT !.pc = "CONFIRM"])'
          BY <1>c, <1>d, <1>e, <2>1, <4>1 DEF Fits
        <4>. QED
          BY <1>d, <1>g, <2>1, <3>4, <4>2 DEF OnScreen
      <3>. QED
        BY <1>11, <3>1, <3>2, <3>3, <3>4 DEF Ask
    <2>. QED
      BY <1>0, <2>1, <2>2 DEF Phone, Drawn
  <1>12. CASE AskTimesOut(j)
    <2>1. /\ UNCHANGED <<ends, wire, serving, trip, refused, key, record>> /\ j.pc # "LIST"
          /\ Rejected({j}, jobs \ {j})
      BY <1>12 DEF AskTimesOut, serverVars
    <2>2. /\ \A x \in jobs' : Fits(x)'
          /\ Single(jobs')
          /\ OnScreen' => OnScreen /\ shown' = shown
      BY <1>f, <2>1
    <2>. QED
      BY <1>0, <2>1, <2>2 DEF Phone, Drawn
  <1>13. CASE List(j)
    <2>. DEFINE left == jobs \ {j}
                hydrate == [t \in Trips |-> [j EXCEPT !.pc = "HYDRATE", !.trip = t]]
    <2>1. /\ UNCHANGED <<ends, wire, serving, trip, refused, key>>
          /\ j.pc = "LIST" /\ j.kind = "LIST" /\ record' \in {record, NoRecord}
      BY <1>13, <1>a DEF List, serverVars, Fits
    <2>2. PICK others : /\ others = left \/ others = Fenced(left)
                        /\ \/ jobs' = others /\ Publish(j, "NO_TRIP", None)
                           \/ \E t \in Trips : /\ Open(t)
                                               /\ jobs' = others \cup {hydrate[t]}
                                               /\ UNCHANGED <<phase, shown>>
      BY <1>13 DEF List
    <2>3. Single(left) /\ left \subseteq JobRec /\ left \subseteq jobs
      BY <1>0, <1>a DEF Single
    <2>4. (\A x \in others : \E i \in left : Alike(x, i)) /\ Single(others)
      <3>1. CASE others = left
        BY <2>3, <3>1 DEF Alike
      <3>2. CASE others = Fenced(left)
        <4>. HIDE DEF left
        <4>. QED
          BY <2>3, <3>2, FlagsOnly
      <3>. QED
        BY <2>2, <3>1, <3>2
    <2>5. \A x \in others : Fits(x)'
      BY <1>a, <1>e, <2>1, <2>3, <2>4, StaysFit
    <2>6. ASSUME NEW t \in Trips, Open(t)
          PROVE  Fits(hydrate[t])' /\ hydrate[t].kind = "LIST"
      <3>1. hydrate[t].kind = "LIST" /\ hydrate[t].pc = "HYDRATE" /\ hydrate[t].trip = t
        BY <1>a, <2>1 DEF JobRec
      <3>2. Drawn(t)' /\ trip'[t] # "NONE"
        BY <1>0, <2>1, <2>6 DEF Rows, Drawn, Open
      <3>. HIDE DEF hydrate
      <3>. QED
        BY <3>1, <3>2 DEF Fits
    <2>7. /\ \A x \in jobs' : Fits(x)'
          /\ Single(jobs')
          /\ OnScreen' => OnScreen /\ shown' = shown
      <3>. HIDE DEF hydrate
      <3>. QED
        BY <2>2, <2>4, <2>5, <2>6 DEF Single, Publish, OnScreen
    <2>. QED
      BY <1>0, <2>1, <2>7 DEF Phone, Drawn, NoRecord
  <1>. QED
    BY <1>1, <1>2, <1>3, <1>4, <1>5, <1>6, <1>7, <1>9, <1>10, <1>11, <1>12, <1>13 DEF JobStep

(* A launch leaves the phone's invariant.                                  *)
LEMMA LaunchedFit ==
  ASSUME NEW saved, NEW js, js \subseteq JobRec, \A i \in js : Fits(i), Single(js),
         Launched(saved, js), saved.state = "UNKNOWN_CREATE" => Drawn(saved.trip),
         UNCHANGED <<ends, wire, serving, trip, refused>>
  PROVE  (\A x \in jobs' : Fits(x)') /\ Single(jobs') /\ ~OnScreen'
  <1>1. (\A x \in Overtaken(js) : \E i \in js : Alike(x, i)) /\ Single(Overtaken(js))
    BY FlagsOnly
  <1>2. \A x \in Overtaken(js) : Fits(x)'
    <2>1. \A i \in js : Fits(i)'
      BY DEF Fits, Drawn, Unsent
    <2>. QED
      BY <1>1, <2>1 DEF Alike, Fits
  <1>3. PICK y : /\ jobs' = Overtaken(js) \cup {y}
                 /\ y = IF saved.state = "UNKNOWN_CREATE"
                        THEN Job("RESOLVE", "ASK", saved.trip) ELSE Job("LIST", "LIST", None)
    BY DEF Launched
  <1>4. Fits(y)' /\ y.kind # "CREATE"
    BY <1>3 DEF Job, Fits, Drawn
  <1>5. Single(jobs')
    BY <1>1, <1>3, <1>4 DEF Single
  <1>. QED
    BY <1>2, <1>3, <1>4, <1>5 DEF Launched, OnScreen

(* The user's steps, the screen's and the operating system's leave it too. *)
LEMMA AppPhone ==
  ASSUME IInv,
         \/ \E t \in Trips, e \in 1..limit.time : Press(t, e)
         \/ Launch \/ Refresh \/ Kill
         \/ PressStart \/ Poll \/ Republish
  PROVE  Phone'
  <1>0. CreationTypeOK /\ Rows /\ Phone /\ jobs \subseteq JobRec
    BY DEF IInv, CreationTypeOK, JobRec, Pcs
  <1>1. ASSUME NEW t \in Trips, NEW e \in 1..limit.time, Press(t, e) PROVE Phone'
    <2>1. /\ ends[t] = 0 /\ ends' = [ends EXCEPT ![t] = e] /\ e # 0
          /\ jobs' = Dismissed(jobs) \cup {Job("CREATE", "KEY", t)}
          /\ UNCHANGED <<trip, wire, serving, refused, key>>
          /\ record'.state = "UNKNOWN_CREATE" /\ record'.trip = t /\ phase' = "NO_TRIP"
      BY <1>0, <1>1 DEF Press, serverVars, CreationTypeOK
    <2>2. Unsent(t) /\ \A i \in jobs : i.kind = "CREATE" => i.trip # t
      BY <1>0, <2>1 DEF Rows, Phone, Fits, Drawn, Unsent
    <2>3. \A u : Drawn(u) => Drawn(u)'
      BY <1>0, <2>1 DEF Drawn, CreationTypeOK
    <2>4. (\A x \in Dismissed(jobs) : \E i \in jobs : Alike(x, i)) /\ Single(Dismissed(jobs))
      BY <1>0, FlagsOnly DEF Phone
    <2>5. \A i \in jobs : Fits(i)'
      BY <1>0, <2>1, <2>3 DEF Phone, Fits, Unsent, Drawn
    <2>6. \A x \in Dismissed(jobs) : Fits(x)'
      BY <2>4, <2>5 DEF Alike, Fits
    <2>. DEFINE y == Job("CREATE", "KEY", t)
    <2>7. y.kind = "CREATE" /\ y.pc = "KEY" /\ y.trip = t
      BY DEF Job
    <2>. HIDE DEF y
    <2>8. Drawn(t)' /\ Unsent(t)'
      BY <1>0, <2>1, <2>2 DEF Drawn, Unsent, CreationTypeOK
    <2>9. Fits(y)'
      BY <2>7, <2>8 DEF Fits
    <2>10. jobs' = Dismissed(jobs) \cup {y}
      BY <2>1 DEF y
    <2>11. Single(jobs')
      BY <2>2, <2>4, <2>7, <2>10 DEF Single, Alike
    <2>. QED
      BY <1>0, <2>1, <2>6, <2>8, <2>9, <2>10, <2>11 DEF Phone, OnScreen
  <1>2. CASE Launch
    <2>1. UNCHANGED <<ends, wire, serving, trip, refused, key, record>> /\ Launched(record, jobs)
      BY <1>2 DEF Launch, serverVars
    <2>2. (\A x \in jobs' : Fits(x)') /\ Single(jobs') /\ ~OnScreen'
      BY <1>0, <2>1, LaunchedFit DEF Phone
    <2>. QED
      BY <1>0, <2>1, <2>2 DEF Phone, Drawn
  <1>3. CASE Refresh
    <2>. DEFINE left == IF record = [state |-> "CONFIRMED", trip |-> shown]
                        THEN NoRecord ELSE record
    <2>1. /\ UNCHANGED <<ends, wire, serving, trip, refused, key>>
          /\ record' = left /\ Launched(left, Fenced(jobs))
      BY <1>3 DEF Refresh, serverVars
    <2>2. left.state = "UNKNOWN_CREATE" => Drawn(left.trip)
      BY <1>0 DEF Phone, NoRecord
    <2>3. Fenced(jobs) \subseteq JobRec /\ Single(Fenced(jobs))
      BY <1>0, FlagsOnly DEF Phone
    <2>4. \A x \in Fenced(jobs) : Fits(x)
      <3>1. \A x \in Fenced(jobs) : \E i \in jobs : Alike(x, i)
        BY <1>0, FlagsOnly
      <3>. QED
        BY <1>0, <3>1 DEF Phone, Alike, Fits
    <2>. HIDE DEF left
    <2>5. (\A x \in jobs' : Fits(x)') /\ Single(jobs') /\ ~OnScreen'
      BY <2>1, <2>2, <2>3, <2>4, LaunchedFit
    <2>. QED
      BY <1>0, <2>1, <2>2, <2>5 DEF Phone, Drawn
  <1>4. CASE Kill
    BY <1>0, <1>4 DEF Kill, serverVars, Phone, Single, Drawn, OnScreen
  <1>5. CASE PressStart \/ Poll \/ Republish
    <2>1. /\ UNCHANGED <<ends, wire, serving, trip, refused, record, jobs, shown>>
          /\ OnScreen
          /\ key' \in {key, Collected, Imported(shown)}
      BY <1>5 DEF PressStart, Poll, Republish, serverVars, phoneVars, OnScreen
    <2>2. shown \in Trips /\ key[shown] = "INSTALLED"
      BY <1>0, <2>1 DEF Phone
    <2>3. \A t \in Trips : key'[t] = "INSTALLED" <=> key[t] = "INSTALLED"
      BY <1>0, <2>1, <2>2, CollectedKeepsInstalled, ImportedType
    <2>4. \A x \in jobs : Fits(x)'
      BY <1>0, <2>1 DEF Phone, Fits, Drawn, Unsent
    <2>. QED
      BY <1>0, <2>1, <2>2, <2>3, <2>4 DEF Phone, Drawn, Single
  <1>. QED
    BY <1>1, <1>2, <1>3, <1>4, <1>5

-----------------------------------------------------------------------------
(* The invariant, and what follows from it.                                *)

(* No step takes an installed key away: only provisional ones are          *)
(* collected or discarded.                                                 *)
LEMMA InstalledStays ==
  ASSUME IInv, [CreationNext]_creationVars, NEW t \in Trips, key[t] = "INSTALLED"
  PROVE  key'[t] = "INSTALLED"
  <1>0. CreationTypeOK /\ Phone /\ Collected[t] = "INSTALLED"
    BY CollectedKeepsInstalled DEF IInv
  <1>1. CASE key' \in {key, Collected}
    BY <1>0, <1>1
  <1>2. ASSUME NEW u \in Trips, key' = Imported(u) PROVE key'[t] = "INSTALLED"
    BY <1>0, <1>2, ImportedType
  <1>3. ASSUME NEW j \in jobs, MakeKey(j) PROVE key'[t] = "INSTALLED"
    <2>1. j.trip # t
      BY <1>0, <1>3 DEF MakeKey, Phone, Fits, Unsent
    <2>. QED
      BY <1>0, <1>3, <2>1, CollectedType DEF MakeKey
  <1>4. ASSUME NEW j \in jobs, Discard(j) PROVE key'[t] = "INSTALLED"
    BY <1>0, <1>4, CollectedType DEF Discard
  <1>5. ASSUME NEW j \in jobs, Import(j) \/ Hydrate(j) PROVE key'[t] = "INSTALLED"
    <2>1. j.trip \in Trips
      BY <1>0, <1>5 DEF Import, Hydrate, Phone, Fits, Drawn
    <2>2. key' \in {key, Collected, Imported(j.trip)}
      BY <1>5 DEF Import, Hydrate
    <2>. QED
      BY <1>1, <1>2, <2>1, <2>2
  <1>6. ASSUME NEW j \in jobs, JobStep(j) \/ CreateTimesOut(j) \/ AskTimesOut(j)
        PROVE  key'[t] = "INSTALLED"
    <2>1. CASE Wrap(j) \/ NativeFails(j) \/ Clear(j) \/ Confirm(j) \/ Ask(j) \/ List(j)
               \/ CreateTimesOut(j) \/ AskTimesOut(j)
      <3>1. key' \in {key, Collected}
        BY <2>1 DEF Wrap, NativeFails, Clear, Confirm, Ask, List, CreateTimesOut, AskTimesOut
      <3>. QED
        BY <1>1, <3>1
    <2>. QED
      BY <1>3, <1>4, <1>5, <1>6, <2>1 DEF JobStep
  <1>7. CASE Poll
    <2>1. shown \in Trips /\ key' \in {Collected, Imported(shown)}
      BY <1>0, <1>7 DEF Poll, Phone
    <2>. QED
      BY <1>1, <1>2, <2>1
  <1>8. CASE UNCHANGED key \/ CollectExpired
    BY <1>1, <1>8 DEF CollectExpired
  <1>9. CASE \/ ServerStep \/ UNCHANGED creationVars
             \/ \E s \in serving : CreateAborts(s)
             \/ \E u \in Trips : \/ LateResolve(u) \/ StartTrip(u) \/ TripEnds(u)
                                 \/ \E e \in 1..limit.time : Press(u, e)
             \/ PressStart \/ Republish \/ Launch \/ Refresh \/ Kill \/ Tick
    <2>1. UNCHANGED key
      BY <1>9 DEF ServerStep, CreateBegins, CreateCommits, CreateAborts, LateResolve,
         StartTrip, TripEnds, Press, PressStart, Republish, Launch, Refresh, Kill, Tick,
         creationVars, phoneVars
    <2>. QED
      BY <1>8, <2>1
  <1>. QED
    BY <1>6, <1>7, <1>8, <1>9 DEF CreationNext

(* So the trip whose Start the phone sent keeps its key.                   *)
LEMMA KeyedStep == ASSUME IInv, [CreationNext]_creationVars PROVE Keyed'
  <1>0. CreationTypeOK /\ Phone /\ Keyed
    BY DEF IInv
  <1>. SUFFICES ASSUME NEW t \in Trips, t \in starts' \/ trip'[t] = "STARTED"
                PROVE  key[t] = "INSTALLED"
    BY InstalledStays DEF Keyed
  <1>1. CASE t \in starts \/ trip[t] = "STARTED"
    BY <1>0, <1>1 DEF Keyed
  <1>2. CASE PressStart
    <2>1. CASE t \in starts \/ trip[t] = "STARTED"
      BY <1>1, <2>1
    <2>2. CASE t = shown
      BY <1>0, <1>2, <2>2 DEF PressStart, OnScreen, Phone
    <2>. QED
      BY <1>2, <2>1, <2>2 DEF PressStart
  <1>3. ASSUME NEW u \in Trips, StartTrip(u) PROVE t \in starts \/ trip[t] = "STARTED"
    BY <1>0, <1>3 DEF StartTrip, CreationTypeOK
  <1>4. ASSUME NEW u \in Trips, TripEnds(u) PROVE t \in starts \/ trip[t] = "STARTED"
    BY <1>0, <1>4 DEF TripEnds, CreationTypeOK
  <1>5. ASSUME NEW s \in serving, CreateCommits(s) PROVE t \in starts \/ trip[t] = "STARTED"
    <2>1. s.trip \in Trips
      BY <1>0 DEF CreationTypeOK
    <2>. QED
      BY <1>0, <1>5, <2>1 DEF CreateCommits, CreationTypeOK
  <1>6. CASE UNCHANGED <<starts, trip>>
    BY <1>1, <1>6
  <1>7. ASSUME NEW j \in jobs, JobStep(j) \/ CreateTimesOut(j) \/ AskTimesOut(j)
        PROVE  UNCHANGED <<starts, trip>>
    BY <1>7 DEF JobStep, serverVars, MakeKey, Wrap, NativeFails, Discard, Clear, Confirm,
       Import, Ask, List, Hydrate, CreateTimesOut, AskTimesOut
  <1>8. CASE \/ UNCHANGED creationVars \/ Launch \/ Refresh \/ CollectExpired \/ Kill \/ Tick
             \/ Poll \/ Republish
             \/ \E r \in wire : CreateBegins(r)
             \/ \E s \in serving : CreateAborts(s)
             \/ \E u \in Trips : \/ LateResolve(u)
                                 \/ \E e \in 1..limit.time : Press(u, e)
    <2>1. UNCHANGED <<starts, trip>>
      BY <1>8 DEF creationVars, serverVars, Launch, Refresh, CollectExpired, Kill, Tick, Poll,
         Republish, CreateBegins, CreateAborts, LateResolve, Press
    <2>. QED
      BY <1>6, <2>1
  <1>. QED
    BY <1>1, <1>2, <1>3, <1>4, <1>5, <1>6, <1>7, <1>8 DEF CreationNext, ServerStep

(* The invariant holds initially.                                          *)
LEMMA InitIInv == ASSUME CreationInit PROVE IInv
  <1>1. Rows
    BY CreationAssumption DEF CreationInit, Rows, NoCommand
  <1>2. Phone
    BY CreationAssumption DEF CreationInit, Phone, Single, NoRecord, OnScreen
  <1>3. Keyed
    BY DEF CreationInit, Keyed
  <1>. QED
    BY <1>1, <1>2, <1>3, InitType DEF IInv

(* Every step keeps it.                                                    *)
LEMMA StepIInv == ASSUME IInv, [CreationNext]_creationVars PROVE IInv'
  <1>1. CreationTypeOK' /\ Rows' /\ Keyed'
    BY TypeStep, RowsStep, KeyedStep
  <1>2. CASE UNCHANGED creationVars
    <2>1. \A x \in jobs : Fits(x)'
      BY <1>2 DEF creationVars, serverVars, phoneVars, IInv, Phone, Fits, Drawn, Unsent
    <2>. QED
      BY <1>1, <1>2, <2>1 DEF creationVars, serverVars, phoneVars, IInv, Phone, Drawn, OnScreen
  <1>. QED
    BY <1>1, <1>2, ServerPhone, JobPhone, AppPhone DEF CreationNext, IInv

(* It is an invariant of the phone and the server together.                *)
LEMMA CreationInductive == CreationSpec => []IInv
  BY InitIInv, StepIInv, PTL DEF CreationSpec

(* Type correctness of the phone's and the server's variables, one create  *)
(* transaction at a time for each command included.                        *)
THEOREM CreationTypeCorrect == CreationSpec => []CreationTypeOK
  <1>1. IInv => CreationTypeOK
    BY DEF IInv
  <1>. QED
    BY <1>1, CreationInductive, PTL

(* Whichever workflow publishes a trip on the screen (hydrateTrip,         *)
(* finishCommitted, activateObserved), after whatever crash, expiry or     *)
(* failed import, its key is installed: a trip that is shown although its  *)
(* import failed was started from a screen that had its key (Keyed), and   *)
(* no step takes an installed key away (InstalledStays).                   *)
THEOREM ShownTripAlwaysHasKey == CreationSpec => []ShownTripHasKey
  <1>1. IInv => ShownTripHasKey
    BY DEF IInv, Phone, ShownTripHasKey
  <1>. QED
    BY <1>1, CreationInductive, PTL

(* cleanLocalAttempt erases a provisional key only when the server can no  *)
(* longer create its trip.                                                 *)
THEOREM KeysDiscardedWhenDecided == CreationSpec => DiscardOnlyWhenDecided
  <1>1. ASSUME IInv, [CreationNext]_creationVars, NEW t \in Trips,
               key[t] = "PROVISIONAL", key'[t] = "NONE", ~Expired(t)
        PROVE  t \in refused \/ Unsent(t)
    <2>0. CreationTypeOK /\ Phone /\ Collected[t] = "PROVISIONAL"
      BY <1>1, CollectedType DEF IInv
    <2>1. ASSUME key' \in {key, Collected} \/ \E u \in Trips : key' = Imported(u) PROVE FALSE
      BY <1>1, <2>0, <2>1, ImportedType
    <2>2. PICK j \in jobs : Discard(j) /\ j.trip = t
      <3>1. ASSUME NEW j \in jobs, JobStep(j) \/ CreateTimesOut(j) \/ AskTimesOut(j)
            PROVE  Discard(j) /\ j.trip = t
        <4>1. CASE Import(j) \/ Hydrate(j)
          <5>1. j.trip \in Trips
            BY <2>0, <4>1 DEF Import, Hydrate, Phone, Fits, Drawn
          <5>2. key' \in {key, Collected, Imported(j.trip)}
            BY <4>1 DEF Import, Hydrate
          <5>. QED
            BY <2>1, <5>1, <5>2
        <4>2. CASE Wrap(j) \/ NativeFails(j) \/ Clear(j) \/ Confirm(j) \/ Ask(j) \/ List(j)
                   \/ CreateTimesOut(j) \/ AskTimesOut(j)
          <5>1. key' \in {key, Collected}
            BY <4>2 DEF Wrap, NativeFails, Clear, Confirm, Ask, List, CreateTimesOut, AskTimesOut
          <5>. QED
            BY <2>1, <5>1
        <4>3. CASE MakeKey(j) \/ Discard(j)
          BY <1>1, <2>0, <4>3, CollectedType DEF MakeKey, Discard
        <4>. QED
          BY <3>1, <4>1, <4>2, <4>3 DEF JobStep
      <3>2. CASE Poll
        <4>1. shown \in Trips /\ key' \in {Collected, Imported(shown)}
          BY <2>0, <3>2 DEF Poll, Phone
        <4>. QED
          BY <2>1, <4>1
      <3>3. \/ \E j \in jobs : JobStep(j) \/ CreateTimesOut(j) \/ AskTimesOut(j)
            \/ Poll
        BY <1>1, <2>0 DEF CreationNext, creationVars, phoneVars, ServerStep, CreateBegins,
           CreateCommits, CreateAborts, LateResolve, StartTrip, TripEnds, Press, PressStart,
           Republish, Launch, Refresh, CollectExpired, Kill, Tick
      <3>. QED
        BY <3>1, <3>2, <3>3
    <2>. QED
      BY <2>0, <2>2 DEF Discard, Phone, Fits
  <1>2. IInv /\ [CreationNext]_creationVars =>
          [\A t \in Trips :
             key[t] = "PROVISIONAL" /\ key'[t] = "NONE" /\ ~Expired(t) =>
               \/ t \in refused
               \/ trip[t] = "NONE" /\ \A r \in wire \cup serving : r.trip # t]_creationVars
    BY <1>1 DEF Unsent
  <1>. QED
    BY <1>2, CreationInductive, PTL DEF CreationSpec, DiscardOnlyWhenDecided

-----------------------------------------------------------------------------
(* The idempotency record implements CreateOutcome.                        *)

(* A trip leaves OPEN in one of two ways, or the outcomes are unchanged.   *)
LEMMA OutcomeMoves ==
  ASSUME NEW t \in Trips,
         \A u \in Trips : u # t => trip'[u] = trip[u],
         refused' \in {refused, refused \cup {t}},
         \/ trip[t] = "NONE" /\ t \notin refused
         \/ trip[t] = "NONE" /\ trip'[t] = "NONE" /\ t \in refused'
         \/ trip[t] # "NONE" /\ trip'[t] # "NONE"
  PROVE  Outcome!Next \/ outcome' = outcome
  <1>0. ASSUME NEW u \in Trips
        PROVE  /\ outcome[u] = IF trip[u] # "NONE" THEN "CREATED"
                               ELSE IF u \in refused THEN "REFUSED" ELSE "OPEN"
               /\ outcome'[u] = IF trip'[u] # "NONE" THEN "CREATED"
                                ELSE IF u \in refused' THEN "REFUSED" ELSE "OPEN"
    BY DEF outcome
  <1>1. ASSUME NEW u \in Trips, u # t PROVE outcome'[u] = outcome[u]
    BY <1>0, <1>1
  <1>2. outcome[t] = outcome'[t] \/ (outcome[t] = "OPEN" /\ outcome'[t] \in {"CREATED", "REFUSED"})
    BY <1>0
  <1>3. CASE outcome[t] = outcome'[t]
    <2>1. outcome' = [u \in Trips |-> outcome'[u]] /\ outcome = [u \in Trips |-> outcome[u]]
      BY DEF outcome
    <2>. QED
      BY <1>1, <1>3, <2>1
  <1>4. CASE outcome[t] = "OPEN" /\ outcome'[t] \in {"CREATED", "REFUSED"}
    <2>1. outcome' = [outcome EXCEPT ![t] = outcome'[t]]
      BY <1>1 DEF outcome
    <2>. QED
      BY <1>4, <2>1 DEF Outcome!Next, Outcome!Create, Outcome!Refuse
  <1>. QED
    BY <1>2, <1>3, <1>4

(* Every step is a step of CreateOutcome or none it can see.               *)
LEMMA StepOutcome ==
  ASSUME IInv, [CreationNext]_creationVars PROVE Outcome!Next \/ outcome' = outcome
  <1>0. CreationTypeOK /\ Rows /\ \A j \in jobs : Fits(j)
    BY DEF IInv, Phone
  <1>1. CASE UNCHANGED <<trip, refused>>
    BY <1>1 DEF outcome
  <1>2. ASSUME NEW s \in serving, CreateCommits(s) PROVE Outcome!Next \/ outcome' = outcome
    <2>. DEFINE t == s.trip
    <2>1. t \in Trips /\ refused' = refused
      BY <1>0, <1>2 DEF CreationTypeOK, CreateCommits
    <2>2. CASE Creates(t, s.began)
      <3>1. trip' = [trip EXCEPT ![t] = "LOBBY"] /\ trip[t] = "NONE"
        BY <1>2, <2>2 DEF CreateCommits, Creates
      <3>2. t \notin refused
        <4>1. ends[t] \in Nat /\ command[t].expires \in Nat /\ s.began \in Nat
          BY <1>0, <2>1, LimitType DEF CreationTypeOK
        <4>. QED
          BY <1>0, <2>1, <2>2, <3>1, <4>1 DEF Rows, Creates, Live, InWindow
      <3>. QED
        BY <1>0, <2>1, <3>1, <3>2, OutcomeMoves DEF CreationTypeOK
    <2>3. CASE ~Creates(t, s.began)
      BY <1>1, <1>2, <2>1, <2>3 DEF CreateCommits
    <2>. QED
      BY <2>2, <2>3
  <1>3. ASSUME NEW t \in Trips, StartTrip(t) \/ TripEnds(t)
        PROVE  Outcome!Next \/ outcome' = outcome
    BY <1>0, <1>3, OutcomeMoves DEF StartTrip, TripEnds, Open, CreationTypeOK
  <1>4. ASSUME NEW t \in Trips, Resolve(t), trip' = trip PROVE Outcome!Next \/ outcome' = outcome
    BY <1>4, OutcomeMoves DEF Resolve
  <1>5. ASSUME NEW t \in Trips, LateResolve(t) PROVE Outcome!Next \/ outcome' = outcome
    BY <1>4, <1>5 DEF LateResolve
  <1>6. ASSUME NEW j \in jobs, Ask(j) PROVE Outcome!Next \/ outcome' = outcome
    BY <1>0, <1>4, <1>6 DEF Ask, Fits, Drawn
  <1>7. ASSUME \/ UNCHANGED creationVars \/ Launch \/ Refresh \/ CollectExpired \/ Kill \/ Tick
               \/ PressStart \/ Poll \/ Republish
               \/ \E r \in wire : CreateBegins(r)
               \/ \E s \in serving : CreateAborts(s)
               \/ \E t \in Trips, e \in 1..limit.time : Press(t, e)
               \/ \E j \in jobs : MakeKey(j) \/ Wrap(j) \/ NativeFails(j) \/ Discard(j) \/ Clear(j)
                                 \/ Confirm(j) \/ Import(j) \/ List(j) \/ Hydrate(j)
                                 \/ CreateTimesOut(j) \/ AskTimesOut(j)
        PROVE  UNCHANGED <<trip, refused>>
    <2>1. CASE \/ UNCHANGED creationVars \/ Launch \/ Refresh \/ CollectExpired \/ Kill \/ Tick
               \/ PressStart \/ Poll \/ Republish
               \/ \E r \in wire : CreateBegins(r)
               \/ \E s \in serving : CreateAborts(s)
               \/ \E t \in Trips, e \in 1..limit.time : Press(t, e)
      BY <2>1 DEF creationVars, serverVars, Launch, Refresh, CollectExpired, Kill, Tick,
         PressStart, Poll, Republish, CreateBegins, CreateAborts, Press
    <2>2. ASSUME NEW j \in jobs,
                 \/ MakeKey(j) \/ Wrap(j) \/ NativeFails(j) \/ Discard(j) \/ Clear(j)
                 \/ Confirm(j) \/ Import(j) \/ List(j) \/ Hydrate(j)
                 \/ CreateTimesOut(j) \/ AskTimesOut(j)
          PROVE  UNCHANGED <<trip, refused>>
      BY <2>2 DEF serverVars, MakeKey, Wrap, NativeFails, Discard, Clear, Confirm, Import,
         List, Hydrate, CreateTimesOut, AskTimesOut
    <2>. QED
      BY <1>7, <2>1, <2>2
  <1>. QED
    BY <1>1, <1>2, <1>3, <1>5, <1>6, <1>7 DEF CreationNext, ServerStep, JobStep

(* Once resolveCreateTripOutcome has answered TERMINAL_NOT_COMMITTED, no   *)
(* copy of the request creates the trip, though the refusal expires: its   *)
(* 21 days outlast any window the request could be in (CreationAssumption).*)
THEOREM CreationHasOneOutcome == CreationSpec => OneOutcome
  <1>1. CreationInit => Outcome!Init
    BY DEF CreationInit, Outcome!Init, outcome
  <1>2. IInv /\ [CreationNext]_creationVars => [Outcome!Next]_outcome
    BY StepOutcome
  <1>. QED
    BY <1>1, <1>2, CreationInductive, PTL DEF CreationSpec, Outcome!Spec, OneOutcome
=============================================================================
