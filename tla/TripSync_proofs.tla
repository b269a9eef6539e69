-------------------------- MODULE TripSync_proofs --------------------------
(***************************************************************************)
(* Proofs about the phones of TripSync and the trip they share, for every  *)
(* crew, every set of photos, any batch size and any deadlines, and for    *)
(* any number of lost replies and crashes.                                 *)
(*                                                                         *)
(* Every phone step is a step of TripMedia, so what is proved there of the *)
(* tables holds here.  What the ledgers, the passes and the tables say of  *)
(* one another is Synced(w), again a predicate of a database, because one  *)
(* request may end the trip, settle its caller and complete the trip.      *)
(***************************************************************************)
EXTENDS TripSync, TripDelivery_proofs, WellFoundedInduction

(***************************************************************************)
(* The phones against a database w, which may be the one a transaction has *)
(* reached half-way.                                                       *)
(***************************************************************************)
AllowedIn(w, m, t) ==
    LET row == w.member[m] IN
    /\ t >= w.trip.startedAt /\ t >= row.approvedAt
    /\ t <= EndsAt
    /\ NotAfter(t, w.trip.endingAt) /\ NotAfter(t, row.leavingAt)
    /\ row.pausedAt = Unset \/ t < row.pausedAt
    /\ \A p \in row.pauses : t < p.from \/ p.until <= t

ResumedIn(w, a) == \E p \in w.member[Shooter[a]].pauses : photo[a] = p.until

(* Photo a is one its member shares.                                       *)
SharedIn(w, a) ==
    LET row == w.member[Shooter[a]] IN
    /\ photo[a] # Unset /\ AllowedIn(w, Shooter[a], photo[a]) /\ ~ResumedIn(w, a)
    /\ row.leavingAt # Unset => photo[a] < row.leavingAt

(* Everyone was aboard at the start, and whoever has left or was called    *)
(* home by the end has the time of it in its row.                          *)
AboardRow(w, m) ==
    LET row == w.member[m] IN
    /\ row.state = "ACTIVE" /\ row.approvedAt = 0
    /\ row.left \/ w.trip.state # "ACTIVE" => row.leavingAt # Unset
    /\ \A p \in row.pauses : p.until # Unset

Aboard(w) == /\ w.trip.startedAt >= 1
             /\ w.trip.state = "ACTIVE" => w.trip.endingAt = Unset
             /\ \A m \in Members : AboardRow(w, m)

(* What the ledgers of photo a say is so at the server.                    *)
Recorded(w, a) ==
    /\ photo[a] <= now
    /\ work[a].stage # "NONE" => photo[a] # Unset
    /\ \A m \in Members : a \in pass[m].todo => Shooter[a] = m /\ work[a].stage = "FOUND"
    /\ upload[a] \in {"REFUSED", "FULL"} =>
          w.session[a].state = "NONE" \/ HardDeleteAt <= now
    /\ w.session[a].state # "NONE" =>
          /\ w.session[a].capturedAt = photo[a] /\ w.trip.startedAt <= photo[a]
          /\ photo[a] <= w.session[a].createdAt
    /\ work[a].stage = "COMPLETE" => w.asset[a] # "NONE"
    /\ work[a].stage = "IGNORED" =>
          /\ ResumedIn(w, a) \/ ~AllowedIn(w, Shooter[a], photo[a])
          /\ w.session[a].state = "NONE" \/ HardDeleteAt <= now
    /\ \A m \in Members : w.delivery[a][m] = "SAVED_LOCALLY" /\ m # Shooter[a] =>
          inbox[m][a] # "NONE"

(* A pass that began on a leaving policy misses no shared photo: it will   *)
(* look where the photo is, or has looked and found it in the ledger.      *)
Searched(w, m) ==
    pass[m].leaving =>
       /\ w.member[m].leavingAt # Unset
       /\ \A a \in Mine(m) : SharedIn(w, a) =>
             /\ pass[m].step = "DISCOVER" => photo[a] \in pass[m].windows
             /\ pass[m].step = "PUBLISH" /\ ~pass[m].found => work[a].stage # "NONE"

(* Member m shares no more, and all it shared is committed.                *)
Emptied(w, m) ==
    /\ w.member[m].leavingAt # Unset
    /\ \A a \in Mine(m) : SharedIn(w, a) => w.asset[a] # "NONE"

(* Member m left by finishing, and in time.                                *)
Finished(w, m) == w.member[m].left /\ ~w.member[m].incomplete /\ now < HardDeleteAt

(* Member m has every photo shared by those who left none behind.          *)
Supplied(w, m) ==
    \A a \in Assets : SharedIn(w, a) /\ ~w.member[Shooter[a]].incomplete =>
        w.delivery[a][m] = "SAVED_LOCALLY"

(* An acknowledged final pass is honest; who finished acknowledged one;    *)
(* and who stayed to the end finished with every photo.                    *)
Home(w, m) ==
    /\ w.member[m].drained => Emptied(w, m)
    /\ Finished(w, m) => w.member[m].drained
    /\ m \notin Leavers /\ w.member[m].leavingAt # Unset /\ ~w.member[m].left =>
          w.trip.state = "ENDING" /\ w.member[m].leavingAt >= w.trip.endingAt
    /\ m \notin Leavers /\ Finished(w, m) => w.trip.state # "ACTIVE" /\ Supplied(w, m)

Synced(w) == /\ Aboard(w)
             /\ \A a \in Assets : Recorded(w, a)
             /\ \A m \in Members : Searched(w, m) /\ Home(w, m)

(* Types of the phones alone.                                              *)
PhonesOK ==
    /\ photo \in [Assets -> Time]
    /\ work \in [Assets -> WorkRow]
    /\ upload \in [Assets -> {"IDLE", "GRANTED", "REFUSED", "FULL"}]
    /\ pass \in [Members -> PassRow]
    /\ inbox \in [Members -> [Assets -> {"NONE", "SAVED", "COMPLETE"}]]

-----------------------------------------------------------------------------
(***************************************************************************)
(* The capture windows.                                                    *)
(***************************************************************************)
(* A set of naturals that is not empty has a least element.                *)
LEMMA LeastOf ==
    ASSUME NEW T \in SUBSET Nat, T # {}
    PROVE  \E x \in T : \A y \in T : x <= y
<1>1. PICK x \in T : \A y \in T : <<y, x>> \notin OpToRel(<, Nat)
  BY NatLessThanWellFounded, WFMin
<1>2. ASSUME NEW y \in T PROVE x <= y
  <2>1. ~(y < x)
    BY <1>1 DEF OpToRel
  <2> QED
    BY <2>1
<1> QED
  BY <1>2

(* The last instant of capture is the earliest of the three cutoffs.       *)
LEMMA UntilTheCutoffs ==
    ASSUME NEW w \in Tables, NEW m \in Members, NEW t \in Nat
    PROVE  t <= CaptureUntil(w, m) <=>
              (/\ t <= EndsAt /\ NotAfter(t, w.trip.endingAt)
               /\ NotAfter(t, w.member[m].leavingAt))
<1>1. w.trip.endingAt \in Int /\ w.member[m].leavingAt \in Int /\ EndsAt \in Nat
  BY Columns, TimeAssumption DEF TripRow, Row, Time
<1> QED
  BY <1>1 DEF CaptureUntil, NotAfter, Least, Unset

(* The windows of a participant are the instants the capture check of the  *)
(* server accepts, for any number of pauses in any order.                  *)
LEMMA WindowsAllowed ==
    ASSUME NEW w \in Tables, NEW m \in Members, Aboard(w), Participates(w, m)
    PROVE  Windows(w, m) = {t \in 0 .. EndsAt : AllowedIn(w, m, t)}
<1> DEFINE row == w.member[m]
           excluded == ExcludedWindows(w, m)
           Behind(p, t) == p.until # Unset /\ p.until <= t
           gap(p) == {t \in CursorAt(w, m, {q \in excluded : q.from < p.from}) : t < p.from}
<1>1. /\ row \in Row /\ row.approvedAt = 0 /\ w.trip.startedAt \in Int /\ w.trip.startedAt >= 1
      /\ \A p \in row.pauses : p.until # Unset /\ p.from \in Int /\ p.until \in Int
  BY Columns DEF Aboard, AboardRow, Row, TripRow, Time
<1>2. CaptureFrom(w, m) = w.trip.startedAt /\ CaptureUntil(w, m) \in Int
  BY <1>1, Columns, TimeAssumption
     DEF CaptureFrom, Greatest, CaptureUntil, Least, Row, TripRow, Time
<1>3. \A p \in excluded : p.from \in Int /\ p.until \in Int
  BY <1>1 DEF ExcludedWindows, Row, Time, Unset
<1>4. ASSUME NEW t \in 0 .. EndsAt
      PROVE  AllowedIn(w, m, t) <=>
                (/\ t \in CaptureFrom(w, m) .. CaptureUntil(w, m)
                 /\ \A p \in excluded : t < p.from \/ Behind(p, t))
  <2>1. t \in CaptureFrom(w, m) .. CaptureUntil(w, m) <=>
          (/\ t >= w.trip.startedAt /\ t >= row.approvedAt /\ t <= EndsAt
           /\ NotAfter(t, w.trip.endingAt) /\ NotAfter(t, row.leavingAt))
    BY <1>1, <1>2, UntilTheCutoffs, TimeAssumption
  <2>2. (\A p \in excluded : t < p.from \/ Behind(p, t)) <=>
          (/\ row.pausedAt = Unset \/ t < row.pausedAt
           /\ \A p \in row.pauses : t < p.from \/ p.until <= t)
    <3>1. CASE row.pausedAt = Unset
      BY <1>1, <3>1 DEF ExcludedWindows
    <3>2. CASE row.pausedAt # Unset
      <4> DEFINE ongoing == [from |-> row.pausedAt, until |-> Unset]
      <4>1. excluded = row.pauses \cup {ongoing}
        BY <3>2 DEF ExcludedWindows
      <4>2. ongoing.from = row.pausedAt /\ ~Behind(ongoing, t)
        OBVIOUS
      <4> HIDE DEF ongoing, excluded
      <4> QED
        BY <1>1, <3>2, <4>1, <4>2
    <3> QED
      BY <3>1, <3>2
  <2> HIDE DEF Behind, excluded
  <2> QED
    BY <2>1, <2>2 DEF AllowedIn
<1>5. Windows(w, m) = CursorAt(w, m, excluded) \cup UNION {gap(p) : p \in excluded}
  BY DEF Windows
<1>6. \A S, t : t \in CursorAt(w, m, S) <=>
         t \in CaptureFrom(w, m) .. CaptureUntil(w, m) /\ \A p \in S : Behind(p, t)
  BY DEF CursorAt
<1>7. CaptureFrom(w, m) .. CaptureUntil(w, m) \subseteq 0 .. EndsAt
  <2> SUFFICES ASSUME NEW t \in CaptureFrom(w, m) .. CaptureUntil(w, m)
               PROVE  t \in 0 .. EndsAt
    OBVIOUS
  <2>1. t \in Nat /\ t <= CaptureUntil(w, m)
    BY <1>1, <1>2
  <2> QED
    BY <2>1, UntilTheCutoffs, TimeAssumption
<1> HIDE DEF excluded
<1>8. ASSUME NEW t \in Windows(w, m)
      PROVE  t \in 0 .. EndsAt /\ AllowedIn(w, m, t)
  <2>1. CASE t \in CursorAt(w, m, excluded)
    <3> HIDE DEF Behind
    <3> QED
      BY <1>4, <1>6, <1>7, <2>1
  <2>2. CASE \E p \in excluded : t \in gap(p)
    <3>1. PICK p \in excluded : t \in gap(p)
      BY <2>2
    <3>2. /\ t \in CaptureFrom(w, m) .. CaptureUntil(w, m) /\ t < p.from
          /\ \A q \in excluded : q.from < p.from => Behind(q, t)
      BY <1>6, <3>1
    <3>3. ASSUME NEW q \in excluded PROVE t < q.from \/ Behind(q, t)
      <4> HIDE DEF Behind
      <4> QED
        BY <1>2, <1>1, <1>3, <3>2
    <3> HIDE DEF Behind
    <3> QED
      BY <1>4, <1>7, <3>2, <3>3
  <2> QED
    BY <1>5, <2>1, <2>2
<1>9. ASSUME NEW t \in 0 .. EndsAt, AllowedIn(w, m, t)
      PROVE  t \in Windows(w, m)
  <2>1. /\ t \in CaptureFrom(w, m) .. CaptureUntil(w, m)
        /\ \A p \in excluded : t < p.from \/ Behind(p, t)
    BY <1>4, <1>9
  <2>2. CASE \A p \in excluded : Behind(p, t)
    <3> HIDE DEF Behind
    <3> QED
      BY <1>5, <1>6, <2>1, <2>2
  <2>3. CASE \E p \in excluded : ~Behind(p, t)
    <3> DEFINE T == {n \in Nat : \E p \in excluded : n = p.from /\ t < p.from}
    <3>1. T # {}
      <4>1. PICK p \in excluded : ~Behind(p, t)
        BY <2>3
      <4>2. t < p.from /\ p.from \in Int
        BY <1>3, <2>1, <4>1
      <4> HIDE DEF Behind
      <4> QED
        BY <4>2
    <3>2. PICK n \in T : \A y \in T : n <= y
      <4> HIDE DEF T
      <4> QED
        BY <3>1, LeastOf DEF T
    <3>3. PICK p \in excluded : n = p.from /\ t < p.from
      OBVIOUS
    <3>4. ASSUME NEW q \in excluded, q.from < p.from PROVE Behind(q, t)
      <4>1. ~(t < q.from)
        <5> SUFFICES ASSUME t < q.from PROVE FALSE
          OBVIOUS
        <5>1. q.from \in Nat
          BY <1>3
        <5>2. q.from \in T
          BY <5>1
        <5> HIDE DEF T
        <5> QED
          BY <1>3, <3>2, <3>3, <3>4, <5>2
      <4> HIDE DEF Behind
      <4> QED
        BY <2>1, <4>1
    <3>5. t \in gap(p)
      <4> HIDE DEF Behind
      <4> QED
        BY <1>6, <2>1, <3>3, <3>4
    <3> QED
      BY <1>5, <3>5
  <2> QED
    BY <2>2, <2>3
<1> QED
  BY <1>8, <1>9

-----------------------------------------------------------------------------
(***************************************************************************)
(* What the lifecycle requests do to what a member shares: nothing, or     *)
(* less.                                                                   *)
(***************************************************************************)
(* A timestamp stays as it is or is set to the present.                    *)
Stamped(t, u) == u = t \/ (t = Unset /\ u = now)

(* The pauses of row s are those of row, or one more begins or ends.       *)
Runs(row, s) ==
    \/ SamePause(row, s)
    \/ row.pausedAt = Unset /\ s.pausedAt = now /\ s.pauses = row.pauses
    \/ /\ row.pausedAt # Unset /\ s.pausedAt = Unset
       /\ s.pauses = row.pauses \cup {[from |-> row.pausedAt, until |-> now]}

NarrowsRow(row, s) == /\ s.state = row.state /\ s.approvedAt = row.approvedAt
                      /\ Stamped(row.leavingAt, s.leavingAt) /\ Runs(row, s)

Narrows(w, x) ==
    /\ x.session = w.session /\ x.asset = w.asset
    /\ \A a \in Assets, m \in Members :
         x.delivery[a][m] = "SAVED_LOCALLY" <=> w.delivery[a][m] = "SAVED_LOCALLY"
    /\ x.trip.startedAt = w.trip.startedAt /\ Stamped(w.trip.endingAt, x.trip.endingAt)
    /\ \A m \in Members : NarrowsRow(w.member[m], x.member[m])

Accepted(w, a) == AllowedIn(w, Shooter[a], photo[a]) /\ ~ResumedIn(w, a)

(* A photo acceptable, or shared, after such a request was so before it.   *)
LEMMA NarrowPhoto ==
    ASSUME NEW w, NEW x, Narrows(w, x), NEW a \in Assets,
           now \in Nat, photo[a] \in Time, photo[a] <= now
    PROVE  /\ Accepted(x, a) => Accepted(w, a)
           /\ SharedIn(x, a) => SharedIn(w, a)
<1> DEFINE m == Shooter[a]
           row == w.member[m]
           s == x.member[m]
           t == photo[a]
<1>1. m \in Members /\ t \in Int
  BY PhoneAssumption DEF Time
<1>2. NarrowsRow(row, s) /\ x.trip.startedAt = w.trip.startedAt
  BY <1>1 DEF Narrows
<1>3. ASSUME Accepted(x, a) PROVE Accepted(w, a)
  <2>1. /\ t >= x.trip.startedAt /\ t >= s.approvedAt /\ t <= EndsAt
        /\ NotAfter(t, x.trip.endingAt) /\ NotAfter(t, s.leavingAt)
        /\ s.pausedAt = Unset \/ t < s.pausedAt
        /\ \A p \in s.pauses : (t < p.from \/ p.until <= t) /\ t # p.until
    BY <1>3 DEF Accepted, AllowedIn, ResumedIn
  <2>2. NotAfter(t, w.trip.endingAt) /\ NotAfter(t, row.leavingAt)
    BY <1>2, <2>1 DEF Narrows, NarrowsRow, Stamped, NotAfter
  <2>3. (row.pausedAt = Unset \/ t < row.pausedAt) /\ row.pauses \subseteq s.pauses
    <3>1. CASE SamePause(row, s)
      BY <2>1, <3>1 DEF SamePause
    <3>2. CASE row.pausedAt = Unset /\ s.pausedAt = now /\ s.pauses = row.pauses
      BY <3>2
    <3>3. CASE /\ row.pausedAt # Unset /\ s.pausedAt = Unset
               /\ s.pauses = row.pauses \cup {[from |-> row.pausedAt, until |-> now]}
      <4> DEFINE last == [from |-> row.pausedAt, until |-> now]
      <4>1. last \in s.pauses /\ last.from = row.pausedAt /\ last.until = now
        BY <3>3
      <4>2. t < row.pausedAt \/ (now <= t /\ t # now)
        BY <2>1, <4>1
      <4> QED
        BY <1>1, <3>3, <4>2
    <3> QED
      BY <1>2, <3>1, <3>2, <3>3 DEF NarrowsRow, Runs
  <2>4. t >= row.approvedAt /\ t >= w.trip.startedAt
    BY <1>2, <2>1 DEF NarrowsRow
  <2> QED
    BY <2>1, <2>2, <2>3, <2>4 DEF Accepted, AllowedIn, ResumedIn
<1>4. ASSUME SharedIn(x, a) PROVE SharedIn(w, a)
  <2>1. /\ Accepted(w, a) /\ photo[a] # Unset
        /\ s.leavingAt # Unset => photo[a] < s.leavingAt
    BY <1>3, <1>4 DEF SharedIn, Accepted
  <2>2. row.leavingAt # Unset => s.leavingAt = row.leavingAt
    BY <1>2 DEF NarrowsRow, Stamped
  <2> QED
    BY <2>1, <2>2 DEF SharedIn, Accepted
<1> QED
  BY <1>3, <1>4

(* So the ledgers and the passes stay right about the tables.              *)
LEMMA NarrowLedger ==
    ASSUME NEW w, NEW x, Narrows(w, x), now \in Nat, PhonesOK,
           \A a \in Assets : Recorded(w, a)
    PROVE  /\ \A a \in Assets : Recorded(x, a)
           /\ \A m \in Members : Searched(w, m) => Searched(x, m)
<1>1. \A a \in Assets : photo[a] \in Time /\ photo[a] <= now
  BY DEF PhonesOK, Recorded
<1>2. ASSUME NEW a \in Assets PROVE Recorded(x, a)
  <2>1. /\ Recorded(w, a) /\ (Accepted(x, a) => Accepted(w, a))
        /\ x.session = w.session /\ x.asset = w.asset
        /\ x.trip.startedAt = w.trip.startedAt
    BY <1>1, NarrowPhoto DEF Narrows
  <2>2. \A m \in Members : x.delivery[a][m] = "SAVED_LOCALLY" <=>
                           w.delivery[a][m] = "SAVED_LOCALLY"
    BY DEF Narrows
  <2>3. work[a].stage = "IGNORED" =>
          ResumedIn(x, a) \/ ~AllowedIn(x, Shooter[a], photo[a])
    BY <2>1 DEF Recorded, Accepted
  <2> QED
    BY <2>1, <2>2, <2>3 DEF Recorded
<1>3. ASSUME NEW m \in Members, Searched(w, m) PROVE Searched(x, m)
  <2>1. w.member[m].leavingAt # Unset => x.member[m].leavingAt # Unset
    BY DEF Narrows, NarrowsRow, Stamped, Unset
  <2>2. \A a \in Assets : SharedIn(x, a) => SharedIn(w, a)
    BY <1>1, NarrowPhoto
  <2> QED
    BY <1>3, <2>1, <2>2 DEF Searched, Mine
<1> QED
  BY <1>2, <1>3

(* Who is done with its photos stays so.                                   *)
LEMMA NarrowEmptied ==
    ASSUME NEW w, NEW x, Narrows(w, x), now \in Nat, PhonesOK,
           \A a \in Assets : Recorded(w, a), NEW m \in Members, Emptied(w, m)
    PROVE  Emptied(x, m)
<1>1. w.member[m].leavingAt # Unset => x.member[m].leavingAt # Unset
  BY DEF Narrows, NarrowsRow, Stamped, Unset
<1>2. \A a \in Assets : SharedIn(x, a) => SharedIn(w, a)
  BY NarrowPhoto DEF PhonesOK, Recorded
<1> QED
  BY <1>1, <1>2 DEF Emptied, Mine, Narrows

(* Who has every photo keeps them, while nobody's marking is taken back.   *)
LEMMA NarrowSupplied ==
    ASSUME NEW w, NEW x, Narrows(w, x), now \in Nat, PhonesOK,
           \A a \in Assets : Recorded(w, a), NEW m \in Members, Supplied(w, m),
           \A o \in Members : w.member[o].incomplete => x.member[o].incomplete
    PROVE  Supplied(x, m)
<1>1. \A a \in Assets : SharedIn(x, a) => SharedIn(w, a)
  BY NarrowPhoto DEF PhonesOK, Recorded
<1> QED
  BY <1>1, PhoneAssumption DEF Supplied, Narrows

-----------------------------------------------------------------------------
(***************************************************************************)
(* What the lifecycle operators keep.                                      *)
(***************************************************************************)
(* settle() lets member m depart.                                          *)
Settles(w, m) ==
    /\ w.member[m].leavingAt # Unset /\ ~w.member[m].left /\ w.member[m].drained
    /\ ~AwaitsFinalPass(w, m) /\ PendingUploads(w, m) = {} /\ PendingDownloads(w, m) = {}

(* Who stayed to the end settles with every photo: the others' final       *)
(* passes are acknowledged, so all they shared is committed, was sent to   *)
(* this member, and is no longer outstanding.                              *)
LEMMA SettledSupplied ==
    ASSUME NEW w \in Tables, Sound(w), Synced(w), PhonesOK, now \in Nat,
           NEW m \in Members \ Leavers, Settles(w, m), now < HardDeleteAt
    PROVE  Supplied(w, m)
<1>1. /\ w.trip.state = "ENDING" /\ w.member[m].leavingAt >= w.trip.endingAt
      /\ w.trip.startedAt >= 1
  BY DEF Synced, Home, Settles, Aboard
<1>2. ASSUME NEW o \in Members, ~w.member[o].incomplete
      PROVE  Emptied(w, o)
  <2>1. Home(w, o) /\ w.member[o].state = "ACTIVE"
    BY DEF Synced, Aboard, AboardRow
  <2>2. w.member[o].left => Finished(w, o)
    BY <1>2 DEF Finished
  <2>3. ~w.member[o].left => w.member[o].drained
    BY <1>1, <2>1 DEF Settles, AwaitsFinalPass, Participates, InTrip
  <2> QED
    BY <2>1, <2>2, <2>3 DEF Home
<1> SUFFICES ASSUME NEW a \in Assets, SharedIn(w, a), ~w.member[Shooter[a]].incomplete
             PROVE  w.delivery[a][m] = "SAVED_LOCALLY"
  BY DEF Supplied
<1>3. w.asset[a] # "NONE"
  <2>1. Shooter[a] \in Members /\ a \in Mine(Shooter[a])
    BY PhoneAssumption DEF Mine
  <2> QED
    BY <1>2, <2>1 DEF Emptied
<1>4. w.session[a].capturedAt > 0 /\ w.session[a].createdAt > 0
  <2>1. w.session[a].state # "NONE" /\ Recorded(w, a)
    BY <1>3 DEF Sound, Uploads, Synced
  <2>2. photo[a] \in Int /\ w.trip.startedAt \in Int /\ w.session[a].createdAt \in Int
    BY Columns, Cells DEF PhonesOK, TripRow, SessionRow, Time
  <2> QED
    BY <1>1, <2>1, <2>2 DEF Recorded
<1>5. Owed(w, a, m)
  <2>1. w.member[m].approvedAt = 0
    BY DEF Synced, Aboard, AboardRow
  <2>2. Admitted(w, a, m)
    <3>1. w.session[a].capturedAt \in Int /\ w.session[a].createdAt \in Int
      BY Cells DEF SessionRow, Time
    <3> QED
      BY <1>4, <2>1, <3>1 DEF Admitted
  <2> QED
    BY <1>1, <2>2 DEF Owed, Awaited, Participates, InTrip, Synced, Aboard, AboardRow, Settles
<1>6. Pair(w, a, m) /\ ~w.member[m].incomplete /\ w.delivery[a][m] \in DeliveryState
  BY Cells DEF Sound, Crew, Settles
<1>7. w.delivery[a][m] # "READY"
  BY DEF Settles, PendingDownloads
<1> QED
  BY <1>3, <1>5, <1>6, <1>7 DEF Pair, DeliveryState

(* A departure narrows ...                                                 *)
LEMMA DepartNarrows ==
    ASSUME NEW w \in Tables, NEW m \in Members, NEW forced \in BOOLEAN
    PROVE  Narrows(w, Depart(w, {m}, forced))
<1> SUFFICES ASSUME NEW x, x = Depart(w, {m}, forced) PROVE Narrows(w, x)
  OBVIOUS
<1>1. Departs(w, {m}, forced, x)
  BY DepartDeparts
<1>2. ASSUME NEW o \in Members PROVE NarrowsRow(w.member[o], x.member[o])
  <2>1. /\ SameRow(w.member[o], x.member[o])
        /\ o # m => x.member[o] = w.member[o]
        /\ o = m => Gone(w.member[o], x.member[o], forced /\ Started(w))
    BY <1>1 DEF Departs
  <2> QED
    BY <2>1 DEF NarrowsRow, SameRow, Gone, Stamped, Runs, SamePause
<1>3. Stamped(w.trip.endingAt, x.trip.endingAt) /\ x.trip.startedAt = w.trip.startedAt
  BY <1>1 DEF Departs, Stamped
<1>4. \A a \in Assets, o \in Members :
         x.delivery[a][o] = "SAVED_LOCALLY" <=> w.delivery[a][o] = "SAVED_LOCALLY"
  BY <1>1 DEF Departs
<1> QED
  BY <1>1, <1>2, <1>3, <1>4 DEF Narrows, Departs, SameMedia

(* ... and leaves phones and tables agreeing, if it is forced or settles.  *)
LEMMA DepartSynced ==
    ASSUME NEW w \in Tables, Sound(w), Synced(w), PhonesOK, now \in Nat,
           NEW m \in Members, m \in InTrip(w), NEW forced \in BOOLEAN,
           forced \/ Settles(w, m)
    PROVE  Synced(Depart(w, {m}, forced))
<1> SUFFICES ASSUME NEW x, x = Depart(w, {m}, forced) PROVE Synced(x)
  OBVIOUS
<1>1. Departs(w, {m}, forced, x) /\ Narrows(w, x)
  BY DepartDeparts, DepartNarrows
<1>2. Aboard(w) /\ \A o \in Members : AboardRow(w, o) /\ Searched(w, o) /\ Home(w, o)
  BY DEF Synced, Aboard
<1>3. /\ Started(w) /\ ~w.member[m].left /\ w.member[m].state = "ACTIVE"
      /\ x.trip.startedAt = w.trip.startedAt
  BY <1>1, <1>2 DEF InTrip, Aboard, AboardRow, Started, Unset, Departs
<1>4. /\ \A a \in Assets : Recorded(w, a) /\ Recorded(x, a)
      /\ \A o \in Members : Searched(x, o)
  BY <1>1, <1>2, NarrowLedger DEF Synced
<1>5. ASSUME NEW o \in Members, o # m PROVE x.member[o] = w.member[o]
  BY <1>1, <1>5 DEF Departs
<1>6. /\ x.member[m].left /\ x.member[m].incomplete = forced
      /\ x.member[m].drained = w.member[m].drained /\ x.member[m].leavingAt # Unset
      /\ SameRow(w.member[m], x.member[m])
  <2>1. Gone(w.member[m], x.member[m], forced /\ Started(w)) /\ SameRow(w.member[m], x.member[m])
    BY <1>1 DEF Departs
  <2>2. now # Unset
    BY DEF Unset
  <2> QED
    BY <1>3, <2>1, <2>2 DEF Gone
<1>7. /\ Closes(w, {m}) => x.trip.state \notin {"ACTIVE", "ENDING"}
      /\ ~Closes(w, {m}) => x.trip.state = w.trip.state /\ x.trip.endingAt = w.trip.endingAt
  BY <1>1 DEF Departs
<1>8. Aboard(x)
  <2>1. ASSUME NEW o \in Members PROVE AboardRow(x, o)
    <3>1. CASE o = m
      BY <1>2, <1>6, <3>1 DEF AboardRow, SameRow
    <3>2. CASE o # m
      <4>1. x.trip.state # "ACTIVE" /\ w.trip.state = "ACTIVE" => w.member[o].left
        BY <1>2, <1>7, <3>2 DEF Closes, InTrip, AboardRow
      <4> QED
        BY <1>2, <1>5, <3>2, <4>1 DEF AboardRow
    <3> QED
      BY <3>1, <3>2
  <2> QED
    BY <1>2, <1>3, <1>7, <2>1 DEF Aboard
<1>9. \A o \in Members : w.member[o].incomplete => x.member[o].incomplete
  BY <1>3, <1>5 DEF Sound, Crew
<1>10. ASSUME NEW o \in Members PROVE Home(x, o)
  <2>1. Emptied(w, o) => Emptied(x, o)
    BY <1>1, <1>4, NarrowEmptied
  <2>2. Supplied(w, o) => Supplied(x, o)
    BY <1>1, <1>4, <1>9, NarrowSupplied
  <2>3. CASE o = m
    <3>1. Finished(x, m) => Settles(w, m) /\ now < HardDeleteAt
      BY <1>6 DEF Finished
    <3>2. m \notin Leavers /\ Finished(x, m) => w.trip.state = "ENDING" /\ Supplied(w, m)
      BY <1>2, <3>1, SettledSupplied DEF Home, Settles
    <3>3. Finished(x, m) => x.member[m].drained
      BY <1>6, <3>1 DEF Settles
    <3> QED
      BY <1>2, <1>6, <1>7, <2>1, <2>2, <2>3, <3>2, <3>3 DEF Home
  <2>4. CASE o # m
    <3>1. x.member[o] = w.member[o] /\ (Finished(x, o) <=> Finished(w, o))
      BY <1>5, <2>4 DEF Finished
    <3>2. ~w.member[o].left => x.trip.state = w.trip.state /\ x.trip.endingAt = w.trip.endingAt
      BY <1>2, <1>7, <2>4 DEF Closes, InTrip, AboardRow
    <3>3. w.trip.state # "ACTIVE" => x.trip.state # "ACTIVE"
      BY <1>7
    <3> QED
      BY <1>2, <2>1, <2>2, <3>1, <3>2, <3>3 DEF Home
  <2> QED
    BY <2>3, <2>4
<1> QED
  BY <1>4, <1>8, <1>10 DEF Synced

(* The end of the trip calls everyone home.                                *)
LEMMA EndSynced ==
    ASSUME NEW w \in Tables, Sound(w), Synced(w), PhonesOK, now \in Nat
    PROVE  Synced(End(w))
<1>1. Started(w) /\ (w.trip.state # "LOBBY")
  BY DEF Synced, Aboard, Started, Unset, Sound, Course
<1>2. CASE Ended(w)
  BY <1>2 DEF End
<1>3. CASE ~Ended(w)
  <2> SUFFICES ASSUME NEW x, x = End(w) PROVE Synced(x)
    OBVIOUS
  <2>1. Ends(w, x)
    BY <1>1, <1>3, EndEnds
  <2>2. w.trip.state = "ACTIVE" /\ w.trip.endingAt = Unset
    <3>1. w.trip.state \in {"LOBBY", "ACTIVE", "ENDING"} \cup Terminal
      BY Columns DEF TripRow
    <3> QED
      BY <1>1, <1>3, <3>1 DEF Ended, Synced, Aboard
  <2>3. /\ x.trip.state = "ENDING" /\ x.trip.endingAt = now
        /\ x.trip.startedAt = w.trip.startedAt
    BY <2>1 DEF Ends
  <2>4. ASSUME NEW m \in Members
        PROVE  /\ SameRow(w.member[m], x.member[m])
               /\ x.member[m].left = w.member[m].left
               /\ x.member[m].incomplete = w.member[m].incomplete
               /\ Answers(w.member[m]) => x.member[m].leavingAt = now /\ ~x.member[m].drained
               /\ ~Answers(w.member[m]) => x.member[m] = w.member[m]
    BY <2>1 DEF Ends, Called
  <2>5. Aboard(w) /\ \A m \in Members : AboardRow(w, m) /\ Searched(w, m) /\ Home(w, m)
    BY DEF Synced, Aboard
  <2>6. ASSUME NEW m \in Members
        PROVE  Answers(w.member[m]) <=> ~w.member[m].left /\ w.member[m].leavingAt = Unset
    BY <2>5 DEF AboardRow, Answers
  <2>7. Narrows(w, x)
    <3>1. \A m \in Members : NarrowsRow(w.member[m], x.member[m])
      BY <2>4, <2>6 DEF NarrowsRow, SameRow, Stamped, Runs, SamePause
    <3> QED
      BY <2>1, <2>2, <2>3, <3>1 DEF Narrows, Ends, SameMedia, Stamped
  <2>8. /\ \A a \in Assets : Recorded(w, a) /\ Recorded(x, a)
        /\ \A m \in Members : Searched(x, m)
    BY <2>5, <2>7, NarrowLedger DEF Synced
  <2>9. Aboard(x)
    <3>1. ASSUME NEW m \in Members PROVE AboardRow(x, m)
      <4>1. now # Unset
        BY DEF Unset
      <4> QED
        BY <2>3, <2>4, <2>5, <2>6, <4>1 DEF AboardRow, SameRow
    <3> QED
      BY <2>3, <2>5, <3>1 DEF Aboard
  <2>10. ASSUME NEW m \in Members PROVE Home(x, m)
    <3>1. Emptied(w, m) => Emptied(x, m)
      BY <2>7, <2>8, NarrowEmptied
    <3>2. x.member[m].drained => w.member[m].drained
      BY <2>4
    <3>3. Finished(x, m) => Finished(w, m) /\ x.member[m] = w.member[m]
      BY <2>4, <2>6 DEF Finished
    <3>4. m \notin Leavers => ~Finished(x, m)
      BY <2>2, <2>5, <3>3 DEF Home
    <3>5. m \notin Leavers /\ x.member[m].leavingAt # Unset /\ ~x.member[m].left =>
             x.member[m].leavingAt = now
      BY <2>2, <2>4, <2>5, <2>6 DEF Home
    <3> QED
      BY <2>3, <2>5, <3>1, <3>2, <3>3, <3>4, <3>5 DEF Home
  <2> QED
    BY <2>8, <2>9, <2>10 DEF Synced
<1> QED
  BY <1>2, <1>3

(* Member m asks to leave, pauses, resumes or acknowledges a final pass.   *)
TurnsRow(w, m, s) ==
    LET row == w.member[m] IN
    /\ NarrowsRow(row, s) /\ s.incomplete = row.incomplete /\ s.left = row.left
    /\ s.leavingAt = row.leavingAt \/ m \in Leavers
    /\ s.drained => row.drained \/ Emptied(w, m)
    /\ row.left => s.drained = row.drained

Turns(w, x) ==
    /\ SameMedia(w, x) /\ x.delivery = w.delivery
    /\ x.trip.state = w.trip.state /\ x.trip.startedAt = w.trip.startedAt
    /\ x.trip.endingAt = w.trip.endingAt
    /\ \A m \in Members : TurnsRow(w, m, x.member[m])

(* Phones and tables agree after such a request, too.                      *)
LEMMA TurnSynced ==
    ASSUME NEW w, NEW x, Synced(w), PhonesOK, now \in Nat, Turns(w, x)
    PROVE  Synced(x)
<1>1. Narrows(w, x)
  BY DEF Turns, TurnsRow, SameMedia, Narrows, Stamped
<1>2. Aboard(w) /\ \A m \in Members : AboardRow(w, m) /\ Searched(w, m) /\ Home(w, m)
  BY DEF Synced, Aboard
<1>3. /\ \A a \in Assets : Recorded(w, a) /\ Recorded(x, a)
      /\ \A m \in Members : Searched(x, m)
  BY <1>1, <1>2, NarrowLedger DEF Synced
<1>4. /\ x.trip.state = w.trip.state /\ x.trip.startedAt = w.trip.startedAt
      /\ x.trip.endingAt = w.trip.endingAt
  BY DEF Turns
<1>5. ASSUME NEW m \in Members PROVE AboardRow(x, m)
  <2>1. NarrowsRow(w.member[m], x.member[m]) /\ x.member[m].left = w.member[m].left
    BY DEF Turns, TurnsRow
  <2>2. \A p \in x.member[m].pauses : p.until # Unset
    <3>1. now # Unset /\ \A p \in w.member[m].pauses : p.until # Unset
      BY <1>2 DEF AboardRow, Unset
    <3> QED
      BY <2>1, <3>1 DEF NarrowsRow, Runs, SamePause
  <2>3. w.member[m].leavingAt # Unset => x.member[m].leavingAt # Unset
    BY <2>1 DEF NarrowsRow, Stamped, Unset
  <2> QED
    BY <1>2, <1>4, <2>1, <2>2, <2>3 DEF AboardRow, NarrowsRow
<1>6. ASSUME NEW m \in Members PROVE Home(x, m)
  <2>1. TurnsRow(w, m, x.member[m])
    BY DEF Turns
  <2>2. (Emptied(w, m) => Emptied(x, m)) /\ (Supplied(w, m) => Supplied(x, m))
    <3>1. \A o \in Members : w.member[o].incomplete => x.member[o].incomplete
      BY DEF Turns, TurnsRow
    <3> QED
      BY <1>1, <1>3, <3>1, NarrowEmptied, NarrowSupplied
  <2> QED
    BY <1>2, <1>4, <2>1, <2>2 DEF Home, TurnsRow, Finished
<1> QED
  BY <1>2, <1>3, <1>4, <1>5, <1>6 DEF Synced, Aboard

(* A new row for one member.                                               *)
LEMMA RowTurns ==
    ASSUME NEW w \in Tables, NEW m \in Members, NEW row \in Row, NEW trip \in TripRow,
           trip.state = w.trip.state, trip.startedAt = w.trip.startedAt,
           trip.endingAt = w.trip.endingAt, TurnsRow(w, m, row)
    PROVE  Turns(w, [w EXCEPT !.member[m] = row, !.trip = trip])
<1> DEFINE x == [w EXCEPT !.member[m] = row, !.trip = trip]
<1>1. SameMedia(w, x) /\ x.delivery = w.delivery /\ x.trip = trip
  BY DEF Tables, SameMedia
<1>2. \A o \in Members : x.member[o] = IF o = m THEN row ELSE w.member[o]
  BY DEF Tables
<1> HIDE DEF x
<1>3. \A o \in Members : TurnsRow(w, o, w.member[o])
  BY DEF TurnsRow, NarrowsRow, Stamped, Runs, SamePause
<1>4. Turns(w, x)
  BY <1>1, <1>2, <1>3 DEF Turns
<1> QED
  BY <1>4 DEF x

(* settle() and a read of the state.                                       *)
LEMMA SettleSynced ==
    ASSUME NEW w \in Tables, Sound(w), Synced(w), PhonesOK, now \in Nat, NEW m \in Members
    PROVE  Synced(Settle(w, m))
<1>1. CASE Settles(w, m)
  <2>1. Settle(w, m) = Depart(w, {m}, FALSE)
    BY <1>1 DEF Settle, Settles
  <2>2. m \in InTrip(w)
    BY <1>1 DEF Settles, InTrip, Synced, Aboard, AboardRow
  <2> QED
    BY <1>1, <2>1, <2>2, DepartSynced
<1>2. CASE ~Settles(w, m)
  BY <1>2 DEF Settle, Settles
<1> QED
  BY <1>1, <1>2

LEMMA ReadStateSynced ==
    ASSUME NEW w \in Tables, Sound(w), Synced(w), PhonesOK, now \in Nat, now \in Time,
           NEW m \in Members
    PROVE  Synced(ReadState(w, m))
<1> DEFINE x == IF w.trip.state = "ACTIVE" /\ EndsAt <= now THEN End(w) ELSE w
<1>1. x \in Tables /\ Sound(x) /\ Synced(x)
  BY EndType, EndSound, EndSynced
<1>2. ReadState(w, m) = Settle(x, m)
  BY DEF ReadState
<1> HIDE DEF x
<1> QED
  BY <1>1, <1>2, SettleSynced

-----------------------------------------------------------------------------
(***************************************************************************)
(* What the requests keep, the phones standing still.                      *)
(***************************************************************************)
(* The requests of the members and the lifecycle requests of the phones.   *)
(* Only leavers leave before the end, and a phone acknowledges the version *)
(* it saw only when it has shared everything.                              *)
LEMMA LifecycleSynced ==
    ASSUME TypeOK, Sound(db), Synced(db), PhonesOK, NEW m \in Members,
           \/ EndTrip \/ ReadTransferState(m) \/ Pause(m) \/ Resume(m)
           \/ m \in Leavers /\ (Leave(m) \/ LeaveNow(m))
           \/ \E v \in Int : /\ Drained(m, v)
                             /\ v = db.trip.version /\ ~db.member[m].left => Emptied(db, m)
    PROVE  Synced(db')
<1>1. db \in Tables /\ Owner \in Members /\ now \in Nat /\ now \in Time
  BY MembersAssumption DEF TypeOK, Time
<1>2. /\ db.member[m] \in Row /\ Bumped(db) \in TripRow /\ db.trip \in TripRow
      /\ Bumped(db).state = db.trip.state /\ Bumped(db).startedAt = db.trip.startedAt
      /\ Bumped(db).endingAt = db.trip.endingAt
  BY <1>1, Columns, BumpedType DEF Bumped, TripRow
<1>3. /\ db.member[m].state = "ACTIVE" /\ Started(db) /\ db.trip.state # "LOBBY"
      /\ Home(db, m)
  BY DEF Synced, Aboard, AboardRow, Started, Unset, Sound, Course
<1>4. ASSUME NEW row \in Row, NEW trip \in TripRow, trip = db.trip \/ trip = Bumped(db),
             TurnsRow(db, m, row),
             db' = ReadState([db EXCEPT !.member[m] = row, !.trip = trip], m)
      PROVE  Synced(db')
  <2> DEFINE x == [db EXCEPT !.member[m] = row, !.trip = trip]
  <2>1. x \in Tables
    BY <1>1, UpdateType
  <2>2. Turns(db, x)
    BY <1>1, <1>2, <1>4, RowTurns
  <2>3. db' = ReadState(x, m)
    BY <1>4
  <2> HIDE DEF x
  <2>4. Touches(db, x)
    <3>1. \A o \in Members : db.member[o].left => db.member[o].leavingAt # Unset
      BY DEF Synced, Aboard, AboardRow
    <3> QED
      BY <2>2, <3>1 DEF Turns, TurnsRow, NarrowsRow, Stamped, Touches
  <2>5. Sound(x) /\ Synced(x)
    BY <1>1, <2>1, <2>2, <2>4, TouchSound, TurnSynced
  <2> QED
    BY <1>1, <2>1, <2>3, <2>5, ReadStateSynced
<1>5. CASE EndTrip
  BY <1>1, <1>5, EndType, EndSound, EndSynced, ReadStateSynced DEF EndTrip, Install
<1>6. CASE ReadTransferState(m)
  BY <1>1, <1>6, ReadStateSynced DEF ReadTransferState, Install
<1>7. CASE m \in Leavers /\ Leave(m)
  <2> DEFINE row == [db.member[m] EXCEPT !.leavingAt = now, !.drained = FALSE]
  <2>1. /\ db.member[m].leavingAt = Unset /\ ~db.member[m].left
        /\ db' = ReadState([db EXCEPT !.member[m] = row, !.trip = Bumped(db)], m)
    BY <1>3, <1>7 DEF Leave, Install
  <2>2. /\ row \in Row /\ row.left = db.member[m].left /\ row.incomplete = db.member[m].incomplete
        /\ row.leavingAt = now /\ ~row.drained
        /\ SameRow(db.member[m], row)
    BY <1>1, <1>2 DEF Row, SameRow
  <2> HIDE DEF row
  <2>3. TurnsRow(db, m, row)
    BY <1>7, <2>1, <2>2 DEF TurnsRow, NarrowsRow, SameRow, Stamped, Runs, SamePause
  <2> QED
    BY <1>2, <1>4, <2>1, <2>2, <2>3
<1>8. CASE m \in Leavers /\ LeaveNow(m)
  <2>1. m \in InTrip(db) /\ {m} \in SUBSET Members /\ {m} \subseteq InTrip(db)
    BY <1>3, <1>8 DEF LeaveNow, InTrip
  <2>2. /\ Depart(db, {m}, TRUE) \in Tables /\ Sound(Depart(db, {m}, TRUE))
        /\ Synced(Depart(db, {m}, TRUE))
    BY <1>1, <2>1, DepartType, DepartSound, DepartSynced
  <2> QED
    BY <1>1, <1>8, <2>2, ReadStateSynced DEF LeaveNow, Install
<1>9. CASE Pause(m)
  <2> DEFINE row == [db.member[m] EXCEPT !.pausedAt = now]
  <2>1. /\ db.member[m].pausedAt = Unset
        /\ db' = ReadState([db EXCEPT !.member[m] = row, !.trip = Bumped(db)], m)
    BY <1>9 DEF Pause, Install
  <2>2. /\ row \in Row /\ row.left = db.member[m].left /\ row.incomplete = db.member[m].incomplete
        /\ row.leavingAt = db.member[m].leavingAt /\ row.drained = db.member[m].drained
        /\ row.state = db.member[m].state /\ row.approvedAt = db.member[m].approvedAt
        /\ row.pausedAt = now /\ row.pauses = db.member[m].pauses
    BY <1>1, <1>2 DEF Row
  <2> HIDE DEF row
  <2>3. TurnsRow(db, m, row)
    BY <2>1, <2>2 DEF TurnsRow, NarrowsRow, Stamped, Runs
  <2> QED
    BY <1>2, <1>4, <2>1, <2>2, <2>3
<1>10. CASE Resume(m)
  <2> DEFINE window == [from |-> db.member[m].pausedAt, until |-> now]
             row == [db.member[m] EXCEPT !.pauses = @ \cup {window}, !.pausedAt = Unset]
  <2>1. window \in [from : Time, until : Time]
    BY <1>1, <1>2 DEF Row
  <2>2. db.member[m].pauses \cup {window} \in SUBSET [from : Time, until : Time]
    BY <1>2, <2>1 DEF Row
  <2>3. /\ row \in Row /\ row.left = db.member[m].left /\ row.incomplete = db.member[m].incomplete
        /\ row.leavingAt = db.member[m].leavingAt /\ row.drained = db.member[m].drained
        /\ row.state = db.member[m].state /\ row.approvedAt = db.member[m].approvedAt
        /\ row.pausedAt = Unset /\ row.pauses = db.member[m].pauses \cup {window}
    BY <1>2, <2>2, UnsetIsTime DEF Row
  <2>4. /\ db.member[m].pausedAt # Unset
        /\ db' = ReadState([db EXCEPT !.member[m] = row, !.trip = Bumped(db)], m)
    BY <1>10 DEF Resume, Install
  <2> HIDE DEF row
  <2>5. TurnsRow(db, m, row)
    BY <2>3, <2>4 DEF TurnsRow, NarrowsRow, Stamped, Runs
  <2> QED
    BY <1>2, <1>4, <2>3, <2>4, <2>5
<1>11. ASSUME NEW v \in Int, Drained(m, v),
              v = db.trip.version /\ ~db.member[m].left => Emptied(db, m)
       PROVE  Synced(db')
  <2> DEFINE row == [db.member[m] EXCEPT !.drained = TRUE]
             x == [db EXCEPT !.member[m] = row]
  <2>1. /\ row \in Row /\ row.left = db.member[m].left /\ row.incomplete = db.member[m].incomplete
        /\ row.leavingAt = db.member[m].leavingAt /\ SameRow(db.member[m], row)
    BY <1>1, <1>2 DEF Row, SameRow
  <2>2. x = [db EXCEPT !.member[m] = row, !.trip = db.trip]
    BY <1>1 DEF Tables
  <2>3. \/ db' = ReadState(x, m) /\ v = db.trip.version /\ ~db.member[m].left
        \/ db' = ReadState(db, m)
    BY <1>11 DEF Drained, Install
  <2> HIDE DEF row
  <2>4. CASE db' = ReadState(x, m) /\ v = db.trip.version /\ ~db.member[m].left
    <3>1. TurnsRow(db, m, row)
      BY <1>11, <2>1, <2>4 DEF TurnsRow, NarrowsRow, SameRow, Stamped, Runs, SamePause
    <3> QED
      BY <1>2, <1>4, <2>1, <2>2, <2>4, <3>1
  <2>5. CASE db' = ReadState(db, m)
    BY <1>1, <2>5, ReadStateSynced
  <2> QED
    BY <2>3, <2>4, <2>5
<1> QED
  BY <1>5, <1>6, <1>7, <1>8, <1>9, <1>10, <1>11

(* The scheduled expiry: past the hard deadline nobody finishes any more.  *)
LEMMA ExpireSynced ==
    ASSUME TypeOK, Sound(db), Synced(db), PhonesOK, Expire
    PROVE  Synced(db')
<1> DEFINE w == IF db.trip.state # "ENDING" THEN End(db) ELSE db
           trip == [w.trip EXCEPT !.state = "INCOMPLETE_EXPIRED", !.version = @ + 1]
           x == [w EXCEPT !.member = PastDeadline(w), !.slots = {}, !.trip = trip]
<1>1. w \in Tables /\ Synced(w) /\ now \in Nat
  BY EndType, EndSynced DEF TypeOK, Time
<1>2. db' = w \/ (db' = x /\ HardDeleteAt <= now)
  BY DEF Expire, Install
<1> HIDE DEF w
<1>3. CASE db' = x /\ HardDeleteAt <= now
  <2>1. /\ SameMedia(w, x) /\ x.delivery = w.delivery /\ x.member = PastDeadline(w)
        /\ x.trip = trip
    BY <1>1 DEF Tables, SameMedia
  <2>2. /\ x.trip.state = "INCOMPLETE_EXPIRED" /\ x.trip.startedAt = w.trip.startedAt
        /\ x.trip.endingAt = w.trip.endingAt
    BY <1>1, <2>1, Columns DEF TripRow
  <2> HIDE DEF x
  <2>3. Aboard(w) /\ \A m \in Members : AboardRow(w, m) /\ Searched(w, m) /\ Home(w, m)
    BY <1>1 DEF Synced, Aboard
  <2>4. ASSUME NEW m \in Members
        PROVE  /\ SameRow(w.member[m], x.member[m]) /\ x.member[m].left
               /\ x.member[m].drained = w.member[m].drained
               /\ Stamped(w.member[m].leavingAt, x.member[m].leavingAt)
               /\ x.member[m].leavingAt # Unset
    <3> DEFINE row == w.member[m]
               past == [row EXCEPT !.left = TRUE, !.leavingAt = IF @ = Unset THEN now ELSE @]
    <3>1. row \in Row /\ row.state = "ACTIVE"
      BY <1>1, <2>3, Columns DEF AboardRow
    <3>2. x.member[m] = IF row.state # "NONE" /\ ~row.left THEN past ELSE row
      BY <2>1 DEF PastDeadline
    <3>3. /\ SameRow(row, past) /\ past.left /\ past.drained = row.drained
          /\ past.leavingAt = IF row.leavingAt = Unset THEN now ELSE row.leavingAt
      BY <3>1 DEF Row, SameRow
    <3>4. row.left => row.leavingAt # Unset
      BY <2>3 DEF AboardRow
    <3> HIDE DEF row, past
    <3>5. /\ SameRow(row, x.member[m]) /\ x.member[m].left /\ x.member[m].drained = row.drained
          /\ Stamped(row.leavingAt, x.member[m].leavingAt) /\ x.member[m].leavingAt # Unset
      BY <1>1, <3>1, <3>2, <3>3, <3>4 DEF SameRow, Stamped, Unset
    <3> QED
      BY <3>5 DEF row
  <2>5. Narrows(w, x)
    <3>1. \A m \in Members : NarrowsRow(w.member[m], x.member[m])
      BY <2>4 DEF NarrowsRow, SameRow, Runs, SamePause
    <3> QED
      BY <2>1, <2>2, <3>1 DEF Narrows, SameMedia, Stamped
  <2>6. /\ \A a \in Assets : Recorded(w, a) /\ Recorded(x, a)
        /\ \A m \in Members : Searched(x, m)
    BY <1>1, <2>3, <2>5, NarrowLedger DEF Synced
  <2>7. Aboard(x)
    BY <2>2, <2>3, <2>4 DEF Aboard, AboardRow, SameRow
  <2>8. ASSUME NEW m \in Members PROVE Home(x, m)
    <3>1. Emptied(w, m) => Emptied(x, m)
      BY <1>1, <2>5, <2>6, NarrowEmptied
    <3>2. ~Finished(x, m)
      BY <1>1, <1>3, TimeAssumption DEF Finished
    <3> QED
      BY <2>3, <2>4, <3>1, <3>2 DEF Home
  <2> QED
    BY <1>3, <2>6, <2>7, <2>8 DEF Synced
<1> QED
  BY <1>1, <1>2, <1>3

(* A request about photos leaves the trip as it is, and of the rows at     *)
(* most reopens a final pass; photos stay committed and receipts stay.     *)
Reopens(row, s) ==
    /\ SameRow(row, s) /\ s.left = row.left /\ s.incomplete = row.incomplete
    /\ s.leavingAt = row.leavingAt /\ (s.drained => row.drained)
    /\ row.left => s.drained = row.drained

Progresses(w, x) ==
    /\ x.trip = w.trip
    /\ \A m \in Members : Reopens(w.member[m], x.member[m])
    /\ \A a \in Assets : w.asset[a] # "NONE" => x.asset[a] # "NONE"
    /\ \A a \in Assets, m \in Members :
          w.delivery[a][m] = "SAVED_LOCALLY" => x.delivery[a][m] = "SAVED_LOCALLY"

(* Then the phones agree if the ledgers do.                                *)
LEMMA ProgressSynced ==
    ASSUME NEW w, NEW x, Synced(w), Progresses(w, x), \A a \in Assets : Recorded(x, a)
    PROVE  Synced(x)
<1>1. Aboard(w) /\ \A m \in Members : AboardRow(w, m) /\ Searched(w, m) /\ Home(w, m)
  BY DEF Synced, Aboard
<1>2. x.trip = w.trip /\ \A m \in Members : Reopens(w.member[m], x.member[m])
  BY DEF Progresses
<1>3. \A a \in Assets : SharedIn(x, a) <=> SharedIn(w, a)
  BY <1>2, PhoneAssumption DEF SharedIn, AllowedIn, ResumedIn, Reopens, SameRow
<1>4. Aboard(x)
  BY <1>1, <1>2 DEF Aboard, AboardRow, Reopens, SameRow
<1>5. ASSUME NEW m \in Members PROVE Searched(x, m) /\ Home(x, m)
  <2>1. Reopens(w.member[m], x.member[m])
    BY <1>2
  <2>2. Searched(x, m)
    BY <1>1, <1>3, <2>1 DEF Searched, Mine, Reopens
  <2>3. Emptied(w, m) => Emptied(x, m)
    BY <1>3, <2>1 DEF Emptied, Mine, Reopens, Progresses
  <2>4. Supplied(w, m) => Supplied(x, m)
    BY <1>2, <1>3, PhoneAssumption DEF Supplied, Reopens, Progresses
  <2> QED
    BY <1>1, <1>2, <2>1, <2>2, <2>3, <2>4 DEF Home, Finished, Reopens
<1> QED
  BY <1>4, <1>5 DEF Synced

(* Ledgers of the photos a request does not concern.                       *)
LEMMA OthersRecorded ==
    ASSUME NEW w, NEW x, Progresses(w, x), NEW b \in Assets, Recorded(w, b),
           x.session[b] = w.session[b], x.delivery[b] = w.delivery[b]
    PROVE  Recorded(x, b)
<1>1. Shooter[b] \in Members /\ x.trip = w.trip /\ (w.asset[b] # "NONE" => x.asset[b] # "NONE")
  BY PhoneAssumption DEF Progresses
<1>2. /\ ResumedIn(x, b) <=> ResumedIn(w, b)
      /\ AllowedIn(x, Shooter[b], photo[b]) <=> AllowedIn(w, Shooter[b], photo[b])
  BY <1>1 DEF Progresses, Reopens, SameRow, ResumedIn, AllowedIn
<1> QED
  BY <1>1, <1>2 DEF Recorded

(* The media requests of the phones and cleanup's two retirements: an      *)
(* upload is begun from a lane, committed by its shooter, and a receipt    *)
(* sent for what the gallery holds.                                        *)
LEMMA MediaSynced ==
    ASSUME TypeOK, Sound(db), Synced(db), PhonesOK, NEW m \in Members, NEW a \in Assets,
           \/ CreateUpload(m, a, photo[a]) /\ Publishing(m, a) /\ upload[a] = "IDLE"
           \/ RenewUpload(m, a) \/ PublishPreview(m, a)
           \/ Commit(m, a) /\ Shooter[a] = m
           \/ Saved(m, a) /\ inbox[m][a] # "NONE"
           \/ RetireAsset(a) \/ RetireUpload(a)
    PROVE  Synced(db')
<1>1. /\ db \in Tables /\ db.member \in [Members -> Row] /\ db.session \in [Assets -> SessionRow]
      /\ db.asset \in [Assets -> AssetState] /\ db.preview \in [Assets -> SUBSET Members]
      /\ db.delivery \in [Assets -> [Members -> DeliveryState]] /\ now \in Nat
  BY DEF TypeOK, Tables
<1>2. /\ \A b \in Assets : Recorded(db, b)
      /\ db.session[a].state = "COMMITTED" <=> db.asset[a] # "NONE"
      /\ \A o \in Members : db.delivery[a][o] # "NONE" => db.asset[a] # "NONE"
      /\ \A o \in Members : Reopens(db.member[o], db.member[o])
  BY DEF Synced, Sound, Uploads, Pair, Reopens, SameRow
<1>s. db.session[a] \in SessionRow /\ Shooter[a] \in Members
  BY <1>1, PhoneAssumption
<1>3. ASSUME Progresses(db, db'), Recorded(db', a),
             \A b \in Assets \ {a} : /\ db'.session[b] = db.session[b]
                                     /\ db'.delivery[b] = db.delivery[b]
      PROVE  Synced(db')
  <2>1. \A b \in Assets : Recorded(db', b)
    BY <1>2, <1>3, OthersRecorded
  <2> QED
    BY <1>3, <2>1, ProgressSynced
(* The ledger of a photo that the request moves on.                        *)
<1>4. ASSUME Progresses(db, db'),
             db'.session[a].capturedAt = db.session[a].capturedAt,
             db'.session[a].createdAt = db.session[a].createdAt,
             db'.session[a].state # "NONE" => db.session[a].state # "NONE",
             \A o \in Members : db'.delivery[a][o] = "SAVED_LOCALLY" /\ o # Shooter[a] =>
                inbox[o][a] # "NONE"
      PROVE  Recorded(db', a)
  <2>1. db'.trip = db.trip /\ (db.asset[a] # "NONE" => db'.asset[a] # "NONE")
    BY <1>4 DEF Progresses
  <2>2. /\ ResumedIn(db', a) <=> ResumedIn(db, a)
        /\ AllowedIn(db', Shooter[a], photo[a]) <=> AllowedIn(db, Shooter[a], photo[a])
    BY <1>s, <1>4, <2>1 DEF Progresses, Reopens, SameRow, ResumedIn, AllowedIn
  <2> QED
    BY <1>2, <1>4, <2>1, <2>2 DEF Recorded
<1>5. CASE CreateUpload(m, a, photo[a]) /\ Publishing(m, a) /\ upload[a] = "IDLE"
  <2> DEFINE row == [db.member[m] EXCEPT !.drained = FALSE]
             new == [state |-> "CREATED", source |-> m, capturedAt |-> photo[a],
                     createdAt |-> now, expiresAt |-> GrantExpiry]
  <2>1. /\ db'.trip = db.trip /\ db'.asset = db.asset /\ db'.delivery = db.delivery
        /\ db'.session[a] = new
        /\ \A b \in Assets \ {a} : db'.session[b] = db.session[b]
        /\ \A o \in Members : db'.member[o] = IF o = m THEN row ELSE db.member[o]
    BY <1>1, <1>5 DEF CreateUpload, Install, Tables
  <2>2. /\ SameRow(db.member[m], row) /\ row.left = db.member[m].left
        /\ row.incomplete = db.member[m].incomplete
        /\ row.leavingAt = db.member[m].leavingAt /\ ~row.drained
    BY <1>1 DEF Row, SameRow
  <2>3. db'.session[a].capturedAt = photo[a] /\ photo[a] <= db'.session[a].createdAt
    BY <1>2, <2>1 DEF Recorded
  <2> HIDE DEF row, new
  <2>4. ~db.member[m].left /\ db.trip.startedAt <= photo[a]
    BY <1>5, Columns DEF CreateUpload, MayTransfer, Participates, InTrip, CaptureAllowed,
                         PhonesOK, TypeOK, TripRow, Time
  <2>5. Progresses(db, db')
    BY <1>2, <2>1, <2>2, <2>4 DEF Progresses, Reopens
  <2>6. work[a].stage \in {"FOUND", "PREVIEWED"}
    BY <1>2, <1>5 DEF Publishing, InPreviewLane, InBulkLane, Recorded
  <2>7. Recorded(db', a)
    BY <1>2, <1>5, <2>1, <2>3, <2>4, <2>6 DEF Recorded
  <2> QED
    BY <1>3, <2>1, <2>5, <2>7
<1>6. CASE RenewUpload(m, a)
  <2>1. /\ db'.trip = db.trip /\ db'.member = db.member /\ db'.asset = db.asset
        /\ db'.delivery = db.delivery
        /\ \A b \in Assets \ {a} : db'.session[b] = db.session[b]
        /\ db'.session[a] = [db.session[a] EXCEPT !.expiresAt = GrantExpiry]
    BY <1>1, <1>6 DEF RenewUpload, Install, Tables
  <2>2. /\ db'.session[a].state = db.session[a].state
        /\ db'.session[a].capturedAt = db.session[a].capturedAt
        /\ db'.session[a].createdAt = db.session[a].createdAt
    BY <1>s, <2>1 DEF SessionRow
  <2>3. Progresses(db, db')
    BY <1>2, <2>1 DEF Progresses
  <2> QED
    BY <1>2, <1>3, <1>4, <2>1, <2>2, <2>3 DEF Recorded
<1>7. CASE PublishPreview(m, a)
  <2>1. /\ db'.trip = db.trip /\ db'.member = db.member /\ db'.asset = db.asset
        /\ db'.delivery = db.delivery /\ db'.session = db.session
    BY <1>1, <1>7 DEF PublishPreview, Install, Tables
  <2>2. Progresses(db, db')
    BY <1>2, <2>1 DEF Progresses
  <2> QED
    BY <1>2, <1>3, <1>4, <2>1, <2>2 DEF Recorded
<1>8. CASE Commit(m, a) /\ Shooter[a] = m
  <2> DEFINE rows == [r \in Members |-> IF r \notin Recipients(db, a) THEN "NONE"
                                        ELSE IF r = m THEN "SAVED_LOCALLY" ELSE "READY"]
  <2>1. /\ db'.trip = db.trip /\ db'.member = db.member
        /\ db'.asset = [db.asset EXCEPT ![a] = "COMMITTED"]
        /\ db'.delivery = [db.delivery EXCEPT ![a] = rows]
        /\ db'.session = [db.session EXCEPT ![a] = [db.session[a] EXCEPT !.state = "COMMITTED"]]
        /\ db.session[a].state = "CREATED"
    BY <1>1, <1>8 DEF Commit, UploadOpen, Install, Tables
  <2>2. \A o \in Members : rows[o] = "SAVED_LOCALLY" => o = m
    OBVIOUS
  <2> HIDE DEF rows
  <2>3. /\ db'.asset[a] = "COMMITTED" /\ db'.delivery[a] = rows
        /\ db'.session[a] = [db.session[a] EXCEPT !.state = "COMMITTED"]
        /\ \A b \in Assets \ {a} : /\ db'.session[b] = db.session[b]
                                   /\ db'.asset[b] = db.asset[b]
                                   /\ db'.delivery[b] = db.delivery[b]
    BY <1>1, <2>1
  <2>4. /\ db'.session[a].capturedAt = db.session[a].capturedAt
        /\ db'.session[a].createdAt = db.session[a].createdAt
    BY <1>s, <2>3 DEF SessionRow
  <2>5. \A o \in Members : db.delivery[a][o] = "NONE"
    BY <1>2, <2>1
  <2>6. Progresses(db, db')
    BY <1>2, <2>1, <2>3, <2>5 DEF Progresses
  <2> QED
    BY <1>3, <1>4, <1>8, <2>1, <2>2, <2>3, <2>4, <2>6
<1>9. CASE Saved(m, a) /\ inbox[m][a] # "NONE"
  <2> DEFINE saved == [db.delivery[a] EXCEPT ![m] = "SAVED_LOCALLY"]
  <2>1. /\ db'.trip = db.trip /\ db'.member = db.member /\ db'.session = db.session
        /\ db'.delivery = [db.delivery EXCEPT ![a] = saved]
        /\ db'.asset \in {db.asset, [db.asset EXCEPT ![a] = "PURGE_PENDING"]}
    BY <1>1, <1>9 DEF Saved, Install, Tables
  <2>2. /\ db'.delivery[a][m] = "SAVED_LOCALLY"
        /\ \A o \in Members \ {m} : db'.delivery[a][o] = db.delivery[a][o]
        /\ \A b \in Assets \ {a} : db'.delivery[b] = db.delivery[b]
        /\ \A b \in Assets : db'.asset[b] = db.asset[b] \/ db'.asset[b] = "PURGE_PENDING"
    BY <1>1, <2>1
  <2>3. Progresses(db, db')
    <3>1. \A b \in Assets, o \in Members :
            db.delivery[b][o] = "SAVED_LOCALLY" => db'.delivery[b][o] = "SAVED_LOCALLY"
      BY <2>2
    <3> QED
      BY <1>2, <2>1, <2>2, <3>1 DEF Progresses
  <2>4. \A o \in Members : db'.delivery[a][o] = "SAVED_LOCALLY" /\ o # Shooter[a] =>
           inbox[o][a] # "NONE"
    BY <1>2, <1>9, <2>2 DEF Recorded
  <2> QED
    BY <1>3, <1>4, <2>1, <2>2, <2>3, <2>4
<1>10. CASE RetireAsset(a)
  <2>1. /\ db'.trip = db.trip /\ db'.member = db.member /\ db'.session = db.session
        /\ db'.asset[a] \in {"PURGED", "EXPIRED"}
        /\ \A b \in Assets \ {a} : /\ db'.asset[b] = db.asset[b]
                                   /\ db'.delivery[b] = db.delivery[b]
    BY <1>1, <1>10 DEF RetireAsset, Tables
  <2>2. \A o \in Members : \/ db'.delivery[a][o] = db.delivery[a][o]
                           \/ db.delivery[a][o] = "READY" /\ db'.delivery[a][o] = "EXPIRED"
    BY <1>1, <1>10 DEF RetireAsset, Tables
  <2>3. Progresses(db, db')
    <3>1. \A b \in Assets, o \in Members :
            db.delivery[b][o] = "SAVED_LOCALLY" => db'.delivery[b][o] = "SAVED_LOCALLY"
      BY <2>1, <2>2
    <3> QED
      BY <1>2, <2>1, <3>1 DEF Progresses
  <2>4. \A o \in Members : db'.delivery[a][o] = "SAVED_LOCALLY" /\ o # Shooter[a] =>
           inbox[o][a] # "NONE"
    BY <1>2, <2>2 DEF Recorded
  <2> QED
    BY <1>3, <1>4, <2>1, <2>3, <2>4
<1>11. CASE RetireUpload(a)
  <2>1. /\ db'.trip = db.trip /\ db'.member = db.member /\ db'.asset = db.asset
        /\ db'.delivery = db.delivery
        /\ \A b \in Assets \ {a} : db'.session[b] = db.session[b]
        /\ db'.session[a] = [db.session[a] EXCEPT !.state = "EXPIRED"]
        /\ db.session[a].state = "CREATED"
    BY <1>1, <1>11 DEF RetireUpload, Tables
  <2>2. /\ db'.session[a].capturedAt = db.session[a].capturedAt
        /\ db'.session[a].createdAt = db.session[a].createdAt
    BY <1>s, <2>1 DEF SessionRow
  <2>3. Progresses(db, db')
    BY <1>2, <2>1 DEF Progresses
  <2> QED
    BY <1>2, <1>3, <1>4, <2>1, <2>2, <2>3 DEF Recorded
<1> QED
  BY <1>5, <1>6, <1>7, <1>8, <1>9, <1>10, <1>11

-----------------------------------------------------------------------------
(***************************************************************************)
(* The phones' steps are steps of the server.                              *)
(***************************************************************************)
(* A request to the server is one of TripMedia's: a policy read reads the  *)
(* transfer state, a stale acknowledgement only reads, and a photo offered *)
(* for upload was taken in the past.                                       *)
LEMMA Simulation ==
    ASSUME TypeOK, PhonesOK, Synced(db), [SyncNext]_syncVars
    PROVE  [Next]_vars
<1>1. \A m \in Members : Lockable(m)
  BY DEF Synced, Aboard, AboardRow, Lockable
<1>2. db.trip \in TripRow /\ db.trip.startedAt >= 1 /\ now \in Nat
  BY Columns DEF TypeOK, Synced, Aboard
<1>3. \A m \in Members, a \in Assets :
         \/ \E c \in 0 .. now + ClockAhead : CreateUpload(m, a, c)
         \/ RenewUpload(m, a) \/ PublishPreview(m, a) \/ Commit(m, a) \/ Saved(m, a)
         => Next
  BY DEF Next, PhoneRequest
<1>4. \A m \in Members : ReadTransferState(m) => Next
  BY DEF Next, PhoneRequest
<1>5. \A m \in Members, v \in {db.trip.version - 1, db.trip.version} : Drained(m, v) => Next
  BY DEF Next, PhoneRequest
<1>6. UNCHANGED server => UNCHANGED vars
  BY DEF server, vars
<1>7. CASE UNCHANGED syncVars
  BY <1>7 DEF syncVars, vars
<1>8. CASE People
  BY <1>8, PhoneAssumption DEF People, Next, UserCommand
<1>9. CASE Platform
  BY <1>9 DEF Platform, Next
<1>10. CASE \E a \in Assets : TakePhoto(a)
  BY <1>6, <1>10 DEF TakePhoto
<1>11. ASSUME NEW m \in Members, Discover(m) \/ Poll(m) \/ Stop(m) \/ Reconcile(m)
       PROVE  [Next]_vars
  BY <1>4, <1>6, <1>11 DEF Discover, Poll, Stop, Reconcile
<1>12. ASSUME NEW m \in Members, NEW heard \in BOOLEAN, ReadPolicy(m, heard)
       PROVE  [Next]_vars
  <2>1. ReadTransferState(m)
    BY <1>1, <1>12 DEF ReadPolicy, ReadTransferState
  <2> QED
    BY <1>4, <2>1
<1>13. ASSUME NEW m \in Members, NEW heard \in BOOLEAN, EndPass(m, heard)
       PROVE  [Next]_vars
  <2>1. CASE Drained(m, pass[m].version)
    <3>1. CASE pass[m].version = db.trip.version
      BY <1>5, <2>1, <3>1
    <3>2. CASE pass[m].version # db.trip.version
      <4>1. db.trip.version - 1 # db.trip.version
        BY <1>2 DEF TripRow
      <4>2. Drained(m, db.trip.version - 1)
        BY <2>1, <3>2, <4>1 DEF Drained
      <4> QED
        BY <1>5, <4>2
    <3> QED
      BY <3>1, <3>2
  <2> QED
    BY <1>6, <1>13, <2>1 DEF EndPass
<1>14. ASSUME NEW m \in Members, NEW a \in Assets, Publish(m, a) PROVE [Next]_vars
  <2>1. CASE ExpiredReplay(m, a) \/ RefuseUpload(m, a) \/ GiveUp(m, a)
    BY <1>6, <2>1 DEF ExpiredReplay, RefuseUpload, GiveUp
  <2>2. ASSUME NEW heard \in BOOLEAN, RequestUpload(m, a, heard) PROVE [Next]_vars
    <3>1. CreateUpload(m, a, photo[a]) => photo[a] \in 0 .. now + ClockAhead
      BY <1>2, LimitAssumption DEF CreateUpload, CaptureAllowed, PhonesOK, Time, TripRow
    <3> QED
      BY <1>3, <1>6, <2>2, <3>1 DEF RequestUpload, SessionReplay
  <2>3. ASSUME NEW heard \in BOOLEAN, RecheckRefused(m, a, heard) PROVE [Next]_vars
    <3>1. ReadTransferState(m)
      BY <1>1, <2>3 DEF RecheckRefused, ReadTransferState
    <3> QED
      BY <1>4, <3>1
  <2>4. ASSUME NEW heard \in BOOLEAN,
               AnnouncePreview(m, a, heard) \/ CommitOriginal(m, a, heard)
        PROVE  [Next]_vars
    BY <1>3, <1>6, <2>4 DEF AnnouncePreview, PreviewReplay, CommitOriginal, CommitReplay
  <2>5. ASSUME NEW heard \in BOOLEAN, NEW v \in Variants, SendObject(m, a, v, heard)
        PROVE  [Next]_vars
    BY <1>6, <2>5 DEF SendObject, Next
  <2> QED
    BY <1>14, <2>1, <2>2, <2>3, <2>4, <2>5 DEF Publish
<1>15. ASSUME NEW m \in Members, NEW a \in Assets, ReceiveLane(m, a) PROVE [Next]_vars
  BY <1>3, <1>6, <1>15 DEF ReceiveLane, SaveCopy, Acknowledge, ReceiptReplay
<1> QED
  BY <1>7, <1>8, <1>9, <1>10, <1>11, <1>12, <1>13, <1>14, <1>15 DEF SyncNext, PreviewLane

-----------------------------------------------------------------------------
(***************************************************************************)
(* What the phones' own side of a step keeps.                              *)
(***************************************************************************)
(* The ledgers of photo a say the same of it, or less.                     *)
CalmPhoto(a) ==
    /\ work'[a].stage = work[a].stage /\ upload'[a] \in {upload[a], "IDLE", "GRANTED"}
    /\ \A m \in Members : /\ a \in pass'[m].todo => a \in pass[m].todo
                          /\ inbox[m][a] # "NONE" => inbox'[m][a] # "NONE"

(* The pass of m searches as before, or is over.                           *)
CalmPass(m) ==
    pass'[m].leaving =>
       /\ pass[m].leaving /\ pass'[m].step = pass[m].step
       /\ pass'[m].windows = pass[m].windows /\ pass'[m].found = pass[m].found

(* So phones and tables agree, where the rest is shown to.                 *)
LEMMA PhonesSynced ==
    ASSUME Synced(db'), UNCHANGED <<now, photo>>,
           \A a \in Assets : CalmPhoto(a) \/ Recorded(db, a)',
           \A a \in Assets : work[a].stage # "NONE" => work'[a].stage # "NONE",
           \A m \in Members : CalmPass(m) \/ Searched(db, m)'
    PROVE  Synced(db)'
<1>1. ASSUME NEW a \in Assets
      PROVE  /\ (ResumedIn(db, a))' = ResumedIn(db', a)
             /\ (AllowedIn(db, Shooter[a], photo[a]))' = AllowedIn(db', Shooter[a], photo[a])
  BY DEF ResumedIn, AllowedIn
<1>2. ASSUME NEW a \in Assets PROVE (SharedIn(db, a))' = SharedIn(db', a)
  BY <1>1 DEF SharedIn
<1>3. ASSUME NEW a \in Assets PROVE Recorded(db, a)'
  <2>1. CASE CalmPhoto(a)
    <3>1. Recorded(db', a)
      BY DEF Synced
    <3> QED
      BY <1>1, <2>1, <3>1 DEF Recorded, CalmPhoto
  <2> QED
    BY <2>1
<1>4. ASSUME NEW m \in Members PROVE Searched(db, m)'
  <2>1. CASE CalmPass(m)
    <3>1. Searched(db', m)
      BY DEF Synced
    <3> QED
      BY <1>2, <2>1, <3>1 DEF Searched, CalmPass, Mine
  <2> QED
    BY <2>1
<1>5. ASSUME NEW m \in Members PROVE Home(db, m)'
  <2>1. Home(db', m)
    BY DEF Synced
  <2> QED
    BY <1>2, <2>1 DEF Home, Emptied, Finished, Supplied, Mine
<1>6. Aboard(db)'
  BY DEF Synced, Aboard, AboardRow
<1> QED
  BY <1>3, <1>4, <1>5, <1>6 DEF Synced

(* A photo dropped from a pass.                                            *)
LEMMA DroppedCalm ==
    ASSUME PhonesOK, NEW m \in Members, NEW a \in Assets, Dropped(m, a)
    PROVE  /\ \A o \in Members : CalmPass(o) /\ pass'[o].todo \subseteq pass[o].todo
           /\ a \notin pass'[m].todo
           /\ \A b \in Assets : upload'[b] \in {upload[b], "IDLE"}
           /\ pass' \in [Members -> PassRow]
           /\ upload' \in [Assets -> {"IDLE", "GRANTED", "REFUSED", "FULL"}]
<1>1. pass[m] \in PassRow
  BY DEF PhonesOK
<1> DEFINE row == [pass[m] EXCEPT !.todo = @ \ {a}]
<1>2. row \in PassRow
  BY <1>1 DEF PassRow
<1>3. /\ row.leaving = pass[m].leaving /\ row.step = pass[m].step
      /\ row.windows = pass[m].windows /\ row.found = pass[m].found
      /\ row.todo = pass[m].todo \ {a}
  BY <1>1 DEF PassRow
<1>4. pass' = [pass EXCEPT ![m] = row]
  BY DEF Dropped
<1> HIDE DEF row
<1>5. \A o \in Members : pass'[o] = IF o = m THEN row ELSE pass[o]
  BY <1>4 DEF PhonesOK
<1>6. \A o \in Members : CalmPass(o) /\ pass'[o].todo \subseteq pass[o].todo
  BY <1>3, <1>5 DEF CalmPass
<1> QED
  BY <1>2, <1>3, <1>4, <1>5, <1>6 DEF Dropped, PhonesOK

(* A phone with nothing left to do at the end of a pass that began on a    *)
(* leaving policy has shared everything.                                   *)
LEMMA QuietEmptied ==
    ASSUME Synced(db), PhonesOK, NEW m \in Members, Quiet(m), pass[m].step = "PUBLISH"
    PROVE  Emptied(db, m)
<1>1. /\ Searched(db, m) /\ pass[m].leaving /\ ~pass[m].found
      /\ \A a \in Mine(m) : ~Unfinished(a)
  BY DEF Synced, Quiet
<1> SUFFICES ASSUME NEW a \in Mine(m), SharedIn(db, a) PROVE db.asset[a] # "NONE"
  BY <1>1 DEF Emptied, Searched
<1>2. a \in Assets /\ Shooter[a] = m /\ work[a] \in WorkRow /\ Recorded(db, a)
  BY DEF Mine, PhonesOK, Synced
<1>3. work[a].stage \in {"COMPLETE", "IGNORED"}
  BY <1>1, <1>2 DEF Searched, Unfinished, WorkRow
<1>4. work[a].stage # "IGNORED"
  BY <1>2 DEF Recorded, SharedIn
<1> QED
  BY <1>2, <1>3, <1>4 DEF Recorded

(* The server's side of every step.                                        *)
LEMMA ServerSynced ==
    ASSUME TypeOK, Sound(db), Synced(db), PhonesOK, [SyncNext]_syncVars
    PROVE  Synced(db')
<1>1. ASSUME db' = db PROVE Synced(db')
  BY <1>1
<1>2. ASSUME NEW m \in Members, ReadTransferState(m) PROVE Synced(db')
  BY <1>2, LifecycleSynced
<1>3. \A m \in Members : Lockable(m)
  BY DEF Synced, Aboard, AboardRow, Lockable
<1>4. CASE UNCHANGED syncVars
  BY <1>1, <1>4 DEF syncVars
<1>5. CASE People
  <2>1. Owner \in Members /\ Leavers \subseteq Members
    BY MembersAssumption, PhoneAssumption
  <2>2. CASE EndTrip
    BY <2>1, <2>2, LifecycleSynced
  <2>3. ASSUME NEW m \in Members, Pause(m) \/ Resume(m) PROVE Synced(db')
    BY <2>3, LifecycleSynced
  <2>4. ASSUME NEW m \in Leavers, Leave(m) \/ LeaveNow(m) PROVE Synced(db')
    BY <2>1, <2>4, LifecycleSynced
  <2> QED
    BY <1>5, <2>2, <2>3, <2>4 DEF People
<1>6. CASE Platform
  <2>1. CASE Tick
    BY <1>1, <2>1 DEF Tick
  <2>2. CASE Expire
    BY <2>2, ExpireSynced
  <2>3. ASSUME NEW a \in Assets, RetireAsset(a) \/ RetireUpload(a) PROVE Synced(db')
    BY <2>3, MediaSynced, MembersAssumption
  <2> QED
    BY <1>6, <2>1, <2>2, <2>3 DEF Platform, Cleanup
<1>7. CASE \E a \in Assets : TakePhoto(a)
  BY <1>1, <1>7 DEF TakePhoto, server
<1>8. ASSUME NEW m \in Members, Discover(m) \/ Poll(m) \/ Stop(m) \/ Reconcile(m)
      PROVE  Synced(db')
  BY <1>1, <1>2, <1>8 DEF Discover, Poll, Stop, Reconcile, server
<1>9. ASSUME NEW m \in Members, NEW heard \in BOOLEAN, ReadPolicy(m, heard)
      PROVE  Synced(db')
  BY <1>2, <1>3, <1>9 DEF ReadPolicy, ReadTransferState
<1>10. ASSUME NEW m \in Members, NEW heard \in BOOLEAN, EndPass(m, heard)
       PROVE  Synced(db')
  <2>1. CASE Quiet(m)
    <3>1. Emptied(db, m) /\ Drained(m, pass[m].version)
      BY <1>10, <2>1, QuietEmptied DEF EndPass
    <3>2. pass[m].version \in Int
      BY DEF PhonesOK, PassRow
    <3> QED
      BY <3>1, <3>2, LifecycleSynced
  <2>2. CASE ~Quiet(m)
    BY <1>1, <1>10, <2>2 DEF EndPass, server
  <2> QED
    BY <2>1, <2>2
<1>11. ASSUME NEW m \in Members, NEW a \in Assets, Publish(m, a) PROVE Synced(db')
  <2>1. CASE ExpiredReplay(m, a) \/ RefuseUpload(m, a) \/ GiveUp(m, a)
    BY <1>1, <2>1 DEF ExpiredReplay, RefuseUpload, GiveUp, server
  <2>2. ASSUME NEW heard \in BOOLEAN, RequestUpload(m, a, heard) PROVE Synced(db')
    BY <1>1, <2>2, MediaSynced DEF RequestUpload, SessionReplay, server
  <2>3. ASSUME NEW heard \in BOOLEAN, RecheckRefused(m, a, heard) PROVE Synced(db')
    BY <1>2, <1>3, <2>3 DEF RecheckRefused, ReadTransferState
  <2>4. ASSUME NEW heard \in BOOLEAN, AnnouncePreview(m, a, heard) PROVE Synced(db')
    BY <1>1, <2>4, MediaSynced DEF AnnouncePreview, PreviewReplay, server
  <2>5. ASSUME NEW heard \in BOOLEAN, CommitOriginal(m, a, heard) PROVE Synced(db')
    BY <1>1, <2>5, MediaSynced DEF CommitOriginal, CommitReplay, InBulkLane, server
  <2>6. ASSUME NEW heard \in BOOLEAN, NEW v \in Variants, SendObject(m, a, v, heard)
        PROVE  Synced(db')
    BY <1>1, <2>6 DEF SendObject, PutObject, server
  <2> QED
    BY <1>11, <2>1, <2>2, <2>3, <2>4, <2>5, <2>6 DEF Publish
<1>12. ASSUME NEW m \in Members, NEW a \in Assets, ReceiveLane(m, a) PROVE Synced(db')
  <2>1. CASE SaveCopy(m, a)
    BY <1>1, <2>1 DEF SaveCopy, server
  <2>2. ASSUME NEW heard \in BOOLEAN, Acknowledge(m, a, heard) PROVE Synced(db')
    BY <1>1, <2>2, MediaSynced DEF Acknowledge, ReceiptReplay, server
  <2> QED
    BY <1>12, <2>1, <2>2 DEF ReceiveLane
<1> QED
  BY <1>4, <1>5, <1>6, <1>7, <1>8, <1>9, <1>10, <1>11, <1>12 DEF SyncNext, PreviewLane

(* The preview lane: a policy read, the discovery it leads to, the end of  *)
(* the pass.                                                               *)
LEMMA ReadPolicySynced ==
    ASSUME PhonesOK, db' \in Tables, Synced(db'), NEW m \in Members, NEW heard \in BOOLEAN,
           ReadPolicy(m, heard)
    PROVE  Synced(db)' /\ PhonesOK'
<1> DEFINE w == ReadState(db, m)
           row == [step |-> "DISCOVER", version |-> w.trip.version,
                   leaving |-> w.member[m].leavingAt # Unset,
                   windows |-> Windows(w, m), found |-> FALSE, todo |-> {}]
<1>1. /\ db' = w /\ UNCHANGED <<now, photo, work, upload, inbox>>
      /\ pass' = IF heard /\ ~w.member[m].left THEN [pass EXCEPT ![m] = row] ELSE pass
  BY DEF ReadPolicy, Install
<1>2. CASE pass' = pass
  <2>1. /\ \A a \in Assets : CalmPhoto(a)
        /\ \A o \in Members : CalmPass(o)
    BY <1>1, <1>2 DEF CalmPhoto, CalmPass
  <2> QED
    BY <1>1, <1>2, <2>1, PhonesSynced DEF PhonesOK
<1>3. CASE ~w.member[m].left /\ pass' = [pass EXCEPT ![m] = row]
  <2>1. Participates(w, m) /\ Aboard(w)
    BY <1>1, <1>3 DEF Synced, Aboard, AboardRow, Participates, InTrip
  <2>2. Windows(w, m) = {t \in 0 .. EndsAt : AllowedIn(w, m, t)}
    BY <1>1, <2>1, WindowsAllowed
  <2>3. /\ row.leaving = (w.member[m].leavingAt # Unset) /\ row.step = "DISCOVER"
        /\ row.windows = Windows(w, m) /\ row.todo = {}
    OBVIOUS
  <2>4. row \in PassRow
    BY <1>1, <2>2, Columns DEF PassRow, TripRow
  <2> HIDE DEF row, w
  <2>5. \A o \in Members : pass'[o] = IF o = m THEN row ELSE pass[o]
    BY <1>3 DEF PhonesOK
  <2>6. \A a \in Assets : CalmPhoto(a)
    BY <1>1, <2>3, <2>5 DEF CalmPhoto
  <2>7. \A o \in Members \ {m} : CalmPass(o)
    BY <2>5 DEF CalmPass
  <2>8. Searched(db, m)'
    <3>1. ASSUME NEW a \in Mine(m), SharedIn(db, a)' PROVE photo'[a] \in Windows(w, m)
      <4>1. a \in Assets /\ Shooter[a] = m /\ photo[a] \in Time /\ photo[a] # Unset
        BY <1>1, <3>1 DEF Mine, PhonesOK, SharedIn
      <4>2. AllowedIn(w, m, photo[a])
        BY <1>1, <3>1, <4>1 DEF SharedIn, AllowedIn
      <4>3. photo[a] \in 0 .. EndsAt
        BY <4>1, <4>2, TimeAssumption DEF AllowedIn, Time, Unset
      <4> QED
        BY <1>1, <2>2, <4>2, <4>3
    <3>2. pass'[m] = row
      BY <2>5
    <3>3. /\ pass'[m].step = "DISCOVER" /\ pass'[m].windows = Windows(w, m)
          /\ pass'[m].leaving => db'.member[m].leavingAt # Unset
      BY <1>1, <2>3, <3>2
    <3>4. \A a \in Mine(m) : SharedIn(db, a)' => photo'[a] \in pass'[m].windows
      BY <3>1, <3>3
    <3> QED
      BY <3>3, <3>4 DEF Searched, Mine
  <2>9. PhonesOK'
    BY <1>1, <1>3, <2>4 DEF PhonesOK
  <2> QED
    BY <1>1, <2>6, <2>7, <2>8, <2>9, PhonesSynced
<1> QED
  BY <1>1, <1>2, <1>3

LEMMA DiscoverSynced ==
    ASSUME PhonesOK, Synced(db), Synced(db'), NEW m \in Members, Discover(m)
    PROVE  Synced(db)' /\ PhonesOK'
<1>1. PICK new \in SUBSET Undiscovered(m), todo \in SUBSET Unannounced(work', m) :
        /\ new = Undiscovered(m) \/ Cardinality(new) = Batch
        /\ pass[m].step = "DISCOVER"
        /\ work' = [a \in Assets |-> IF a \in new THEN [NoWork EXCEPT !.stage = "FOUND"]
                                     ELSE work[a]]
        /\ pass' = [pass EXCEPT ![m].step = "PUBLISH", ![m].windows = {},
                                ![m].found = new # {}, ![m].todo = todo]
        /\ UNCHANGED <<server, photo, upload, inbox, faults>>
  BY DEF Discover, Batches
<1> DEFINE found == [NoWork EXCEPT !.stage = "FOUND"]
           row == [pass[m] EXCEPT !.step = "PUBLISH", !.windows = {}, !.found = new # {},
                                  !.todo = todo]
<1>2. /\ pass' = [pass EXCEPT ![m] = row] /\ db' = db /\ now' = now
      /\ photo' = photo /\ upload' = upload /\ inbox' = inbox
  BY <1>1 DEF PhonesOK, server
<1>3. found.stage = "FOUND" /\ found \in WorkRow
  BY DEF NoWork, WorkRow
<1>4. /\ row.step = "PUBLISH" /\ row.found = (new # {}) /\ row.leaving = pass[m].leaving
      /\ row.todo = todo /\ row \in PassRow
  <2>1. pass[m] \in PassRow /\ todo \in SUBSET Assets
    BY DEF PhonesOK, Unannounced, Mine
  <2> QED
    BY <2>1 DEF PassRow
<1>5. \A a \in Assets : work'[a] = IF a \in new THEN found ELSE work[a]
  BY <1>1
<1>6. ASSUME NEW a \in new
      PROVE  a \in Assets /\ Shooter[a] = m /\ photo[a] \in pass[m].windows /\ work[a].stage = "NONE"
  BY DEF Undiscovered, Mine
<1>7. pass[m] \in PassRow
  BY DEF PhonesOK
<1> HIDE DEF found, row
<1>8. \A o \in Members : pass'[o] = IF o = m THEN row ELSE pass[o]
  BY <1>2 DEF PhonesOK
<1>9. \A a \in Assets : work[a].stage # "NONE" => work'[a] = work[a]
  BY <1>5, <1>6
<1>10. ASSUME NEW a \in Assets PROVE Recorded(db, a)'
  <2>1. Recorded(db, a)
    BY DEF Synced
  <2>2. a \in new => photo[a] # Unset
    BY <1>6, <1>7 DEF PassRow, Unset
  <2>3. ASSUME NEW o \in Members, a \in pass'[o].todo
        PROVE  Shooter[a] = o /\ work'[a].stage = "FOUND"
    <3>1. CASE o = m
      BY <1>4, <1>8, <2>3, <3>1 DEF Unannounced, Mine
    <3>2. CASE o # m
      BY <1>8, <1>9, <2>1, <2>3, <3>2 DEF Recorded
    <3> QED
      BY <3>1, <3>2
  <2>4. (ResumedIn(db, a))' = ResumedIn(db, a) /\ (AllowedIn(db, Shooter[a], photo[a]))' =
           AllowedIn(db, Shooter[a], photo[a])
    BY <1>2 DEF ResumedIn, AllowedIn
  <2>5. /\ work'[a].stage # "NONE" => photo[a] # Unset
        /\ work'[a].stage \in {"COMPLETE", "IGNORED"} => work'[a].stage = work[a].stage
    BY <1>3, <1>5, <2>1, <2>2 DEF Recorded
  <2> QED
    BY <1>2, <2>1, <2>3, <2>4, <2>5 DEF Recorded
<1>11. \A o \in Members \ {m} : CalmPass(o)
  BY <1>8 DEF CalmPass
<1>12. Searched(db, m)'
  <2>1. ASSUME NEW a \in Mine(m), SharedIn(db, a)', pass'[m].leaving, ~pass'[m].found
        PROVE  work'[a].stage # "NONE"
    <3>1. Searched(db, m) /\ pass[m].leaving /\ a \in Assets
      BY <1>4, <1>8, <2>1 DEF Synced, Mine
    <3>2. SharedIn(db, a)
      BY <1>2, <2>1 DEF SharedIn, AllowedIn, ResumedIn
    <3>3. photo[a] \in pass[m].windows
      BY <1>1, <3>1, <3>2 DEF Searched
    <3>4. new = {}
      BY <1>4, <1>8, <2>1
    <3>5. Undiscovered(m) = {}
      BY <1>1, <3>4, FS_EmptySet, PhoneAssumption
    <3>6. work[a].stage # "NONE"
      BY <3>3, <3>5 DEF Undiscovered
    <3> QED
      BY <1>9, <3>1, <3>6
  <2>2. pass'[m].leaving => db'.member[m].leavingAt # Unset
    BY <1>2, <1>4, <1>8 DEF Synced, Searched
  <2>3. pass'[m].step = "PUBLISH"
    BY <1>4, <1>8
  <2> QED
    BY <2>1, <2>2, <2>3 DEF Searched, Mine
<1>13. PhonesOK'
  <2>1. \A a \in Assets : work'[a] \in WorkRow
    BY <1>3, <1>5 DEF PhonesOK
  <2>2. work' \in [Assets -> WorkRow]
    BY <1>1, <2>1
  <2>3. pass' \in [Members -> PassRow]
    BY <1>2, <1>4 DEF PhonesOK
  <2> QED
    BY <1>2, <2>2, <2>3 DEF PhonesOK
<1>14. \A a \in Assets : work[a].stage # "NONE" => work'[a].stage # "NONE"
  BY <1>9
<1> QED
  BY <1>2, <1>10, <1>11, <1>12, <1>13, <1>14, PhonesSynced

(* A pass that is over, of one member or more.                             *)
LEMMA NoPassCalm ==
    ASSUME PhonesOK, NEW m \in Members, pass' = [pass EXCEPT ![m] = NoPass]
    PROVE  /\ \A o \in Members : CalmPass(o) /\ pass'[o].todo \subseteq pass[o].todo
           /\ pass' \in [Members -> PassRow]
<1>1. ~NoPass.leaving /\ NoPass.todo = {} /\ NoPass \in PassRow
  BY TimeAssumption DEF NoPass, PassRow
<1>2. \A o \in Members : pass'[o] = IF o = m THEN NoPass ELSE pass[o]
  BY DEF PhonesOK
<1>3. \A o \in Members : CalmPass(o) /\ pass'[o].todo \subseteq pass[o].todo
  BY <1>1, <1>2 DEF CalmPass
<1> QED
  BY <1>1, <1>3 DEF PhonesOK

LEMMA EndPassSynced ==
    ASSUME PhonesOK, Synced(db'), NEW m \in Members, NEW heard \in BOOLEAN, EndPass(m, heard)
    PROVE  Synced(db)' /\ PhonesOK'
<1>1. /\ pass' = [pass EXCEPT ![m] = NoPass] /\ UNCHANGED <<now, photo, work, upload, inbox>>
  BY DEF EndPass, Drained, Install, server
<1>2. /\ \A o \in Members : CalmPass(o) /\ pass'[o].todo \subseteq pass[o].todo
      /\ pass' \in [Members -> PassRow]
  BY <1>1, NoPassCalm
<1>3. \A a \in Assets : CalmPhoto(a)
  BY <1>1, <1>2 DEF CalmPhoto
<1> QED
  BY <1>1, <1>2, <1>3, PhonesSynced DEF PhonesOK

(* A new ledger record of photo a.                                         *)
LEMMA NewRecord ==
    ASSUME PhonesOK, NEW a \in Assets, NEW row \in WorkRow, work' = [work EXCEPT ![a] = row]
    PROVE  /\ work' \in [Assets -> WorkRow] /\ work'[a] = row
           /\ \A b \in Assets \ {a} : work'[b] = work[b]
  BY DEF PhonesOK

(* The publishing of photo a: what it does to the other photos is calm,    *)
(* and photo a leaves the pass or the pass stays.                          *)
LEMMA PublishCalm ==
    ASSUME PhonesOK, Synced(db'), NEW m \in Members, NEW a \in Assets,
           UNCHANGED <<now, photo, inbox>>,
           Dropped(m, a) \/ (UNCHANGED pass /\ UNCHANGED upload)
             \/ (UNCHANGED pass /\ upload' = [upload EXCEPT ![a] = "GRANTED"]),
           work' \in [Assets -> WorkRow],
           \A b \in Assets \ {a} : work'[b] = work[b],
           work[a].stage # "NONE" => work'[a].stage # "NONE",
           work'[a].stage = work[a].stage \/ Recorded(db, a)'
    PROVE  Synced(db)' /\ PhonesOK'
<1>1. /\ \A o \in Members : CalmPass(o) /\ pass'[o].todo \subseteq pass[o].todo
      /\ \A b \in Assets : upload'[b] \in {upload[b], "IDLE", "GRANTED"}
      /\ pass' \in [Members -> PassRow]
      /\ upload' \in [Assets -> {"IDLE", "GRANTED", "REFUSED", "FULL"}]
  BY DroppedCalm DEF CalmPass, PhonesOK
<1>2. \A b \in Assets \ {a} : CalmPhoto(b)
  BY <1>1 DEF CalmPhoto
<1>3. CalmPhoto(a) \/ Recorded(db, a)'
  BY <1>1 DEF CalmPhoto
<1>4. PhonesOK'
  BY <1>1 DEF PhonesOK
<1> QED
  BY <1>1, <1>2, <1>3, <1>4, PhonesSynced

(* A ledger that moves photo a on to a later stage, out of its pass.       *)
LEMMA StageRecorded ==
    ASSUME PhonesOK, Synced(db), Synced(db'), NEW m \in Members, NEW a \in Assets,
           UNCHANGED <<now, photo, inbox>>, Dropped(m, a),
           a \in pass[m].todo \/ work[a].stage # "FOUND",
           work[a].stage # "NONE",
           work'[a].stage \in {"PREVIEWED", "COMPLETE", "IGNORED"},
           work'[a].stage = "COMPLETE" => db'.asset[a] # "NONE",
           work'[a].stage = "IGNORED" =>
             /\ ResumedIn(db', a) \/ ~AllowedIn(db', Shooter[a], photo[a])
             /\ db'.session[a].state = "NONE" \/ HardDeleteAt <= now
    PROVE  Recorded(db, a)'
<1>1. Recorded(db, a) /\ Recorded(db', a)
  BY DEF Synced
<1>2. /\ \A o \in Members : pass'[o].todo \subseteq pass[o].todo
      /\ a \notin pass'[m].todo /\ upload'[a] \in {upload[a], "IDLE"}
  BY DroppedCalm
<1>3. \A o \in Members : a \notin pass'[o].todo
  BY <1>1, <1>2 DEF Recorded
<1>4. /\ (ResumedIn(db, a))' = ResumedIn(db', a)
      /\ (AllowedIn(db, Shooter[a], photo[a]))' = AllowedIn(db', Shooter[a], photo[a])
  BY DEF ResumedIn, AllowedIn
<1> QED
  BY <1>1, <1>2, <1>3, <1>4 DEF Recorded

(* A refusal leaves no upload behind, unless it comes past the deadline.   *)
LEMMA RefuseSynced ==
    ASSUME TypeOK, Sound(db), PhonesOK, Synced(db), Synced(db'), NEW m \in Members,
           NEW a \in Assets, RefuseUpload(m, a)
    PROVE  Synced(db)' /\ PhonesOK'
<1>1. /\ db' = db /\ UNCHANGED <<now, photo, work, pass, inbox>>
      /\ \/ upload' = [upload EXCEPT ![a] = "REFUSED"]
         \/ upload' = [upload EXCEPT ![a] = "FULL"]
  BY DEF RefuseUpload, server
<1>2. db.session[a].state = "NONE" \/ HardDeleteAt <= now
  <2>1. CASE MayTransfer(m)
    BY <2>1 DEF RefuseUpload, OverQuota
  <2>2. CASE ~MayTransfer(m)
    <3>1. Participates(db, m) /\ Started(db) /\ db.trip.state # "LOBBY"
      BY DEF RefuseUpload, Synced, Aboard, Started, Unset, Sound, Course
    <3>2. db.trip.state \in {"ACTIVE", "ENDING"}
      BY <3>1, Columns DEF Sound, Course, Participates, TripRow, TypeOK
    <3>3. ~(now < HardDeleteAt)
      BY <2>2, <3>1, <3>2 DEF MayTransfer
    <3> QED
      BY <3>3, TimeAssumption DEF TypeOK
  <2> QED
    BY <2>1, <2>2
<1>3. Recorded(db, a)'
  <2>1. Recorded(db, a)
    BY DEF Synced
  <2>2. /\ (ResumedIn(db, a))' = ResumedIn(db, a)
        /\ (AllowedIn(db, Shooter[a], photo[a]))' = AllowedIn(db, Shooter[a], photo[a])
    BY <1>1 DEF ResumedIn, AllowedIn
  <2> QED
    BY <1>1, <1>2, <2>1, <2>2 DEF Recorded
<1>4. \A b \in Assets \ {a} : CalmPhoto(b)
  BY <1>1 DEF CalmPhoto, PhonesOK
<1>5. \A o \in Members : CalmPass(o)
  BY <1>1 DEF CalmPass
<1>6. PhonesOK'
  BY <1>1 DEF PhonesOK
<1> QED
  BY <1>1, <1>3, <1>4, <1>5, <1>6, PhonesSynced

(* What the fresh policy of a refused photo says settles its ledger.       *)
LEMMA RecheckSynced ==
    ASSUME PhonesOK, db' \in Tables, Synced(db), Synced(db'), NEW m \in Members,
           NEW a \in Assets, NEW heard \in BOOLEAN, RecheckRefused(m, a, heard)
    PROVE  Synced(db)' /\ PhonesOK'
<1> DEFINE w == ReadState(db, m)
           outside == ~w.member[m].left /\ photo[a] \notin Windows(w, m)
           ignored == [work[a] EXCEPT !.stage = "IGNORED"]
           blocked == [work[a] EXCEPT !.blocker = "SHARING_LIMIT"]
<1>1. /\ db' = w /\ UNCHANGED <<now, photo, inbox>> /\ Dropped(m, a)
      /\ \/ work' = work
         \/ work' = [work EXCEPT ![a] = ignored] /\ outside
         \/ work' = [work EXCEPT ![a] = blocked]
      /\ a \in pass[m].todo /\ upload[a] \in {"REFUSED", "FULL"}
  BY DEF RecheckRefused, Install, InPreviewLane
<1>2. /\ ignored \in WorkRow /\ ignored.stage = "IGNORED"
      /\ blocked \in WorkRow /\ blocked.stage = work[a].stage
  BY DEF PhonesOK, WorkRow
<1>3. /\ Recorded(db, a) /\ Recorded(w, a) /\ Shooter[a] = m /\ work[a].stage = "FOUND"
      /\ photo[a] # Unset
  BY <1>1 DEF Synced, Recorded
<1>4. outside => ~AllowedIn(w, m, photo[a])
  <2> SUFFICES ASSUME outside, AllowedIn(w, m, photo[a]) PROVE FALSE
    OBVIOUS
  <2>1. Participates(w, m) /\ Aboard(w)
    BY <1>1 DEF Synced, Aboard, AboardRow, Participates, InTrip
  <2>2. Windows(w, m) = {t \in 0 .. EndsAt : AllowedIn(w, m, t)}
    BY <1>1, <2>1, WindowsAllowed
  <2>3. photo[a] \in 0 .. EndsAt
    BY <1>3, TimeAssumption DEF PhonesOK, AllowedIn, Time, Unset
  <2> QED
    BY <2>2, <2>3
<1> HIDE DEF w, outside, ignored, blocked
<1>5. CASE work' = work
  BY <1>1, <1>5, PublishCalm DEF PhonesOK
<1>6. CASE work' = [work EXCEPT ![a] = blocked]
  <2>1. /\ work' \in [Assets -> WorkRow] /\ work'[a] = blocked
        /\ \A b \in Assets \ {a} : work'[b] = work[b]
    BY <1>2, <1>6, NewRecord
  <2> QED
    BY <1>1, <1>2, <2>1, PublishCalm
<1>7. CASE work' = [work EXCEPT ![a] = ignored] /\ outside
  <2>1. /\ work' \in [Assets -> WorkRow] /\ work'[a] = ignored
        /\ \A b \in Assets \ {a} : work'[b] = work[b]
    BY <1>2, <1>7, NewRecord
  <2>2. db'.session[a].state = "NONE" \/ HardDeleteAt <= now
    BY <1>1, <1>3 DEF Recorded
  <2>3. Recorded(db, a)'
    BY <1>1, <1>2, <1>3, <1>4, <1>7, <2>1, <2>2, StageRecorded
  <2> QED
    BY <1>1, <1>2, <2>1, <2>3, PublishCalm
<1> QED
  BY <1>1, <1>5, <1>6, <1>7

(* The rest of a photo's publishing.                                       *)
LEMMA PublishSynced ==
    ASSUME TypeOK, db' \in Tables, Sound(db), PhonesOK, Synced(db), Synced(db'),
           NEW m \in Members, NEW a \in Assets, Publish(m, a)
    PROVE  Synced(db)' /\ PhonesOK'
<1>1. work[a] \in WorkRow
  BY DEF PhonesOK
<1>2. ASSUME UNCHANGED <<now, photo, inbox, work>>,
             Dropped(m, a) \/ (UNCHANGED pass /\ upload' = [upload EXCEPT ![a] = "GRANTED"])
      PROVE  Synced(db)' /\ PhonesOK'
  BY <1>2, PublishCalm DEF PhonesOK
<1>3. CASE ExpiredReplay(m, a)
  <2> DEFINE row == [work[a] EXCEPT !.blocker = "AUTH_REVOKED"]
  <2>1. row \in WorkRow /\ row.stage = work[a].stage
    BY <1>1 DEF WorkRow
  <2>2. work' = [work EXCEPT ![a] = row] /\ UNCHANGED <<now, photo, inbox>> /\ Dropped(m, a)
    BY <1>3 DEF ExpiredReplay, server
  <2> HIDE DEF row
  <2>3. /\ work' \in [Assets -> WorkRow] /\ work'[a] = row
        /\ \A b \in Assets \ {a} : work'[b] = work[b]
    BY <2>1, <2>2, NewRecord
  <2> QED
    BY <2>1, <2>2, <2>3, PublishCalm
<1>4. CASE RefuseUpload(m, a)
  BY <1>4, RefuseSynced
<1>5. CASE GiveUp(m, a)
  BY <1>2, <1>5 DEF GiveUp, server
<1>6. ASSUME NEW heard \in BOOLEAN, RequestUpload(m, a, heard) PROVE Synced(db)' /\ PhonesOK'
  BY <1>2, <1>6 DEF RequestUpload, CreateUpload, RenewUpload, SessionReplay, Install, server
<1>7. ASSUME NEW heard \in BOOLEAN, RecheckRefused(m, a, heard) PROVE Synced(db)' /\ PhonesOK'
  BY <1>7, RecheckSynced
<1>8. ASSUME NEW heard \in BOOLEAN, NEW v \in Variants, SendObject(m, a, v, heard)
      PROVE  Synced(db)' /\ PhonesOK'
  <2> DEFINE row == [work[a] EXCEPT !.etags = @ \cup {v}]
  <2>1. row \in WorkRow /\ row.stage = work[a].stage
    BY <1>1 DEF WorkRow
  <2>2. /\ UNCHANGED <<now, photo, inbox>>
        /\ \/ work' = [work EXCEPT ![a] = row] /\ UNCHANGED <<upload, pass>>
           \/ Dropped(m, a) /\ UNCHANGED work
    BY <1>8 DEF SendObject, PutObject, server
  <2> HIDE DEF row
  <2>3. CASE work' = [work EXCEPT ![a] = row] /\ UNCHANGED <<upload, pass>>
    <3>1. /\ work' \in [Assets -> WorkRow] /\ work'[a] = row
          /\ \A b \in Assets \ {a} : work'[b] = work[b]
      BY <2>1, <2>3, NewRecord
    <3> QED
      BY <2>1, <2>2, <2>3, <3>1, PublishCalm
  <2> QED
    BY <1>2, <2>2, <2>3
<1>9. ASSUME NEW heard \in BOOLEAN, AnnouncePreview(m, a, heard)
      PROVE  Synced(db)' /\ PhonesOK'
  <2> DEFINE row == [work[a] EXCEPT !.stage = "PREVIEWED"]
  <2>1. row \in WorkRow /\ row.stage = "PREVIEWED"
    BY <1>1 DEF WorkRow
  <2>2. /\ UNCHANGED <<now, photo, inbox>> /\ Dropped(m, a) /\ a \in pass[m].todo
        /\ work' = [work EXCEPT ![a] = row] \/ UNCHANGED work
    BY <1>9 DEF AnnouncePreview, PublishPreview, PreviewReplay, Install, InPreviewLane, server
  <2> HIDE DEF row
  <2>3. CASE work' = [work EXCEPT ![a] = row]
    <3>1. /\ work' \in [Assets -> WorkRow] /\ work'[a] = row
          /\ \A b \in Assets \ {a} : work'[b] = work[b]
      BY <2>1, <2>3, NewRecord
    <3>2. work[a].stage = "FOUND"
      BY <2>2 DEF Synced, Recorded
    <3>3. Recorded(db, a)'
      BY <2>1, <2>2, <3>1, <3>2, StageRecorded
    <3> QED
      BY <2>1, <2>2, <3>1, <3>3, PublishCalm
  <2> QED
    BY <1>2, <2>2, <2>3
<1>10. ASSUME NEW heard \in BOOLEAN, CommitOriginal(m, a, heard)
       PROVE  Synced(db)' /\ PhonesOK'
  <2> DEFINE row == [work[a] EXCEPT !.stage = "COMPLETE"]
  <2>1. row \in WorkRow /\ row.stage = "COMPLETE"
    BY <1>1 DEF WorkRow
  <2>2. /\ UNCHANGED <<now, photo, inbox>> /\ Dropped(m, a) /\ work[a].stage = "PREVIEWED"
        /\ work' = [work EXCEPT ![a] = row] \/ UNCHANGED work
    BY <1>10 DEF CommitOriginal, Commit, CommitReplay, Install, InBulkLane, server
  <2> HIDE DEF row
  <2>3. db'.asset[a] # "NONE"
    <3>1. CASE Commit(m, a)
      BY <3>1 DEF Commit, Install, TypeOK, Tables
    <3>2. CASE CommitReplay(m, a)
      BY <3>2 DEF CommitReplay, server, Sound, Uploads
    <3> QED
      BY <1>10, <3>1, <3>2 DEF CommitOriginal
  <2>4. CASE work' = [work EXCEPT ![a] = row]
    <3>1. /\ work' \in [Assets -> WorkRow] /\ work'[a] = row
          /\ \A b \in Assets \ {a} : work'[b] = work[b]
      BY <2>1, <2>4, NewRecord
    <3>2. Recorded(db, a)'
      BY <2>1, <2>2, <2>3, <3>1, StageRecorded
    <3> QED
      BY <2>1, <2>2, <3>1, <3>2, PublishCalm
  <2> QED
    BY <1>2, <2>2, <2>4
<1> QED
  BY <1>3, <1>4, <1>5, <1>6, <1>7, <1>8, <1>9, <1>10 DEF Publish

(* The receiving lane only adds to the gallery.                            *)
LEMMA ReceiveSynced ==
    ASSUME PhonesOK, Synced(db'), NEW m \in Members, NEW a \in Assets, ReceiveLane(m, a)
    PROVE  Synced(db)' /\ PhonesOK'
<1>1. /\ UNCHANGED <<now, photo, work, upload, pass>>
      /\ \/ inbox' = inbox
         \/ inbox' = [inbox EXCEPT ![m][a] = "SAVED"]
         \/ inbox' = [inbox EXCEPT ![m][a] = "COMPLETE"]
  BY DEF ReceiveLane, SaveCopy, Acknowledge, Saved, ReceiptReplay, Install, server
<1>2. /\ inbox' \in [Members -> [Assets -> {"NONE", "SAVED", "COMPLETE"}]]
      /\ \A o \in Members, b \in Assets : inbox[o][b] # "NONE" => inbox'[o][b] # "NONE"
  BY <1>1 DEF PhonesOK
<1>3. /\ \A b \in Assets : CalmPhoto(b)
      /\ \A o \in Members : CalmPass(o)
  BY <1>1, <1>2 DEF CalmPhoto, CalmPass
<1> QED
  BY <1>1, <1>2, <1>3, PhonesSynced DEF PhonesOK

(* A phone that stops forgets its pass and its grants; a reconcile clears  *)
(* its blockers; everyone else leaves the phones alone.                    *)
LEMMA StopSynced ==
    ASSUME PhonesOK, Synced(db'), NEW m \in Members, Stop(m)
    PROVE  Synced(db)' /\ PhonesOK'
<1>1. /\ pass' = [pass EXCEPT ![m] = NoPass] /\ UNCHANGED <<now, photo, work, inbox>>
      /\ upload' = [a \in Assets |-> IF a \in Mine(m) THEN "IDLE" ELSE upload[a]]
  BY DEF Stop, server
<1>2. /\ \A o \in Members : CalmPass(o) /\ pass'[o].todo \subseteq pass[o].todo
      /\ pass' \in [Members -> PassRow]
  BY <1>1, NoPassCalm
<1>3. /\ upload' \in [Assets -> {"IDLE", "GRANTED", "REFUSED", "FULL"}]
      /\ \A a \in Assets : upload'[a] \in {upload[a], "IDLE"}
  BY <1>1 DEF PhonesOK
<1>4. \A a \in Assets : CalmPhoto(a)
  BY <1>1, <1>2, <1>3 DEF CalmPhoto
<1> QED
  BY <1>1, <1>2, <1>3, <1>4, PhonesSynced DEF PhonesOK

LEMMA ReconcileSynced ==
    ASSUME PhonesOK, Synced(db'), NEW m \in Members, Reconcile(m)
    PROVE  Synced(db)' /\ PhonesOK'
<1>1. /\ UNCHANGED <<now, photo, upload, pass, inbox>>
      /\ work' = [a \in Assets |-> IF a \in Mine(m) THEN [work[a] EXCEPT !.blocker = "NONE"]
                                   ELSE work[a]]
  BY DEF Reconcile, server
<1>2. ASSUME NEW a \in Assets PROVE work'[a] \in WorkRow /\ work'[a].stage = work[a].stage
  <2> DEFINE cleared == [work[a] EXCEPT !.blocker = "NONE"]
  <2>1. cleared \in WorkRow /\ cleared.stage = work[a].stage
    BY DEF PhonesOK, WorkRow
  <2>2. work'[a] = IF a \in Mine(m) THEN cleared ELSE work[a]
    BY <1>1
  <2> HIDE DEF cleared
  <2> QED
    BY <2>1, <2>2 DEF PhonesOK
<1>3. /\ \A a \in Assets : CalmPhoto(a)
      /\ \A o \in Members : CalmPass(o)
  BY <1>1, <1>2 DEF CalmPhoto, CalmPass
<1>4. work' \in [Assets -> WorkRow]
  BY <1>1, <1>2
<1> QED
  BY <1>1, <1>2, <1>3, <1>4, PhonesSynced DEF PhonesOK

LEMMA IdleSynced ==
    ASSUME PhonesOK, Synced(db'), UNCHANGED <<now, phones>>
    PROVE  Synced(db)' /\ PhonesOK'
<1>1. UNCHANGED <<photo, work, upload, pass, inbox>>
  BY DEF phones
<1>2. /\ \A a \in Assets : CalmPhoto(a)
      /\ \A o \in Members : CalmPass(o)
  BY <1>1 DEF CalmPhoto, CalmPass
<1> QED
  BY <1>1, <1>2, PhonesSynced DEF PhonesOK

(* A photo taken by a member who is leaving is past its departure, so      *)
(* neither its passes nor the crew it leaves behind owe it anything.       *)
LEMMA TakePhotoSynced ==
    ASSUME TypeOK, Sound(db), PhonesOK, Synced(db), NEW a \in Assets, TakePhoto(a)
    PROVE  Synced(db)' /\ PhonesOK'
<1>1. /\ db' = db /\ UNCHANGED <<now, work, upload, pass, inbox>>
      /\ photo[a] = Unset /\ photo' = [photo EXCEPT ![a] = now]
  BY DEF TakePhoto, server
<1>2. photo'[a] = now /\ \A b \in Assets \ {a} : photo'[b] = photo[b]
  BY <1>1 DEF PhonesOK
<1>3. now \in Time /\ now \in Nat
  BY DEF TypeOK, Time
<1>4. photo' \in [Assets -> Time] /\ PhonesOK'
  BY <1>1, <1>3 DEF PhonesOK
<1>5. Shooter[a] \in Members
  BY PhoneAssumption
<1>6. db.member[Shooter[a]].leavingAt # Unset => ~SharedIn(db, a)'
  <2>1. db.member[Shooter[a]].leavingAt <= now /\ db.member[Shooter[a]].leavingAt \in Int
    BY <1>5, Columns DEF Sound, Crew, TypeOK, Row, Time
  <2> QED
    BY <1>1, <1>2, <1>3, <2>1 DEF SharedIn
<1>7. \A b \in Assets \ {a} : /\ (ResumedIn(db, b))' = ResumedIn(db, b)
                              /\ (AllowedIn(db, Shooter[b], photo[b]))' =
                                    AllowedIn(db, Shooter[b], photo[b])
                              /\ SharedIn(db, b)' = SharedIn(db, b)
  BY <1>1, <1>2 DEF ResumedIn, AllowedIn, SharedIn
<1>8. ASSUME NEW b \in Assets \ {a} PROVE Recorded(db, b)'
  <2>1. Recorded(db, b)
    BY DEF Synced
  <2> QED
    BY <1>1, <1>2, <1>7, <2>1 DEF Recorded
<1>9. Recorded(db, a)'
  <2>1. Recorded(db, a)
    BY DEF Synced
  <2>2. work[a].stage = "NONE"
    BY <1>1, <2>1 DEF Recorded
  <2>3. db.session[a].state = "NONE"
    <3>1. db.trip.startedAt >= 1 /\ db.trip.startedAt \in Int
      BY Columns DEF Synced, Aboard, TypeOK, TripRow, Time
    <3> QED
      BY <1>1, <2>1, <3>1 DEF Recorded, Unset
  <2>4. \A m \in Members : a \notin pass[m].todo
    BY <2>1, <2>2 DEF Recorded
  <2> QED
    BY <1>1, <1>2, <1>3, <2>1, <2>2, <2>3, <2>4 DEF Recorded
<1>10. ASSUME NEW m \in Members PROVE Searched(db, m)' /\ Home(db, m)'
  <2>1. Searched(db, m) /\ Home(db, m)
    BY DEF Synced
  <2>2. ASSUME NEW b \in Mine(m), db.member[m].leavingAt # Unset, SharedIn(db, b)'
        PROVE  b # a /\ SharedIn(db, b)
    BY <1>6, <1>7, <2>2 DEF Mine
  <2>3. Searched(db, m)'
    <3>1. \A b \in Mine(m) : b \in Assets
      BY DEF Mine
    <3> QED
      BY <1>1, <1>2, <2>1, <2>2, <3>1 DEF Searched, Mine
  <2>4. Emptied(db, m) => Emptied(db, m)'
    BY <1>1, <2>2 DEF Emptied, Mine
  <2>5. Supplied(db, m) /\ db.trip.state # "ACTIVE" => Supplied(db, m)'
    <3>1. db.trip.state # "ACTIVE" => db.member[Shooter[a]].leavingAt # Unset
      BY <1>5 DEF Synced, Aboard, AboardRow
    <3> QED
      BY <1>1, <1>6, <1>7, <3>1 DEF Supplied
  <2>6. (Finished(db, m))' = Finished(db, m)
    BY <1>1 DEF Finished
  <2> QED
    BY <1>1, <2>1, <2>3, <2>4, <2>5, <2>6 DEF Home
<1>11. Aboard(db)'
  BY <1>1 DEF Synced, Aboard, AboardRow
<1> QED
  BY <1>4, <1>8, <1>9, <1>10, <1>11 DEF Synced

(* Time alone takes nothing back.                                          *)
LEMMA TickSynced ==
    ASSUME TypeOK, PhonesOK, Synced(db), now' = now + 1, UNCHANGED <<db, phones>>
    PROVE  Synced(db)' /\ PhonesOK'
<1>1. UNCHANGED <<photo, work, upload, pass, inbox>>
  BY DEF phones
<1>2. now \in Nat /\ now' \in Nat /\ (now' < HardDeleteAt => now < HardDeleteAt)
      /\ (HardDeleteAt <= now => HardDeleteAt <= now')
  BY TimeAssumption DEF TypeOK
<1>3. \A a \in Assets : /\ (ResumedIn(db, a))' = ResumedIn(db, a)
                        /\ (AllowedIn(db, Shooter[a], photo[a]))' =
                              AllowedIn(db, Shooter[a], photo[a])
                        /\ SharedIn(db, a)' = SharedIn(db, a)
  BY <1>1 DEF ResumedIn, AllowedIn, SharedIn
<1>4. ASSUME NEW a \in Assets PROVE Recorded(db, a)'
  <2>1. Recorded(db, a)
    BY DEF Synced
  <2>2. photo[a] <= now'
    BY <1>2, <2>1 DEF Recorded, PhonesOK, Time
  <2> QED
    BY <1>1, <1>2, <1>3, <2>1, <2>2 DEF Recorded
<1>5. ASSUME NEW m \in Members PROVE Searched(db, m)' /\ Home(db, m)'
  <2>1. Searched(db, m) /\ Home(db, m)
    BY DEF Synced
  <2>2. Searched(db, m)'
    BY <1>1, <1>3, <2>1 DEF Searched, Mine
  <2>3. (Finished(db, m))' => Finished(db, m)
    BY <1>2 DEF Finished
  <2>4. /\ (Emptied(db, m))' = Emptied(db, m)
        /\ (Supplied(db, m))' = Supplied(db, m)
    BY <1>1, <1>3 DEF Emptied, Supplied, Mine
  <2> QED
    BY <2>1, <2>2, <2>3, <2>4 DEF Home
<1>6. Aboard(db)'
  BY DEF Synced, Aboard, AboardRow
<1> QED
  BY <1>1, <1>4, <1>5, <1>6 DEF Synced, PhonesOK

-----------------------------------------------------------------------------
(***************************************************************************)
(* Every step, and the invariant.                                          *)
(***************************************************************************)
(* The agreement of phones and tables is kept by every step.               *)
LEMMA StepSynced ==
    ASSUME TypeOK, TypeOK', Sound(db), Synced(db), PhonesOK, [SyncNext]_syncVars
    PROVE  Synced(db)' /\ PhonesOK'
<1>1. Synced(db') /\ db' \in Tables
  BY ServerSynced DEF TypeOK
<1>2. ASSUME UNCHANGED <<now, phones>> PROVE Synced(db)' /\ PhonesOK'
  BY <1>1, <1>2, IdleSynced
<1>3. CASE UNCHANGED syncVars
  BY <1>2, <1>3 DEF syncVars, phones
<1>4. CASE People
  <2>1. UNCHANGED <<now, phones>>
    BY <1>4 DEF People, EndTrip, Leave, LeaveNow, Pause, Resume, Install, phones
  <2> QED
    BY <1>2, <2>1
<1>5. CASE Platform
  <2>1. CASE Tick
    BY <1>5, <2>1, TickSynced DEF Platform, Tick
  <2>2. CASE Cleanup
    <3>1. UNCHANGED <<now, phones>>
      BY <1>5, <2>2 DEF Platform, Cleanup, Expire, RetireAsset, RetireUpload, Install, Tick,
                        phones
    <3> QED
      BY <1>2, <3>1
  <2> QED
    BY <1>5, <2>1, <2>2 DEF Platform
<1>6. CASE \E a \in Assets : TakePhoto(a)
  BY <1>6, TakePhotoSynced
<1>7. ASSUME NEW m \in Members, PreviewLane(m) PROVE Synced(db)' /\ PhonesOK'
  BY <1>1, <1>7, DiscoverSynced, ReadPolicySynced, EndPassSynced DEF PreviewLane
<1>8. ASSUME NEW m \in Members, Poll(m) PROVE Synced(db)' /\ PhonesOK'
  <2>1. UNCHANGED <<now, phones>>
    BY <1>8 DEF Poll, ReadTransferState, Install, phones
  <2> QED
    BY <1>2, <2>1
<1>9. ASSUME NEW m \in Members, Stop(m) \/ Reconcile(m) PROVE Synced(db)' /\ PhonesOK'
  BY <1>1, <1>9, StopSynced, ReconcileSynced
<1>10. ASSUME NEW m \in Members, NEW a \in Assets, Publish(m, a) \/ ReceiveLane(m, a)
       PROVE  Synced(db)' /\ PhonesOK'
  BY <1>1, <1>10, PublishSynced, ReceiveSynced
<1> QED
  BY <1>3, <1>4, <1>5, <1>6, <1>7, <1>8, <1>9, <1>10 DEF SyncNext

(* The inductive invariant of the phones and the trip together.            *)
SyncInv == /\ TypeOK /\ Books(db) /\ Shelf /\ Roll(db) /\ Past(db) /\ Hidden(db) /\ Sound(db)
           /\ PhonesOK /\ Synced(db)

(* The started trip everyone has joined.                                   *)
LEMMA SyncStarts ==
    ASSUME SyncInit
    PROVE  SyncInv
<1> DEFINE aboard == [NoMember EXCEPT !.state = "ACTIVE", !.approvedAt = 0]
<1>1. /\ aboard.state = "ACTIVE" /\ aboard.approvedAt = 0 /\ aboard.leavingAt = Unset
      /\ ~aboard.drained /\ ~aboard.left /\ ~aboard.incomplete
      /\ aboard.pausedAt = Unset /\ aboard.pauses = {} /\ aboard \in Row
  <2>1. NoMember \in Row /\ 0 \in Time
    BY UnsetIsTime, TimeAssumption DEF NoMember, Row, Time
  <2>2. aboard \in Row
    BY <2>1 DEF Row
  <2> QED
    BY <2>2 DEF NoMember
<1>2. \A m \in Members : db.member[m] = aboard
  BY DEF SyncInit
<1>3. /\ db.trip.state = "ACTIVE" /\ db.trip.startedAt = 1 /\ db.trip.endingAt = Unset
      /\ db.trip.memberCount = Cardinality(Members) /\ db.slots = Members /\ now = 1
      /\ \A a \in Assets : /\ db.session[a] = NoSession /\ db.asset[a] = "NONE"
                           /\ \A m \in Members : db.delivery[a][m] = "NONE"
                           /\ db.preview[a] = {}
  BY DEF SyncInit
<1>4. /\ NoSession.state = "NONE" /\ NoSession.capturedAt = Unset /\ NoSession \in SessionRow
      /\ NoSession.createdAt = Unset
  BY MembersAssumption, UnsetIsTime, TimeAssumption DEF NoSession, SessionRow, Unset
<1>5. TypeOK
  <2>1. Cardinality(Members) \in Nat /\ 2 * Cardinality(Members) \in Nat
    BY CrewCardinality
  <2>2. 1 \in Time /\ now \in 0 .. MaxTime
    BY <1>3, TimeAssumption DEF Time
  <2>3. db.trip \in TripRow
    BY <2>1, <2>2, UnsetIsTime DEF SyncInit, TripRow
  <2>4. db.member \in [Members -> Row]
    BY <1>1 DEF SyncInit
  <2>5. db \in Tables
    BY <1>4, <2>3, <2>4 DEF SyncInit, Tables, AssetState, DeliveryState
  <2> QED
    BY <2>2, <2>5 DEF TypeOK, SyncInit
<1> HIDE DEF aboard
<1>6. Books(db) /\ Shelf
  BY <1>3, <1>4 DEF Books, Shelf, Retired
<1>7. Roll(db)
  <2>1. InTrip(db) = Members
    BY <1>1, <1>2 DEF InTrip
  <2> QED
    BY <1>1, <1>2, <1>3, <2>1 DEF Roll, Terminal
<1>8. Past(db) /\ Hidden(db)
  BY <1>3, <1>4, LimitAssumption DEF Past, Hidden, Dated, Unset
<1>9. Sound(db)
  <2>1. Course(db) /\ Crew(db)
    BY <1>1, <1>2, <1>3 DEF Course, Crew, Terminal, Unset
  <2>2. Uploads(db) /\ \A a \in Assets, m \in Members : Pair(db, a, m)
    BY <1>3, <1>4 DEF Uploads, Pair, Served
  <2> QED
    BY <2>1, <2>2 DEF Sound
<1>10. NoWork \in WorkRow /\ NoPass \in PassRow /\ NoWork.stage = "NONE"
       /\ ~NoPass.leaving /\ NoPass.todo = {}
  BY TimeAssumption DEF NoWork, WorkRow, NoPass, PassRow
<1>11. PhonesOK
  BY <1>10, UnsetIsTime DEF SyncInit, PhonesOK
<1>12. Synced(db)
  <2>1. Aboard(db)
    BY <1>1, <1>2, <1>3 DEF Aboard, AboardRow
  <2>2. ASSUME NEW a \in Assets PROVE Recorded(db, a)
    <3>1. photo[a] = Unset /\ work[a] = NoWork /\ upload[a] = "IDLE"
          /\ \A m \in Members : pass[m] = NoPass
      BY DEF SyncInit
    <3> QED
      BY <1>3, <1>4, <1>10, <3>1 DEF Recorded, Unset
  <2>3. ASSUME NEW m \in Members PROVE Searched(db, m) /\ Home(db, m)
    <3>1. pass[m] = NoPass
      BY DEF SyncInit
    <3> QED
      BY <1>1, <1>2, <1>10, <3>1 DEF Searched, Home, Finished
  <2> QED
    BY <2>1, <2>2, <2>3 DEF Synced
<1> QED
  BY <1>5, <1>6, <1>7, <1>8, <1>9, <1>11, <1>12 DEF SyncInv

LEMMA StepSyncInv ==
    ASSUME SyncInv, [SyncNext]_syncVars
    PROVE  SyncInv' /\ [Next]_vars
<1>1. /\ TypeOK /\ Books(db) /\ Shelf /\ Roll(db) /\ Past(db) /\ Hidden(db) /\ Sound(db)
      /\ PhonesOK /\ Synced(db)
  BY DEF SyncInv
<1>2. [Next]_vars
  BY <1>1, Simulation
<1>3. TypeOK' /\ Sound(db)'
  BY <1>1, <1>2, StepTypes, StepSound
<1>4. Books(db)' /\ Shelf' /\ Roll(db)' /\ Past(db)' /\ Hidden(db)'
  <2>1. Books(db') /\ Shelf'
    BY <1>1, <1>2, StepBooks
  <2>2. Roll(db')
    BY <1>1, <1>2, StepRolls
  <2>3. Books(db)' /\ Roll(db)'
    BY <2>1, <2>2 DEF Books, Roll, InTrip
  <2> QED
    BY <1>1, <1>2, <2>1, <2>3, StepPrivacy
<1>5. Synced(db)' /\ PhonesOK'
  BY <1>1, <1>3, StepSynced
<1> QED
  BY <1>2, <1>3, <1>4, <1>5 DEF SyncInv

(* Phones and tables agree in every reachable state.                       *)
THEOREM SyncInductive == SyncSpec => []SyncInv
<1>1. SyncInit => SyncInv
  BY SyncStarts
<1>2. SyncInv /\ [SyncNext]_syncVars => SyncInv'
  BY StepSyncInv
<1> QED
  BY <1>1, <1>2, PTL DEF SyncSpec

(* Whatever the phones do, lose, repeat or forget, every step of theirs is *)
(* one the server's specification allows, or leaves the tables alone.      *)
THEOREM PhonesDriveTheServer == SyncSpec => [][Next]_vars
<1>1. SyncInv /\ [SyncNext]_syncVars => [Next]_vars
  BY StepSyncInv
<1> QED
  BY <1>1, SyncInductive, PTL DEF SyncSpec

(* Types of the ledgers, galleries and passes, the loss counter included.  *)
THEOREM SyncTypeCorrect == SyncSpec => []SyncTypeOK
<1>1. SyncInit => faults \in 0 .. MaxFaults
  BY PhoneAssumption DEF SyncInit
<1>2. faults \in 0 .. MaxFaults /\ [SyncNext]_syncVars => (faults \in 0 .. MaxFaults)'
  <2> SUFFICES ASSUME faults \in 0 .. MaxFaults, [SyncNext]_syncVars
               PROVE  faults' \in 0 .. MaxFaults
    OBVIOUS
  <2>1. Unlucky => faults + 1 \in 0 .. MaxFaults
    BY PhoneAssumption DEF Unlucky
  <2>2. \A heard \in BOOLEAN : Replied(heard) => faults' \in 0 .. MaxFaults
    BY <2>1 DEF Replied
  <2>3. ASSUME UNCHANGED faults PROVE faults' \in 0 .. MaxFaults
    BY <2>3
  <2>4. CASE \/ UNCHANGED syncVars \/ People \/ Platform
             \/ \E a \in Assets : TakePhoto(a)
             \/ \E m \in Members : Discover(m) \/ Poll(m) \/ Reconcile(m)
             \/ \E m \in Members, a \in Assets :
                  SaveCopy(m, a) \/ ExpiredReplay(m, a) \/ RefuseUpload(m, a) \/ GiveUp(m, a)
    BY <2>3, <2>4 DEF syncVars, People, Platform, TakePhoto, Discover, Poll, Reconcile, SaveCopy,
                      ExpiredReplay, RefuseUpload, GiveUp
  <2>5. ASSUME NEW m \in Members, Stop(m) PROVE faults' \in 0 .. MaxFaults
    BY <2>1, <2>5 DEF Stop
  <2>6. ASSUME NEW m \in Members, NEW heard \in BOOLEAN, ReadPolicy(m, heard) \/ EndPass(m, heard)
        PROVE  faults' \in 0 .. MaxFaults
    BY <2>2, <2>3, <2>6 DEF ReadPolicy, EndPass
  <2>7. ASSUME NEW m \in Members, NEW a \in Assets, NEW heard \in BOOLEAN,
               \/ RequestUpload(m, a, heard) \/ RecheckRefused(m, a, heard)
               \/ AnnouncePreview(m, a, heard) \/ CommitOriginal(m, a, heard)
               \/ Acknowledge(m, a, heard) \/ \E v \in Variants : SendObject(m, a, v, heard)
        PROVE  faults' \in 0 .. MaxFaults
    BY <2>2, <2>7 DEF RequestUpload, RecheckRefused, AnnouncePreview, CommitOriginal, Acknowledge,
                      SendObject
  <2> QED
    BY <2>4, <2>5, <2>6, <2>7 DEF SyncNext, PreviewLane, Publish, ReceiveLane
<1>3. SyncInv /\ faults \in 0 .. MaxFaults => SyncTypeOK
  BY DEF SyncInv, PhonesOK, SyncTypeOK
<1> QED
  BY <1>1, <1>2, <1>3, SyncInductive, PTL DEF SyncSpec

(* The phone's cursor and the server's capture check accept the same       *)
(* instants: for any number of pauses, in any order, whatever has ended,   *)
(* and whoever is leaving.                                                 *)
THEOREM PoliciesStayAgreed == SyncSpec => []PoliciesAgree
<1>1. SyncInv => PoliciesAgree
  <2> SUFFICES ASSUME SyncInv, NEW m \in Members, Participates(db, m)
               PROVE  Windows(db, m) = {t \in 0 .. EndsAt : CaptureAllowed(m, t)}
    BY DEF PoliciesAgree
  <2>1. Windows(db, m) = {t \in 0 .. EndsAt : AllowedIn(db, m, t)}
    BY WindowsAllowed DEF SyncInv, TypeOK, Synced
  <2>2. \A t : CaptureAllowed(m, t) <=> AllowedIn(db, m, t)
    BY DEF CaptureAllowed, AllowedIn
  <2> QED
    BY <2>1, <2>2
<1> QED
  BY <1>1, SyncInductive, PTL

(* A photo a phone has given up on can never be accepted any more, nor     *)
(* has it left an upload behind, however pauses, departures and lost       *)
(* replies raced its discovery.                                            *)
THEOREM IgnoredPhotosAreLost == SyncSpec => []IgnoredForGood
<1>1. SyncInv => IgnoredForGood
  <2> SUFFICES ASSUME SyncInv, NEW a \in Assets, work[a].stage = "IGNORED", ~AtResumption(a)
               PROVE  /\ ~CaptureAllowed(Shooter[a], photo[a])
                      /\ now < HardDeleteAt => db.session[a].state = "NONE"
    BY DEF IgnoredForGood
  <2>1. Recorded(db, a) /\ now \in Nat
    BY DEF SyncInv, Synced, TypeOK
  <2> QED
    BY <2>1, TimeAssumption DEF Recorded, AtResumption, ResumedIn, CaptureAllowed, AllowedIn
<1> QED
  BY <1>1, SyncInductive, PTL

(* What the properties call shareable is what the invariant calls shared.  *)
LEMMA ShareableIsShared ==
    ASSUME NEW a \in Assets
    PROVE  Shareable(a) <=> SharedIn(db, a)
  BY DEF Shareable, SharedIn, CaptureAllowed, AllowedIn, AtResumption, ResumedIn

(* A member who left by finishing has shared every photo it took on the    *)
(* trip: the final pass it acknowledged looked everywhere, found nothing   *)
(* new, and had nothing left to send.                                      *)
THEOREM NothingLeftBehind == SyncSpec => []NoPhotoLeftBehind
<1>1. SyncInv => NoPhotoLeftBehind
  <2> SUFFICES ASSUME SyncInv, NEW a \in Assets,
                      db.member[Shooter[a]].left, ~db.member[Shooter[a]].incomplete,
                      now < HardDeleteAt, Shareable(a)
               PROVE  db.asset[a] # "NONE"
    BY DEF NoPhotoLeftBehind
  <2>1. Shooter[a] \in Members /\ a \in Mine(Shooter[a])
    BY PhoneAssumption DEF Mine
  <2>2. Emptied(db, Shooter[a])
    BY <2>1 DEF SyncInv, Synced, Home, Finished
  <2> QED
    BY <2>1, <2>2, ShareableIsShared DEF Emptied
<1> QED
  BY <1>1, SyncInductive, PTL

(* A trip that ends COMPLETE has put every shared photo in the gallery of  *)
(* everyone who stayed, and of everyone who left after its upload began:   *)
(* through lost replies, crashed phones and interrupted passes.            *)
THEOREM CompleteIsDelivered == SyncSpec => []CompleteMeansDelivered
<1>1. SyncInv => CompleteMeansDelivered
  <2> SUFFICES ASSUME SyncInv, NEW a \in Assets, NEW m \in Members,
                      db.trip.state = "COMPLETE", now < HardDeleteAt,
                      Shareable(a), m # Shooter[a],
                      m \notin Leavers \/ db.session[a].createdAt < db.member[m].leavingAt
               PROVE  inbox[m][a] # "NONE"
    BY DEF CompleteMeansDelivered
  <2>1. Shooter[a] \in Members /\ a \in Mine(Shooter[a])
    BY PhoneAssumption DEF Mine
  <2>2. Course(db) /\ Uploads(db) /\ Pair(db, a, m) /\ Aboard(db) /\ Recorded(db, a)
        /\ Home(db, m) /\ Home(db, Shooter[a])
    BY <2>1 DEF SyncInv, Sound, Synced
  <2>3. \A o \in Members : Finished(db, o)
    BY <2>2 DEF Course, InTrip, Terminal, Aboard, AboardRow, Finished
  <2>4. SharedIn(db, a)
    BY ShareableIsShared
  <2>5. db.delivery[a][m] = "SAVED_LOCALLY"
    <3>1. CASE m \notin Leavers
      BY <2>1, <2>2, <2>3, <2>4, <3>1 DEF Home, Supplied, Finished
    <3>2. CASE db.session[a].createdAt < db.member[m].leavingAt
      <4>1. db.asset[a] # "NONE"
        BY <2>1, <2>2, <2>3, <2>4 DEF Home, Emptied
      <4>2. db.session[a].state = "COMMITTED"
        BY <2>2, <4>1 DEF Uploads
      <4>3. db.session[a].capturedAt >= 1 /\ db.session[a].createdAt >= 1
        <5>1. /\ db.trip.startedAt \in Int /\ db.session[a].capturedAt \in Int
              /\ db.session[a].createdAt \in Int
          BY Columns, Cells DEF SyncInv, TypeOK, TripRow, SessionRow, Time
        <5> QED
          BY <2>2, <4>2, <5>1 DEF Recorded, Aboard
      <4>4. db.member[m].approvedAt = 0
        BY <2>2 DEF Aboard, AboardRow
      <4>5. db.session[a].capturedAt \in Int /\ db.session[a].createdAt \in Int
        BY Cells DEF SyncInv, TypeOK, SessionRow, Time
      <4>6. Served(db, a, m)
        BY <2>3, <3>2, <4>2, <4>3, <4>4, <4>5 DEF Served, Admitted, Finished, Unset
      <4> QED
        BY <2>2, <4>6 DEF Pair
    <3> QED
      BY <3>1, <3>2
  <2> QED
    BY <2>2, <2>5 DEF Recorded
<1> QED
  BY <1>1, SyncInductive, PTL

(* What TripMedia promises of the trip stands with the phones attached:    *)
(* this trip starts with its crew aboard, which TripMedia's own behaviours *)
(* reach by way of a lobby.                                                *)
THEOREM ServerPromisesStand ==
    SyncSpec => [](/\ PurgeNeedsEverySave /\ RecipientsCanDownload /\ NoOrphanCiphertext
                   /\ RosterConsistent /\ PausedCapturesStayPrivate)
<1>1. SyncInv => /\ PurgeNeedsEverySave /\ RecipientsCanDownload /\ NoOrphanCiphertext
                 /\ RosterConsistent /\ PausedCapturesStayPrivate
  <2> SUFFICES ASSUME SyncInv
               PROVE  /\ PurgeNeedsEverySave /\ RecipientsCanDownload /\ NoOrphanCiphertext
                      /\ RosterConsistent /\ PausedCapturesStayPrivate
    OBVIOUS
  <2>1. PurgeNeedsEverySave /\ RecipientsCanDownload /\ NoOrphanCiphertext
    BY DEF SyncInv, Books, Shelf, Retired, PurgeNeedsEverySave, RecipientsCanDownload,
           NoOrphanCiphertext
  <2>2. RosterConsistent /\ PausedCapturesStayPrivate
    BY DEF SyncInv, Roll, Hidden, Outside, RosterConsistent, PausedCapturesStayPrivate
  <2> QED
    BY <2>1, <2>2
<1> QED
  BY <1>1, SyncInductive, PTL
=============================================================================
