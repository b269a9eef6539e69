----------------------------- MODULE Retention -----------------------------
(***************************************************************************)
(* What CrewRoll promises of the ciphertext of one asset, with nothing     *)
(* said of how: its objects can be read for as long as a recipient is owed *)
(* them, they are erased only once nobody is, an erased object never comes *)
(* back, and a closed asset has no object left.  MediaCleanup implements   *)
(* it with claims, leases, retries and create-only writes.                 *)
(***************************************************************************)
CONSTANTS Assets, Variants

VARIABLES
    phase,      \* of each asset: OPEN, OWED, RELEASED, CLOSED
    readable,   \* the objects a download of each asset would find
    erased      \* the objects of each asset that are gone for good

vars == <<phase, readable, erased>>

Init == /\ phase = [a \in Assets |-> "OPEN"]
        /\ readable = [a \in Assets |-> {}]
        /\ erased = [a \in Assets |-> {}]

Write(a, v) ==
    /\ v \notin readable[a] \cup erased[a]
    /\ readable' = [readable EXCEPT ![a] = @ \cup {v}]
    /\ UNCHANGED <<phase, erased>>

(* Recipients are told of an asset only when all of it can be read.        *)
Promise(a) ==
    /\ phase[a] = "OPEN" /\ readable[a] = Variants
    /\ phase' = [phase EXCEPT ![a] = "OWED"]
    /\ UNCHANGED <<readable, erased>>

(* Receipts and departures release one asset, the deadline all of them.    *)
Release(S) ==
    /\ \A a \in S : phase[a] \in {"OPEN", "OWED"}
    /\ phase' = [a \in Assets |-> IF a \in S THEN "RELEASED" ELSE phase[a]]
    /\ UNCHANGED <<readable, erased>>

Erase(a, v) ==
    /\ phase[a] = "RELEASED" /\ v \notin erased[a]
    /\ readable' = [readable EXCEPT ![a] = @ \ {v}]
    /\ erased' = [erased EXCEPT ![a] = @ \cup {v}]
    /\ UNCHANGED phase

Close(a) ==
    /\ phase[a] = "RELEASED" /\ erased[a] = Variants
    /\ phase' = [phase EXCEPT ![a] = "CLOSED"]
    /\ UNCHANGED <<readable, erased>>

Next == \/ \E S \in SUBSET Assets : Release(S)
        \/ \E a \in Assets : \/ Promise(a) \/ Close(a)
                             \/ \E v \in Variants : Write(a, v) \/ Erase(a, v)

Spec == Init /\ [][Next]_vars
=============================================================================
