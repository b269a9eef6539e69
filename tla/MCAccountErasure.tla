-------------------------- MODULE MCAccountErasure --------------------------
(* An instance of AccountErasure for TLC: one installation, requests that  *)
(* overtake each other, and two runs of the worker.                        *)
EXTENDS AccountErasure

CONSTANTS i1, t1, o1, o2, w1, w2
=============================================================================
