-------------------------- MODULE MCMediaCleanup --------------------------
(* Instances of MediaCleanup for TLC.                                      *)
EXTENDS MediaCleanup

CONSTANTS a1, w1, w2, t1, t2, t3, t4, none
=============================================================================
