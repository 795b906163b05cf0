------------------------------ MODULE MCLoader ------------------------------
(* Three files at most and three updaters: one in update(), one sleeping and *)
(* one that waits for onReady.                                              *)
EXTENDS Loader, TLC

CONSTANTS a, b, c, u1, u2, u3

Updaters == Permutations({u1, u2, u3})
=============================================================================
