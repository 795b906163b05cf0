------------------------- MODULE MCEngineLifecycle -------------------------
(* Contexts that follow one another; they are interchangeable.             *)
EXTENDS EngineLifecycle, TLC

Contexts == Permutations(Context)
=============================================================================
