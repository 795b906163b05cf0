---------------------------- MODULE MCObjectLock ----------------------------
(* Three threads on one object, so that one can hold it while two compete;  *)
(* a recursion two deep tells the last unlock from the others.              *)
EXTENDS ObjectLock
=============================================================================
