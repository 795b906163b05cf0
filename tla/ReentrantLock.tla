--------------------------- MODULE ReentrantLock ---------------------------
(***************************************************************************)
(* What CObject::lock / lockTry / unlock promise their callers: a mutual   *)
(* exclusion lock that its owner may take again.  ObjectLock is the        *)
(* implementation in data/uObject.cpp and is shown to refine this module.  *)
(***************************************************************************)
EXTENDS Naturals

CONSTANTS Thread,   \* the threads that share one CObject
          NoThread  \* m_thread == NULL, which is no thread

VARIABLES owner,    \* the thread that owns the object, or NoThread
          depth     \* how many lock calls of the owner are outstanding

lockVars == <<owner, depth>>

Init == owner = NoThread /\ depth = 0

Acquire(t) ==
  /\ owner \in {NoThread, t}
  /\ owner' = t
  /\ depth' = depth + 1

Release(t) ==
  /\ owner = t
  /\ depth > 0
  /\ depth' = depth - 1
  /\ owner' = IF depth = 1 THEN NoThread ELSE t

Next == \E t \in Thread : Acquire(t) \/ Release(t)

Spec == Init /\ [][Next]_lockVars
=============================================================================
