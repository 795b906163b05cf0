----------------------------- MODULE ObjectLock -----------------------------
(***************************************************************************)
(* The reentrant lock every CObject carries (data/uObject.h and .cpp).     *)
(* m_lock is a test-and-set spin lock that guards the pair m_thread (the   *)
(* owner) and m_lockCount (its recursion depth); threadLock retries until  *)
(* it owns the object, threadLockTry tries once, threadUnlock undoes one   *)
(* level.  One action per atomic instruction on the shared fields.         *)
(*                                                                         *)
(* The callers are modelled too: a thread calls unlock only for a lock it  *)
(* still holds, as Loader and the OpenSL classes do.  threadUnlock itself  *)
(* never compares the caller with the owner.                               *)
(***************************************************************************)
EXTENDS Integers

CONSTANTS Thread,    \* threads that share the object
          NoThread,  \* m_thread == NULL
          MaxDepth   \* bound: deepest recursion a caller reaches

ASSUME ObjectLockAssumption ==
  /\ NoThread \notin Thread
  /\ MaxDepth \in Nat \ {0}

VARIABLES m_lock,       \* spin lock, TRUE while taken
          m_thread,     \* owner of the object
          m_lockCount,  \* recursion depth
          pc,           \* where each thread is inside a lock operation
          op,           \* the operation a thread is executing
          held          \* lock calls returned to t minus unlock calls begun

vars == <<m_lock, m_thread, m_lockCount, pc, op, held>>

Operation == {"lock", "lockTry", "unlock"}

(* "spin": AtomicLock(&m_lock) loop; "owner": the two compare-exchanges;   *)
(* "count": AtomicIncrement; "uncount": AtomicDecrement; "clear": the      *)
(* compare-exchange that forgets the owner; "leave" and "fail": about to   *)
(* spinUnlock after success and after finding another owner.               *)
Location == {"idle", "spin", "owner", "count", "uncount", "clear", "leave", "fail"}

Goto(t, l) == pc' = [pc EXCEPT ![t] = l]

Init ==
  /\ m_lock = FALSE
  /\ m_thread = NoThread
  /\ m_lockCount = 0
  /\ pc = [t \in Thread |-> "idle"]
  /\ op = [t \in Thread |-> "lock"]
  /\ held = [t \in Thread |-> 0]

-----------------------------------------------------------------------------

Call(t, o) ==
  /\ pc[t] = "idle"
  /\ IF o = "unlock" THEN held[t] > 0 ELSE held[t] < MaxDepth
  /\ held' = IF o = "unlock" THEN [held EXCEPT ![t] = @ - 1] ELSE held
  /\ op' = [op EXCEPT ![t] = o]
  /\ Goto(t, "spin")
  /\ UNCHANGED <<m_lock, m_thread, m_lockCount>>

\* A spin lock whose test is not atomic with its set.
SpinLockUnchecked(t) ==
  /\ pc[t] = "spin"
  /\ m_lock' = TRUE
  /\ Goto(t, IF op[t] = "unlock" THEN "uncount" ELSE "owner")
  /\ UNCHANGED <<m_thread, m_lockCount, op, held>>

\* One successful round of the AtomicLock loop.
SpinLock(t) ==
  /\ pc[t] = "spin"
  /\ ~m_lock
  /\ m_lock' = TRUE
  /\ Goto(t, IF op[t] = "unlock" THEN "uncount" ELSE "owner")
  /\ UNCHANGED <<m_thread, m_lockCount, op, held>>

\* Takes a free object, or one it already owns.
CheckOwner(t) ==
  /\ pc[t] = "owner"
  /\ IF m_thread \in {NoThread, t}
     THEN m_thread' = t /\ Goto(t, "count")
     ELSE UNCHANGED m_thread /\ Goto(t, "fail")
  /\ UNCHANGED <<m_lock, m_lockCount, op, held>>

Increment(t) ==
  /\ pc[t] = "count"
  /\ m_lockCount' = m_lockCount + 1
  /\ Goto(t, "leave")
  /\ UNCHANGED <<m_lock, m_thread, op, held>>

\* A decrement tested after, not before: the object is never given up.
DecrementTestsNew(t) ==
  /\ pc[t] = "uncount"
  /\ m_lockCount' = m_lockCount - 1
  /\ Goto(t, IF m_lockCount' = 1 THEN "clear" ELSE "leave")
  /\ UNCHANGED <<m_lock, m_thread, op, held>>

\* An unlock that gives the object up at every level.
DecrementAlwaysClears(t) ==
  /\ pc[t] = "uncount"
  /\ m_lockCount' = m_lockCount - 1
  /\ Goto(t, "clear")
  /\ UNCHANGED <<m_lock, m_thread, op, held>>

\* AtomicDecrement returns the value before the decrement.
Decrement(t) ==
  /\ pc[t] = "uncount"
  /\ m_lockCount' = m_lockCount - 1
  /\ Goto(t, IF m_lockCount = 1 THEN "clear" ELSE "leave")
  /\ UNCHANGED <<m_lock, m_thread, op, held>>

ClearOwner(t) ==
  /\ pc[t] = "clear"
  /\ m_thread' = IF m_thread = t THEN NoThread ELSE m_thread
  /\ Goto(t, "leave")
  /\ UNCHANGED <<m_lock, m_lockCount, op, held>>

\* spinUnlock on the way out of a call that did its work.
Leave(t) ==
  /\ pc[t] = "leave"
  /\ m_lock' = FALSE
  /\ held' = IF op[t] = "unlock" THEN held ELSE [held EXCEPT ![t] = @ + 1]
  /\ Goto(t, "idle")
  /\ UNCHANGED <<m_thread, m_lockCount, op>>

\* spinUnlock after meeting another owner: lockTry gives up, lock goes round.
Fail(t) ==
  /\ pc[t] = "fail"
  /\ m_lock' = FALSE
  /\ Goto(t, IF op[t] = "lockTry" THEN "idle" ELSE "spin")
  /\ UNCHANGED <<m_thread, m_lockCount, op, held>>

Step(t) ==
  \/ CheckOwner(t) \/ Increment(t) \/ Decrement(t)
  \/ ClearOwner(t) \/ Leave(t) \/ Fail(t)

Next ==
  \E t \in Thread :
    \/ \E o \in Operation : Call(t, o)
    \/ SpinLock(t)
    \/ Step(t)

Spec == Init /\ [][Next]_vars

(* A thread inside an operation keeps running, and one that spins in       *)
(* AtomicLock, which sleeps between two attempts, is not kept out for ever *)
(* by threads that hold m_lock for a few instructions at a time.           *)
Fairness == \A t \in Thread : WF_vars(Step(t)) /\ SF_vars(SpinLock(t))

FairSpec == Spec /\ Fairness

-----------------------------------------------------------------------------

\* The types; that m_lockCount never falls below zero is more than a type, since
\* threadUnlock decrements it without looking at it or at the owner.
TypeOK ==
  /\ m_lock \in BOOLEAN
  /\ m_thread \in Thread \cup {NoThread}
  /\ m_lockCount \in Nat
  /\ pc \in [Thread -> Location]
  /\ op \in [Thread -> Operation]
  /\ held \in [Thread -> Nat]

\* Two threads are never between the return of lock and the call of unlock on
\* the same object: what every class derived from CObject relies on.
MutualExclusion ==
  \A t, u \in Thread : held[t] > 0 /\ held[u] > 0 => t = u

\* Threads between spinLock and spinUnlock.
Inside(t) == pc[t] \notin {"idle", "spin"}

\* Levels of the object that t accounts for: those its caller holds, one more
\* between AtomicIncrement and the return, one more between the call of unlock
\* and AtomicDecrement.
Levels(t) ==
  held[t] + IF \/ op[t] = "unlock" /\ pc[t] \in {"spin", "uncount"}
               \/ op[t] # "unlock" /\ pc[t] = "leave"
            THEN 1 ELSE 0

SpinLockExact ==
  /\ \A t, u \in Thread : Inside(t) /\ Inside(u) => t = u
  /\ m_lock <=> \E t \in Thread : Inside(t)

\* An operation visits only its own locations.
Program ==
  \A t \in Thread :
    /\ pc[t] \in {"owner", "count", "fail"} => op[t] # "unlock"
    /\ pc[t] \in {"uncount", "clear"} => op[t] = "unlock"

\* m_thread names a thread only while that thread has levels, or is between
\* taking the object and counting it, or between uncounting and clearing.
Ownership ==
  /\ \A t \in Thread : Levels(t) > 0 => m_thread = t /\ m_lockCount = Levels(t)
  /\ \A t \in Thread : pc[t] \in {"count", "clear"} => m_thread = t
  /\ \A t \in Thread : pc[t] = "clear" => m_lockCount = 0
  /\ (\A t \in Thread : Levels(t) = 0) => m_lockCount = 0
  /\ m_thread # NoThread =>
       Levels(m_thread) > 0 \/ pc[m_thread] \in {"count", "clear"}

\* The inductive invariant: m_lockCount is exactly the number of levels of the
\* one thread that has any, and nobody has any while the object is free.
IInv == TypeOK /\ SpinLockExact /\ Program /\ Ownership

\* The implementation takes and gives the object as a reentrant lock does: the
\* effect of lock is its AtomicIncrement, that of unlock its AtomicDecrement.
Abstract == INSTANCE ReentrantLock WITH
  owner <- IF m_lockCount = 0 THEN NoThread ELSE m_thread,
  depth <- m_lockCount

Refines == Abstract!Spec

\* unlock and lockTry always return, whatever the other threads do with the
\* object in the meantime.
UnlockReturns ==
  \A t \in Thread :
    (pc[t] # "idle" /\ op[t] \in {"unlock", "lockTry"}) ~> (pc[t] = "idle")

\* Threads that wait in lock do not keep each other out: as long as one waits,
\* some thread holds the object again and again.
SomeoneEnters ==
  (\E t \in Thread : pc[t] # "idle" /\ op[t] = "lock")
     ~> (\E t \in Thread : held[t] > 0)

\* Nobody is stuck in an operation: both of these.
Progress == UnlockReturns /\ SomeoneEnters
=============================================================================
