------------------------- MODULE ObjectLock_proofs -------------------------
(***************************************************************************)
(* Proofs about the CObject lock for every set of threads and every depth  *)
(* of recursion: the invariant IInv is inductive, it implies mutual        *)
(* exclusion, and every step is a step of the reentrant lock or a stutter. *)
(***************************************************************************)
EXTENDS ObjectLock, TLAPS

LEMMA InitIInv == Init => IInv
<1> SUFFICES ASSUME Init PROVE IInv
  OBVIOUS
<1>1. TypeOK
  BY ObjectLockAssumption DEF Init, TypeOK, Location, Operation
<1>2. SpinLockExact
  BY DEF Init, SpinLockExact, Inside
<1>3. Program
  BY DEF Init, Program
<1>4. Ownership
  BY DEF Init, Ownership, Levels
<1>5. QED
  BY <1>1, <1>2, <1>3, <1>4 DEF IInv

\* Each step keeps the types; Decrement needs that the caller has a level.
LEMMA TypeStep == IInv /\ [Next]_vars => TypeOK'
<1> SUFFICES ASSUME IInv, [Next]_vars PROVE TypeOK'
  OBVIOUS
<1> USE ObjectLockAssumption DEF TypeOK, Goto, Location, Operation
<1>0. TypeOK
  BY DEF IInv
<1>1. ASSUME NEW t \in Thread, NEW o \in Operation, Call(t, o) PROVE TypeOK'
  <2>1. held' \in [Thread -> Nat]
    BY <1>0, <1>1 DEF Call
  <2>2. QED
    BY <1>0, <1>1, <2>1 DEF Call
<1>2. ASSUME NEW t \in Thread, SpinLock(t) PROVE TypeOK'
  BY <1>0, <1>2 DEF SpinLock
<1>3. ASSUME NEW t \in Thread, CheckOwner(t) PROVE TypeOK'
  BY <1>0, <1>3 DEF CheckOwner
<1>4. ASSUME NEW t \in Thread, Increment(t) PROVE TypeOK'
  BY <1>0, <1>4 DEF Increment
<1>5. ASSUME NEW t \in Thread, Decrement(t) PROVE TypeOK'
  <2>1. op[t] = "unlock" /\ pc[t] = "uncount"
    BY <1>5 DEF Decrement, IInv, Program
  <2>2. Levels(t) = held[t] + 1
    BY <2>1 DEF Levels
  <2>3. held[t] \in Nat
    BY <1>0
  <2>4. m_lockCount >= 1
    BY <2>2, <2>3 DEF IInv, Ownership
  <2>5. QED
    BY <1>0, <1>5, <2>4 DEF Decrement
<1>6. ASSUME NEW t \in Thread, ClearOwner(t) PROVE TypeOK'
  BY <1>0, <1>6 DEF ClearOwner
<1>7. ASSUME NEW t \in Thread, Leave(t) PROVE TypeOK'
  <2>1. held' \in [Thread -> Nat]
    BY <1>0, <1>7 DEF Leave
  <2>2. QED
    BY <1>0, <1>7, <2>1 DEF Leave
<1>8. ASSUME NEW t \in Thread, Fail(t) PROVE TypeOK'
  BY <1>0, <1>8 DEF Fail
<1>9. CASE UNCHANGED vars
  BY <1>0, <1>9 DEF vars
<1>10. QED
  BY <1>1, <1>2, <1>3, <1>4, <1>5, <1>6, <1>7, <1>8, <1>9 DEF Next, Step

\* The spin lock is taken exactly while one thread is inside it.
LEMMA SpinStep == IInv /\ [Next]_vars => SpinLockExact' /\ Program'
<1> SUFFICES ASSUME IInv, [Next]_vars PROVE SpinLockExact' /\ Program'
  OBVIOUS
<1>0. TypeOK /\ SpinLockExact /\ Program
  BY DEF IInv
<1> USE <1>0 DEF SpinLockExact, Program, Inside, TypeOK, Goto
<1>1. ASSUME NEW t \in Thread, NEW o \in Operation, Call(t, o)
      PROVE SpinLockExact' /\ Program'
  BY <1>1 DEF Call
<1>2. ASSUME NEW t \in Thread, SpinLock(t)
      PROVE SpinLockExact' /\ Program'
  BY <1>2 DEF SpinLock
<1>3. ASSUME NEW t \in Thread, CheckOwner(t)
      PROVE SpinLockExact' /\ Program'
  BY <1>3 DEF CheckOwner
<1>4. ASSUME NEW t \in Thread, Increment(t)
      PROVE SpinLockExact' /\ Program'
  BY <1>4 DEF Increment
<1>5. ASSUME NEW t \in Thread, Decrement(t)
      PROVE SpinLockExact' /\ Program'
  BY <1>5 DEF Decrement
<1>6. ASSUME NEW t \in Thread, ClearOwner(t)
      PROVE SpinLockExact' /\ Program'
  BY <1>6 DEF ClearOwner
<1>7. ASSUME NEW t \in Thread, Leave(t)
      PROVE SpinLockExact' /\ Program'
  BY <1>7 DEF Leave
<1>8. ASSUME NEW t \in Thread, Fail(t)
      PROVE SpinLockExact' /\ Program'
  BY <1>8 DEF Fail
<1>9. CASE UNCHANGED vars
  BY <1>9 DEF vars
<1>10. QED
  BY <1>1, <1>2, <1>3, <1>4, <1>5, <1>6, <1>7, <1>8, <1>9 DEF Next, Step

\* m_thread and m_lockCount follow the levels of the one thread that has any.
\* A thread that takes, counts or uncounts is inside the spin lock, so no other
\* thread is; a thread with levels excludes every other thread from having any.
LEMMA OwnershipStep == IInv /\ [Next]_vars => Ownership'
<1> SUFFICES ASSUME IInv, [Next]_vars PROVE Ownership'
  OBVIOUS
<1>0. TypeOK /\ SpinLockExact /\ Program /\ Ownership
  BY DEF IInv
<1>a. \A t \in Thread : held[t] \in Nat /\ Levels(t) \in Nat
  BY <1>0 DEF TypeOK, Levels
<1>b. m_lockCount \in Nat
  BY <1>0 DEF TypeOK
<1> USE ObjectLockAssumption
<1>1. ASSUME NEW t \in Thread, NEW o \in Operation, Call(t, o) PROVE Ownership'
  <2>1. \A u \in Thread : Levels(u)' = Levels(u)
    BY <1>0, <1>1 DEF Call, Levels, TypeOK, Goto, Operation
  <2>2. \A u \in Thread : pc'[u] \in {"count", "clear"} <=> pc[u] \in {"count", "clear"}
    BY <1>0, <1>1 DEF Call, TypeOK, Goto
  <2>3. \A u \in Thread : pc'[u] = "clear" <=> pc[u] = "clear"
    BY <1>0, <1>1 DEF Call, TypeOK, Goto
  <2>4. UNCHANGED <<m_thread, m_lockCount>>
    BY <1>1 DEF Call
  <2>5. QED
    BY <1>0, <2>1, <2>2, <2>3, <2>4 DEF Ownership, TypeOK
<1>2. ASSUME NEW t \in Thread, SpinLock(t) PROVE Ownership'
  <2>1. \A u \in Thread : Levels(u)' = Levels(u)
    BY <1>0, <1>2 DEF SpinLock, Levels, TypeOK, Goto
  <2>2. \A u \in Thread : pc'[u] \in {"count", "clear"} <=> pc[u] \in {"count", "clear"}
    BY <1>0, <1>2 DEF SpinLock, TypeOK, Goto
  <2>3. \A u \in Thread : pc'[u] = "clear" <=> pc[u] = "clear"
    BY <1>0, <1>2 DEF SpinLock, TypeOK, Goto
  <2>4. UNCHANGED <<m_thread, m_lockCount>>
    BY <1>2 DEF SpinLock
  <2>5. QED
    BY <1>0, <2>1, <2>2, <2>3, <2>4 DEF Ownership, TypeOK
<1>3. ASSUME NEW t \in Thread, CheckOwner(t) PROVE Ownership'
  <2>1. \A u \in Thread : Levels(u)' = Levels(u)
    BY <1>0, <1>3 DEF CheckOwner, Levels, TypeOK, Goto, Program
  <2>2. \A u \in Thread \ {t} : pc[u] \in {"idle", "spin"} /\ pc'[u] = pc[u]
    BY <1>0, <1>3 DEF CheckOwner, TypeOK, Goto, SpinLockExact, Inside
  <2>3. CASE m_thread \in {NoThread, t}
    <3>1. m_thread' = t /\ pc'[t] = "count" /\ m_lockCount' = m_lockCount
      BY <1>0, <1>3, <2>3 DEF CheckOwner, TypeOK, Goto
    <3>2. \A u \in Thread : Levels(u) > 0 => u = t
      BY <1>0, <2>3 DEF Ownership
    <3>3. QED
      BY <1>0, <2>1, <2>2, <3>1, <3>2 DEF Ownership, TypeOK
  <2>4. CASE m_thread \notin {NoThread, t}
    <3>1. UNCHANGED <<m_thread, m_lockCount>> /\ pc'[t] = "fail"
      BY <1>0, <1>3, <2>4 DEF CheckOwner, TypeOK, Goto
    <3>2. QED
      BY <1>0, <1>3, <2>1, <2>2, <2>4, <3>1 DEF Ownership, TypeOK
  <2>5. QED
    BY <2>3, <2>4
<1>4. ASSUME NEW t \in Thread, Increment(t) PROVE Ownership'
  <2>1. Levels(t)' = Levels(t) + 1 /\ \A u \in Thread \ {t} : Levels(u)' = Levels(u)
    BY <1>0, <1>4 DEF Increment, Levels, TypeOK, Goto, Program
  <2>2. \A u \in Thread \ {t} : pc[u] \in {"idle", "spin"} /\ pc'[u] = pc[u]
    BY <1>0, <1>4 DEF Increment, TypeOK, Goto, SpinLockExact, Inside
  <2>3. m_thread = t /\ m_thread' = t /\ pc'[t] = "leave" /\ m_lockCount' = m_lockCount + 1
    BY <1>0, <1>4 DEF Increment, TypeOK, Goto, Ownership
  <2>4. \A u \in Thread : Levels(u) > 0 => u = t
    BY <1>0, <2>3 DEF Ownership
  <2>5. m_lockCount = Levels(t)
    BY <1>0, <1>a, <2>4 DEF Ownership
  <2>6. QED
    BY <1>0, <1>a, <1>b, <2>1, <2>2, <2>3, <2>4, <2>5 DEF Ownership, TypeOK
<1>5. ASSUME NEW t \in Thread, Decrement(t) PROVE Ownership'
  <2>0. op[t] = "unlock" /\ pc[t] = "uncount"
    BY <1>0, <1>5 DEF Decrement, Program
  <2>1. Levels(t)' = Levels(t) - 1 /\ \A u \in Thread \ {t} : Levels(u)' = Levels(u)
    BY <1>0, <1>5, <2>0 DEF Decrement, Levels, TypeOK, Goto
  <2>2. \A u \in Thread \ {t} : pc[u] \in {"idle", "spin"} /\ pc'[u] = pc[u]
    BY <1>0, <1>5 DEF Decrement, TypeOK, Goto, SpinLockExact, Inside
  <2>3. Levels(t) > 0
    BY <1>0, <2>0 DEF Levels, TypeOK
  <2>4. m_thread = t /\ m_lockCount = Levels(t)
    BY <1>0, <2>3 DEF Ownership
  <2>5. \A u \in Thread : Levels(u) > 0 => u = t
    BY <1>0, <2>4 DEF Ownership
  <2>6. /\ m_thread' = t /\ m_lockCount' = m_lockCount - 1
        /\ pc'[t] = IF m_lockCount = 1 THEN "clear" ELSE "leave"
    BY <1>0, <1>5, <2>4 DEF Decrement, TypeOK, Goto
  <2>7. QED
    BY <1>0, <1>a, <1>b, <2>1, <2>2, <2>3, <2>4, <2>5, <2>6 DEF Ownership, TypeOK
<1>6. ASSUME NEW t \in Thread, ClearOwner(t) PROVE Ownership'
  <2>1. \A u \in Thread : Levels(u)' = Levels(u)
    BY <1>0, <1>6 DEF ClearOwner, Levels, TypeOK, Goto, Program
  <2>2. \A u \in Thread \ {t} : pc[u] \in {"idle", "spin"} /\ pc'[u] = pc[u]
    BY <1>0, <1>6 DEF ClearOwner, TypeOK, Goto, SpinLockExact, Inside
  <2>3. m_thread = t /\ m_lockCount = 0
    BY <1>0, <1>6 DEF ClearOwner, Ownership
  <2>4. \A u \in Thread : Levels(u) = 0
    BY <1>0, <1>a, <2>3 DEF Ownership
  <2>5. m_thread' = NoThread /\ m_lockCount' = m_lockCount /\ pc'[t] = "leave"
    BY <1>0, <1>6, <2>3 DEF ClearOwner, TypeOK, Goto
  <2>6. QED
    BY <1>0, <2>1, <2>2, <2>3, <2>4, <2>5 DEF Ownership, TypeOK
<1>7. ASSUME NEW t \in Thread, Leave(t) PROVE Ownership'
  <2>1. \A u \in Thread : Levels(u)' = Levels(u)
    BY <1>0, <1>7 DEF Leave, Levels, TypeOK, Goto
  <2>2. \A u \in Thread : pc'[u] \in {"count", "clear"} <=> pc[u] \in {"count", "clear"}
    BY <1>0, <1>7 DEF Leave, TypeOK, Goto
  <2>3. \A u \in Thread : pc'[u] = "clear" <=> pc[u] = "clear"
    BY <1>0, <1>7 DEF Leave, TypeOK, Goto
  <2>4. UNCHANGED <<m_thread, m_lockCount>>
    BY <1>7 DEF Leave
  <2>5. QED
    BY <1>0, <2>1, <2>2, <2>3, <2>4 DEF Ownership, TypeOK
<1>8. ASSUME NEW t \in Thread, Fail(t) PROVE Ownership'
  <2>1. \A u \in Thread : Levels(u)' = Levels(u)
    BY <1>0, <1>8 DEF Fail, Levels, TypeOK, Goto, Program
  <2>2. \A u \in Thread : pc'[u] \in {"count", "clear"} <=> pc[u] \in {"count", "clear"}
    BY <1>0, <1>8 DEF Fail, TypeOK, Goto
  <2>3. \A u \in Thread : pc'[u] = "clear" <=> pc[u] = "clear"
    BY <1>0, <1>8 DEF Fail, TypeOK, Goto
  <2>4. UNCHANGED <<m_thread, m_lockCount>>
    BY <1>8 DEF Fail
  <2>5. QED
    BY <1>0, <2>1, <2>2, <2>3, <2>4 DEF Ownership, TypeOK
<1>9. CASE UNCHANGED vars
  BY <1>0, <1>9 DEF vars, Ownership, Levels
<1>10. QED
  BY <1>1, <1>2, <1>3, <1>4, <1>5, <1>6, <1>7, <1>8, <1>9 DEF Next, Step

-----------------------------------------------------------------------------

\* IInv holds in every reachable state, for any threads and any depth: the spin
\* lock, the owner and the counter of uObject.cpp always agree with what the
\* callers hold.
THEOREM Invariance == Spec => []IInv
<1>1. IInv /\ [Next]_vars => IInv'
  BY TypeStep, SpinStep, OwnershipStep DEF IInv
<1>2. QED
  BY InitIInv, <1>1, PTL DEF Spec

\* The types, and with them that threadUnlock never takes m_lockCount below 0.
THEOREM TypeCorrect == Spec => []TypeOK
<1>1. IInv => TypeOK
  BY DEF IInv
<1>2. QED
  BY Invariance, <1>1, PTL

\* No two threads are between lock and unlock of one object.
THEOREM Exclusion == Spec => []MutualExclusion
<1>1. IInv => MutualExclusion
  <2> SUFFICES ASSUME IInv, NEW t \in Thread, NEW u \in Thread, held[t] > 0, held[u] > 0
               PROVE t = u
    BY DEF MutualExclusion
  <2>1. Levels(t) > 0 /\ Levels(u) > 0
    BY DEF IInv, TypeOK, Levels
  <2>2. QED
    BY <2>1 DEF IInv, Ownership
<1>2. QED
  BY Invariance, <1>1, PTL

\* The lock of uObject.cpp implements the reentrant lock: AtomicIncrement is the
\* moment lock takes effect, AtomicDecrement the moment unlock does, and every
\* other instruction is invisible to the callers.
THEOREM Refinement == Spec => Refines
<1>1. Init => Abstract!Init
  BY DEF Init, Abstract!Init
<1>2. IInv /\ [Next]_vars => [Abstract!Next]_(Abstract!lockVars)
  <2> SUFFICES ASSUME IInv, [Next]_vars
               PROVE [Abstract!Next]_(Abstract!lockVars)
    OBVIOUS
  <2>0. TypeOK /\ Program /\ Ownership
    BY DEF IInv
  <2> USE ObjectLockAssumption DEF Abstract!lockVars
  <2>1. ASSUME NEW t \in Thread, Increment(t) PROVE Abstract!Next
    <3>1. m_thread = t /\ m_lockCount \in Nat
      BY <2>0, <2>1 DEF Increment, Ownership, TypeOK
    <3>2. Abstract!Acquire(t)
      BY <2>1, <3>1 DEF Increment, Abstract!Acquire
    <3>3. QED
      BY <3>2 DEF Abstract!Next
  <2>2. ASSUME NEW t \in Thread, Decrement(t) PROVE Abstract!Next
    <3>1. Levels(t) > 0
      BY <2>0, <2>2 DEF Decrement, Program, Levels, TypeOK
    <3>2. m_thread = t /\ m_lockCount > 0 /\ m_lockCount \in Nat
      BY <2>0, <3>1 DEF Ownership, TypeOK
    <3>3. Abstract!Release(t)
      BY <2>2, <3>2 DEF Decrement, Abstract!Release
    <3>4. QED
      BY <3>3 DEF Abstract!Next
  <2>3. ASSUME NEW t \in Thread, CheckOwner(t) PROVE UNCHANGED Abstract!lockVars
    <3>1. CASE m_thread = NoThread
      <4>1. m_lockCount = 0
        <5>1. \A u \in Thread : Levels(u) = 0
          BY <2>0, <3>1 DEF Ownership, Levels, TypeOK
        <5>2. QED
          BY <2>0, <5>1 DEF Ownership
      <4>2. QED
        BY <2>3, <4>1 DEF CheckOwner
    <3>2. CASE m_thread # NoThread
      BY <2>3, <3>2 DEF CheckOwner
    <3>3. QED
      BY <3>1, <3>2
  <2>4. ASSUME NEW t \in Thread, ClearOwner(t) PROVE UNCHANGED Abstract!lockVars
    BY <2>0, <2>4 DEF ClearOwner, Ownership
  <2>5. ASSUME NEW t \in Thread,
               \/ \E o \in Operation : Call(t, o)
               \/ SpinLock(t) \/ Leave(t) \/ Fail(t)
        PROVE UNCHANGED Abstract!lockVars
    BY <2>5 DEF Call, SpinLock, Leave, Fail
  <2>6. CASE UNCHANGED vars
    BY <2>6 DEF vars
  <2>7. QED
    BY <2>1, <2>2, <2>3, <2>4, <2>5, <2>6 DEF Next, Step
<1>3. QED
  BY Invariance, <1>1, <1>2, PTL DEF Spec, Refines, Abstract!Spec
=============================================================================
