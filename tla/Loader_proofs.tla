------------------------- MODULE Loader_proofs -------------------------
(***************************************************************************)
(* Proofs about the loader, for any finite set of files and any number of  *)
(* updaters: its counters are exact at any moment, one thread at a time is *)
(* on its way to update(), onReady comes after all that was started, and   *)
(* nothing comes back to a loader that is released.                        *)
(***************************************************************************)
EXTENDS Loader, FiniteSetTheorems, TLAPS

\* Places of an updater that has the loader's lock.
Busy == {"error", "speed", "status", "clear", "pop", "lasterr"}

\* Places of a handler that has a file.
FileStep == {"check", "sound", "count", "left", "suberr", "update", "file",
             "fail", "retry", "fatal", "faterr"}

\* Who has the lock is where the code has taken it; release() has set shutdown.
Locking ==
  /\ \A u \in Updater : owner = u <=> upc[u] \in Busy
  /\ owner = Rel <=> rpc \in {"spin", "test", "drain"}
  /\ shutdown <=> rpc # "none"

\* Who has set the updating flag sleeps before update(), or releases the loader.
Flagged ==
  /\ \A u, v \in Updater : upc[u] = "sleep" /\ upc[v] = "sleep" => u = v
  /\ updating <=> (\E u \in Updater : upc[u] = "sleep") \/ rpc \in {"test", "drain"}
  /\ rpc \in {"test", "drain", "done"} => \A u \in Updater : upc[u] \notin Busy \cup {"sleep"}

\* Files in list are in it once, and it has those an updater is going to start.
Waiting ==
  /\ \A i, j \in DOMAIN list : list[i] = list[j] => i = j
  /\ \A f \in File : where[f] = "listed" <=> \E i \in DOMAIN list : list[i] = f
  /\ \A u \in Updater : upc[u] \in {"speed", "status", "clear", "pop"} => todo[u] <= Len(list)

\* A message is in the pipe once, or is being handled.
Piped ==
  /\ \A i, j \in DOMAIN pipe : pipe[i] = pipe[j] => i = j
  /\ \A f \in File : where[f] = "answered" <=> \E i \in DOMAIN pipe : pipe[i] = f
  /\ \A u \in Updater : upc[u] = "wait" <=>
       (\E i \in DOMAIN pipe : pipe[i] = u) \/ \E h \in Handler : job[h] = u
  /\ \A i \in DOMAIN pipe, h \in Handler : pipe[i] # job[h]

\* A handler is in the code for the message it has, and no other handler has it.
Handled ==
  /\ \A h \in Handler : /\ hpc[h] = "idle" <=> job[h] = NoFile
                        /\ hpc[h] = "ready" <=> job[h] \in Updater
                        /\ hpc[h] = "faterr" => job[h] \notin Forgiven
  /\ \A h, g \in Handler : job[h] = job[g] /\ job[h] # NoFile => h = g
  /\ \A f \in File : where[f] = "handled" <=> \E h \in Handler : job[h] = f
  /\ ~shutdown => hpc[Rel] = "idle"

\* What has become of each file, with the step of its handler.
Stops ==
  [f \in File |->
     IF where[f] = "handled" THEN hpc[CHOOSE h \in Handler : job[h] = f] ELSE where[f]]

\* A file is retried once it has been asked for, and no more after a shutdown.
Retried ==
  \A f \in File :
    /\ Stops[f] \in {"out", "listed", "dropped"} => retry[f] = 0
    /\ Stops[f] = "fail" => retry[f] < MaxRetry \/ shutdown
    /\ retry[f] > MaxRetry => shutdown /\ Stops[f] \in {"retry", "fatal", "faterr", "failed"}

\* Counted out of left.
Past == {"done", "failed", "suberr", "update", "file", "faterr"}

\* What an updater found when left was 0 stays so until it calls onReady.
Covered ==
  /\ \A u \in Updater : upc[u] = "lasterr" =>
       \A f \in File : Stops[f] \in Past \cup {"out", "listed"}
  /\ rpc = "done" => \A f \in File : Stops[f] \in Past \cup {"out", "listed"}
  /\ \A u \in Updater : upc[u] \in {"post", "wait"} =>
       \A f \in covers[u].started : Stops[f] \in Past

IInv ==
  /\ TypeOK /\ Locking /\ Flagged /\ Waiting /\ Piped /\ Handled
  /\ Retried /\ Covered /\ Conservation /\ ErrorBalance

-----------------------------------------------------------------------------
(* The accounts, of any assignment of stops and retries to the files.      *)

Flying == {"asked", "answered", "dropped", "check", "sound", "count", "left",
           "fail", "retry", "fatal"}
Loaded == {"done", "left", "suberr", "update", "file"}
Known == Stage \cup FileStep

\* ErrorsOf, by the stop of the file and its retries.
Debt(f, s, r) ==
  IF s \in {"done", "update", "file"} THEN 0
  ELSE IF s = "dropped" THEN 1
  ELSE IF s = "failed" /\ f \notin Forgiven THEN r + 1 ELSE r

Debts(s, r) == {e \in File \X (1 .. MaxRetry + 2) : e[2] <= Debt(e[1], s[e[1]], r[e[1]])}

Tally(st, s, r) ==
  /\ st.left = Cardinality({f \in File : s[f] \in Flying})
  /\ st.count = Cardinality({f \in File : s[f] \in Loaded})
  /\ st.total = Cardinality({f \in File : s[f] # "out"})
  /\ st.error = Cardinality(Debts(s, r))

One(P) == IF P THEN 1 ELSE 0

\* Two sets of files that differ in one file at most differ by one at most.
LEMMA CountStep ==
  ASSUME NEW S \in SUBSET File, NEW T \in SUBSET File, NEW f \in File,
         \A g \in File \ {f} : g \in S <=> g \in T
  PROVE  /\ Cardinality(S) \in Nat /\ Cardinality(T) \in Nat
         /\ Cardinality(T) = Cardinality(S) + One(f \in T) - One(f \in S)
         /\ f \in S => Cardinality(S) > 0
<1>0. IsFiniteSet(S) /\ IsFiniteSet(T) /\ IsFiniteSet(S \ {f})
  BY LoaderAssumption, FS_Subset
<1>1. PICK n \in Nat : n = Cardinality(S \ {f})
  BY <1>0, FS_CardinalityType
<1>2. Cardinality(S) = n + One(f \in S)
  <2>1. CASE f \in S
    <3>1. S = (S \ {f}) \cup {f}
      BY <2>1
    <3>2. QED
      BY <1>0, <1>1, <2>1, <3>1, FS_AddElement DEF One
  <2>2. CASE f \notin S
    <3>1. S = S \ {f}
      BY <2>2
    <3>2. QED
      BY <1>1, <2>2, <3>1 DEF One
  <2>3. QED
    BY <2>1, <2>2
<1>3. T \ {f} = S \ {f}
  OBVIOUS
<1>4. Cardinality(T) = n + One(f \in T)
  <2>1. CASE f \in T
    <3>1. T = (S \ {f}) \cup {f}
      BY <1>3, <2>1
    <3>2. QED
      BY <1>0, <1>1, <2>1, <3>1, FS_AddElement DEF One
  <2>2. CASE f \notin T
    <3>1. T = S \ {f}
      BY <1>3, <2>2
    <3>2. QED
      BY <1>1, <2>2, <3>1 DEF One
  <2>3. QED
    BY <2>1, <2>2
<1>5. QED
  BY <1>2, <1>4 DEF One

\* The first n numbers, each with f, are n.
LEMMA Numbered ==
  ASSUME NEW f, NEW n \in Nat
  PROVE  IsFiniteSet({f} \X (1 .. n)) /\ Cardinality({f} \X (1 .. n)) = n
<1>1. IsFiniteSet(1 .. n) /\ Cardinality(1 .. n) = n
  BY FS_Interval
<1>2. IsFiniteSet({f}) /\ Cardinality({f}) = 1
  BY FS_Singleton
<1>3. QED
  BY <1>1, <1>2, FS_Product

\* Stops and retries that differ in one file at most differ in its debt.
LEMMA DebtStep ==
  ASSUME NEW s, NEW t, NEW r \in [File -> 0 .. MaxRetry + 1],
         NEW q \in [File -> 0 .. MaxRetry + 1],
         NEW f \in File, \A g \in File \ {f} : s[g] = t[g] /\ r[g] = q[g]
  PROVE  /\ Cardinality(Debts(s, r)) \in Nat /\ Cardinality(Debts(t, q)) \in Nat
         /\ Cardinality(Debts(t, q)) =
              Cardinality(Debts(s, r)) + Debt(f, t[f], q[f]) - Debt(f, s[f], r[f])
         /\ Cardinality(Debts(s, r)) >= Debt(f, s[f], r[f])
<1>1. IsFiniteSet(File \X (1 .. MaxRetry + 2)) /\ MaxRetry \in Nat
  <2>1. MaxRetry \in Nat /\ IsFiniteSet(File)
    BY LoaderAssumption
  <2>2. IsFiniteSet(1 .. MaxRetry + 2)
    BY <2>1, FS_Interval
  <2>3. QED
    BY <2>1, <2>2, FS_Product
<1>2. PICK R : R = {e \in Debts(s, r) : e[1] # f}
  OBVIOUS
<1>3. R = {e \in Debts(t, q) : e[1] # f}
  BY <1>2 DEF Debts
<1>4. IsFiniteSet(R) /\ Cardinality(R) \in Nat
  <2>1. R \subseteq File \X (1 .. MaxRetry + 2)
    BY <1>2 DEF Debts
  <2>2. QED
    BY <1>1, <2>1, FS_Subset, FS_CardinalityType
<1>5. PICK d, c : d = Debt(f, s[f], r[f]) /\ c = Debt(f, t[f], q[f])
  OBVIOUS
<1>6. d \in 0 .. MaxRetry + 2 /\ c \in 0 .. MaxRetry + 2
  BY <1>1, <1>5 DEF Debt
<1>7. PICK D, C : D = {f} \X (1 .. d) /\ C = {f} \X (1 .. c)
  OBVIOUS
<1>8. /\ Debts(s, r) = R \cup D /\ Debts(t, q) = R \cup C
      /\ R \cap D = {} /\ R \cap C = {}
  BY <1>1, <1>2, <1>3, <1>5, <1>6, <1>7 DEF Debts
<1>9. /\ IsFiniteSet(D) /\ Cardinality(D) = d
      /\ IsFiniteSet(C) /\ Cardinality(C) = c
  <2>1. d \in Nat /\ c \in Nat
    BY <1>1, <1>6
  <2>2. QED
    BY <1>7, <2>1, Numbered
<1>10. /\ Cardinality(Debts(s, r)) = Cardinality(R) + d
       /\ Cardinality(Debts(t, q)) = Cardinality(R) + c
  <2>1. Cardinality({}) = 0
    BY FS_EmptySet
  <2>2. /\ Cardinality(R \cup D) = Cardinality(R) + Cardinality(D) - Cardinality(R \cap D)
        /\ Cardinality(R \cup C) = Cardinality(R) + Cardinality(C) - Cardinality(R \cap C)
    BY <1>4, <1>9, FS_Union
  <2>3. Cardinality(R \cap D) = 0 /\ Cardinality(R \cap C) = 0
    BY <1>8, <2>1
  <2>4. /\ Cardinality(R \cup D) = Cardinality(R) + d
        /\ Cardinality(R \cup C) = Cardinality(R) + c
    BY <1>4, <1>6, <1>9, <2>2, <2>3
  <2>5. QED
    BY <1>8, <2>4
<1>11. QED
  BY <1>1, <1>4, <1>5, <1>6, <1>10

\* File f moves, and the counters change by what it stands for.
Moving(s, t, r, q, f, st, su) ==
  /\ r \in [File -> 0 .. MaxRetry + 1] /\ q \in [File -> 0 .. MaxRetry + 1]
  /\ \A g \in File \ {f} : s[g] = t[g] /\ r[g] = q[g]
  /\ su.left = st.left + One(t[f] \in Flying) - One(s[f] \in Flying)
  /\ su.count = st.count + One(t[f] \in Loaded) - One(s[f] \in Loaded)
  /\ su.total = st.total + One(t[f] # "out") - One(s[f] # "out")
  /\ su.error = st.error + Debt(f, t[f], q[f]) - Debt(f, s[f], r[f])

\* One file moves: the accounts follow.
LEMMA Balance ==
  ASSUME NEW s, NEW t, NEW r, NEW q, NEW f \in File, NEW st, NEW su,
         Tally(st, s, r), Moving(s, t, r, q, f, st, su)
  PROVE  /\ Tally(su, t, q) /\ su.left \in Nat /\ su.count \in Nat
         /\ su.total \in Nat /\ su.error \in Nat
<1>. USE DEF Moving
<1>1. /\ Cardinality(Debts(t, q)) \in Nat
      /\ Cardinality(Debts(t, q)) =
           Cardinality(Debts(s, r)) + Debt(f, t[f], q[f]) - Debt(f, s[f], r[f])
  BY DebtStep
<1>2. ASSUME NEW P
      PROVE  /\ Cardinality({g \in File : t[g] \in P}) \in Nat
             /\ Cardinality({g \in File : t[g] \in P}) =
                  Cardinality({g \in File : s[g] \in P}) + One(t[f] \in P) - One(s[f] \in P)
  <2>1. PICK S \in SUBSET File, T \in SUBSET File :
          S = {g \in File : s[g] \in P} /\ T = {g \in File : t[g] \in P}
    OBVIOUS
  <2>2. /\ \A g \in File \ {f} : g \in S <=> g \in T
        /\ f \in S <=> s[f] \in P
        /\ f \in T <=> t[f] \in P
    BY <2>1
  <2>3. Cardinality(T) \in Nat /\ Cardinality(T) = Cardinality(S) + One(f \in T) - One(f \in S)
    BY <2>2, CountStep
  <2>4. QED
    BY <2>1, <2>2, <2>3 DEF One
<1>3. /\ Cardinality({g \in File : t[g] # "out"}) \in Nat
      /\ Cardinality({g \in File : t[g] # "out"}) =
           Cardinality({g \in File : s[g] # "out"}) + One(t[f] # "out") - One(s[f] # "out")
  <2>1. PICK S \in SUBSET File, T \in SUBSET File :
          S = {g \in File : s[g] # "out"} /\ T = {g \in File : t[g] # "out"}
    OBVIOUS
  <2>2. /\ \A g \in File \ {f} : g \in S <=> g \in T
        /\ f \in S <=> s[f] # "out"
        /\ f \in T <=> t[f] # "out"
    BY <2>1
  <2>3. Cardinality(T) \in Nat /\ Cardinality(T) = Cardinality(S) + One(f \in T) - One(f \in S)
    BY <2>2, CountStep
  <2>4. QED
    BY <2>1, <2>2, <2>3 DEF One
<1>4. QED
  BY <1>1, <1>2, <1>3 DEF Tally

\* When left is 0, no request is in flight.
LEMMA NothingLeft ==
  ASSUME NEW s, NEW r, NEW st, Tally(st, s, r), ~(st.left > 0)
  PROVE  \A f \in File : s[f] \notin Flying
<1>1. PICK S : S = {f \in File : s[f] \in Flying}
  OBVIOUS
<1>2. IsFiniteSet(S) /\ Cardinality(S) \in Nat
  BY <1>1, LoaderAssumption, FS_Subset, FS_CardinalityType
<1>3. Cardinality(S) = 0
  BY <1>1, <1>2 DEF Tally
<1>4. S = {}
  BY <1>2, <1>3, FS_EmptySet
<1>5. QED
  BY <1>1, <1>4

-----------------------------------------------------------------------------
(* Stops and what the model says of the handlers.                          *)

\* The part of the types that the handlers have.
Typed ==
  /\ where \in [File -> Stage]
  /\ hpc \in [Handler -> FileStep \cup {"idle", "ready"}]
  /\ job \in [Handler -> File \cup Updater \cup {NoFile}]

\* Where a file is, by what has become of it and by its handler.
Handlings ==
  /\ \A f \in File : where[f] # "handled" =>
       Stops[f] = where[f] /\ \A h \in Handler : job[h] # f
  /\ \A f \in File, h \in Handler : job[h] = f =>
       /\ where[f] = "handled" /\ Stops[f] = hpc[h] /\ hpc[h] \in FileStep
       /\ \A L : Handling(f, L) <=> hpc[h] \in L
  /\ \A f \in File : where[f] = "handled" => \E h \in Handler : job[h] = f
  /\ \A f \in File : Stops[f] \in (Stage \cup FileStep) \ {"handled"}

\* Where a file is, handled or not, is its stop.
LEMMA StopsAre == Typed /\ Handled => Handlings
<1>. SUFFICES ASSUME Typed, Handled PROVE Handlings
  OBVIOUS
<1>1. ASSUME NEW f \in File, NEW h \in Handler, job[h] = f
      PROVE  /\ where[f] = "handled" /\ Stops[f] = hpc[h] /\ hpc[h] \in FileStep
             /\ \A L : Handling(f, L) <=> hpc[h] \in L
  <2>1. f \notin Updater /\ f # NoFile
    BY LoaderAssumption
  <2>2. where[f] = "handled" /\ hpc[h] \notin {"idle", "ready"}
    BY <1>1, <2>1 DEF Handled
  <2>3. \A g \in Handler : job[g] = f => g = h
    BY <1>1, <2>1 DEF Handled
  <2>4. (CHOOSE g \in Handler : job[g] = f) = h
    BY <1>1, <2>3
  <2>5. hpc[h] \in FileStep
    BY <2>2 DEF Typed, FileStep
  <2>6. QED
    BY <1>1, <2>2, <2>3, <2>4, <2>5 DEF Stops, Handling
<1>2. ASSUME NEW f \in File, where[f] # "handled"
      PROVE  Stops[f] = where[f] /\ \A h \in Handler : job[h] # f
  BY <1>2 DEF Handled, Stops
<1>3. ASSUME NEW f \in File, where[f] = "handled"
      PROVE  \E h \in Handler : job[h] = f
  BY <1>3 DEF Handled
<1>4. ASSUME NEW f \in File
      PROVE  Stops[f] \in (Stage \cup FileStep) \ {"handled"}
  <2>1. CASE where[f] = "handled"
    BY <1>1, <1>3, <2>1 DEF FileStep
  <2>2. CASE where[f] # "handled"
    BY <1>2, <2>2 DEF Typed
  <2>3. QED
    BY <2>1, <2>2
<1>5. QED
  BY <1>1, <1>2, <1>3, <1>4 DEF Handlings

\* The counters, by the stops of the files.
Accounted == Conservation /\ ErrorBalance <=> Tally(status, Stops, retry)

\* The counters are exact if they are what the stops of the files say.
LEMMA Accounts == Typed /\ Handled => Accounted
<1>. SUFFICES ASSUME Typed, Handled PROVE Accounted
  OBVIOUS
<1>1. Handlings
  BY StopsAre
<1>2. ASSUME NEW f \in File
      PROVE  /\ InFlight(f) <=> Stops[f] \in Flying
             /\ where[f] = "done" \/ Handling(f, {"left", "suberr", "update", "file"})
                  <=> Stops[f] \in Loaded
             /\ where[f] # "out" <=> Stops[f] # "out"
             /\ ErrorsOf(f) = Debt(f, Stops[f], retry[f])
  <2>1. CASE where[f] = "handled"
    <3>1. PICK h \in Handler : job[h] = f
      BY <1>1, <2>1 DEF Handlings
    <3>2. Stops[f] = hpc[h] /\ hpc[h] \in FileStep /\ \A L : Handling(f, L) <=> hpc[h] \in L
      BY <1>1, <3>1 DEF Handlings
    <3>3. QED
      BY <2>1, <3>2 DEF InFlight, Flying, Loaded, ErrorsOf, Debt, FileStep
  <2>2. CASE where[f] # "handled"
    <3>1. Stops[f] = where[f] /\ \A L : ~Handling(f, L)
      BY <1>1, <2>2 DEF Handlings, Handling
    <3>2. where[f] \in Stage
      BY DEF Typed
    <3>3. QED
      BY <2>2, <3>1, <3>2 DEF InFlight, Flying, Loaded, ErrorsOf, Debt, Stage
  <2>3. QED
    BY <2>1, <2>2
<1>3. {f \in File : InFlight(f)} = {f \in File : Stops[f] \in Flying}
  BY <1>2
<1>4. {f \in File : where[f] = "done" \/ Handling(f, {"left", "suberr", "update", "file"})}
        = {f \in File : Stops[f] \in Loaded}
  BY <1>2
<1>5. {f \in File : where[f] # "out"} = {f \in File : Stops[f] # "out"}
  BY <1>2
<1>6. Errors = Debts(Stops, retry)
  <2>1. \A e \in File \X (1 .. MaxRetry + 2) :
          ErrorsOf(e[1]) = Debt(e[1], Stops[e[1]], retry[e[1]])
    BY <1>2
  <2>2. QED
    BY <2>1 DEF Errors, Debts
<1>7. QED
  BY <1>3, <1>4, <1>5, <1>6 DEF Accounted, Tally, Conservation, ErrorBalance

-----------------------------------------------------------------------------
(* What a step of a handler, or of another thread, makes of the stops.     *)

\* File f comes to stop l, and no other file moves.
Turns(f, l) == \A g \in File : Stops'[g] = IF g = f THEN l ELSE Stops[g]

\* No file moves.
Rests == \A g \in File : Stops'[g] = Stops[g]

\* The type invariant says what these lemmas need of the handlers.
LEMMA TypedOK == TypeOK => Typed
BY DEF TypeOK, Typed, FileStep

\* What concerns a file alone leaves the others where they are.
LEMMA OthersRest ==
  ASSUME Typed, Handled, Typed', Handled', NEW g \in File, where'[g] = where[g],
         \A h \in Handler : job[h] = g => job'[h] = g /\ hpc'[h] = hpc[h]
  PROVE  Stops'[g] = Stops[g]
<1>1. Handlings /\ Handlings'
  BY StopsAre, PTL
<1>2. CASE where[g] = "handled"
  <2>1. PICK h \in Handler : job[h] = g
    BY <1>1, <1>2 DEF Handlings
  <2>2. Stops[g] = hpc[h] /\ Stops'[g] = hpc'[h]
    BY <1>1, <2>1 DEF Handlings
  <2>3. QED
    BY <2>1, <2>2
<1>3. CASE where[g] # "handled"
  BY <1>1, <1>3 DEF Handlings
<1>4. QED
  BY <1>2, <1>3

\* A handler goes on with its file.
LEMMA Continues ==
  ASSUME Typed, Handled, NEW h \in Handler, NEW f \in File, job[h] = f,
         NEW l \in FileStep, l = "faterr" => f \notin Forgiven,
         hpc' = [hpc EXCEPT ![h] = l], UNCHANGED <<job, where, shutdown>>
  PROVE  Typed' /\ Handled' /\ Turns(f, l)
<1>1. Typed'
  BY DEF Typed
<1>2. f # NoFile /\ f \notin Updater /\ hpc[h] \in FileStep /\ l \notin {"idle", "ready"}
  BY LoaderAssumption DEF Handled, Typed, FileStep
<1>3. \A g \in Handler : hpc'[g] = IF g = h THEN l ELSE hpc[g]
  BY DEF Typed
<1>4. ~shutdown => h # Rel
  BY <1>2 DEF Handled, FileStep
<1>5. Handled'
  BY <1>2, <1>3, <1>4 DEF Handled, Handler
<1>6. Handlings'
  BY <1>1, <1>5, StopsAre, PTL
<1>7. Stops'[f] = l
  BY <1>3, <1>6 DEF Handlings
<1>8. ASSUME NEW g \in File, g # f PROVE Stops'[g] = Stops[g]
  BY <1>1, <1>3, <1>5, <1>8, OthersRest
<1>9. QED
  BY <1>1, <1>5, <1>7, <1>8 DEF Turns

\* A handler is done with its file.
LEMMA Leaves ==
  ASSUME Typed, Handled, NEW h \in Handler, NEW f \in File, job[h] = f,
         NEW l \in Stage \ {"handled"}, Leave(h), Place(f, l), shutdown' = shutdown
  PROVE  Typed' /\ Handled' /\ Turns(f, l)
<1>1. Typed'
  BY DEF Typed, Leave, Place
<1>2. f # NoFile /\ f \notin Updater /\ NoFile \notin File /\ NoFile \notin Updater
  BY LoaderAssumption
<1>3. /\ \A g \in Handler : hpc'[g] = IF g = h THEN "idle" ELSE hpc[g]
      /\ \A g \in Handler : job'[g] = IF g = h THEN NoFile ELSE job[g]
      /\ \A g \in File : where'[g] = IF g = f THEN l ELSE where[g]
  BY DEF Typed, Leave, Place
<1>4. \A g \in Handler : job[g] = f => g = h
  BY <1>2 DEF Handled
<1>5. Handled'
  <2>1. \A g \in Handler : /\ hpc'[g] = "idle" <=> job'[g] = NoFile
                           /\ hpc'[g] = "ready" <=> job'[g] \in Updater
                           /\ hpc'[g] = "faterr" => job'[g] \notin Forgiven
    BY <1>2, <1>3 DEF Handled
  <2>2. \A g, k \in Handler : job'[g] = job'[k] /\ job'[g] # NoFile => g = k
    BY <1>2, <1>3 DEF Handled
  <2>3. \A g \in File : where'[g] = "handled" <=> \E k \in Handler : job'[k] = g
    <3>1. TAKE g \in File
    <3>2. CASE g = f
      BY <1>2, <1>3, <1>4, <3>2
    <3>3. CASE g # f
      BY <1>2, <1>3, <3>3 DEF Handled
    <3>4. QED
      BY <3>2, <3>3
  <2>4. ~shutdown' => hpc'[Rel] = "idle"
    BY <1>3 DEF Handled, Handler
  <2>5. QED
    BY <2>1, <2>2, <2>3, <2>4 DEF Handled
<1>6. Handlings'
  BY <1>1, <1>5, StopsAre, PTL
<1>7. Stops'[f] = l
  BY <1>3, <1>6 DEF Handlings
<1>8. ASSUME NEW g \in File, g # f PROVE Stops'[g] = Stops[g]
  <2>1. where'[g] = where[g]
    BY <1>3, <1>8
  <2>2. \A k \in Handler : job[k] = g => job'[k] = g /\ hpc'[k] = hpc[k]
    BY <1>3, <1>8
  <2>3. QED
    BY <1>1, <1>5, <2>1, <2>2, OthersRest
<1>9. QED
  BY <1>1, <1>5, <1>7, <1>8 DEF Turns

\* A file moves that nobody handles.
LEMMA Moves ==
  ASSUME Typed, Handled, NEW f \in File, where[f] # "handled",
         NEW l \in Stage \ {"handled"}, Place(f, l), UNCHANGED <<hpc, job, shutdown>>
  PROVE  Typed' /\ Handled' /\ Turns(f, l)
<1>1. Typed'
  BY DEF Typed, Place
<1>2. \A g \in File : where'[g] = IF g = f THEN l ELSE where[g]
  BY DEF Typed, Place
<1>3. Handled'
  BY <1>2 DEF Handled
<1>4. Handlings'
  BY <1>1, <1>3, StopsAre, PTL
<1>5. Stops'[f] = l
  BY <1>2, <1>4 DEF Handlings
<1>6. ASSUME NEW g \in File, g # f PROVE Stops'[g] = Stops[g]
  BY <1>1, <1>2, <1>3, <1>6, OthersRest
<1>7. QED
  BY <1>1, <1>3, <1>5, <1>6 DEF Turns

\* No file moves when no handler does.
LEMMA Stays ==
  ASSUME Typed, Handled, UNCHANGED <<hpc, job, where>>, shutdown => shutdown'
  PROVE  Typed' /\ Handled' /\ Rests
<1>1. Typed' /\ Handled'
  BY DEF Typed, Handled
<1>2. QED
  BY <1>1, OthersRest DEF Rests

\* A handler takes the answer for a file.
LEMMA Takes ==
  ASSUME Typed, Handled, NEW h \in Handler, hpc[h] = "idle", NEW f \in File,
         where[f] # "handled", Place(f, "handled"), hpc' = [hpc EXCEPT ![h] = "check"],
         job' = [job EXCEPT ![h] = f], shutdown' = shutdown, h = Rel => shutdown
  PROVE  Typed' /\ Handled' /\ Turns(f, "check")
<1>1. Typed'
  BY DEF Typed, Place, Stage, FileStep
<1>2. f # NoFile /\ f \notin Updater
  BY LoaderAssumption
<1>3. /\ \A g \in Handler : hpc'[g] = IF g = h THEN "check" ELSE hpc[g]
      /\ \A g \in Handler : job'[g] = IF g = h THEN f ELSE job[g]
      /\ \A g \in File : where'[g] = IF g = f THEN "handled" ELSE where[g]
  BY DEF Typed, Place
<1>4. job[h] = NoFile /\ (\A g \in Handler : job[g] # f)
  BY DEF Handled
<1>5. Handled'
  <2>1. \A g \in Handler : /\ hpc'[g] = "idle" <=> job'[g] = NoFile
                           /\ hpc'[g] = "ready" <=> job'[g] \in Updater
                           /\ hpc'[g] = "faterr" => job'[g] \notin Forgiven
    BY <1>2, <1>3 DEF Handled
  <2>2. \A g, k \in Handler : job'[g] = job'[k] /\ job'[g] # NoFile => g = k
    BY <1>3, <1>4 DEF Handled
  <2>3. \A g \in File : where'[g] = "handled" <=> \E k \in Handler : job'[k] = g
    <3>1. TAKE g \in File
    <3>2. CASE g = f
      BY <1>3, <3>2
    <3>3. CASE g # f
      BY LoaderAssumption, <1>3, <1>4, <3>3 DEF Handled
    <3>4. QED
      BY <3>2, <3>3
  <2>4. ~shutdown' => hpc'[Rel] = "idle"
    BY <1>3 DEF Handled, Handler
  <2>5. QED
    BY <2>1, <2>2, <2>3, <2>4 DEF Handled
<1>6. Handlings'
  BY <1>1, <1>5, StopsAre, PTL
<1>7. Stops'[f] = "check"
  BY <1>3, <1>6 DEF Handlings
<1>8. ASSUME NEW g \in File, g # f PROVE Stops'[g] = Stops[g]
  <2>1. where'[g] = where[g]
    BY <1>3, <1>8
  <2>2. \A k \in Handler : job[k] = g => job'[k] = g /\ hpc'[k] = hpc[k]
    BY LoaderAssumption, <1>3, <1>4, <1>8
  <2>3. QED
    BY <1>1, <1>5, <2>1, <2>2, OthersRest
<1>9. QED
  BY <1>1, <1>5, <1>7, <1>8 DEF Turns

\* A handler takes the message of an updater that is ready.
LEMMA TakesReady ==
  ASSUME Typed, Handled, NEW h \in Handler, hpc[h] = "idle", NEW u \in Updater,
         \A g \in Handler : job[g] # u,
         hpc' = [hpc EXCEPT ![h] = "ready"], job' = [job EXCEPT ![h] = u],
         UNCHANGED <<where, shutdown>>, h = Rel => shutdown
  PROVE  Typed' /\ Handled' /\ Rests
<1>1. Typed'
  BY DEF Typed
<1>2. u # NoFile /\ u \notin File
  BY LoaderAssumption
<1>3. /\ \A g \in Handler : hpc'[g] = IF g = h THEN "ready" ELSE hpc[g]
      /\ \A g \in Handler : job'[g] = IF g = h THEN u ELSE job[g]
  BY DEF Typed
<1>4. job[h] = NoFile /\ NoFile \notin File
  BY LoaderAssumption DEF Handled
<1>5. Handled'
  <2>1. \A g \in Handler : /\ hpc'[g] = "idle" <=> job'[g] = NoFile
                           /\ hpc'[g] = "ready" <=> job'[g] \in Updater
                           /\ hpc'[g] = "faterr" => job'[g] \notin Forgiven
    BY <1>2, <1>3 DEF Handled
  <2>2. \A g, k \in Handler : job'[g] = job'[k] /\ job'[g] # NoFile => g = k
    BY <1>3, <1>4 DEF Handled
  <2>3. \A g \in File : where'[g] = "handled" <=> \E k \in Handler : job'[k] = g
    BY <1>2, <1>3, <1>4 DEF Handled
  <2>4. ~shutdown' => hpc'[Rel] = "idle"
    BY <1>3 DEF Handled, Handler
  <2>5. QED
    BY <2>1, <2>2, <2>3, <2>4 DEF Handled
<1>6. ASSUME NEW g \in File PROVE Stops'[g] = Stops[g]
  <2>1. \A k \in Handler : job[k] = g => job'[k] = g /\ hpc'[k] = hpc[k]
    BY <1>3, <1>4, <1>6
  <2>2. QED
    BY <1>1, <1>5, <2>1, OthersRest
<1>7. QED
  BY <1>1, <1>5, <1>6 DEF Rests

\* A handler has called onReady.
LEMMA LeavesReady ==
  ASSUME Typed, Handled, NEW h \in Handler, job[h] \in Updater, Leave(h),
         UNCHANGED <<where, shutdown>>
  PROVE  Typed' /\ Handled' /\ Rests
<1>1. Typed'
  BY DEF Typed, Leave
<1>2. NoFile \notin File /\ NoFile \notin Updater /\ job[h] \notin File
  BY LoaderAssumption
<1>3. /\ \A g \in Handler : hpc'[g] = IF g = h THEN "idle" ELSE hpc[g]
      /\ \A g \in Handler : job'[g] = IF g = h THEN NoFile ELSE job[g]
  BY DEF Typed, Leave
<1>4. Handled'
  <2>1. \A g \in Handler : /\ hpc'[g] = "idle" <=> job'[g] = NoFile
                           /\ hpc'[g] = "ready" <=> job'[g] \in Updater
                           /\ hpc'[g] = "faterr" => job'[g] \notin Forgiven
    BY <1>2, <1>3 DEF Handled
  <2>2. \A g, k \in Handler : job'[g] = job'[k] /\ job'[g] # NoFile => g = k
    BY <1>2, <1>3 DEF Handled
  <2>3. \A g \in File : where'[g] = "handled" <=> \E k \in Handler : job'[k] = g
    BY <1>2, <1>3 DEF Handled
  <2>4. ~shutdown' => hpc'[Rel] = "idle"
    BY <1>3 DEF Handled, Handler
  <2>5. QED
    BY <2>1, <2>2, <2>3, <2>4 DEF Handled
<1>5. ASSUME NEW g \in File PROVE Stops'[g] = Stops[g]
  <2>1. \A k \in Handler : job[k] = g => job'[k] = g /\ hpc'[k] = hpc[k]
    BY <1>2, <1>3, <1>5
  <2>2. QED
    BY <1>1, <1>4, <2>1, OthersRest
<1>6. QED
  BY <1>1, <1>4, <1>5 DEF Rests

-----------------------------------------------------------------------------
(* The counters follow the stops, and so does what updaters found.         *)

\* Types of retry and status, by name.
Retries == [File -> 0 .. MaxRetry + 1]
Status == [update : BOOLEAN, count : Nat, total : Nat, left : Nat, error : Nat]
Counts(st) == st.count \in Nat /\ st.total \in Nat /\ st.left \in Nat /\ st.error \in Nat

\* The counters change by what the file that moves stands for, before and after.
Follow(f, a, b, m, n) ==
  /\ status'.left = status.left + One(b \in Flying) - One(a \in Flying)
  /\ status'.count = status.count + One(b \in Loaded) - One(a \in Loaded)
  /\ status'.total = status.total + One(b # "out") - One(a # "out")
  /\ status'.error = status.error + Debt(f, b, n) - Debt(f, a, m)

\* The retries of file f change from m to n.
RetryGoes(f, m, n) ==
  /\ retry \in Retries /\ retry' \in Retries /\ retry[f] = m /\ retry'[f] = n
  /\ \A g \in File \ {f} : retry'[g] = retry[g]

\* One file moves, its retries change, and the counters follow: they stay exact.
LEMMA Counted ==
  ASSUME Typed, Handled, Typed', Handled', Conservation, ErrorBalance,
         NEW f \in File, NEW a, NEW b, Stops[f] = a, Turns(f, b),
         NEW m, NEW n, RetryGoes(f, m, n), Follow(f, a, b, m, n)
  PROVE  Conservation' /\ ErrorBalance' /\ Counts(status')
<1>1. Accounted /\ Accounted'
  BY Accounts, PTL
<1>2. PICK s, t, r, q, st, su : /\ s = Stops /\ t = Stops' /\ r = retry /\ q = retry'
                                /\ st = status /\ su = status'
  OBVIOUS
<1>3. Tally(st, s, r)
  BY <1>1, <1>2 DEF Accounted
<1>4. Moving(s, t, r, q, f, st, su)
  <2>1. s[f] = a /\ t[f] = b /\ r[f] = m /\ q[f] = n
    BY <1>2 DEF RetryGoes, Turns
  <2>2. /\ r \in [File -> 0 .. MaxRetry + 1] /\ q \in [File -> 0 .. MaxRetry + 1]
        /\ \A g \in File \ {f} : s[g] = t[g] /\ r[g] = q[g]
    BY <1>2 DEF RetryGoes, Retries, Turns
  <2>3. QED
    BY <1>2, <2>1, <2>2 DEF Follow, Moving
<1>6. /\ Tally(su, t, q) /\ su.left \in Nat /\ su.count \in Nat
      /\ su.total \in Nat /\ su.error \in Nat
  BY <1>3, <1>4, Balance
<1>7. QED
  BY <1>1, <1>2, <1>6 DEF Accounted, Counts

\* Nothing moves: the counters stay exact.
LEMMA Uncounted ==
  ASSUME Typed, Handled, Typed', Handled', Conservation, ErrorBalance,
         Rests, UNCHANGED retry, status'.left = status.left, status'.count = status.count,
         status'.total = status.total, status'.error = status.error
  PROVE  Conservation' /\ ErrorBalance'
<1>1. Accounted /\ Accounted'
  BY Accounts, PTL
<1>2. /\ {f \in File : Stops'[f] \in Flying} = {f \in File : Stops[f] \in Flying}
      /\ {f \in File : Stops'[f] \in Loaded} = {f \in File : Stops[f] \in Loaded}
      /\ {f \in File : Stops'[f] # "out"} = {f \in File : Stops[f] # "out"}
  BY DEF Rests
<1>3. Debts(Stops', retry') = Debts(Stops, retry)
  BY DEF Rests, Debts
<1>4. Tally(status', Stops', retry') <=> Tally(status, Stops, retry)
  BY <1>2, <1>3 DEF Tally
<1>5. QED
  BY <1>1, <1>4 DEF Accounted

\* What an updater found still holds after one file moved on.
LEMMA CoveredTurns ==
  ASSUME Covered, NEW f \in File, NEW a, NEW b, Stops[f] = a, Turns(f, b),
         UNCHANGED <<upc, rpc, covers>>,
         covers \in [Updater -> [started : SUBSET File, waiting : SUBSET File]],
         a \in Past => b \in Past, a \in {"out", "listed"} => b \in Past \cup {"out", "listed"}
  PROVE  Covered'
<1>1. /\ \A u \in Updater : upc'[u] = "lasterr" =>
            \A g \in File : Stops'[g] \in Past \cup {"out", "listed"}
      /\ rpc' = "done" => \A g \in File : Stops'[g] \in Past \cup {"out", "listed"}
  BY DEF Covered, Turns
<1>2. ASSUME NEW u \in Updater, upc'[u] \in {"post", "wait"}, NEW g \in covers'[u].started
      PROVE  Stops'[g] \in Past
  <2>1. g \in File /\ Stops[g] \in Past
    BY <1>2 DEF Covered
  <2>2. QED
    BY <2>1 DEF Turns
<1>3. QED
  BY <1>1, <1>2 DEF Covered

\* Nor does it change when no file moves and no updater finds more.
LEMMA CoveredRests ==
  ASSUME Covered, Rests, rpc' = "done" => rpc = "done",
         covers \in [Updater -> [started : SUBSET File, waiting : SUBSET File]],
         \A u \in Updater : /\ upc'[u] = "lasterr" => upc[u] = "lasterr"
                            /\ upc'[u] \in {"post", "wait"} =>
                                 upc[u] \in {"post", "wait"} /\ covers'[u] = covers[u]
  PROVE  Covered'
<1>1. /\ \A u \in Updater : upc'[u] = "lasterr" =>
            \A g \in File : Stops'[g] \in Past \cup {"out", "listed"}
      /\ rpc' = "done" => \A g \in File : Stops'[g] \in Past \cup {"out", "listed"}
  BY DEF Covered, Rests
<1>2. ASSUME NEW u \in Updater, upc'[u] \in {"post", "wait"}, NEW g \in covers'[u].started
      PROVE  Stops'[g] \in Past
  <2>1. g \in File /\ Stops[g] \in Past
    BY <1>2 DEF Covered
  <2>2. QED
    BY <2>1 DEF Rests
<1>3. QED
  BY <1>1, <1>2 DEF Covered

\* A step of handler h with its file f.
LEMMA HandlerStep ==
  ASSUME IInv, NEW h \in Handler, NEW f \in File, job[h] = f, NEW a, hpc[h] = a,
         NEW b \in FileStep \cup {"done", "failed", "asked"},
         Typed', Handled', Turns(f, b),
         \/ job' = job /\ where' = where
         \/ /\ job' = [job EXCEPT ![h] = NoFile] /\ where' = [where EXCEPT ![f] = b],
         UNCHANGED <<lockedVars, upc, pipe>>,
         NEW m, NEW n, RetryGoes(f, m, n), Follow(f, a, b, m, n),
         Counts(status') => status' \in Status,
         told' \subseteq {"status", "ready", "fatal", "retry"},
         a \in Past => b \in Past,
         b = "fail" => n < MaxRetry \/ shutdown,
         n > MaxRetry => shutdown /\ b \in {"retry", "fatal", "faterr", "failed"}
  PROVE  IInv'
<1>. USE DEF IInv
<1>1. Typed /\ Handlings
  BY TypedOK, StopsAre
<1>2. where[f] = "handled" /\ Stops[f] = a /\ a \in FileStep
  BY <1>1 DEF Handlings
<1>3. Conservation' /\ ErrorBalance' /\ Counts(status')
  BY <1>1, <1>2, Counted
<1>4. TypeOK'
  BY <1>3 DEF TypeOK, Typed, FileStep, lockedVars, RetryGoes, Retries, Status
<1>5. Locking' /\ Flagged'
  BY DEF Locking, Flagged, lockedVars
<1>6. \A g \in File : /\ where'[g] = "listed" <=> where[g] = "listed"
                      /\ where'[g] = "answered" <=> where[g] = "answered"
  BY <1>1, <1>2 DEF Typed, FileStep
<1>7. Waiting'
  BY <1>6 DEF Waiting, lockedVars
<1>8. Piped'
  <2>1. \A k \in Handler : job'[k] = job[k] \/ (k = h /\ job'[k] = NoFile)
    BY <1>1 DEF Typed
  <2>2. f \notin Updater /\ NoFile \notin Updater \cup File
    BY LoaderAssumption
  <2>3. ASSUME NEW u \in Updater
        PROVE  (\E k \in Handler : job'[k] = u) <=> \E k \in Handler : job[k] = u
    BY <2>1, <2>2
  <2>4. \A i \in DOMAIN pipe : pipe[i] \in File \cup Updater
    BY DEF TypeOK
  <2>5. \A i \in DOMAIN pipe, k \in Handler : pipe[i] # job'[k]
    BY <2>1, <2>2, <2>4 DEF Piped
  <2>6. QED
    BY <1>6, <2>3, <2>5 DEF Piped
<1>9. Retried'
  BY <1>2 DEF Retried, Turns, RetryGoes, lockedVars, FileStep
<1>10. Covered'
  <2>1. a \notin {"out", "listed"}
    BY <1>2 DEF FileStep
  <2>2. QED
    BY <1>2, <2>1, CoveredTurns DEF TypeOK, lockedVars
<1>11. QED
  BY <1>3, <1>4, <1>5, <1>7, <1>8, <1>9, <1>10

\* A step of a thread that moves no file.
LEMMA RestStep ==
  ASSUME IInv, UNCHANGED <<where, retry, hpc, job>>, shutdown => shutdown',
         status'.left = status.left, status'.count = status.count,
         status'.total = status.total, status'.error = status.error
  PROVE  Handled' /\ Rests /\ Retried' /\ Conservation' /\ ErrorBalance'
<1>. USE DEF IInv
<1>1. Typed
  BY TypedOK
<1>2. Typed' /\ Handled' /\ Rests
  BY <1>1, Stays
<1>3. Conservation' /\ ErrorBalance'
  BY <1>1, <1>2, Uncounted
<1>4. Retried'
  BY <1>2 DEF Retried, Rests
<1>5. QED
  BY <1>2, <1>3, <1>4

-----------------------------------------------------------------------------
(* The steps of a handler with its file.                                   *)

\* A handler at a step for a file has a file.
LEMMA HasFile ==
  ASSUME IInv, NEW h \in Handler, hpc[h] \in FileStep
  PROVE  job[h] \in File
BY DEF IInv, Handled, TypeOK, FileStep

\* Handler h goes on with its file f, from a to b.
GoesOn(h, f, a, b, m, n) ==
  /\ f = job[h] /\ a \in FileStep /\ hpc[h] = a /\ b \in FileStep
  /\ To(h, b) /\ UNCHANGED <<lockedVars, where, upc, pipe>>
  /\ RetryGoes(f, m, n) /\ Follow(f, a, b, m, n)
  /\ Counts(status') => status' \in Status
  /\ told' \subseteq {"status", "ready", "fatal", "retry"}
  /\ b = "faterr" => f \notin Forgiven
  /\ a \in Past => b \in Past
  /\ b = "fail" => n < MaxRetry \/ shutdown
  /\ n > MaxRetry => shutdown /\ b \in {"retry", "fatal", "faterr", "failed"}

\* A handler that goes on with its file keeps the invariant.
LEMMA ContinueStep ==
  ASSUME IInv, NEW h \in Handler, NEW f, NEW a, NEW b, NEW m, NEW n, GoesOn(h, f, a, b, m, n)
  PROVE  IInv'
<1>. USE DEF GoesOn
<1>1. Typed /\ Handled
  BY TypedOK DEF IInv
<1>2. f \in File
  BY HasFile
<1>3. hpc' = [hpc EXCEPT ![h] = b] /\ job' = job /\ shutdown' = shutdown
  BY DEF To, lockedVars
<1>4. Typed' /\ Handled' /\ Turns(f, b)
  BY <1>1, <1>2, <1>3, Continues
<1>5. QED
  BY <1>2, <1>3, <1>4, HandlerStep

\* Handler h is done with its file f, which goes from a to b.
IsDone(h, f, a, b, m) ==
  /\ f = job[h] /\ a \in FileStep /\ hpc[h] = a /\ b \in {"done", "failed", "asked"}
  /\ Leave(h) /\ Place(f, b) /\ UNCHANGED <<lockedVars, retry, upc, pipe, told>>
  /\ m = retry[f] /\ Follow(f, a, b, m, m)
  /\ Counts(status') => status' \in Status
  /\ a \in Past => b \in Past
  /\ m > MaxRetry => shutdown /\ b = "failed"

\* A handler that is done with its file keeps the invariant.
LEMMA LeaveStep ==
  ASSUME IInv, NEW h \in Handler, NEW f, NEW a, NEW b, NEW m, IsDone(h, f, a, b, m)
  PROVE  IInv'
<1>. USE DEF IsDone
<1>1. Typed /\ Handled
  BY TypedOK DEF IInv
<1>2. f \in File
  BY HasFile
<1>3. b \in Stage \ {"handled"} /\ shutdown' = shutdown
  BY DEF Stage, lockedVars
<1>4. Typed' /\ Handled' /\ Turns(f, b)
  BY <1>1, <1>2, <1>3, Leaves
<1>5. job' = [job EXCEPT ![h] = NoFile] /\ where' = [where EXCEPT ![f] = b]
  BY DEF Leave, Place
<1>6. RetryGoes(f, m, m)
  BY <1>2 DEF RetryGoes, Retries, IInv, TypeOK
<1>7. told' \subseteq {"status", "ready", "fatal", "retry"}
  BY DEF IInv, TypeOK
<1>8. b # "fail" /\ b \in FileStep \cup {"done", "failed", "asked"}
  OBVIOUS
<1>9. QED
  BY <1>2, <1>4, <1>5, <1>6, <1>7, <1>8, HandlerStep

\* The file of a handler, where the handler is, and how often it was retried.
LEMMA Current ==
  ASSUME IInv, NEW h \in Handler, hpc[h] \in FileStep
  PROVE  \E f \in File, m \in 0 .. MaxRetry + 1 :
           /\ f = job[h] /\ m = retry[f] /\ Stops[f] = hpc[h]
           /\ status \in Status /\ Counts(status)
           /\ told \subseteq {"status", "ready", "fatal", "retry"}
           /\ hpc[h] = "faterr" => f \notin Forgiven
           /\ hpc[h] = "fail" => m < MaxRetry \/ shutdown
           /\ m > MaxRetry => shutdown /\ hpc[h] \in {"retry", "fatal", "faterr"}
           /\ UNCHANGED retry => RetryGoes(f, m, m)
<1>1. PICK f \in File, m \in 0 .. MaxRetry + 1 : f = job[h] /\ m = retry[f]
  BY HasFile DEF IInv, TypeOK
<1>2. Stops[f] = hpc[h]
  BY <1>1, TypedOK, StopsAre DEF IInv, Handlings
<1>3. /\ hpc[h] = "fail" => m < MaxRetry \/ shutdown
      /\ m > MaxRetry => shutdown /\ hpc[h] \in {"retry", "fatal", "faterr"}
  BY <1>1, <1>2 DEF IInv, Retried, FileStep
<1>4. UNCHANGED retry => RetryGoes(f, m, m)
  BY <1>1 DEF RetryGoes, Retries, IInv, TypeOK
<1>5. status \in Status /\ Counts(status) /\ told \subseteq {"status", "ready", "fatal", "retry"}
  BY DEF Counts, Status, IInv, TypeOK
<1>6. hpc[h] = "faterr" => f \notin Forgiven
  BY <1>1 DEF IInv, Handled
<1>7. QED
  BY <1>1, <1>2, <1>3, <1>4, <1>5, <1>6

\* onText, onData.
LEMMA BuildResourceStep ==
  ASSUME IInv, NEW h \in Handler, BuildResource(h)
  PROVE  IInv'
<1>1. PICK f \in File, m \in 0 .. MaxRetry + 1 :
           /\ f = job[h] /\ m = retry[f] /\ hpc[h] = "check"
           /\ status' = status /\ status \in Status /\ Counts(status)
           /\ told' \subseteq {"status", "ready", "fatal", "retry"}
           /\ m <= MaxRetry /\ RetryGoes(f, m, m)
  BY Current, LoaderAssumption DEF BuildResource, At, FileStep
<1>2. PICK b \in {"fail", "sound", "count"} : To(h, b) /\ (b = "fail" => m < MaxRetry \/ shutdown)
  BY <1>1 DEF BuildResource
<1>3. Follow(f, "check", b, m, m)
  BY <1>1 DEF Follow, One, Flying, Loaded, Debt, Counts
<1>4. QED
  <2>1. GoesOn(h, f, "check", b, m, m)
    BY <1>1, <1>2, <1>3, LoaderAssumption DEF GoesOn, BuildResource, FileStep, Past
  <2>2. QED
    BY <2>1, ContinueStep

\* The sound is created in the main thread.
LEMMA CreateSoundStep ==
  ASSUME IInv, NEW h \in Handler, CreateSound(h)
  PROVE  IInv'
<1>1. PICK f \in File, m \in 0 .. MaxRetry + 1 :
           /\ f = job[h] /\ m = retry[f] /\ hpc[h] = "sound"
           /\ status \in Status /\ Counts(status)
           /\ told' \subseteq {"status", "ready", "fatal", "retry"}
           /\ m <= MaxRetry /\ RetryGoes(f, m, m)
  BY Current, LoaderAssumption DEF CreateSound, At, FileStep
<1>2. Follow(f, "sound", "count", m, m) /\ status' \in Status
  BY <1>1 DEF CreateSound, Add, Follow, One, Flying, Loaded, Debt, Counts, Status
<1>3. GoesOn(h, f, "sound", "count", m, m)
  BY <1>1, <1>2, LoaderAssumption DEF GoesOn, CreateSound, FileStep, Past
<1>4. QED
  BY <1>3, ContinueStep

\* onLoad counts the file.
LEMMA CountLoadedStep ==
  ASSUME IInv, NEW h \in Handler, CountLoaded(h)
  PROVE  IInv'
<1>1. PICK f \in File, m \in 0 .. MaxRetry + 1 :
           /\ f = job[h] /\ m = retry[f] /\ hpc[h] = "count"
           /\ status \in Status /\ Counts(status)
           /\ told' \subseteq {"status", "ready", "fatal", "retry"}
           /\ m <= MaxRetry /\ RetryGoes(f, m, m)
  BY Current, LoaderAssumption DEF CountLoaded, At, FileStep
<1>2. Follow(f, "count", "left", m, m) /\ status' \in Status
  BY <1>1 DEF CountLoaded, Add, Follow, One, Flying, Loaded, Debt, Counts, Status
<1>3. GoesOn(h, f, "count", "left", m, m)
  BY <1>1, <1>2, LoaderAssumption DEF GoesOn, CountLoaded, FileStep, Past
<1>4. QED
  BY <1>3, ContinueStep

\* onLoad marks the status as changed.
LEMMA MarkUpdateStep ==
  ASSUME IInv, NEW h \in Handler, MarkUpdate(h)
  PROVE  IInv'
<1>1. PICK f \in File, m \in 0 .. MaxRetry + 1 :
           /\ f = job[h] /\ m = retry[f] /\ hpc[h] = "update"
           /\ status \in Status /\ Counts(status)
           /\ told' \subseteq {"status", "ready", "fatal", "retry"}
           /\ m <= MaxRetry /\ RetryGoes(f, m, m)
  BY Current, LoaderAssumption DEF MarkUpdate, At, FileStep
<1>2. Follow(f, "update", "file", m, m) /\ status' \in Status
  <2>1. status' = [status EXCEPT !.update = TRUE]
    BY DEF MarkUpdate
  <2>2. /\ status' \in Status /\ status'.left = status.left /\ status'.count = status.count
        /\ status'.total = status.total /\ status'.error = status.error
    BY <1>1, <2>1 DEF Status
  <2>3. QED
    BY <1>1, <2>2 DEF Follow, One, Flying, Loaded, Debt, Counts
<1>3. GoesOn(h, f, "update", "file", m, m)
  BY <1>1, <1>2, LoaderAssumption DEF GoesOn, MarkUpdate, FileStep, Past
<1>4. QED
  BY <1>3, ContinueStep

\* onLoad counts the file out of left.
LEMMA LeaveLoadedStep ==
  ASSUME IInv, NEW h \in Handler, LeaveLoaded(h)
  PROVE  IInv'
<1>1. PICK f \in File, m \in 0 .. MaxRetry + 1 :
           /\ f = job[h] /\ m = retry[f] /\ hpc[h] = "left"
           /\ status \in Status /\ Counts(status)
           /\ told' \subseteq {"status", "ready", "fatal", "retry"}
           /\ m <= MaxRetry /\ RetryGoes(f, m, m)
  BY Current, LoaderAssumption DEF LeaveLoaded, At, FileStep
<1>2. PICK b \in {"suberr", "update"} : To(h, b) /\ (b = "update" <=> m = 0)
  BY <1>1 DEF LeaveLoaded
<1>3. Follow(f, "left", b, m, m) /\ (Counts(status') => status' \in Status)
  BY <1>1, <1>2 DEF LeaveLoaded, Add, Follow, One, Flying, Loaded, Debt, Counts, Status
<1>4. GoesOn(h, f, "left", b, m, m)
  BY <1>1, <1>2, <1>3, LoaderAssumption DEF GoesOn, LeaveLoaded, FileStep, Past
<1>5. QED
  BY <1>4, ContinueStep

\* onLoad takes back the errors of the file.
LEMMA SubtractErrorsStep ==
  ASSUME IInv, NEW h \in Handler, SubtractErrors(h)
  PROVE  IInv'
<1>1. PICK f \in File, m \in 0 .. MaxRetry + 1 :
           /\ f = job[h] /\ m = retry[f] /\ hpc[h] = "suberr"
           /\ status \in Status /\ Counts(status)
           /\ told' \subseteq {"status", "ready", "fatal", "retry"}
           /\ m <= MaxRetry /\ RetryGoes(f, m, m)
  BY Current, LoaderAssumption DEF SubtractErrors, At, FileStep
<1>2. status' = [status EXCEPT !.error = @ - m]
  BY <1>1 DEF SubtractErrors, Add, Counts
<1>3. Follow(f, "suberr", "update", m, m) /\ (Counts(status') => status' \in Status)
  BY <1>1, <1>2 DEF Follow, One, Flying, Loaded, Debt, Counts, Status
<1>4. GoesOn(h, f, "suberr", "update", m, m)
  BY <1>1, <1>3, LoaderAssumption DEF GoesOn, SubtractErrors, FileStep, Past
<1>5. QED
  BY <1>4, ContinueStep

\* onError counts a failure.
LEMMA CountErrorStep ==
  ASSUME IInv, NEW h \in Handler, CountError(h)
  PROVE  IInv'
<1>1. PICK f \in File, m \in 0 .. MaxRetry + 1 :
           /\ f = job[h] /\ m = retry[f] /\ hpc[h] = "fail"
           /\ status \in Status /\ Counts(status)
           /\ told' \subseteq {"status", "ready", "fatal", "retry"}
           /\ m <= MaxRetry /\ (m < MaxRetry \/ shutdown)
  BY Current, LoaderAssumption DEF CountError, At, FileStep
<1>2. RetryGoes(f, m, m + 1)
  <2>1. retry \in Retries /\ m + 1 \in 0 .. MaxRetry + 1
    BY <1>1, LoaderAssumption DEF Retries, IInv, TypeOK
  <2>2. QED
    BY <1>1, <2>1 DEF CountError, RetryGoes, Retries
<1>3. Follow(f, "fail", "retry", m, m + 1) /\ status' \in Status
  BY <1>1 DEF CountError, Add, Follow, One, Flying, Loaded, Debt, Counts, Status
<1>4. GoesOn(h, f, "fail", "retry", m, m + 1)
  BY <1>1, <1>2, <1>3, LoaderAssumption DEF GoesOn, CountError, FileStep, Past
<1>5. QED
  BY <1>4, ContinueStep

\* onRetry, or on to onFatal after a shutdown.
LEMMA RetryStep ==
  ASSUME IInv, NEW h \in Handler, Retry(h)
  PROVE  IInv'
<1>1. PICK f \in File, m \in 0 .. MaxRetry + 1 :
           /\ f = job[h] /\ m = retry[f] /\ hpc[h] = "retry"
           /\ status \in Status /\ Counts(status) /\ status' = status
           /\ told' \subseteq {"status", "ready", "fatal", "retry"}
           /\ (m > MaxRetry => shutdown) /\ RetryGoes(f, m, m)
  BY Current DEF Retry, At, FileStep
<1>2. CASE shutdown
  <2>1. Follow(f, "retry", "fatal", m, m)
    BY <1>1 DEF Follow, One, Flying, Loaded, Debt, Counts
  <2>2. GoesOn(h, f, "retry", "fatal", m, m)
    BY <1>1, <1>2, <2>1 DEF GoesOn, Retry, FileStep, Past
  <2>3. QED
    BY <2>2, ContinueStep
<1>3. CASE ~shutdown
  <2>1. Follow(f, "retry", "asked", m, m)
    BY <1>1 DEF Follow, One, Flying, Loaded, Debt, Counts
  <2>2. IsDone(h, f, "retry", "asked", m)
    BY <1>1, <1>3, <2>1 DEF IsDone, Retry, FileStep, Past
  <2>3. QED
    BY <2>2, LeaveStep
<1>4. QED
  BY <1>2, <1>3

\* onFatal counts the file out of left.
LEMMA FatalStep ==
  ASSUME IInv, NEW h \in Handler, Fatal(h)
  PROVE  IInv'
<1>1. PICK f \in File, m \in 0 .. MaxRetry + 1 :
           /\ f = job[h] /\ m = retry[f] /\ hpc[h] = "fatal"
           /\ status \in Status /\ Counts(status)
           /\ told' \subseteq {"status", "ready", "fatal", "retry"}
           /\ (m > MaxRetry => shutdown) /\ RetryGoes(f, m, m)
  BY Current DEF Fatal, At, FileStep
<1>2. Counts(status') => status' \in Status
  BY <1>1 DEF Fatal, Add, Counts, Status
<1>3. CASE f \in Forgiven
  <2>1. Follow(f, "fatal", "failed", m, m)
    BY <1>1, <1>3 DEF Fatal, Add, Follow, One, Flying, Loaded, Debt, Counts, Status
  <2>2. IsDone(h, f, "fatal", "failed", m)
    BY <1>1, <1>2, <1>3, <2>1 DEF IsDone, Fatal, FileStep, Past
  <2>3. QED
    BY <2>2, LeaveStep
<1>4. CASE f \notin Forgiven
  <2>1. Follow(f, "fatal", "faterr", m, m)
    BY <1>1, <1>4 DEF Fatal, Add, Follow, One, Flying, Loaded, Debt, Counts, Status
  <2>2. GoesOn(h, f, "fatal", "faterr", m, m)
    BY <1>1, <1>2, <1>4, <2>1 DEF GoesOn, Fatal, FileStep, Past
  <2>3. QED
    BY <2>2, ContinueStep
<1>5. QED
  BY <1>3, <1>4

\* onFatal counts one error more.
LEMMA CountFatalStep ==
  ASSUME IInv, NEW h \in Handler, CountFatal(h)
  PROVE  IInv'
<1>1. PICK f \in File, m \in 0 .. MaxRetry + 1 :
           /\ f = job[h] /\ m = retry[f] /\ hpc[h] = "faterr" /\ f \notin Forgiven
           /\ status \in Status /\ Counts(status)
           /\ (m > MaxRetry => shutdown) /\ RetryGoes(f, m, m)
  BY Current DEF CountFatal, At, FileStep
<1>2. Follow(f, "faterr", "failed", m, m) /\ status' \in Status
  BY <1>1 DEF CountFatal, Add, Follow, One, Flying, Loaded, Debt, Counts, Status
<1>3. IsDone(h, f, "faterr", "failed", m)
  BY <1>1, <1>2, LoaderAssumption DEF IsDone, CountFatal, FileStep, Past
<1>4. QED
  BY <1>3, LeaveStep

\* onFile, and the file is freed.
LEMMA TellFileStep ==
  ASSUME IInv, NEW h \in Handler, TellFile(h)
  PROVE  IInv'
<1>1. PICK f \in File, m \in 0 .. MaxRetry + 1 :
           /\ f = job[h] /\ m = retry[f] /\ hpc[h] = "file"
           /\ status \in Status /\ Counts(status) /\ status' = status
           /\ m <= MaxRetry /\ RetryGoes(f, m, m)
  BY Current, LoaderAssumption DEF TellFile, At, FileStep
<1>2. Follow(f, "file", "done", m, m)
  BY <1>1 DEF Follow, One, Flying, Loaded, Debt, Counts, Status
<1>3. IsDone(h, f, "file", "done", m)
  BY <1>1, <1>2, LoaderAssumption DEF IsDone, TellFile, FileStep, Past
<1>4. QED
  BY <1>3, LeaveStep

-----------------------------------------------------------------------------
(* Sequences without repetition: list and the pipe.                        *)

\* No element of q is there twice; x is one of them.
Once(q) == \A i, j \in DOMAIN q : q[i] = q[j] => i = j
Has(q, x) == \E i \in DOMAIN q : q[i] = x

\* An element more, at the end.
LEMMA AppendOnce ==
  ASSUME NEW S, NEW q \in Seq(S), NEW e \in S, Once(q), ~Has(q, e)
  PROVE  /\ Append(q, e) \in Seq(S) /\ Once(Append(q, e)) /\ Len(Append(q, e)) = Len(q) + 1
         /\ \A x : Has(Append(q, e), x) <=> Has(q, x) \/ x = e
<1>1. PICK n \in Nat : n = Len(q) /\ DOMAIN q = 1 .. n
  OBVIOUS
<1>2. PICK p : p = Append(q, e) /\ p \in Seq(S)
  <2>1. Append(q, e) \in Seq(S)
    OBVIOUS
  <2>2. QED
    BY <2>1
<1>3. /\ DOMAIN p = 1 .. (n + 1) /\ Len(p) = n + 1
      /\ p[n + 1] = e /\ \A i \in 1 .. n : p[i] = q[i]
  BY <1>1, <1>2
<1>4. Once(p)
  BY <1>1, <1>3 DEF Once, Has
<1>5. ASSUME NEW x PROVE Has(p, x) <=> Has(q, x) \/ x = e
  <2>1. CASE x = e
    BY <1>1, <1>3, <2>1 DEF Has
  <2>2. CASE x # e
    BY <1>1, <1>3, <2>2 DEF Has
  <2>3. QED
    BY <2>1, <2>2
<1>6. QED
  BY <1>1, <1>2, <1>3, <1>4, <1>5

\* All but the first.
LEMMA TailOnce ==
  ASSUME NEW S, NEW q \in Seq(S), q # <<>>, Once(q)
  PROVE  /\ Tail(q) \in Seq(S) /\ Once(Tail(q)) /\ Head(q) \in S /\ Has(q, Head(q))
         /\ \A x : Has(Tail(q), x) <=> Has(q, x) /\ x # Head(q)
<1>1. PICK n \in Nat : n = Len(q) /\ DOMAIN q = 1 .. n /\ n >= 1
  OBVIOUS
<1>2. PICK p : p = Tail(q) /\ p \in Seq(S)
  <2>1. Tail(q) \in Seq(S)
    OBVIOUS
  <2>2. QED
    BY <2>1
<1>3. /\ DOMAIN p = 1 .. (n - 1) /\ Head(q) = q[1]
      /\ \A i \in 1 .. (n - 1) : p[i] = q[i + 1]
  BY <1>1, <1>2
<1>4. Once(p)
  <2>1. SUFFICES ASSUME NEW i \in 1 .. (n - 1), NEW j \in 1 .. (n - 1), p[i] = p[j]
                 PROVE  i = j
    BY <1>3 DEF Once
  <2>2. q[i + 1] = q[j + 1] /\ i + 1 \in 1 .. n /\ j + 1 \in 1 .. n
    BY <1>1, <1>3, <2>1
  <2>3. i + 1 = j + 1
    BY <1>1, <2>2 DEF Once
  <2>4. QED
    BY <2>3
<1>5. ASSUME NEW x PROVE Has(p, x) <=> Has(q, x) /\ x # q[1]
  <2>1. ASSUME Has(p, x) PROVE Has(q, x) /\ x # q[1]
    BY <1>1, <1>3, <2>1 DEF Has, Once
  <2>2. ASSUME Has(q, x), x # q[1] PROVE Has(p, x)
    <3>1. PICK i \in 1 .. n : q[i] = x /\ i # 1
      BY <1>1, <2>2 DEF Has
    <3>2. i - 1 \in 1 .. (n - 1) /\ p[i - 1] = x
      BY <1>3, <3>1
    <3>3. QED
      BY <1>3, <3>2 DEF Has
  <2>3. QED
    BY <2>1, <2>2
<1>6. QED
  BY <1>1, <1>2, <1>3, <1>4, <1>5 DEF Has

\* All but the last.
LEMMA FrontOnce ==
  ASSUME NEW S, NEW q \in Seq(S), Len(q) > 0, Once(q)
  PROVE  /\ SubSeq(q, 1, Len(q) - 1) \in Seq(S) /\ Once(SubSeq(q, 1, Len(q) - 1))
         /\ Len(SubSeq(q, 1, Len(q) - 1)) = Len(q) - 1
         /\ q[Len(q)] \in S /\ Has(q, q[Len(q)])
         /\ \A x : Has(SubSeq(q, 1, Len(q) - 1), x) <=> Has(q, x) /\ x # q[Len(q)]
<1>1. PICK n \in Nat : n = Len(q) /\ DOMAIN q = 1 .. n /\ n >= 1
  OBVIOUS
<1>2. PICK p : p = SubSeq(q, 1, Len(q) - 1) /\ p \in Seq(S)
  <2>1. SubSeq(q, 1, Len(q) - 1) \in Seq(S)
    BY <1>1
  <2>2. QED
    BY <2>1
<1>3. /\ DOMAIN p = 1 .. (n - 1) /\ Len(p) = n - 1
      /\ \A i \in 1 .. (n - 1) : p[i] = q[i]
  BY <1>1, <1>2
<1>4. Once(p)
  BY <1>1, <1>3 DEF Once
<1>5. ASSUME NEW x PROVE Has(p, x) <=> Has(q, x) /\ x # q[n]
  <2>1. ASSUME Has(p, x) PROVE Has(q, x) /\ x # q[n]
    BY <1>1, <1>3, <2>1 DEF Has, Once
  <2>2. ASSUME Has(q, x), x # q[n] PROVE Has(p, x)
    BY <1>1, <1>3, <2>2 DEF Has
  <2>3. QED
    BY <2>1, <2>2
<1>6. QED
  BY <1>1, <1>2, <1>3, <1>4, <1>5 DEF Has

\* A step of thread t with file f, which nobody handles before or after.
MovesOn(f, a, b) ==
  /\ where[f] = a /\ a # "handled" /\ b \in Stage \ {"handled"}
  /\ Place(f, b) /\ UNCHANGED <<shutdown, hpc, job, retry>>
  /\ Follow(f, a, b, retry[f], retry[f])
  /\ b \in {"out", "listed", "dropped"} => a \in {"out", "listed", "dropped"}
  /\ a \notin {"failed"}

\* A file that nobody handles goes on: what depends on the stops follows.
LEMMA MoveStep ==
  ASSUME IInv, NEW f \in File, NEW a, NEW b, MovesOn(f, a, b)
  PROVE  /\ Handled' /\ Turns(f, b) /\ Stops[f] = a /\ Retried'
         /\ Conservation' /\ ErrorBalance' /\ Counts(status')
<1>. USE DEF IInv
<1>1. Typed /\ Handlings
  BY TypedOK, StopsAre
<1>2. Typed' /\ Handled' /\ Turns(f, b)
  BY <1>1, Moves DEF MovesOn
<1>3. Stops[f] = a
  BY <1>1 DEF Handlings, MovesOn
<1>4. RetryGoes(f, retry[f], retry[f])
  BY DEF RetryGoes, Retries, TypeOK, MovesOn
<1>5. Conservation' /\ ErrorBalance' /\ Counts(status')
  BY <1>1, <1>2, <1>3, <1>4, Counted DEF MovesOn
<1>6. Retried'
  <2>1. /\ a \in {"out", "listed", "dropped"} => retry[f] = 0
        /\ retry[f] > MaxRetry => FALSE
        /\ b # "fail"
    <3>1. b # "fail" /\ a \in Stage
      BY DEF MovesOn, Stage, TypeOK
    <3>2. a \notin {"retry", "fatal", "faterr", "failed"}
      BY <3>1 DEF MovesOn, Stage
    <3>3. QED
      BY <1>3, <3>1, <3>2 DEF Retried
  <2>2. ASSUME NEW g \in File
        PROVE  /\ Stops'[g] \in {"out", "listed", "dropped"} => retry'[g] = 0
               /\ Stops'[g] = "fail" => retry'[g] < MaxRetry \/ shutdown'
               /\ retry'[g] > MaxRetry =>
                    shutdown' /\ Stops'[g] \in {"retry", "fatal", "faterr", "failed"}
    <3>1. CASE g = f
      BY <1>2, <2>1, <3>1 DEF Turns, MovesOn
    <3>2. CASE g # f
      BY <1>2, <3>2 DEF Turns, MovesOn, Retried
    <3>3. QED
      BY <3>1, <3>2
  <2>3. QED
    BY <2>2 DEF Retried
<1>7. QED
  BY <1>2, <1>3, <1>5, <1>6

-----------------------------------------------------------------------------
(* The steps that take a message, and those that end its handling.         *)

\* What the invariant says of the pipe, in these terms.
LEMMA PipeOnce ==
  ASSUME IInv
  PROVE  /\ pipe \in Seq(File \cup Updater) /\ Once(pipe)
         /\ \A f \in File : where[f] = "answered" <=> Has(pipe, f)
         /\ \A u \in Updater : upc[u] = "wait" <=> Has(pipe, u) \/ \E h \in Handler : job[h] = u
         /\ \A x : Has(pipe, x) => \A h \in Handler : job[h] # x
BY DEF IInv, TypeOK, Piped, Once, Has

\* What the next pipe has to be for the invariant.
LEMMA PipeOnceNext ==
  ASSUME NEW p, p = pipe', Once(p),
         \A f \in File : where'[f] = "answered" <=> Has(p, f),
         \A u \in Updater : upc'[u] = "wait" <=> Has(p, u) \/ \E h \in Handler : job'[h] = u,
         \A x : Has(p, x) => \A h \in Handler : job'[h] # x
  PROVE  Piped'
BY DEF Piped, Once, Has

\* What the invariant says of list.
LEMMA ListOnce ==
  ASSUME IInv
  PROVE  /\ list \in Seq(File) /\ Once(list)
         /\ \A f \in File : where[f] = "listed" <=> Has(list, f)
         /\ \A u \in Updater : upc[u] \in {"speed", "status", "clear", "pop"} =>
              todo[u] <= Len(list)
BY DEF IInv, TypeOK, Waiting, Once, Has

\* What the next list has to be for the invariant.
LEMMA ListOnceNext ==
  ASSUME NEW p, p = list', Once(p),
         \A f \in File : where'[f] = "listed" <=> Has(p, f),
         \A u \in Updater : upc'[u] \in {"speed", "status", "clear", "pop"} => todo'[u] <= Len(p)
  PROVE  Waiting'
BY DEF Waiting, Once, Has

\* A message leaves the pipe for its handler.
LEMMA TakeMessageStep ==
  ASSUME IInv, NEW h \in Handler, TakeMessage(h)
  PROVE  IInv'
<1>. USE DEF IInv
<1>1. Typed /\ Handlings /\ hpc[h] = "idle" /\ (h = Rel => shutdown)
  <2>1. h = Rel => rpc = "drain"
    BY DEF TakeMessage
  <2>2. h = Rel => shutdown
    BY <2>1 DEF Locking
  <2>3. QED
    BY <2>2, TypedOK, StopsAre DEF TakeMessage, At
<1>2. PICK e \in File \cup Updater, p \in Seq(File \cup Updater) :
        /\ e = Head(pipe) /\ p = Tail(pipe) /\ Once(p) /\ Has(pipe, e)
        /\ \A x : Has(p, x) <=> Has(pipe, x) /\ x # e
  <2>1. pipe \in Seq(File \cup Updater) /\ pipe # <<>> /\ Once(pipe)
    BY PipeOnce DEF TakeMessage
  <2>2. /\ Tail(pipe) \in Seq(File \cup Updater) /\ Once(Tail(pipe))
        /\ Head(pipe) \in File \cup Updater /\ Has(pipe, Head(pipe))
        /\ \A x : Has(Tail(pipe), x) <=> Has(pipe, x) /\ x # Head(pipe)
    BY <2>1, TailOnce
  <2>3. QED
    BY <2>2
<1>3. /\ pipe' = p /\ job' = [job EXCEPT ![h] = e]
      /\ UNCHANGED <<lockedVars, status, retry, upc, told>>
      /\ \/ e \in File /\ hpc' = [hpc EXCEPT ![h] = "check"] /\ Place(e, "handled")
         \/ e \notin File /\ hpc' = [hpc EXCEPT ![h] = "ready"] /\ UNCHANGED where
  BY <1>2 DEF TakeMessage
<1>4. /\ \A g \in Handler : job[g] # e
      /\ \A g \in Handler : job'[g] = IF g = h THEN e ELSE job[g]
  BY <1>1, <1>2, <1>3, PipeOnce DEF Typed
<1>5. job[h] = NoFile
  BY <1>1 DEF Handled
<1>6. Locking' /\ Flagged'
  BY <1>3 DEF Locking, Flagged, lockedVars
<1>7. CASE e \in File
  <2>1. Place(e, "handled") /\ hpc' = [hpc EXCEPT ![h] = "check"] /\ where[e] = "answered"
    BY <1>2, <1>3, <1>7, PipeOnce
  <2>2. Typed' /\ Handled' /\ Turns(e, "check")
    BY <1>1, <1>3, <1>7, <2>1, Takes DEF lockedVars
  <2>3. Stops[e] = "answered"
    BY <1>1, <1>7, <2>1 DEF Handlings
  <2>4. Follow(e, "answered", "check", retry[e], retry[e]) /\ RetryGoes(e, retry[e], retry[e])
    <3>1. Counts(status) /\ status' = status /\ retry' = retry /\ retry \in Retries
      BY <1>3 DEF TypeOK, Counts, Retries
    <3>2. retry[e] \in Int
      BY <1>7, <3>1, LoaderAssumption DEF Retries
    <3>3. QED
      BY <1>7, <3>1, <3>2 DEF Follow, RetryGoes, One, Flying, Loaded, Debt, Counts
  <2>5. Conservation' /\ ErrorBalance'
    BY <1>1, <1>7, <2>2, <2>3, <2>4, Counted
  <2>6. TypeOK'
    BY <1>2, <1>3, <1>7, <2>1, <2>2 DEF TypeOK, Typed, FileStep, lockedVars
  <2>7. \A g \in File : where'[g] = IF g = e THEN "handled" ELSE where[g]
    BY <1>1, <2>1 DEF Place, Typed
  <2>8. Waiting'
    BY <1>3, <2>1, <2>7 DEF Waiting, lockedVars
  <2>9. Piped'
    <3>1. e \notin Updater
      BY <1>7, LoaderAssumption
    <3>2. \A f \in File : where'[f] = "answered" <=> Has(p, f)
      BY <1>2, <2>7, PipeOnce
    <3>3. ASSUME NEW u \in Updater
          PROVE  upc'[u] = "wait" <=> Has(p, u) \/ \E g \in Handler : job'[g] = u
      <4>1. Has(p, u) <=> Has(pipe, u)
        BY <1>2, <3>1
      <4>2. (\E g \in Handler : job'[g] = u) <=> \E g \in Handler : job[g] = u
        BY <1>4, <1>5, <3>1, LoaderAssumption
      <4>3. upc' = upc
        BY <1>3
      <4>4. QED
        BY <4>1, <4>2, <4>3, PipeOnce
    <3>4. \A x : Has(p, x) => \A g \in Handler : job'[g] # x
      BY <1>2, <1>4, PipeOnce
    <3>5. QED
      BY <1>2, <1>3, <3>2, <3>3, <3>4, PipeOnceNext
  <2>10. Retried'
    BY <1>3, <1>7, <2>2, <2>3, LoaderAssumption DEF Retried, Turns, lockedVars
  <2>11. Covered'
    BY <1>3, <1>7, <2>2, <2>3, CoveredTurns DEF TypeOK, lockedVars, Past
  <2>12. QED
    BY <1>6, <2>2, <2>5, <2>6, <2>8, <2>9, <2>10, <2>11
<1>8. CASE e \notin File
  <2>1. e \in Updater /\ hpc' = [hpc EXCEPT ![h] = "ready"] /\ UNCHANGED where
    BY <1>2, <1>3, <1>8
  <2>2. Typed' /\ Handled' /\ Rests
    BY <1>1, <1>3, <1>4, <2>1, TakesReady DEF lockedVars
  <2>3. Conservation' /\ ErrorBalance'
    BY <1>1, <1>3, <2>2, Uncounted
  <2>4. TypeOK'
    BY <1>2, <1>3, <2>1, <2>2 DEF TypeOK, Typed, FileStep, lockedVars
  <2>5. Waiting'
    BY <1>3, <2>1 DEF Waiting, lockedVars
  <2>6. Piped'
    <3>1. \A f \in File : where'[f] = "answered" <=> Has(p, f)
      BY <1>2, <1>8, <2>1, PipeOnce
    <3>2. ASSUME NEW u \in Updater
          PROVE  upc'[u] = "wait" <=> Has(p, u) \/ \E g \in Handler : job'[g] = u
      <4>1. CASE u = e
        <5>1. upc[u] = "wait" /\ upc' = upc
          BY <1>2, <1>3, <4>1, PipeOnce
        <5>2. QED
          BY <1>4, <4>1, <5>1
      <4>2. CASE u # e
        <5>1. Has(p, u) <=> Has(pipe, u)
          BY <1>2, <4>2
        <5>2. (\E g \in Handler : job'[g] = u) <=> \E g \in Handler : job[g] = u
          BY <1>4, <1>5, <4>2, LoaderAssumption
        <5>3. upc' = upc
          BY <1>3
        <5>4. QED
          BY <5>1, <5>2, <5>3, PipeOnce
      <4>3. QED
        BY <4>1, <4>2
    <3>3. \A x : Has(p, x) => \A g \in Handler : job'[g] # x
      BY <1>2, <1>4, PipeOnce
    <3>4. QED
      BY <1>2, <1>3, <3>1, <3>2, <3>3, PipeOnceNext
  <2>7. Retried'
    BY <1>3, <2>2 DEF Retried, Rests, lockedVars
  <2>8. Covered'
    BY <1>3, <2>2, CoveredRests DEF TypeOK, lockedVars
  <2>9. QED
    BY <1>6, <2>2, <2>3, <2>4, <2>5, <2>6, <2>7, <2>8
<1>9. QED
  BY <1>7, <1>8

\* onReady has run, or thrown.
LEMMA RunReadyStep ==
  ASSUME IInv, NEW h \in Handler, RunReady(h)
  PROVE  IInv'
<1>. USE DEF IInv
<1>1. Typed /\ Handlings
  BY TypedOK, StopsAre
<1>2. PICK u \in Updater : u = job[h]
  BY DEF RunReady, At, Handled
<1>3. PICK l \in {"none", "catch"} : Upd(u, l)
  BY <1>2 DEF RunReady
<1>4. \A v \in Updater : upc'[v] = IF v = u THEN l ELSE upc[v]
  BY <1>3 DEF Upd, TypeOK
<1>5. upc[u] = "wait"
  BY <1>2, PipeOnce
<1>6. /\ UNCHANGED <<lockedVars, status, where, retry, pipe>> /\ Leave(h)
      /\ told' \subseteq {"status", "ready", "fatal", "retry"}
  BY DEF RunReady, TypeOK
<1>7. Typed' /\ Handled' /\ Rests
  BY <1>1, <1>2, <1>6, LeavesReady DEF lockedVars
<1>8. Conservation' /\ ErrorBalance'
  BY <1>1, <1>6, <1>7, Uncounted
<1>9. TypeOK'
  <2>1. upc' \in [Updater -> {"none", "sleep", "error", "speed", "status", "clear", "pop",
                         "lasterr", "post", "wait", "catch"}]
    BY <1>3 DEF Upd, TypeOK
  <2>2. QED
    BY <1>6, <1>7, <2>1 DEF TypeOK, Typed, FileStep, lockedVars
<1>10. Locking'
  BY <1>4, <1>5, <1>6 DEF Locking, lockedVars, Busy
<1>11. Flagged'
  BY <1>4, <1>5, <1>6 DEF Flagged, lockedVars, Busy
<1>12. Waiting'
  BY <1>4, <1>6 DEF Waiting, lockedVars
<1>13. Piped'
  <2>1. \A g \in Handler : job'[g] = IF g = h THEN NoFile ELSE job[g]
    BY <1>1, <1>6 DEF Leave, Typed
  <2>2. \A g \in Handler : job[g] = u <=> g = h
    BY <1>2, LoaderAssumption DEF Handled
  <2>3. ~Has(pipe, u) /\ NoFile \notin Updater /\ ~Has(pipe, NoFile)
    BY <1>2, PipeOnce, LoaderAssumption DEF Has
  <2>4. ASSUME NEW v \in Updater
        PROVE  upc'[v] = "wait" <=> Has(pipe, v) \/ \E g \in Handler : job'[g] = v
    <3>1. CASE v = u
      BY <1>4, <2>1, <2>2, <2>3, <3>1
    <3>2. CASE v # u
      <4>1. (\E g \in Handler : job'[g] = v) <=> \E g \in Handler : job[g] = v
        BY <1>2, <2>1, <2>3, <3>2
      <4>2. upc'[v] = upc[v]
        BY <1>4, <3>2
      <4>3. QED
        BY <4>1, <4>2, PipeOnce
    <3>3. QED
      BY <3>1, <3>2
  <2>5. \A x : Has(pipe, x) => \A g \in Handler : job'[g] # x
    BY <2>1, <2>3, PipeOnce
  <2>6. \A f \in File : where'[f] = "answered" <=> Has(pipe, f)
    BY <1>6, PipeOnce
  <2>7. pipe = pipe' /\ Once(pipe)
    BY <1>6, PipeOnce
  <2>8. QED
    BY <2>4, <2>5, <2>6, <2>7, PipeOnceNext
<1>14. Retried'
  BY <1>6, <1>7 DEF Retried, Rests, lockedVars
<1>15. Covered'
  <2>1. \A v \in Updater : /\ upc'[v] = "lasterr" => upc[v] = "lasterr"
                           /\ upc'[v] \in {"post", "wait"} =>
                                 upc[v] \in {"post", "wait"} /\ covers'[v] = covers[v]
    BY <1>4, <1>6 DEF lockedVars
  <2>2. QED
    BY <1>6, <1>7, <2>1, CoveredRests DEF TypeOK, lockedVars
<1>16. QED
  BY <1>7, <1>8, <1>9, <1>10, <1>11, <1>12, <1>13, <1>14, <1>15

-----------------------------------------------------------------------------
(* The steps of a file that nobody handles.                                *)

\* An answer comes into the pipe.
LEMMA RespondStep ==
  ASSUME IInv, NEW f \in File, Respond(f)
  PROVE  IInv'
<1>. USE DEF IInv
<1>1. Typed /\ Handlings
  BY TypedOK, StopsAre
<1>2. /\ where[f] = "asked" /\ Place(f, "answered") /\ pipe' = Append(pipe, f)
      /\ UNCHANGED <<owner, updating, shutdown, list, status, retry, upc, todo,
                     hpc, job, mpc, rpc, told, covers>>
  BY DEF Respond, updaterVars, handlerVars
<1>3. MovesOn(f, "asked", "answered")
  <2>1. Counts(status) /\ retry[f] \in Int
    BY LoaderAssumption DEF TypeOK, Counts
  <2>2. QED
    BY <1>2, <2>1 DEF MovesOn, Follow, Stage, One, Flying, Loaded, Debt, Counts
<1>4. /\ Handled' /\ Turns(f, "answered") /\ Stops[f] = "asked" /\ Retried'
      /\ Conservation' /\ ErrorBalance'
  BY <1>3, MoveStep
<1>5. \A g \in File : where'[g] = IF g = f THEN "answered" ELSE where[g]
  BY <1>1, <1>2 DEF Place, Typed
<1>6. ~Has(pipe, f) /\ \A h \in Handler : job[h] # f
  BY <1>1, <1>2, PipeOnce DEF Handlings
<1>7. PICK p \in Seq(File \cup Updater) :
        /\ p = Append(pipe, f) /\ Once(p) /\ \A x : Has(p, x) <=> Has(pipe, x) \/ x = f
  <2>1. pipe \in Seq(File \cup Updater) /\ Once(pipe) /\ f \in File \cup Updater
    BY PipeOnce
  <2>2. /\ Append(pipe, f) \in Seq(File \cup Updater) /\ Once(Append(pipe, f))
        /\ \A x : Has(Append(pipe, f), x) <=> Has(pipe, x) \/ x = f
    BY <1>6, <2>1, AppendOnce
  <2>3. QED
    BY <2>2
<1>8. TypeOK'
  BY <1>2, <1>7 DEF TypeOK, Place, Stage
<1>9. Locking' /\ Flagged'
  BY <1>2 DEF Locking, Flagged
<1>10. Waiting'
  BY <1>2, <1>5 DEF Waiting
<1>11. Piped'
  <2>1. f \notin Updater
    BY LoaderAssumption
  <2>2. \A g \in File : where'[g] = "answered" <=> Has(p, g)
    BY <1>5, <1>7, PipeOnce
  <2>3. \A u \in Updater : upc'[u] = "wait" <=> Has(p, u) \/ \E h \in Handler : job'[h] = u
    BY <1>2, <1>7, <2>1, PipeOnce
  <2>4. \A x : Has(p, x) => \A h \in Handler : job'[h] # x
    BY <1>2, <1>6, <1>7, PipeOnce
  <2>5. QED
    BY <1>2, <1>7, <2>2, <2>3, <2>4, PipeOnceNext
<1>12. Covered'
  BY <1>2, <1>4, CoveredTurns DEF TypeOK, Past
<1>13. QED
  BY <1>4, <1>8, <1>9, <1>10, <1>11, <1>12

\* load() pushes a file.
LEMMA PushFileStep ==
  ASSUME IInv, NEW f \in File, PushFile(f)
  PROVE  IInv'
<1>. USE DEF IInv
<1>1. Typed /\ Handlings
  BY TypedOK, StopsAre
<1>2. /\ where[f] = "out" /\ Place(f, "listed") /\ list' = Append(list, f)
      /\ owner = Nobody /\ mpc' = "run" /\ status' = [status EXCEPT !.total = @ + 1]
      /\ UNCHANGED <<owner, updating, shutdown, retry, upc, todo, pipe, hpc, job,
                     rpc, told, covers>>
  BY DEF PushFile, Add, updaterVars, handlerVars
<1>3. Counts(status) /\ retry[f] \in Int /\ status' \in Status
  <2>1. status \in Status /\ retry[f] \in Int
    BY LoaderAssumption DEF TypeOK, Status
  <2>2. Counts(status)
    BY <2>1 DEF Counts, Status
  <2>3. status' \in Status
    BY <1>2, <2>1 DEF Status
  <2>4. QED
    BY <2>1, <2>2, <2>3
<1>4. MovesOn(f, "out", "listed")
  BY <1>2, <1>3 DEF MovesOn, Follow, Stage, One, Flying, Loaded, Debt, Counts, TypeOK
<1>5. /\ Handled' /\ Turns(f, "listed") /\ Stops[f] = "out" /\ Retried'
      /\ Conservation' /\ ErrorBalance'
  BY <1>4, MoveStep
<1>6. \A g \in File : where'[g] = IF g = f THEN "listed" ELSE where[g]
  BY <1>1, <1>2 DEF Place, Typed
<1>7. PICK p \in Seq(File) :
        /\ p = Append(list, f) /\ Once(p) /\ Len(p) = Len(list) + 1
        /\ \A x : Has(p, x) <=> Has(list, x) \/ x = f
  <2>1. list \in Seq(File) /\ Once(list) /\ ~Has(list, f)
    BY <1>2, ListOnce
  <2>2. /\ Append(list, f) \in Seq(File) /\ Once(Append(list, f))
        /\ Len(Append(list, f)) = Len(list) + 1
        /\ \A x : Has(Append(list, f), x) <=> Has(list, x) \/ x = f
    BY <2>1, AppendOnce
  <2>3. QED
    BY <2>2
<1>8. TypeOK'
  BY <1>2, <1>3, <1>7 DEF TypeOK, Place, Stage, Status
<1>9. Locking' /\ Flagged'
  BY <1>2 DEF Locking, Flagged
<1>10. Waiting'
  <2>1. \A g \in File : where'[g] = "listed" <=> Has(p, g)
    BY <1>6, <1>7, ListOnce
  <2>2. \A u \in Updater : upc'[u] \in {"speed", "status", "clear", "pop"} => todo'[u] <= Len(p)
    <3>1. \A u \in Updater : upc'[u] \notin {"speed", "status", "clear", "pop"}
      BY <1>2, LoaderAssumption DEF Locking, Busy
    <3>2. QED
      BY <3>1
  <2>3. QED
    BY <1>2, <1>7, <2>1, <2>2, ListOnceNext
<1>11. Piped'
  BY <1>2, <1>6 DEF Piped
<1>12. Covered'
  BY <1>2, <1>5, CoveredTurns DEF TypeOK, Past
<1>13. QED
  BY <1>5, <1>8, <1>9, <1>10, <1>11, <1>12

\* update() takes a file from list, with any of its three outcomes.
LEMMA PopFileStep ==
  ASSUME IInv, NEW u \in Updater, PopFile(u)
  PROVE  IInv'
<1>. USE DEF IInv
<1>1. Typed /\ Handlings
  BY TypedOK, StopsAre
<1>2. /\ upc[u] = "pop" /\ todo[u] > 0 /\ todo' = [todo EXCEPT ![u] = @ - 1]
      /\ UNCHANGED <<owner, updating, shutdown, retry, upc, pipe, hpc, job, mpc, rpc,
                     told, covers>>
  BY DEF PopFile, handlerVars
<1>3. PICK n \in Nat : n = Len(list) /\ todo[u] <= n /\ n > 0 /\ todo[u] \in -1 .. LoadSpeed
  BY <1>2, ListOnce DEF TypeOK
<1>4. PICK f \in File, p \in Seq(File) :
        /\ f = list[Len(list)] /\ p = SubSeq(list, 1, Len(list) - 1) /\ Once(p) /\ Len(p) = n - 1
        /\ Has(list, f) /\ \A x : Has(p, x) <=> Has(list, x) /\ x # f
  <2>1. list \in Seq(File) /\ Once(list) /\ Len(list) > 0
    BY <1>3, ListOnce
  <2>2. /\ SubSeq(list, 1, Len(list) - 1) \in Seq(File) /\ Once(SubSeq(list, 1, Len(list) - 1))
        /\ Len(SubSeq(list, 1, Len(list) - 1)) = Len(list) - 1
        /\ list[Len(list)] \in File /\ Has(list, list[Len(list)])
        /\ \A x : Has(SubSeq(list, 1, Len(list) - 1), x) <=> Has(list, x) /\ x # list[Len(list)]
    BY <2>1, FrontOnce
  <2>3. QED
    BY <1>3, <2>2
<1>5. where[f] = "listed"
  BY <1>4, ListOnce
<1>6. Counts(status) /\ retry[f] = 0 /\ status \in Status
  <2>1. Stops[f] = "listed"
    BY <1>1, <1>5 DEF Handlings
  <2>2. QED
    BY <2>1 DEF TypeOK, Counts, Status, Retried
<1>7. PICK b \in {"done", "asked", "dropped"} :
        MovesOn(f, "listed", b) /\ Place(f, b) /\ list' = p /\ status' \in Status
  <2>1. list' = p
    BY <1>4 DEF PopFile
  <2>2. CASE /\ status' = [status EXCEPT !.update = TRUE, !.count = @ + 1]
             /\ Place(f, "done")
    <3>1. /\ status'.left = status.left /\ status'.count = status.count + 1
          /\ status'.total = status.total /\ status'.error = status.error /\ status' \in Status
      <4>1. status.count + 1 \in Nat /\ status.left + 1 \in Nat /\ status.error + 1 \in Nat
        BY <1>6 DEF Counts
      <4>2. status' \in Status
        BY <1>6, <2>2, <4>1 DEF Status
      <4>3. QED
        BY <1>6, <2>2, <4>2 DEF Status
    <3>2. MovesOn(f, "listed", "done")
      BY <1>2, <1>5, <1>6, <2>2, <3>1
      DEF MovesOn, Follow, Stage, One, Flying, Loaded, Debt, Counts
    <3>3. QED
      BY <2>1, <2>2, <3>1, <3>2
  <2>3. CASE /\ status' = [status EXCEPT !.update = TRUE, !.left = @ + 1]
             /\ Place(f, "asked")
    <3>1. /\ status'.left = status.left + 1 /\ status'.count = status.count
          /\ status'.total = status.total /\ status'.error = status.error /\ status' \in Status
      <4>1. status.count + 1 \in Nat /\ status.left + 1 \in Nat /\ status.error + 1 \in Nat
        BY <1>6 DEF Counts
      <4>2. status' \in Status
        BY <1>6, <2>3, <4>1 DEF Status
      <4>3. QED
        BY <1>6, <2>3, <4>2 DEF Status
    <3>2. MovesOn(f, "listed", "asked")
      BY <1>2, <1>5, <1>6, <2>3, <3>1
      DEF MovesOn, Follow, Stage, One, Flying, Loaded, Debt, Counts
    <3>3. QED
      BY <2>1, <2>3, <3>1, <3>2
  <2>4. CASE /\ status' = [status EXCEPT !.update = TRUE, !.left = @ + 1, !.error = @ + 1]
             /\ Place(f, "dropped")
    <3>1. /\ status'.left = status.left + 1 /\ status'.count = status.count
          /\ status'.total = status.total /\ status'.error = status.error + 1
          /\ status' \in Status
      <4>1. status.count + 1 \in Nat /\ status.left + 1 \in Nat /\ status.error + 1 \in Nat
        BY <1>6 DEF Counts
      <4>2. status' \in Status
        BY <1>6, <2>4, <4>1 DEF Status
      <4>3. QED
        BY <1>6, <2>4, <4>2 DEF Status
    <3>2. MovesOn(f, "listed", "dropped")
      BY <1>2, <1>5, <1>6, <2>4, <3>1
      DEF MovesOn, Follow, Stage, One, Flying, Loaded, Debt, Counts
    <3>3. QED
      BY <2>1, <2>4, <3>1, <3>2
  <2>5. QED
    BY <1>4, <2>2, <2>3, <2>4 DEF PopFile
<1>8. /\ Handled' /\ Turns(f, b) /\ Stops[f] = "listed" /\ Retried'
      /\ Conservation' /\ ErrorBalance'
  BY <1>7, MoveStep
<1>9. \A g \in File : where'[g] = IF g = f THEN b ELSE where[g]
  BY <1>1, <1>7 DEF Place, Typed
<1>10. TypeOK'
  <2>1. todo' \in [Updater -> -1 .. LoadSpeed]
    <3>1. todo[u] - 1 \in -1 .. LoadSpeed
      BY <1>2, <1>3, LoaderAssumption
    <3>2. QED
      BY <1>2, <3>1 DEF TypeOK
  <2>2. QED
    BY <1>2, <1>7, <2>1 DEF TypeOK, Place, Stage, Status
<1>11. Locking' /\ Flagged'
  BY <1>2 DEF Locking, Flagged
<1>12. \A v \in Updater : v # u => upc[v] \notin Busy
  BY <1>2 DEF Locking, Busy
<1>13. Waiting'
  <2>1. \A g \in File : where'[g] = "listed" <=> Has(p, g)
    BY <1>4, <1>7, <1>9, ListOnce
  <2>2. ASSUME NEW v \in Updater, upc'[v] \in {"speed", "status", "clear", "pop"}
        PROVE  todo'[v] <= Len(p)
    <3>1. v = u
      BY <1>2, <1>12, <2>2 DEF Busy
    <3>2. todo'[v] = todo[u] - 1
      BY <1>2, <3>1 DEF TypeOK
    <3>3. QED
      BY <1>3, <1>4, <3>2
  <2>3. QED
    BY <1>4, <1>7, <2>1, <2>2, ListOnceNext
<1>14. Piped'
  BY <1>2, <1>5, <1>7, <1>9 DEF Piped
<1>15. Covered'
  <2>1. \A v \in Updater : upc'[v] # "lasterr"
    BY <1>2, <1>12 DEF Busy
  <2>2. rpc' # "done"
    BY <1>2 DEF Flagged, Busy
  <2>3. ASSUME NEW v \in Updater, upc'[v] \in {"post", "wait"}, NEW g \in covers'[v].started
        PROVE  Stops'[g] \in Past
    <3>1. Stops[g] \in Past /\ g \in File
      BY <1>2, <2>3 DEF Covered, TypeOK
    <3>2. g # f
      BY <1>8, <3>1 DEF Past
    <3>3. QED
      BY <1>8, <3>1, <3>2 DEF Turns
  <2>4. QED
    BY <2>1, <2>2, <2>3 DEF Covered
<1>16. QED
  BY <1>8, <1>10, <1>11, <1>13, <1>14, <1>15

-----------------------------------------------------------------------------
(* Steps that move no file.                                                *)

\* Nothing in flight, by the counter: every file that was started is past it.
LEMMA AllPast ==
  ASSUME IInv, ~(status.left > 0)
  PROVE  \A f \in File : Stops[f] \in Past \cup {"out", "listed"}
<1>1. Handlings /\ Accounted
  BY TypedOK, StopsAre, Accounts DEF IInv
<1>2. Tally(status, Stops, retry)
  BY <1>1 DEF Accounted, IInv
<1>3. PICK s, st, r : s = Stops /\ st = status /\ r = retry
  OBVIOUS
<1>4. \A f \in File : s[f] \notin Flying
  BY <1>2, <1>3, NothingLeft
<1>5. QED
  BY <1>1, <1>3, <1>4 DEF Handlings, Stage, FileStep, Flying, Past

\* Only the main thread moves, or nobody.
LEMMA MainStep ==
  ASSUME IInv, mpc' \in {"idle", "lock", "run"},
         UNCHANGED <<owner, updating, shutdown, list, status, where, retry, upc, todo,
                     pipe, hpc, job, rpc, told, covers>>
  PROVE  IInv'
<1>. USE DEF IInv
<1>1. Handled' /\ Rests /\ Retried' /\ Conservation' /\ ErrorBalance'
  BY RestStep
<1>2. TypeOK'
  BY DEF TypeOK
<1>3. Locking' /\ Flagged' /\ Waiting' /\ Piped'
  BY DEF Locking, Flagged, Waiting, Piped
<1>4. Covered'
  BY <1>1, CoveredRests DEF TypeOK
<1>5. QED
  BY <1>1, <1>2, <1>3, <1>4

\* The places of an updater.
Steps == {"none", "sleep", "error", "speed", "status", "clear", "pop",
          "lasterr", "post", "wait", "catch"}

\* Updater u goes on inside update(), from its place to y.
InUpdate(u, y) ==
  /\ upc[u] \in Busy /\ y \in Busy /\ Upd(u, y)
  /\ UNCHANGED <<owner, updating, shutdown, list, where, retry, pipe, hpc, job, mpc, rpc, covers>>
  /\ status' \in Status
  /\ status'.left = status.left /\ status'.count = status.count
  /\ status'.total = status.total /\ status'.error = status.error
  /\ told' \subseteq {"status", "ready", "fatal", "retry"}
  /\ todo' \in [Updater -> -1 .. LoadSpeed]
  /\ \A v \in Updater : v # u => todo'[v] = todo[v]
  /\ y \in {"speed", "status", "clear", "pop"} => todo'[u] <= Len(list)
  /\ y = "lasterr" => \A f \in File : Stops[f] \in Past \cup {"out", "listed"}

\* An updater inside update() keeps the invariant.
LEMMA InUpdateStep ==
  ASSUME IInv, NEW u \in Updater, NEW y, InUpdate(u, y)
  PROVE  IInv'
<1>. USE DEF IInv, InUpdate
<1>1. Handled' /\ Rests /\ Retried' /\ Conservation' /\ ErrorBalance'
  BY RestStep
<1>2. \A v \in Updater : upc'[v] = IF v = u THEN y ELSE upc[v]
  BY DEF Upd, TypeOK
<1>3. TypeOK'
  <2>1. upc' \in [Updater -> Steps]
    BY DEF TypeOK, Steps, Busy, Upd
  <2>2. QED
    BY <2>1 DEF TypeOK, Steps, Status
<1>4. Locking'
  BY <1>2 DEF Locking
<1>5. Flagged'
  BY <1>2 DEF Flagged, Busy
<1>6. Waiting'
  BY <1>2 DEF Waiting
<1>7. Piped'
  BY <1>2 DEF Piped, Busy
<1>8. Covered'
  <2>1. ASSUME NEW v \in Updater, upc'[v] = "lasterr"
        PROVE  \A f \in File : Stops'[f] \in Past \cup {"out", "listed"}
    BY <1>1, <1>2, <2>1 DEF Covered, Rests
  <2>2. rpc' = "done" => \A f \in File : Stops'[f] \in Past \cup {"out", "listed"}
    BY <1>1 DEF Covered, Rests
  <2>3. ASSUME NEW v \in Updater, upc'[v] \in {"post", "wait"}, NEW g \in covers'[v].started
        PROVE  Stops'[g] \in Past
    <3>1. upc[v] \in {"post", "wait"} /\ covers' = covers
      BY <1>2, <2>3 DEF Busy
    <3>2. Stops[g] \in Past /\ g \in File
      BY <2>3, <3>1 DEF Covered, TypeOK
    <3>3. QED
      BY <1>1, <3>2 DEF Rests
  <2>4. QED
    BY <2>1, <2>2, <2>3 DEF Covered
<1>9. QED
  BY <1>1, <1>3, <1>4, <1>5, <1>6, <1>7, <1>8

\* Updater u goes from x to y and nothing else moves that others depend on.
Leaps(u, y) ==
  /\ y \in Steps \ {"lasterr", "speed", "status", "clear", "pop", "wait"}
  /\ upc[u] # "wait" /\ \A v \in Updater : upc'[v] = IF v = u THEN y ELSE upc[v]
  /\ upc' \in [Updater -> Steps]
  /\ UNCHANGED <<shutdown, list, status, where, retry, todo, pipe, hpc, job, rpc>>
  /\ mpc' \in {"idle", "lock", "run"} /\ updating' \in BOOLEAN
  /\ owner' \in Updater \cup {Rel, Nobody}
  /\ told' \subseteq {"status", "ready", "fatal", "retry"}
  /\ covers' \in [Updater -> [started : SUBSET File, waiting : SUBSET File]]
  /\ \A v \in Updater : v # u => covers'[v] = covers[v]
  /\ y = "post" => \A f \in covers'[u].started : Stops[f] \in Past
  /\ Locking' /\ Flagged'

\* An updater that enters or leaves keeps the invariant.
LEMMA LeapStep ==
  ASSUME IInv, NEW u \in Updater, NEW y, Leaps(u, y)
  PROVE  IInv'
<1>. USE DEF IInv, Leaps
<1>1. Handled' /\ Rests /\ Retried' /\ Conservation' /\ ErrorBalance'
  BY RestStep
<1>2. TypeOK'
  BY DEF TypeOK, Steps
<1>3. Waiting'
  BY DEF Waiting
<1>4. Piped'
  BY DEF Piped
<1>5. Covered'
  <2>1. /\ \A v \in Updater : upc'[v] = "lasterr" =>
              \A f \in File : Stops'[f] \in Past \cup {"out", "listed"}
        /\ rpc' = "done" => \A f \in File : Stops'[f] \in Past \cup {"out", "listed"}
    BY <1>1 DEF Covered, Rests
  <2>2. ASSUME NEW v \in Updater, upc'[v] \in {"post", "wait"}, NEW g \in covers'[v].started
        PROVE  Stops'[g] \in Past
    <3>1. Stops[g] \in Past /\ g \in File
      BY <2>2 DEF Covered, TypeOK
    <3>2. QED
      BY <1>1, <3>1 DEF Rests
  <2>3. QED
    BY <2>1, <2>2 DEF Covered
<1>6. QED
  BY <1>1, <1>2, <1>3, <1>4, <1>5

\* A step of release().
ReleaseMoves ==
  /\ UNCHANGED releaseOthers
  /\ shutdown => shutdown'
  /\ shutdown' \in BOOLEAN /\ updating' \in BOOLEAN
  /\ owner' \in Updater \cup {Rel, Nobody}
  /\ rpc' \in {"none", "spin", "again", "test", "drain", "done"}
  /\ rpc' = "done" => \A f \in File : Stops[f] \in Past \cup {"out", "listed"}
  /\ Locking' /\ Flagged'

\* The invariant is kept by a step of release() that keeps the lock and the flag in order.
LEMMA ReleaseStep ==
  ASSUME IInv, ReleaseMoves
  PROVE  IInv'
<1>. USE DEF IInv, ReleaseMoves, releaseOthers, updaterVars, handlerVars
<1>1. Handled' /\ Rests /\ Retried' /\ Conservation' /\ ErrorBalance'
  BY RestStep
<1>2. TypeOK'
  BY DEF TypeOK
<1>3. Waiting' /\ Piped'
  BY DEF Waiting, Piped
<1>4. Covered'
  <2>1. /\ \A v \in Updater : upc'[v] = "lasterr" =>
              \A f \in File : Stops'[f] \in Past \cup {"out", "listed"}
        /\ rpc' = "done" => \A f \in File : Stops'[f] \in Past \cup {"out", "listed"}
    BY <1>1 DEF Covered, Rests
  <2>2. ASSUME NEW v \in Updater, upc'[v] \in {"post", "wait"}, NEW g \in covers'[v].started
        PROVE  Stops'[g] \in Past
    <3>1. Stops[g] \in Past /\ g \in File
      BY <2>2 DEF Covered, TypeOK
    <3>2. QED
      BY <1>1, <3>1 DEF Rests
  <2>3. QED
    BY <2>1, <2>2 DEF Covered
<1>5. QED
  BY <1>1, <1>2, <1>3, <1>4

-----------------------------------------------------------------------------
(* The steps of load(), update() and release().                            *)

\* The steps of load().
LEMMA LoadStep ==
  ASSUME IInv, Load
  PROVE  IInv'
<1>. USE DEF IInv, updaterVars, handlerVars
<1>1. CASE BeginLoad \/ JoinQuery
  BY <1>1, MainStep DEF BeginLoad, JoinQuery
<1>2. ASSUME NEW f \in File, PushFile(f) PROVE IInv'
  BY <1>2, PushFileStep
<1>3. CASE RunAfterLoad
  <2>1. /\ owner = Nobody /\ mpc' = "idle" /\ updating' = (updating \/ ~shutdown)
        /\ UNCHANGED <<owner, shutdown, list, status, where, retry, todo, pipe, hpc, job,
                       rpc, told, covers>>
    BY <1>3 DEF RunAfterLoad, CheckUpdate
  <2>2. CASE ~shutdown /\ ~updating
    <3>1. PICK u \in Updater : upc[u] = "none" /\ Upd(u, "sleep")
      BY <1>3, <2>2, LoaderAssumption DEF RunAfterLoad, CheckUpdate, Free
    <3>2. \A v \in Updater : upc'[v] = IF v = u THEN "sleep" ELSE upc[v]
      BY <3>1 DEF Upd, TypeOK
    <3>3. Locking'
      BY <2>1, <3>1, <3>2 DEF Locking, Busy
    <3>4. Flagged'
      <4>1. updating' /\ rpc = "none"
        BY <2>1, <2>2 DEF Locking, TypeOK
      <4>2. \A v \in Updater : upc[v] # "sleep"
        BY <2>2 DEF Flagged
      <4>3. QED
        BY <2>1, <3>2, <4>1, <4>2 DEF Flagged
    <3>5. upc' \in [Updater -> Steps]
      BY <3>1 DEF Upd, TypeOK, Steps
    <3>6. Leaps(u, "sleep")
      BY <2>1, <3>1, <3>2, <3>3, <3>4, <3>5 DEF Leaps, Steps, TypeOK
    <3>7. QED
      BY <3>6, LeapStep
  <2>3. CASE shutdown \/ updating
    <3>1. upc' = upc
      <4>1. upc' = [u \in Updater |-> IF u = Main THEN "none" ELSE upc[u]]
        BY <1>3, <2>3 DEF RunAfterLoad, CheckUpdate
      <4>2. \A u \in Updater : u # Main
        BY LoaderAssumption
      <4>3. QED
        BY <4>1, <4>2 DEF TypeOK
    <3>2. updating' = updating
      BY <2>1, <2>3 DEF TypeOK
    <3>3. QED
      BY <2>1, <3>1, <3>2, MainStep
  <2>4. QED
    BY <2>2, <2>3
<1>4. QED
  BY <1>1, <1>2, <1>3 DEF Load, PushAny

\* The end of the sleep before update().
LEMMA EnterUpdateStep ==
  ASSUME IInv, NEW u \in Updater, EnterUpdate(u)
  PROVE  IInv'
<1>. USE DEF IInv
<1>1. PICK l \in {"none", "error"} :
        /\ Upd(u, l) /\ (l = "none" <=> shutdown)
        /\ owner' = (IF l = "error" THEN u ELSE owner)
  BY DEF EnterUpdate
<1>2. /\ upc[u] = "sleep" /\ owner = Nobody /\ updating' = FALSE
      /\ UNCHANGED <<shutdown, list, status, where, retry, todo, pipe, hpc, job,
                     mpc, rpc, told, covers>>
  BY DEF EnterUpdate, handlerVars
<1>3. \A v \in Updater : upc'[v] = IF v = u THEN l ELSE upc[v]
  BY <1>1 DEF Upd, TypeOK
<1>4. u # Nobody /\ u # Rel
  BY LoaderAssumption
<1>5. Locking'
  <2>1. \A v \in Updater : owner' = v <=> upc'[v] \in Busy
    BY <1>1, <1>2, <1>3, <1>4, LoaderAssumption DEF Locking, Busy
  <2>2. owner' = Rel <=> rpc' \in {"spin", "test", "drain"}
    BY <1>1, <1>2, <1>4 DEF Locking, Rel, Nobody
  <2>3. QED
    BY <1>2, <2>1, <2>2 DEF Locking
<1>6. Flagged'
  BY <1>1, <1>2, <1>3 DEF Flagged, Busy
<1>7. upc' \in [Updater -> Steps]
  BY <1>1 DEF Upd, TypeOK, Steps
<1>8. Leaps(u, l)
  BY <1>1, <1>2, <1>3, <1>5, <1>6, <1>7 DEF Leaps, Steps, TypeOK
<1>9. QED
  BY <1>8, LeapStep

\* The steps of update() up to the files it takes from list.
LEMMA PassStep ==
  ASSUME IInv, NEW u \in Updater,
         CountFiles(u) \/ LimitSpeed(u) \/ ReportStatus(u) \/ ClearUpdate(u)
  PROVE  IInv'
<1>. USE DEF IInv, handlerVars
<1>1. /\ status \in Status /\ told \subseteq {"status", "ready", "fatal", "retry"}
      /\ todo \in [Updater -> -1 .. LoadSpeed] /\ LoadSpeed \in Nat \ {0} /\ Len(list) \in Nat
  BY LoaderAssumption DEF TypeOK, Status
<1>2. CASE CountFiles(u)
  <2>1. PICK n \in -1 .. LoadSpeed : todo' = [todo EXCEPT ![u] = n] /\ n <= Len(list)
    <3>1. PICK m : m = IF status.error > 0 THEN 0
                       ELSE IF Len(list) > LoadSpeed THEN LoadSpeed ELSE Len(list)
      OBVIOUS
    <3>2. m \in 0 .. LoadSpeed /\ m <= Len(list)
      BY <1>1, <3>1
    <3>3. todo' = [todo EXCEPT ![u] = IF m = 0 THEN -1 ELSE m]
      BY <1>2, <3>1 DEF CountFiles
    <3>4. CASE m = 0
      <4>1. todo' = [todo EXCEPT ![u] = -1] /\ -1 \in -1 .. LoadSpeed /\ -1 <= Len(list)
        BY <1>1, <3>3, <3>4
      <4>2. QED
        BY <4>1
    <3>5. CASE m # 0
      <4>1. todo' = [todo EXCEPT ![u] = m] /\ m \in -1 .. LoadSpeed
        BY <1>1, <3>2, <3>3, <3>5
      <4>2. QED
        BY <3>2, <4>1
    <3>6. QED
      BY <3>4, <3>5
  <2>2. InUpdate(u, "speed")
    BY <1>1, <1>2, <2>1 DEF InUpdate, CountFiles, Busy
  <2>3. QED
    BY <2>2, InUpdateStep
<1>3. CASE LimitSpeed(u)
  <2>1. todo[u] <= Len(list)
    BY <1>3 DEF LimitSpeed, Waiting
  <2>2. CASE status.left >= LoadSpeed
    <3>1. InUpdate(u, "pop")
      BY <1>1, <1>3, <2>1, <2>2 DEF InUpdate, LimitSpeed, Busy
    <3>2. QED
      BY <3>1, InUpdateStep
  <2>3. CASE ~(status.left >= LoadSpeed)
    <3>1. InUpdate(u, "status")
      BY <1>1, <1>3, <2>1, <2>3 DEF InUpdate, LimitSpeed, Busy
    <3>2. QED
      BY <3>1, InUpdateStep
  <2>4. QED
    BY <2>2, <2>3
<1>4. CASE ReportStatus(u)
  <2>1. todo[u] <= Len(list)
    BY <1>4 DEF ReportStatus, Waiting
  <2>2. PICK y \in {"clear", "pop"} :
          Upd(u, y) /\ told' \subseteq {"status", "ready", "fatal", "retry"}
    BY <1>1, <1>4 DEF ReportStatus
  <2>3. InUpdate(u, y)
    BY <1>1, <1>4, <2>1, <2>2 DEF InUpdate, ReportStatus, Busy
  <2>4. QED
    BY <2>3, InUpdateStep
<1>5. CASE ClearUpdate(u)
  <2>1. todo[u] <= Len(list)
    BY <1>5 DEF ClearUpdate, Waiting
  <2>2. /\ status' \in Status
        /\ status'.left = status.left /\ status'.count = status.count
        /\ status'.total = status.total /\ status'.error = status.error
    <3>1. status' = [status EXCEPT !.update = FALSE]
      BY <1>5 DEF ClearUpdate
    <3>2. QED
      BY <1>1, <3>1 DEF Status
  <2>3. InUpdate(u, "pop")
    BY <1>1, <1>5, <2>1, <2>2 DEF InUpdate, ClearUpdate, Busy
  <2>4. QED
    BY <2>3, InUpdateStep
<1>6. QED
  BY <1>2, <1>3, <1>4, <1>5

\* update() leaves while files are in flight, or goes on to tell.
LEMMA TestLeftStep ==
  ASSUME IInv, NEW u \in Updater, TestLeft(u)
  PROVE  IInv'
<1>. USE DEF IInv, handlerVars
<1>1. /\ status \in Status /\ told \subseteq {"status", "ready", "fatal", "retry"}
      /\ upc[u] = "pop"
      /\ UNCHANGED <<shutdown, list, status, where, retry, todo, pipe, hpc, job,
                     mpc, rpc, told, covers>>
  BY DEF TypeOK, Status, TestLeft
<1>2. /\ owner = u /\ owner # Rel /\ owner # Nobody
      /\ \A v \in Updater : upc[v] \in Busy <=> v = u
  BY <1>1, LoaderAssumption DEF Locking, Busy
<1>3. CASE status.left > 0 \/ todo[u] = 0
  <2>1. CheckUpdate(u) /\ owner' = Nobody
    BY <1>3 DEF TestLeft
  <2>2. PICK l \in {"none", "sleep"} :
          /\ \A v \in Updater : upc'[v] = IF v = u THEN l ELSE upc[v]
          /\ l = "sleep" <=> ~shutdown /\ ~updating
          /\ updating' = (updating \/ ~shutdown)
    <3>1. CASE ~shutdown /\ ~updating
      <4>1. PICK v \in Free(u) : Upd(v, "sleep")
        BY <2>1, <3>1 DEF CheckUpdate
      <4>2. v = u
        BY <4>1 DEF Free
      <4>3. QED
        BY <2>1, <3>1, <4>1, <4>2 DEF Upd, TypeOK, CheckUpdate
    <3>2. CASE shutdown \/ updating
      BY <2>1, <3>2 DEF CheckUpdate
    <3>3. QED
      BY <3>1, <3>2 DEF TypeOK
  <2>3. upc' \in [Updater -> Steps]
    BY <2>1 DEF CheckUpdate, Upd, TypeOK, Steps
  <2>4. Locking'
    <3>1. \A v \in Updater : owner' = v <=> upc'[v] \in Busy
      BY <1>2, <2>1, <2>2, LoaderAssumption DEF Busy
    <3>2. owner' = Rel <=> rpc' \in {"spin", "test", "drain"}
      BY <1>1, <1>2, <2>1 DEF Locking, Rel, Nobody
    <3>3. QED
      BY <1>1, <3>1, <3>2 DEF Locking
  <2>5. Flagged'
    <3>1. CASE l = "sleep"
      <4>1. /\ updating' /\ \A v \in Updater : upc[v] # "sleep"
        BY <2>2, <3>1 DEF Flagged
      <4>2. rpc' = "none"
        BY <1>1, <2>2, <3>1 DEF Locking
      <4>3. QED
        BY <2>2, <3>1, <4>1, <4>2 DEF Flagged
    <3>2. CASE l = "none"
      <4>1. updating' <=> updating
        BY <2>2, <3>2
      <4>2. \A v \in Updater : upc'[v] = "sleep" <=> upc[v] = "sleep"
        BY <1>1, <2>2, <3>2
      <4>3. rpc' \notin {"test", "drain", "done"}
        BY <1>1 DEF Flagged, Busy
      <4>4. QED
        BY <1>1, <4>1, <4>2, <4>3 DEF Flagged
    <3>3. QED
      BY <3>1, <3>2
  <2>6. updating' \in BOOLEAN /\ owner' \in Updater \cup {Rel, Nobody}
    BY <2>1, <2>2
  <2>7. Leaps(u, l)
    BY <1>1, <2>2, <2>3, <2>4, <2>5, <2>6 DEF Leaps, Steps, TypeOK
  <2>8. QED
    BY <2>7, LeapStep
<1>4. CASE ~(status.left > 0 \/ todo[u] = 0)
  <2>1. \A f \in File : Stops[f] \in Past \cup {"out", "listed"}
    BY <1>4, AllPast
  <2>2. Upd(u, "lasterr") /\ UNCHANGED <<owner, updating>>
    BY <1>4 DEF TestLeft
  <2>3. InUpdate(u, "lasterr")
    BY <1>1, <2>1, <2>2 DEF InUpdate, Busy, TypeOK
  <2>4. QED
    BY <2>3, InUpdateStep
<1>5. QED
  BY <1>3, <1>4

\* update() decides between onFatal and onReady.
LEMMA TestErrorStep ==
  ASSUME IInv, NEW u \in Updater, TestError(u)
  PROVE  IInv'
<1>. USE DEF IInv, handlerVars
<1>1. /\ upc[u] = "lasterr" /\ owner' = Nobody
      /\ UNCHANGED <<updating, shutdown, list, status, where, retry, todo, pipe, hpc, job,
                     mpc, rpc>>
  BY DEF TestError
<1>2. /\ owner = u /\ owner # Rel /\ owner # Nobody
      /\ \A v \in Updater : upc[v] \in Busy <=> v = u
  BY <1>1, LoaderAssumption DEF Locking, Busy
<1>3. PICK l \in {"none", "post"} :
        /\ Upd(u, l) /\ told' \subseteq {"status", "ready", "fatal", "retry"}
        /\ covers' \in [Updater -> [started : SUBSET File, waiting : SUBSET File]]
        /\ \A v \in Updater : v # u => covers'[v] = covers[v]
        /\ l = "post" => covers'[u].started = {f \in File : where[f] \notin {"out", "listed"}}
  <2>1. CASE status.error > 0
    BY <2>1 DEF TestError, TypeOK
  <2>2. CASE ~(status.error > 0)
    <3>1. PICK c \in [started : SUBSET File, waiting : SUBSET File] :
            /\ c = [started |-> {f \in File : where[f] \notin {"out", "listed"}},
                    waiting |-> {f \in File : where[f] = "listed"}]
            /\ covers' = [covers EXCEPT ![u] = c]
      BY <2>2 DEF TestError
    <3>2. c.started = {f \in File : where[f] \notin {"out", "listed"}}
      BY <3>1
    <3>3. /\ covers' \in [Updater -> [started : SUBSET File, waiting : SUBSET File]]
          /\ covers'[u] = c /\ \A v \in Updater : v # u => covers'[v] = covers[v]
      BY <3>1 DEF TypeOK
    <3>4. Upd(u, "post") /\ told' \subseteq {"status", "ready", "fatal", "retry"}
      BY <2>2 DEF TestError, TypeOK
    <3>5. QED
      BY <3>2, <3>3, <3>4
  <2>3. QED
    BY <2>1, <2>2
<1>4. \A v \in Updater : upc'[v] = IF v = u THEN l ELSE upc[v]
  BY <1>3 DEF Upd, TypeOK
<1>5. Locking'
  <2>1. \A v \in Updater : owner' = v <=> upc'[v] \in Busy
    BY <1>1, <1>2, <1>4, LoaderAssumption DEF Busy
  <2>2. owner' = Rel <=> rpc' \in {"spin", "test", "drain"}
    BY <1>1, <1>2 DEF Locking, Rel, Nobody
  <2>3. QED
    BY <1>1, <2>1, <2>2 DEF Locking
<1>6. Flagged'
  BY <1>1, <1>4 DEF Flagged, Busy
<1>7. l = "post" => \A f \in covers'[u].started : Stops[f] \in Past
  <2>1. Handlings
    BY TypedOK, StopsAre
  <2>2. SUFFICES ASSUME NEW f \in File, where[f] \notin {"out", "listed"}
                 PROVE  Stops[f] \in Past
    BY <1>3
  <2>3. Stops[f] \in Past \cup {"out", "listed"}
    BY <1>1 DEF Covered
  <2>4. Stops[f] \notin {"out", "listed"}
    <3>1. CASE where[f] = "handled"
      BY <2>1, <3>1 DEF Handlings, FileStep
    <3>2. CASE where[f] # "handled"
      BY <2>1, <2>2, <3>2 DEF Handlings
    <3>3. QED
      BY <3>1, <3>2
  <2>5. QED
    BY <2>3, <2>4
<1>8. upc' \in [Updater -> Steps]
  BY <1>3 DEF Upd, TypeOK, Steps
<1>9. Leaps(u, l)
  BY <1>1, <1>3, <1>4, <1>5, <1>6, <1>7, <1>8 DEF Leaps, Steps, TypeOK
<1>10. QED
  BY <1>9, LeapStep

\* onReady threw.
LEMMA CatchReadyStep ==
  ASSUME IInv, NEW u \in Updater, CatchReady(u)
  PROVE  IInv'
<1>. USE DEF IInv
<1>1. /\ upc[u] = "catch" /\ owner = Nobody /\ Upd(u, "none") /\ told' = told \cup {"fatal"}
      /\ UNCHANGED <<owner, updating, shutdown, list, status, where, retry, todo, pipe,
                     hpc, job, mpc, rpc, covers>>
  BY DEF CatchReady, handlerVars
<1>2. \A v \in Updater : upc'[v] = IF v = u THEN "none" ELSE upc[v]
  BY <1>1 DEF Upd, TypeOK
<1>3. Locking' /\ Flagged'
  BY <1>1, <1>2 DEF Locking, Flagged, Busy
<1>4. upc' \in [Updater -> Steps]
  BY <1>1 DEF Upd, TypeOK, Steps
<1>5. Leaps(u, "none")
  BY <1>1, <1>2, <1>3, <1>4 DEF Leaps, Steps, TypeOK
<1>6. QED
  BY <1>5, LeapStep

\* The message for onReady goes into the pipe.
LEMMA PostReadyStep ==
  ASSUME IInv, NEW u \in Updater, PostReady(u)
  PROVE  IInv'
<1>. USE DEF IInv
<1>1. /\ upc[u] = "post" /\ pipe' = Append(pipe, u) /\ Upd(u, "wait")
      /\ UNCHANGED <<owner, updating, shutdown, list, status, where, retry, todo,
                     hpc, job, mpc, rpc, told, covers>>
  BY DEF PostReady, handlerVars
<1>2. Handled' /\ Rests /\ Retried' /\ Conservation' /\ ErrorBalance'
  BY <1>1, RestStep
<1>3. \A v \in Updater : upc'[v] = IF v = u THEN "wait" ELSE upc[v]
  BY <1>1 DEF Upd, TypeOK
<1>4. ~Has(pipe, u) /\ \A h \in Handler : job[h] # u
  BY <1>1, PipeOnce
<1>5. PICK p \in Seq(File \cup Updater) :
        /\ p = Append(pipe, u) /\ Once(p) /\ \A x : Has(p, x) <=> Has(pipe, x) \/ x = u
  <2>1. pipe \in Seq(File \cup Updater) /\ Once(pipe) /\ u \in File \cup Updater
    BY PipeOnce
  <2>2. /\ Append(pipe, u) \in Seq(File \cup Updater) /\ Once(Append(pipe, u))
        /\ \A x : Has(Append(pipe, u), x) <=> Has(pipe, x) \/ x = u
    BY <1>4, <2>1, AppendOnce
  <2>3. QED
    BY <2>2
<1>6. TypeOK'
  <2>1. upc' \in [Updater -> Steps]
    BY <1>1 DEF Upd, TypeOK, Steps
  <2>2. QED
    BY <1>1, <1>5, <2>1 DEF TypeOK, Steps
<1>7. Locking' /\ Flagged'
  BY <1>1, <1>3 DEF Locking, Flagged, Busy
<1>8. Waiting'
  BY <1>1, <1>3 DEF Waiting
<1>9. Piped'
  <2>1. u \notin File
    BY LoaderAssumption
  <2>2. \A g \in File : where'[g] = "answered" <=> Has(p, g)
    BY <1>1, <1>5, <2>1, PipeOnce
  <2>3. ASSUME NEW v \in Updater
        PROVE  upc'[v] = "wait" <=> Has(p, v) \/ \E h \in Handler : job'[h] = v
    <3>1. CASE v = u
      BY <1>3, <1>5, <3>1
    <3>2. CASE v # u
      BY <1>1, <1>3, <1>5, <3>2, PipeOnce
    <3>3. QED
      BY <3>1, <3>2
  <2>4. \A x : Has(p, x) => \A h \in Handler : job'[h] # x
    BY <1>1, <1>4, <1>5, PipeOnce
  <2>5. QED
    BY <1>1, <1>5, <2>2, <2>3, <2>4, PipeOnceNext
<1>10. Covered'
  BY <1>1, <1>2, <1>3, CoveredRests DEF TypeOK
<1>11. QED
  BY <1>2, <1>6, <1>7, <1>8, <1>9, <1>10

\* The steps of release().
LEMMA ReleaseKeeps ==
  ASSUME IInv, Release
  PROVE  IInv'
<1>. USE DEF IInv, releaseOthers, updaterVars, handlerVars
<1>0. \A u \in Updater : u # Rel /\ u # Nobody
  BY LoaderAssumption
<1>1. CASE BeginRelease
  <2>1. Locking' /\ Flagged'
    BY <1>0, <1>1 DEF BeginRelease, Locking, Flagged, Rel, Nobody
  <2>2. ReleaseMoves
    BY <1>1, <2>1 DEF ReleaseMoves, BeginRelease, TypeOK
  <2>3. QED
    BY <2>2, ReleaseStep
<1>2. CASE Spin
  <2>1. CASE updating
    <3>1. Locking' /\ Flagged'
      BY <1>0, <1>2, <2>1 DEF Spin, Locking, Flagged, Rel, Nobody
    <3>2. ReleaseMoves
      BY <1>2, <2>1, <3>1 DEF ReleaseMoves, Spin, TypeOK
    <3>3. QED
      BY <3>2, ReleaseStep
  <2>2. CASE ~updating
    <3>1. Locking' /\ Flagged'
      BY <1>0, <1>2, <2>2 DEF Spin, Locking, Flagged, Rel, Nobody
    <3>2. ReleaseMoves
      BY <1>2, <2>2, <3>1 DEF ReleaseMoves, Spin, TypeOK
    <3>3. QED
      BY <3>2, ReleaseStep
  <2>3. QED
    BY <2>1, <2>2
<1>3. CASE SpinAgain
  <2>1. Locking' /\ Flagged'
    BY <1>0, <1>3 DEF SpinAgain, Locking, Flagged, Rel, Nobody
  <2>2. ReleaseMoves
    BY <1>3, <2>1 DEF ReleaseMoves, SpinAgain, TypeOK
  <2>3. QED
    BY <2>2, ReleaseStep
<1>4. CASE WaitLeft
  <2>1. CASE status.left > 0
    <3>1. Locking' /\ Flagged'
      BY <1>0, <1>4, <2>1 DEF WaitLeft, Locking, Flagged, Rel, Nobody
    <3>2. ReleaseMoves
      BY <1>4, <2>1, <3>1 DEF ReleaseMoves, WaitLeft, TypeOK
    <3>3. QED
      BY <3>2, ReleaseStep
  <2>2. CASE ~(status.left > 0)
    <3>1. Locking' /\ Flagged'
      BY <1>0, <1>4, <2>2 DEF WaitLeft, Locking, Flagged, Rel, Nobody
    <3>2. ReleaseMoves
      BY <1>4, <2>2, <3>1, AllPast DEF ReleaseMoves, WaitLeft, TypeOK
    <3>3. QED
      BY <3>2, ReleaseStep
  <2>3. QED
    BY <2>1, <2>2
<1>5. CASE Drained
  <2>1. Locking' /\ Flagged'
    BY <1>0, <1>5 DEF Drained, Locking, Flagged, Rel, Nobody
  <2>2. ReleaseMoves
    BY <1>5, <2>1 DEF ReleaseMoves, Drained, TypeOK
  <2>3. QED
    BY <2>2, ReleaseStep
<1>6. QED
  BY <1>1, <1>2, <1>3, <1>4, <1>5 DEF Release

-----------------------------------------------------------------------------
(* The theorems.                                                           *)

\* The invariant holds at first.
LEMMA Initially == Init => IInv
<1>. SUFFICES ASSUME Init PROVE IInv
  OBVIOUS
<1>1. MaxRetry \in Nat /\ LoadSpeed \in Nat \ {0} /\ NoFile \notin File \cup Updater
  BY LoaderAssumption
<1>2. TypeOK
  <2>1. status \in [update : BOOLEAN, count : Nat, total : Nat, left : Nat, error : Nat]
    BY DEF Init
  <2>2. /\ todo \in [Updater -> -1 .. LoadSpeed] /\ retry \in [File -> 0 .. MaxRetry + 1]
        /\ list \in Seq(File) /\ pipe \in Seq(File \cup Updater)
    BY <1>1 DEF Init
  <2>3. covers \in [Updater -> [started : SUBSET File, waiting : SUBSET File]]
    BY DEF Init
  <2>4. QED
    BY <2>1, <2>2, <2>3 DEF Init, TypeOK, Stage
<1>3. Locking /\ Flagged /\ Waiting /\ Piped /\ Handled
  <2>1. \A u \in Updater : u # Nobody
    BY LoaderAssumption
  <2>2. Locking
    BY <2>1 DEF Init, Locking, Busy, Nobody, Rel
  <2>3. Flagged
    BY DEF Init, Flagged, Busy
  <2>4. Waiting /\ Piped
    BY <1>1 DEF Init, Waiting, Piped
  <2>5. Handled
    BY <1>1 DEF Init, Handled, Handler
  <2>6. QED
    BY <2>2, <2>3, <2>4, <2>5
<1>4. \A f \in File : Stops[f] = "out"
  BY DEF Init, Stops
<1>5. Retried /\ Covered
  BY <1>1, <1>4 DEF Init, Retried, Covered
<1>6. Tally(status, Stops, retry)
  <2>1. /\ {f \in File : Stops[f] \in Flying} = {} /\ {f \in File : Stops[f] \in Loaded} = {}
        /\ {f \in File : Stops[f] # "out"} = {}
    BY <1>4 DEF Flying, Loaded
  <2>2. Debts(Stops, retry) = {}
    BY <1>1, <1>4 DEF Debts, Debt, Init
  <2>3. Cardinality({}) = 0
    BY FS_EmptySet
  <2>4. status.left = 0 /\ status.count = 0 /\ status.total = 0 /\ status.error = 0
    BY DEF Init
  <2>5. QED
    BY <2>1, <2>2, <2>3, <2>4 DEF Tally
<1>7. Conservation /\ ErrorBalance
  BY <1>2, <1>3, <1>6, TypedOK, Accounts DEF Accounted
<1>8. QED
  BY <1>2, <1>3, <1>5, <1>7 DEF IInv

\* Every step keeps the invariant.
LEMMA Step == IInv /\ [Next]_vars => IInv'
<1>. SUFFICES ASSUME IInv, [Next]_vars PROVE IInv'
  OBVIOUS
<1>1. CASE Load
  BY <1>1, LoadStep
<1>2. CASE Release
  BY <1>2, ReleaseKeeps
<1>3. ASSUME NEW u \in Updater, Update(u) PROVE IInv'
  BY <1>3, EnterUpdateStep, PassStep, PopFileStep, TestLeftStep, TestErrorStep,
     PostReadyStep, CatchReadyStep DEF Update
<1>4. ASSUME NEW f \in File, Respond(f) PROVE IInv'
  BY <1>4, RespondStep
<1>5. ASSUME NEW h \in Handler, Handle(h) PROVE IInv'
  BY <1>5, TakeMessageStep, BuildResourceStep, CreateSoundStep, CountLoadedStep,
     LeaveLoadedStep, SubtractErrorsStep, MarkUpdateStep, TellFileStep, CountErrorStep,
     RetryStep, FatalStep, CountFatalStep, RunReadyStep DEF Handle
<1>6. CASE UNCHANGED vars
  <2>1. mpc' \in {"idle", "lock", "run"}
    BY <1>6 DEF vars, IInv, TypeOK
  <2>2. QED
    BY <1>6, <2>1, MainStep DEF vars, updaterVars, handlerVars
<1>7. QED
  BY <1>1, <1>2, <1>3, <1>4, <1>5, <1>6 DEF Next

\* The inductive invariant holds in every state of the loader, whatever the files, their
\* failures and the interleaving of its threads.
THEOREM Invariance == Spec => []IInv
<1>1. Init => IInv
  BY Initially
<1>2. IInv /\ [Next]_vars => IInv'
  BY Step
<1>3. QED
  BY <1>1, <1>2, PTL DEF Spec

\* The counters by which update() and release() decide are exact at any moment: nothing
\* is lost or counted twice by retries, failures and handlers beside update().
THEOREM CountersExact == Spec => []Counters
<1>1. IInv => Counters
  BY DEF IInv, Counters
<1>2. QED
  BY <1>1, Invariance, PTL

\* One thread at a time is on its way to update(), or release() has the flag.
THEOREM OneUpdaterKept == Spec => []OneUpdater
<1>1. IInv => OneUpdater
  <2>. SUFFICES ASSUME IInv PROVE OneUpdater
    OBVIOUS
  <2>1. PICK S : S = {u \in Updater : upc[u] = "sleep"}
    OBVIOUS
  <2>2. Flagged
    BY DEF IInv
  <2>3. CASE S = {}
    <3>1. Cardinality(S) = 0
      BY <2>3, FS_EmptySet
    <3>2. updating <=> rpc \in {"test", "drain"}
      BY <2>1, <2>2, <2>3 DEF Flagged
    <3>3. QED
      BY <2>1, <3>1, <3>2 DEF OneUpdater
  <2>4. CASE S # {}
    <3>1. PICK u \in Updater : S = {u} /\ upc[u] = "sleep"
      BY <2>1, <2>2, <2>4 DEF Flagged
    <3>2. Cardinality(S) = 1
      BY <3>1, FS_Singleton
    <3>3. updating /\ rpc \notin {"test", "drain"}
      BY <2>2, <3>1 DEF Flagged
    <3>4. QED
      BY <2>1, <3>2, <3>3 DEF OneUpdater
  <2>5. QED
    BY <2>3, <2>4
<1>2. QED
  BY <1>1, Invariance, PTL

\* onReady comes after everything that was started when it was decided, although update()
\* sees counters only.
THEOREM ReadyComesAfter == Spec => []ReadyAfterStarted
<1>1. IInv => ReadyAfterStarted
  <2>. SUFFICES ASSUME IInv, NEW u \in Updater, ReadyRuns(u), ~shutdown,
                       NEW f \in covers[u].started
                PROVE  where[f] \in {"done", "failed"}
    BY DEF ReadyAfterStarted
  <2>1. PICK h \in Handler : hpc[h] = "ready" /\ job[h] = u
    BY DEF ReadyRuns, At
  <2>2. h = GL /\ hpc[Rel] = "idle"
    BY <2>1 DEF IInv, Handled, Handler
  <2>3. upc[u] = "wait" /\ f \in File
    BY <2>1, PipeOnce DEF IInv, TypeOK
  <2>4. Stops[f] \in Past
    BY <2>3 DEF IInv, Covered
  <2>5. Handlings
    BY TypedOK, StopsAre DEF IInv
  <2>6. where[f] # "handled"
    <3>1. SUFFICES ASSUME NEW k \in Handler, job[k] = f PROVE FALSE
      BY <2>3, <2>5 DEF Handlings
    <3>2. hpc[k] \in FileStep
      BY <2>3, <2>5, <3>1 DEF Handlings
    <3>3. k = GL
      BY <2>2, <3>2 DEF Handler, FileStep
    <3>4. QED
      BY <2>1, <2>2, <3>2, <3>3 DEF FileStep
  <2>7. Stops[f] = where[f] /\ where[f] \in Stage
    BY <2>3, <2>5, <2>6 DEF Handlings, IInv, TypeOK
  <2>8. QED
    BY <2>4, <2>7 DEF Past, Stage
<1>2. QED
  BY <1>1, Invariance, PTL

\* After release() no request comes back, and no updater is on its way.
THEOREM ReleasedIsQuiet == Spec => []ReleasedQuiet
<1>1. IInv => ReleasedQuiet
  <2>. SUFFICES ASSUME IInv, rpc = "done"
                PROVE  /\ owner \notin Updater
                       /\ \A u \in Updater : upc[u] \in {"none", "post", "wait", "catch"}
                       /\ \A f \in File : ~InFlight(f)
    BY DEF ReleasedQuiet
  <2>1. \A u \in Updater : upc[u] \notin Busy \cup {"sleep"}
    BY DEF IInv, Flagged
  <2>2. owner \notin Updater
    BY <2>1 DEF IInv, Locking
  <2>3. \A u \in Updater : upc[u] \in {"none", "post", "wait", "catch"}
    BY <2>1 DEF IInv, TypeOK, Busy
  <2>4. ASSUME NEW f \in File PROVE ~InFlight(f)
    <3>1. Handlings /\ Stops[f] \in Past \cup {"out", "listed"}
      BY TypedOK, StopsAre DEF IInv, Covered
    <3>2. QED
      BY <3>1 DEF Handlings, InFlight, Handling, Past
  <2>5. QED
    BY <2>2, <2>3, <2>4
<1>2. QED
  BY <1>1, Invariance, PTL
=============================================================================
