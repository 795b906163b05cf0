------------------------- MODULE OpenSLAudio_proofs -------------------------
(***************************************************************************)
(* Proofs about the sounds and their players, for every number of          *)
(* application threads, sounds and players: no lock is left taken, only a  *)
(* reset can be in a stand-off, no two players have the same sound, and    *)
(* what plays, stops or comes back from the background is what the sounds  *)
(* and the context say.                                                    *)
(***************************************************************************)
EXTENDS OpenSLAudio, TLAPS

Playing == {"sound", "own", "visit", "steal", "set"}

\* What a call is about, by its place.
CallOK(k) ==
  /\ k.at = "idle" => k = Idle
  /\ k.op = "play" <=> k.at \in Playing
  /\ k.op \in {"suspend", "restore"} <=> k.at = "each"
  /\ k.op \in Operation <=> k.at = "player"
  /\ k.s # None <=> k.at \in Playing \cup {"player"}
  /\ k.p # None <=> k.at \in {"steal", "set"}

\* Who has a lock is where the code has taken it, and has it there.
Owners ==
  /\ \A t \in Thread : CallOK(call[t])
  /\ \A t \in Thread : mixLock = t <=> call[t].op \in {"play", "suspend", "restore"}
  /\ \A t \in Thread, s \in Sound : soundLock[s] = t <=> call[t].s = s /\ call[t].at # "sound"
  /\ \A t \in Thread, p \in Player : playerLock[p] = t <=> call[t].p = p
  /\ \A p, q \in Player : playerLock[p] = q <=> p = q /\ event[p] = "reset"

\* A sound is deleted by nobody who shares it, and not used afterwards.
Alive ==
  /\ \A t \in Thread : call[t].s # None => ~deleted[call[t].s]
  /\ \A t, u \in Thread : call[t].op = "delete" /\ call[u].s = call[t].s => u = t

\* Players out of the list are as new; what is not stopped has an object, and an
\* object was made for a sound; who is about to be given a sound is not marked.
Listed ==
  /\ \A p \in Player \ exists : state[p] = "stopped" /\ ~resume[p] /\ event[p] = "idle"
  /\ \A t \in Thread : call[t].todo \subseteq exists
  /\ \A p \in Player : state[p] # "stopped" => ready[p]
  /\ \A p \in Player : ready[p] => sound[p] # None
  /\ \A t \in Thread : call[t].p # None => ~resume[call[t].p]
  /\ \A p \in Player : event[p] = "reset" => state[p] = "stopped" /\ ~resume[p]

\* A sound that looks for another player has none by then.
Owned ==
  /\ OneOwner
  /\ \A s \in Sound : fPlaying[s] => player[s] # None
  /\ \A t \in Thread : call[t].at \in {"own", "player"} => player[call[t].s] # None
  /\ \A t \in Thread : call[t].at \in {"visit", "steal", "set"} =>
       \A p \in Player : sound[p] # call[t].s

\* The thread that has the lock of s is about to do one of ops to its player.
About(s, ops) == soundLock[s] # None /\ call[soundLock[s]].op \in ops

\* The flags of a sound and its player's state differ only while a call that has
\* changed the flags waits for the player.
Flags ==
  /\ \A t \in Thread :
       /\ call[t].op \in {"stop", "delete"} => ~fPlaying[call[t].s]
       /\ call[t].op = "pause" => fPlaying[call[t].s] /\ fPaused[call[t].s]
  /\ \A p \in Player : state[p] # "stopped" =>
       /\ ~deleted[sound[p]]
       /\ fPlaying[sound[p]] \/ About(sound[p], {"stop", "delete"})
  /\ \A p \in Player : state[p] = "playing" \/ (ready[p] /\ resume[p]) =>
       \/ fPlaying[sound[p]] /\ ~fPaused[sound[p]]
       \/ About(sound[p], {"stop", "delete", "pause"})

\* Unless OpenSL refuses, a sound that thinks it plays has its player, and is told
\* when it stops by who has the player until then.
Heard ==
  ~refused =>
    /\ \A p \in Player : sound[p] # None => ready[p]
    /\ \A s \in Sound : fPlaying[s] => sound[player[s]] = s
    /\ \A p \in Player : ready[p] /\ state[p] = "stopped" =>
         \/ resume[p] \/ ~fPlaying[sound[p]] \/ fPaused[sound[p]]
         \/ playerLock[p] # None

\* The thread that switches the context has player p yet to visit.
Awaits(op, p) == mixLock # None /\ call[mixLock].op = op /\ p \in call[mixLock].todo

\* Only players yet to visit do not follow the context.
Follows ==
  /\ \A t \in Thread : call[t].op \in {"suspend", "restore"} =>
       (call[t].op = "suspend" <=> paused)
  /\ paused => \A p \in Player : state[p] = "playing" => Awaits("suspend", p)
  /\ ~paused => \A p \in Player :
       ready[p] /\ state[p] = "paused" /\ resume[p] => Awaits("restore", p)

IInv == TypeOK /\ Owners /\ Alive /\ Listed /\ Owned /\ Flags /\ Heard /\ Follows

-----------------------------------------------------------------------------
(* What a step of one call has to show.                                    *)

MixUser == {"play", "suspend", "restore"}

\* One call goes on; the others stay where they are.
LEMMA OneCall ==
  ASSUME TypeOK, NEW t \in Thread, NEW q \in Calls, call' = [call EXCEPT ![t] = q]
  PROVE  /\ call' \in [Thread -> Calls] /\ call'[t] = q
         /\ \A u \in Thread : u # t => call'[u] = call[u]
BY DEF TypeOK

\* A step that only takes locks and moves on leaves players and sounds in order.
LEMMA Quiet ==
  ASSUME IInv, NEW t \in Thread, NEW q \in Calls, call' = [call EXCEPT ![t] = q], CallOK(q),
         call[t].op \notin Operation, q.op \notin Operation,
         UNCHANGED <<state, sound, ready, fPaused, fPlaying, player, deleted, event, refused>>,
         mixLock \in {None, t}, mixLock' \in {None, t}, mixLock' = t <=> q.op \in MixUser,
         soundLock' \in [Sound -> Thread \cup {None}],
         \A s \in Sound : soundLock'[s] = IF s = q.s /\ q.at # "sound" THEN t ELSE soundLock[s],
         q.s # None /\ q.at # "sound" => soundLock[q.s] \in {None, t},
         call[t].s \in {None, q.s}, q.at = "sound" => call[t].s = None,
         playerLock' \in [Player -> Thread \cup Player \cup {None}],
         \A p \in Player : playerLock'[p] = IF p = q.p THEN t ELSE playerLock[p],
         q.p # None => playerLock[q.p] \in {None, t} /\ q.p \in exists',
         call[t].p = None,
         exists \subseteq exists', exists' \subseteq Player, q.todo \subseteq exists',
         resume' \in [Player -> BOOLEAN], q.p # None => ~resume'[q.p],
         \A p \in Player : p # q.p => resume'[p] = resume[p],
         q.s # None => /\ ~deleted[q.s]
                       /\ \A u \in Thread : u # t /\ call[u].s = q.s => call[u].op # "delete",
         q.at = "own" => player[q.s] # None,
         q.at \in {"visit", "steal", "set"} => \A p \in Player : sound[p] # q.s,
         paused' \in BOOLEAN, Follows'
  PROVE  IInv'
<1>0. TypeOK /\ Owners /\ Alive /\ Listed /\ Owned /\ Flags /\ Heard /\ AudioAssumption
  BY AudioAssumption DEF IInv
<1>1. /\ call' \in [Thread -> Calls] /\ call'[t] = q
      /\ \A u \in Thread : u # t => call'[u] = call[u]
  BY <1>0, OneCall
<1>2. TypeOK'
  BY <1>0, <1>1 DEF TypeOK, AudioAssumption
<1>3. Owners'
  <2>1. \A u \in Thread : CallOK(call'[u])
    BY <1>0, <1>1 DEF Owners
  <2>2. \A u \in Thread : mixLock' = u <=> call'[u].op \in MixUser
    BY <1>0, <1>1 DEF Owners, MixUser, AudioAssumption
  <2>3. \A u \in Thread, s \in Sound :
          soundLock'[s] = u <=> call'[u].s = s /\ call'[u].at # "sound"
    BY <1>0, <1>1 DEF Owners, AudioAssumption
  <2>4. \A u \in Thread, p \in Player : playerLock'[p] = u <=> call'[u].p = p
    BY <1>0, <1>1 DEF Owners, AudioAssumption
  <2>5. \A p, r \in Player : playerLock'[p] = r <=> p = r /\ event'[p] = "reset"
    BY <1>0, <1>1 DEF Owners, AudioAssumption
  <2>6. QED
    BY <2>1, <2>2, <2>3, <2>4, <2>5 DEF Owners, MixUser, CallOK, Idle
<1>4. Alive'
  BY <1>0, <1>1 DEF Alive, Operation
<1>5. Listed'
  <2>1. \A p \in Player \ exists' : state'[p] = "stopped" /\ ~resume'[p] /\ event'[p] = "idle"
    BY <1>0 DEF Listed
  <2>2. \A u \in Thread : call'[u].todo \subseteq exists'
    BY <1>0, <1>1 DEF Listed
  <2>3. \A u \in Thread : call'[u].p # None => ~resume'[call'[u].p]
    BY <1>0, <1>1 DEF Listed, TypeOK, Calls
  <2>4. \A p \in Player : event'[p] = "reset" => state'[p] = "stopped" /\ ~resume'[p]
    BY <1>0 DEF Listed
  <2>5. QED
    BY <1>0, <2>1, <2>2, <2>3, <2>4 DEF Listed
<1>6. Owned'
  BY <1>0, <1>1 DEF Owned, OneOwner, Owners, CallOK, Operation
<1>7. \A s \in Sound : About(s, {"stop", "delete"}) => About(s, {"stop", "delete"})'
  BY <1>0, <1>1 DEF About, Owners, TypeOK, Operation, AudioAssumption
<1>8. \A s \in Sound : About(s, {"stop", "delete", "pause"}) =>
        About(s, {"stop", "delete", "pause"})'
  BY <1>0, <1>1 DEF About, Owners, TypeOK, Operation, AudioAssumption
<1>9. Flags'
  BY <1>0, <1>1, <1>7, <1>8 DEF Flags, TypeOK, Listed, Operation
<1>10. Heard'
  BY <1>0, <1>1 DEF Heard, TypeOK, AudioAssumption
<1>11. QED
  BY <1>2, <1>3, <1>4, <1>5, <1>6, <1>9, <1>10 DEF IInv

\* No thread switches the context: what plays and what waits follow it.
InStep == \A p \in Player : IF paused THEN state[p] # "playing"
                           ELSE ~(ready[p] /\ state[p] = "paused" /\ resume[p])

\* A thread that plays a sound keeps the context from being switched.
LEMMA PlayFacts ==
  ASSUME IInv, NEW t \in Thread, call[t].op = "play"
  PROVE  /\ call[t] \in Calls /\ CallOK(call[t]) /\ call[t].s \in Sound /\ ~deleted[call[t].s]
         /\ \A u \in Thread : u # t /\ call[u].s = call[t].s => call[u].op # "delete"
         /\ mixLock = t /\ call[t].todo \subseteq exists
         /\ soundLock[call[t].s] \in {None, t} <=> SoundFree(call[t].s, t)
         /\ InStep /\ t # None
<1>1. t # None /\ TypeOK /\ Owners /\ Alive /\ Listed /\ Follows
  BY AudioAssumption DEF IInv
<1>2. call[t] \in Calls /\ CallOK(call[t]) /\ mixLock = t /\ call[t].todo \subseteq exists
  BY <1>1 DEF TypeOK, Owners, Listed
<1>3. call[t].s \in Sound
  BY <1>2 DEF CallOK, Calls
<1>4. ~deleted[call[t].s] /\ call[t].s # None
  BY <1>1, <1>3, AudioAssumption DEF Alive
<1>5. \A u \in Thread : u # t /\ call[u].s = call[t].s => call[u].op # "delete"
  BY <1>1 DEF Alive
<1>6. InStep
  BY <1>1, <1>2 DEF Follows, Awaits, InStep
<1>7. QED
  BY <1>1, <1>2, <1>3, <1>4, <1>5, <1>6 DEF SoundFree

\* Without a thread that switches it, what plays and what waits follow the context.
LEMMA ContextSettled ==
  ASSUME IInv, mixLock = None
  PROVE  InStep
BY DEF IInv, Follows, Awaits, InStep

\* What followed the context goes on following it as long as nothing starts.
LEMMA StaysSettled ==
  ASSUME IInv, InStep, NEW t \in Thread, NEW q \in Calls, call' = [call EXCEPT ![t] = q],
         UNCHANGED <<paused, ready, state>>, \A p \in Player : resume'[p] => resume[p],
         q.op \notin {"suspend", "restore"}
  PROVE  Follows'
<1>1. /\ call'[t] = q /\ \A u \in Thread : u # t => call'[u] = call[u]
  BY OneCall DEF IInv
<1>2. \A u \in Thread : call'[u].op \in {"suspend", "restore"} =>
        (call'[u].op = "suspend" <=> paused)
  BY <1>1 DEF IInv, Follows
<1>3. QED
  BY <1>2 DEF Follows, InStep

\* play() begins: it has context_lock and waits for the sound.
LEMMA PlayStep ==
  ASSUME IInv, NEW t \in Thread, NEW s \in Sound, Play(t, s)
  PROVE  IInv'
<1>1. PICK q : q = [Idle EXCEPT !.op = "play", !.s = s, !.at = "sound"]
  OBVIOUS
<1>2. /\ q \in Calls /\ CallOK(q) /\ q.op = "play" /\ q.at = "sound" /\ q.s = s
      /\ q.p = None /\ q.todo = {} /\ s # None
  BY <1>1, AudioAssumption DEF Calls, CallOK, Playing, Operation, Idle
<1>3. call' = [call EXCEPT ![t] = q]
  BY <1>1 DEF Play, Enter
<1>4. /\ call[t].op = "none" /\ call[t].s = None /\ call[t].p = None
      /\ \A u \in Thread : call[u].s = s => call[u].op # "delete"
      /\ ~deleted[s] /\ mixLock = None /\ mixLock' = t
      /\ UNCHANGED <<soundLock, playerLock, paused, exists, state, resume, sound, ready>>
      /\ UNCHANGED <<fPaused, fPlaying, player, deleted, event, refused>>
  BY DEF Play, MayCall, Idle, playerVars, soundVars
<1>5. TypeOK /\ InStep
  BY <1>4, ContextSettled DEF IInv
<1>6. Follows'
  BY <1>2, <1>3, <1>4, <1>5, StaysSettled
<1>7. /\ q.op \notin Operation /\ call[t].op \notin Operation /\ q.op \in MixUser
      /\ soundLock' \in [Sound -> Thread \cup {None}]
      /\ \A x \in Sound : soundLock'[x] = IF x = q.s /\ q.at # "sound" THEN t ELSE soundLock[x]
  BY <1>2, <1>4, <1>5 DEF Operation, MixUser, TypeOK
<1>8. /\ playerLock' \in [Player -> Thread \cup Player \cup {None}]
      /\ \A p \in Player : playerLock'[p] = IF p = q.p THEN t ELSE playerLock[p]
  BY <1>2, <1>4, <1>5, AudioAssumption DEF TypeOK
<1>9. /\ exists \subseteq exists' /\ exists' \subseteq Player /\ q.todo \subseteq exists'
      /\ resume' \in [Player -> BOOLEAN] /\ paused' \in BOOLEAN
      /\ \A p \in Player : resume'[p] = resume[p]
  BY <1>2, <1>4, <1>5 DEF TypeOK
<1>10. QED
  BY <1>2, <1>3, <1>4, <1>6, <1>7, <1>8, <1>9, Quiet

\* The sound is locked: its own player comes first, or the search begins.
LEMMA LockPlayedStep ==
  ASSUME IInv, NEW t \in Thread, LockPlayed(t)
  PROVE  IInv'
<1>1. PICK s : s = call[t].s
  OBVIOUS
<1>2. call[t].op = "play" /\ call[t].at = "sound" /\ SoundFree(s, t)
  BY <1>1 DEF LockPlayed, At
<1>3. /\ call[t] \in Calls /\ CallOK(call[t]) /\ s \in Sound /\ ~deleted[s]
      /\ \A u \in Thread : u # t /\ call[u].s = s => call[u].op # "delete"
      /\ mixLock = t /\ call[t].todo \subseteq exists /\ soundLock[s] \in {None, t}
      /\ InStep /\ t # None /\ TypeOK /\ Owned /\ s # None
  BY <1>1, <1>2, PlayFacts, AudioAssumption DEF IInv
<1>4. PICK q : q = IF player[s] = None THEN [call[t] EXCEPT !.at = "visit", !.todo = exists]
                   ELSE [call[t] EXCEPT !.at = "own"]
  OBVIOUS
<1>5. /\ call' = [call EXCEPT ![t] = q] /\ soundLock' = [soundLock EXCEPT ![s] = t]
      /\ UNCHANGED <<mixLock, playerLock, paused, exists, state, resume, sound, ready>>
      /\ UNCHANGED <<fPaused, fPlaying, player, deleted, event, refused>>
  <2>1. call' = [call EXCEPT ![t] = q]
    BY <1>1, <1>3, <1>4 DEF LockPlayed, Scan, Go, TypeOK
  <2>2. QED
    BY <2>1, <1>1 DEF LockPlayed, playerVars, soundVars
<1>6. /\ q \in Calls /\ q.op = "play" /\ q.at \in {"visit", "own"} /\ q.s = s /\ q.p = call[t].p
      /\ q.todo \subseteq exists /\ (q.at = "visit" <=> player[s] = None)
  BY <1>1, <1>2, <1>3, <1>4 DEF Calls, TypeOK
<1>7. CallOK(q) /\ q.p = None
  BY <1>1, <1>2, <1>3, <1>6 DEF CallOK, Playing, Operation
<1>8. q.at = "visit" => \A p \in Player : sound[p] # s
  BY <1>3, <1>6, AudioAssumption DEF Owned, OneOwner
<1>9. Follows'
  BY <1>3, <1>5, <1>6, StaysSettled
<1>10. /\ q.op \notin Operation /\ call[t].op \notin Operation /\ q.op \in MixUser
       /\ soundLock' \in [Sound -> Thread \cup {None}]
       /\ \A x \in Sound : soundLock'[x] = IF x = q.s /\ q.at # "sound" THEN t ELSE soundLock[x]
  BY <1>2, <1>3, <1>5, <1>6 DEF Operation, MixUser, TypeOK
<1>11. /\ playerLock' \in [Player -> Thread \cup Player \cup {None}]
       /\ \A p \in Player : playerLock'[p] = IF p = q.p THEN t ELSE playerLock[p]
  BY <1>3, <1>5, <1>7, AudioAssumption DEF TypeOK
<1>12. /\ exists \subseteq exists' /\ exists' \subseteq Player /\ q.todo \subseteq exists'
       /\ resume' \in [Player -> BOOLEAN] /\ paused' \in BOOLEAN
       /\ \A p \in Player : resume'[p] = resume[p]
  BY <1>3, <1>5, <1>6 DEF TypeOK
<1>13. mixLock' = t /\ call[t].s = q.s /\ call[t].p = None
  BY <1>1, <1>3, <1>5, <1>6, <1>7
<1>14. QED
  BY <1>3, <1>5, <1>6, <1>7, <1>8, <1>9, <1>10, <1>11, <1>12, <1>13, Quiet

\* The player of call q, if it has found one, is locked and not marked.
Takes(t, q) ==
  /\ exists \subseteq exists' /\ exists' \subseteq Player /\ q.todo \subseteq exists'
  /\ playerLock' \in [Player -> Thread \cup Player \cup {None}]
  /\ \A p \in Player : playerLock'[p] = IF p = q.p THEN t ELSE playerLock[p]
  /\ resume' \in [Player -> BOOLEAN]
  /\ \A p \in Player : p # q.p => resume'[p] = resume[p]
  /\ q.p # None => playerLock[q.p] \in {None, t} /\ q.p \in exists' /\ ~resume'[q.p]

\* getFreePlayer goes on: it visits players or has found one.
LEMMA ScanGoesOn ==
  ASSUME IInv, NEW t \in Thread, NEW q \in Calls, call' = [call EXCEPT ![t] = q], CallOK(q),
         call[t].op = "play", call[t].at \in {"own", "visit"},
         q.op = "play", q.s = call[t].s, q.at \in {"visit", "steal", "set"},
         \A p \in Player : sound[p] # q.s,
         UNCHANGED <<mixLock, soundLock, paused, state, sound, ready>>,
         UNCHANGED <<fPaused, fPlaying, player, deleted, event, refused>>,
         Takes(t, q)
  PROVE  IInv'
<1>1. PICK s : s = call[t].s
  OBVIOUS
<1>2. /\ call[t] \in Calls /\ CallOK(call[t]) /\ s \in Sound /\ ~deleted[s]
      /\ \A u \in Thread : u # t /\ call[u].s = s => call[u].op # "delete"
      /\ mixLock = t /\ InStep /\ t # None /\ TypeOK /\ Owners
  BY <1>1, PlayFacts DEF IInv
<1>3. call[t].p = None /\ soundLock[s] = t /\ q.s = s /\ q.at # "sound"
  BY <1>1, <1>2 DEF CallOK, Owners
<1>4. \A p \in Player : resume'[p] => resume[p]
  BY AudioAssumption DEF Takes
<1>5. Follows'
  BY <1>2, <1>4, StaysSettled
<1>6. /\ soundLock' \in [Sound -> Thread \cup {None}]
      /\ \A x \in Sound : soundLock'[x] = IF x = q.s /\ q.at # "sound" THEN t ELSE soundLock[x]
      /\ soundLock[q.s] = t /\ mixLock' = t /\ paused' \in BOOLEAN
  BY <1>2, <1>3 DEF TypeOK
<1>7. q.op \notin Operation /\ call[t].op \notin Operation /\ q.op \in MixUser
  BY DEF Operation, MixUser
<1>8. ~deleted[q.s] /\ \A u \in Thread : u # t /\ call[u].s = q.s => call[u].op # "delete"
  BY <1>2, <1>3
<1>9. mixLock \in {None, t} /\ call[t].s \in {None, q.s} /\ q.at # "own"
  BY <1>2
<1>10. QED
  BY <1>2, <1>3, <1>5, <1>6, <1>7, <1>8, <1>9, Quiet DEF Takes

\* A thread in getFreePlayer looks for another player than any that has its sound.
LEMMA VisitFacts ==
  ASSUME IInv, NEW t \in Thread, At(t, "play", "visit")
  PROVE  /\ call[t].op = "play" /\ call[t].at = "visit" /\ call[t] \in Calls /\ CallOK(call[t])
         /\ call[t].p = None /\ call[t].s # None /\ call[t].todo \subseteq exists
         /\ \A p \in Player : sound[p] # call[t].s
<1>1. call[t].op = "play" /\ call[t].at = "visit"
  BY DEF At
<1>2. call[t] \in Calls /\ CallOK(call[t]) /\ call[t].todo \subseteq exists /\ Owned
  BY <1>1, PlayFacts DEF IInv
<1>3. QED
  BY <1>1, <1>2 DEF CallOK, Owned

\* Its own player has another sound by now: the search begins.
LEMMA PlayLostStep ==
  ASSUME IInv, NEW t \in Thread, PlayLost(t)
  PROVE  IInv'
<1>1. call[t].op = "play" /\ call[t].at = "own" /\ TypeOK /\ Owned
  BY DEF PlayLost, At, IInv
<1>2. call[t] \in Calls /\ CallOK(call[t]) /\ call[t].s \in Sound /\ call[t].p = None
  BY <1>1, PlayFacts DEF CallOK
<1>3. sound[player[call[t].s]] # call[t].s
  BY DEF PlayLost
<1>4. \A p \in Player : sound[p] # call[t].s
  BY <1>1, <1>2, <1>3, AudioAssumption DEF Owned, OneOwner
<1>5. PICK q : q = [call[t] EXCEPT !.at = "visit", !.todo = exists]
  OBVIOUS
<1>6. /\ call' = [call EXCEPT ![t] = q]
      /\ UNCHANGED <<mixLock, soundLock, playerLock, paused, exists, state, resume, sound, ready>>
      /\ UNCHANGED <<fPaused, fPlaying, player, deleted, event, refused>>
  <2>1. call' = [call EXCEPT ![t] = q]
    BY <1>1, <1>5 DEF PlayLost, Scan, TypeOK
  <2>2. QED
    BY <2>1 DEF PlayLost, lockVars, playerVars, soundVars
<1>7. /\ q \in Calls /\ q.op = "play" /\ q.at = "visit" /\ q.s = call[t].s /\ q.p = None
      /\ q.todo = exists
  BY <1>1, <1>2, <1>5 DEF Calls, TypeOK
<1>8. CallOK(q)
  BY <1>1, <1>2, <1>7 DEF CallOK, Playing, Operation
<1>9. Takes(t, q)
  BY <1>1, <1>6, <1>7, AudioAssumption DEF TypeOK, Takes
<1>10. QED
  BY <1>1, <1>4, <1>6, <1>7, <1>8, <1>9, ScanGoesOn

\* A player that has stopped is taken, or the next one is visited.
LEMMA VisitStep ==
  ASSUME IInv, NEW t \in Thread, NEW p \in Player, Visit(t, p)
  PROVE  IInv'
<1>1. /\ call[t].op = "play" /\ call[t].at = "visit" /\ call[t] \in Calls /\ CallOK(call[t])
      /\ call[t].p = None /\ call[t].s # None /\ call[t].todo \subseteq exists
      /\ \A r \in Player : sound[r] # call[t].s
      /\ TypeOK /\ p \in call[t].todo /\ playerLock[p] \in {None, t} /\ p # None
  BY VisitFacts, AudioAssumption DEF Visit, PlayerFree, IInv
<1>2. /\ UNCHANGED <<mixLock, soundLock, paused, exists, state, sound, ready>>
      /\ UNCHANGED <<fPaused, fPlaying, player, deleted, event, refused>>
      /\ exists \subseteq exists' /\ exists' \subseteq Player
  BY <1>1 DEF Visit, soundVars, TypeOK
<1>3. CASE state[p] = "stopped"
  <2>1. PICK q : q = [call[t] EXCEPT !.at = "set", !.p = p]
    OBVIOUS
  <2>2. /\ call' = [call EXCEPT ![t] = q]
        /\ playerLock' = [playerLock EXCEPT ![p] = t] /\ resume' = [resume EXCEPT ![p] = FALSE]
    BY <1>1, <1>3, <2>1 DEF Visit, TypeOK
  <2>3. /\ q \in Calls /\ q.op = "play" /\ q.at = "set" /\ q.s = call[t].s /\ q.p = p
        /\ q.todo = call[t].todo
    BY <1>1, <2>1 DEF Calls
  <2>4. CallOK(q)
    BY <1>1, <2>3 DEF CallOK, Playing, Operation
  <2>5. Takes(t, q)
    BY <1>1, <1>2, <2>2, <2>3 DEF TypeOK, Takes
  <2>6. QED
    BY <1>1, <1>2, <2>2, <2>3, <2>4, <2>5, ScanGoesOn
<1>4. CASE state[p] # "stopped"
  <2>1. PICK q : q = [call[t] EXCEPT !.todo = @ \ {p}]
    OBVIOUS
  <2>2. call' = [call EXCEPT ![t] = q] /\ UNCHANGED <<playerLock, resume>>
    BY <1>1, <1>4, <2>1 DEF Visit, TypeOK
  <2>3. /\ q \in Calls /\ q.op = "play" /\ q.at = "visit" /\ q.s = call[t].s /\ q.p = None
        /\ q.todo \subseteq exists
    BY <1>1, <2>1 DEF Calls
  <2>4. CallOK(q)
    BY <1>1, <2>3 DEF CallOK, Playing, Operation
  <2>5. Takes(t, q)
    BY <1>1, <1>2, <2>2, <2>3, AudioAssumption DEF TypeOK, Takes
  <2>6. QED
    BY <1>1, <1>2, <2>2, <2>3, <2>4, <2>5, ScanGoesOn
<1>5. QED
  BY <1>3, <1>4

\* A new player is nobody else's.
LEMMA MakePlayerStep ==
  ASSUME IInv, NEW t \in Thread, NEW p \in Player, MakePlayer(t, p)
  PROVE  IInv'
<1>1. /\ call[t].op = "play" /\ call[t].at = "visit" /\ call[t] \in Calls /\ CallOK(call[t])
      /\ call[t].p = None /\ call[t].s # None /\ call[t].todo = {}
      /\ \A r \in Player : sound[r] # call[t].s
      /\ TypeOK /\ p \notin exists /\ playerLock[p] = None /\ ~resume[p] /\ p # None
  BY VisitFacts, AudioAssumption DEF MakePlayer, IInv, TypeOK, Listed
<1>2. /\ UNCHANGED <<mixLock, soundLock, paused, state, resume, sound, ready>>
      /\ UNCHANGED <<fPaused, fPlaying, player, deleted, event, refused>>
  BY <1>1 DEF MakePlayer, soundVars
<1>3. exists' = exists \cup {p} /\ playerLock' = [playerLock EXCEPT ![p] = t]
  BY DEF MakePlayer
<1>4. PICK q : q = [call[t] EXCEPT !.at = "set", !.p = p]
  OBVIOUS
<1>5. call' = [call EXCEPT ![t] = q]
  BY <1>1, <1>4 DEF MakePlayer, TypeOK
<1>6. /\ q \in Calls /\ q.op = "play" /\ q.at = "set" /\ q.s = call[t].s /\ q.p = p
      /\ q.todo = {}
  BY <1>1, <1>4 DEF Calls
<1>7. CallOK(q)
  BY <1>1, <1>6 DEF CallOK, Playing, Operation
<1>8. Takes(t, q)
  BY <1>1, <1>2, <1>3, <1>6 DEF TypeOK, Takes
<1>9. QED
  BY <1>1, <1>2, <1>5, <1>6, <1>7, <1>8, ScanGoesOn

\* All players run: one of them is taken from its sound.
LEMMA TakePlayerStep ==
  ASSUME IInv, NEW t \in Thread, NEW p \in Player, TakePlayer(t, p)
  PROVE  IInv'
<1>1. /\ call[t].op = "play" /\ call[t].at = "visit" /\ call[t] \in Calls /\ CallOK(call[t])
      /\ call[t].p = None /\ call[t].s # None /\ call[t].todo = {}
      /\ \A r \in Player : sound[r] # call[t].s
      /\ TypeOK /\ p \in exists /\ playerLock[p] \in {None, t} /\ p # None
  BY VisitFacts, AudioAssumption DEF TakePlayer, PlayerFree, IInv
<1>2. /\ UNCHANGED <<mixLock, soundLock, paused, exists, state, sound, ready>>
      /\ UNCHANGED <<fPaused, fPlaying, player, deleted, event, refused>>
      /\ playerLock' = [playerLock EXCEPT ![p] = t] /\ resume' = [resume EXCEPT ![p] = FALSE]
  BY <1>1 DEF TakePlayer, soundVars
<1>3. PICK at \in {"steal", "set"} : at = IF state[p] = "playing" THEN "steal" ELSE "set"
  OBVIOUS
<1>4. PICK q : q = [call[t] EXCEPT !.at = at, !.p = p]
  OBVIOUS
<1>5. call' = [call EXCEPT ![t] = q]
  BY <1>1, <1>3, <1>4 DEF TakePlayer, TypeOK
<1>6. /\ q \in Calls /\ q.op = "play" /\ q.at = at /\ q.s = call[t].s /\ q.p = p
      /\ q.todo = {}
  BY <1>1, <1>4 DEF Calls
<1>7. CallOK(q)
  BY <1>1, <1>6 DEF CallOK, Playing, Operation
<1>8. Takes(t, q)
  BY <1>1, <1>2, <1>6 DEF TypeOK, Takes
<1>9. QED
  BY <1>1, <1>2, <1>5, <1>6, <1>7, <1>8, ScanGoesOn

-----------------------------------------------------------------------------
(* The context is paused and resumed.                                      *)

\* A thread that switches the context has context_lock and nothing else.
LEMMA EachFacts ==
  ASSUME IInv, NEW t \in Thread, call[t].at = "each"
  PROVE  /\ call[t] \in Calls /\ CallOK(call[t]) /\ call[t].op \in {"suspend", "restore"}
         /\ call[t].s = None /\ call[t].p = None /\ mixLock = t /\ t # None
         /\ call[t].todo \subseteq exists /\ (call[t].op = "suspend" <=> paused)
<1>1. TypeOK /\ Owners /\ Listed /\ Follows /\ t # None
  BY AudioAssumption DEF IInv
<1>2. call[t] \in Calls /\ CallOK(call[t]) /\ call[t].todo \subseteq exists
  BY <1>1 DEF TypeOK, Owners, Listed
<1>3. call[t].op \in {"suspend", "restore"} /\ call[t].s = None /\ call[t].p = None
  BY <1>2 DEF CallOK, Playing
<1>4. QED
  BY <1>1, <1>2, <1>3 DEF Owners, Follows

\* All players have been visited.
LEMMA UnlockContextStep ==
  ASSUME IInv, NEW t \in Thread, UnlockContext(t)
  PROVE  IInv'
<1>1. /\ call[t].at = "each" /\ call[t].todo = {} /\ mixLock' = None
      /\ call' = [call EXCEPT ![t] = Idle] /\ TypeOK
      /\ UNCHANGED <<soundLock, playerLock, paused, exists, state, resume, sound, ready>>
      /\ UNCHANGED <<fPaused, fPlaying, player, deleted, event, refused>>
  BY DEF UnlockContext, Return, playerVars, soundVars, IInv
<1>2. /\ call[t].op \in {"suspend", "restore"} /\ call[t].s = None /\ call[t].p = None
      /\ mixLock = t /\ t # None
  BY <1>1, EachFacts
<1>3. /\ Idle \in Calls /\ CallOK(Idle) /\ Idle.op = "none" /\ Idle.at = "idle" /\ Idle.s = None
      /\ Idle.p = None /\ Idle.todo = {}
  BY AudioAssumption DEF Idle, Calls, CallOK, Playing, Operation
<1>4. InStep
  BY <1>1, <1>2 DEF InStep, IInv, Follows, Awaits
<1>5. Follows'
  BY <1>1, <1>3, <1>4, StaysSettled
<1>6. /\ Idle.op \notin Operation /\ call[t].op \notin Operation /\ Idle.op \notin MixUser
      /\ soundLock' \in [Sound -> Thread \cup {None}] /\ paused' \in BOOLEAN
      /\ \A x \in Sound : soundLock'[x] =
           IF x = Idle.s /\ Idle.at # "sound" THEN t ELSE soundLock[x]
  BY <1>1, <1>2, <1>3, AudioAssumption DEF Operation, MixUser, TypeOK
<1>7. Takes(t, Idle)
  BY <1>1, <1>3, AudioAssumption DEF TypeOK, Takes
<1>8. QED
  BY <1>1, <1>2, <1>3, <1>5, <1>6, <1>7, Quiet DEF Takes

\* The context is switched, and all players in the list have yet to follow.
LEMMA SwitchContextStep ==
  ASSUME IInv, NEW t \in Thread, NEW on \in BOOLEAN, SwitchContext(t, on)
  PROVE  IInv'
<1>1. /\ call[t] = Idle /\ mixLock = None /\ mixLock' = t /\ paused' = on /\ t # None
      /\ UNCHANGED <<soundLock, playerLock, exists, state, resume, sound, ready>>
      /\ UNCHANGED <<fPaused, fPlaying, player, deleted, event, refused>> /\ TypeOK
  BY AudioAssumption DEF SwitchContext, playerVars, soundVars, IInv
<1>2. PICK q : q = [Idle EXCEPT !.op = IF on THEN "suspend" ELSE "restore",
                                !.at = "each", !.todo = IF paused = on THEN {} ELSE exists]
  OBVIOUS
<1>3. call' = [call EXCEPT ![t] = q]
  BY <1>2 DEF SwitchContext
<1>4. /\ q \in Calls /\ q.op = (IF on THEN "suspend" ELSE "restore") /\ q.at = "each"
      /\ q.s = None /\ q.p = None /\ q.todo = (IF paused = on THEN {} ELSE exists)
  BY <1>1, <1>2 DEF Idle, Calls, TypeOK
<1>5. CallOK(q)
  BY <1>4 DEF CallOK, Playing, Operation
<1>6. /\ call[t].op = "none" /\ call[t].s = None /\ call[t].p = None
  BY <1>1 DEF Idle
<1>7. /\ call'[t] = q /\ \A u \in Thread : u # t => call'[u] = call[u]
  BY <1>1, <1>3, <1>4, OneCall
<1>8. Follows'
  <2>1. \A u \in Thread : call[u].op \notin {"suspend", "restore"}
    BY <1>1, AudioAssumption DEF IInv, Owners
  <2>2. \A u \in Thread : call'[u].op \in {"suspend", "restore"} =>
          (call'[u].op = "suspend" <=> on)
    BY <1>4, <1>7, <2>1
  <2>3. InStep /\ \A p \in Player : state[p] # "stopped" => p \in exists
    BY <1>1, ContextSettled DEF IInv, Listed
  <2>4. on => \A p \in Player : state[p] = "playing" => q.op = "suspend" /\ p \in q.todo
    BY <1>1, <1>4, <2>3 DEF InStep, TypeOK
  <2>5. ~on => \A p \in Player : ready[p] /\ state[p] = "paused" /\ resume[p] =>
                 q.op = "restore" /\ p \in q.todo
    BY <1>1, <1>4, <2>3 DEF InStep, TypeOK
  <2>6. QED
    BY <1>1, <1>7, <2>2, <2>4, <2>5 DEF Follows, Awaits
<1>9. /\ q.op \notin Operation /\ call[t].op \notin Operation /\ q.op \in MixUser
      /\ soundLock' \in [Sound -> Thread \cup {None}] /\ paused' \in BOOLEAN
      /\ \A x \in Sound : soundLock'[x] = IF x = q.s /\ q.at # "sound" THEN t ELSE soundLock[x]
  BY <1>1, <1>4, <1>6, AudioAssumption DEF Operation, MixUser, TypeOK
<1>10. Takes(t, q)
  BY <1>1, <1>4, AudioAssumption DEF TypeOK, Takes
<1>11. QED
  BY <1>1, <1>3, <1>4, <1>5, <1>6, <1>8, <1>9, <1>10, Quiet DEF Takes

\* A call that goes on with the locks it has.
LEMMA SameLocks ==
  ASSUME TypeOK, Owners, NEW t \in Thread, NEW q \in Calls, call' = [call EXCEPT ![t] = q],
         CallOK(q),
         q.op = call[t].op, q.s = call[t].s, q.p = call[t].p,
         q.at = "sound" <=> call[t].at = "sound",
         UNCHANGED <<mixLock, soundLock, playerLock, event>>
  PROVE  Owners'
<1>1. /\ call'[t] = q /\ \A u \in Thread : u # t => call'[u] = call[u]
  BY OneCall
<1>2. \A u \in Thread : CallOK(call'[u])
  BY <1>1 DEF Owners
<1>3. /\ \A u \in Thread : mixLock' = u <=> call'[u].op \in MixUser
      /\ \A u \in Thread, s \in Sound :
           soundLock'[s] = u <=> call'[u].s = s /\ call'[u].at # "sound"
      /\ \A u \in Thread, p \in Player : playerLock'[p] = u <=> call'[u].p = p
      /\ \A p, r \in Player : playerLock'[p] = r <=> p = r /\ event'[p] = "reset"
  BY <1>1 DEF Owners, MixUser
<1>4. QED
  BY <1>2, <1>3 DEF Owners, MixUser, CallOK, Idle

\* A player that plays is paused and marked, a marked one that is paused plays again.
LEMMA EachPlayerStep ==
  ASSUME IInv, NEW t \in Thread, NEW p \in Player, EachPlayer(t, p)
  PROVE  IInv'
<1>0. TypeOK /\ Owners /\ Alive /\ Listed /\ Owned /\ Flags /\ Heard /\ Follows /\ p # None
  BY AudioAssumption DEF IInv
<1>1. /\ call[t] \in Calls /\ CallOK(call[t]) /\ call[t].op \in {"suspend", "restore"}
      /\ call[t].s = None /\ call[t].p = None /\ mixLock = t /\ t # None
      /\ call[t].todo \subseteq exists /\ (call[t].op = "suspend" <=> paused)
      /\ call[t].at = "each" /\ p \in call[t].todo /\ playerLock[p] = None
  <2>1. call[t].at = "each" /\ p \in call[t].todo /\ playerLock[p] \in {None, t}
    BY DEF EachPlayer, PlayerFree
  <2>2. call[t].p = None
    BY <2>1, EachFacts
  <2>3. playerLock[p] # t
    BY <1>0, <2>2 DEF Owners
  <2>4. QED
    BY <2>1, <2>2, <2>3, EachFacts
<1>2. PICK q : q = [call[t] EXCEPT !.todo = @ \ {p}]
  OBVIOUS
<1>3. /\ call' = [call EXCEPT ![t] = q]
      /\ UNCHANGED <<mixLock, soundLock, playerLock, paused, exists, sound, ready>>
      /\ UNCHANGED <<fPaused, fPlaying, player, deleted, event, refused>>
  <2>1. call' = [call EXCEPT ![t] = q]
    BY <1>0, <1>2 DEF EachPlayer, TypeOK
  <2>2. QED
    BY <2>1 DEF EachPlayer, lockVars, soundVars
<1>4. /\ q \in Calls /\ q.op = call[t].op /\ q.at = "each" /\ q.s = None /\ q.p = None
      /\ q.todo = call[t].todo \ {p} /\ CallOK(q)
  BY <1>1, <1>2 DEF Calls, CallOK
<1>5. /\ call' \in [Thread -> Calls] /\ call'[t] = q
      /\ \A u \in Thread : u # t => call'[u] = call[u]
  BY <1>0, <1>3, <1>4, OneCall
<1>6. PICK st, re :
        /\ state' = [state EXCEPT ![p] = st] /\ resume' = [resume EXCEPT ![p] = re]
        /\ st = (IF call[t].op = "suspend" /\ state[p] = "playing" THEN "paused"
                 ELSE IF call[t].op = "restore" /\ ready[p] /\ state[p] = "paused" /\ resume[p]
                 THEN "playing" ELSE state[p])
        /\ re \in BOOLEAN
        /\ re <=> \/ call[t].op = "suspend" /\ state[p] = "playing"
                  \/ /\ resume[p]
                     /\ ~(call[t].op = "restore" /\ ready[p] /\ state[p] = "paused" /\ resume[p])
  BY DEF EachPlayer
<1>7. /\ state' \in [Player -> {"stopped", "playing", "paused"}] /\ state'[p] = st
      /\ resume' \in [Player -> BOOLEAN] /\ resume'[p] = re
      /\ \A r \in Player : r # p => state'[r] = state[r] /\ resume'[r] = resume[r]
  BY <1>0, <1>6 DEF TypeOK
<1>8. TypeOK'
  BY <1>0, <1>3, <1>5, <1>7 DEF TypeOK
<1>9. Owners'
  BY <1>0, <1>1, <1>3, <1>4, SameLocks
<1>10. Alive'
  BY <1>0, <1>1, <1>3, <1>4, <1>5 DEF Alive
<1>11. Listed'
  <2>1. \A r \in Player \ exists' : state'[r] = "stopped" /\ ~resume'[r] /\ event'[r] = "idle"
    BY <1>0, <1>1, <1>3, <1>7 DEF Listed
  <2>2. \A u \in Thread : call'[u].todo \subseteq exists'
    BY <1>0, <1>1, <1>3, <1>4, <1>5 DEF Listed
  <2>3. \A u \in Thread : call'[u].p # None => ~resume'[call'[u].p]
    <3>1. \A u \in Thread : call[u].p # p
      BY <1>0, <1>1, AudioAssumption DEF Owners
    <3>2. QED
      BY <1>0, <1>1, <1>4, <1>5, <1>7, <3>1 DEF Listed, TypeOK, Calls
  <2>4. \A r \in Player : event'[r] = "reset" => state'[r] = "stopped" /\ ~resume'[r]
    BY <1>0, <1>1, <1>3, <1>7 DEF Listed, Owners
  <2>5. \A r \in Player : /\ state'[r] # "stopped" => ready'[r]
                          /\ ready'[r] => sound'[r] # None
    BY <1>0, <1>3, <1>6, <1>7 DEF Listed
  <2>6. QED
    BY <2>1, <2>2, <2>3, <2>4, <2>5 DEF Listed
<1>12. Owned'
  BY <1>0, <1>1, <1>3, <1>4, <1>5 DEF Owned, OneOwner
<1>13. Flags'
  BY <1>0, <1>1, <1>3, <1>4, <1>5, <1>6, <1>7 DEF Flags, About, Listed
<1>14. Heard'
  BY <1>0, <1>1, <1>3, <1>6, <1>7 DEF Heard
<1>15. Follows'
  BY <1>0, <1>1, <1>3, <1>4, <1>5, <1>6, <1>7 DEF Follows, Awaits
<1>16. QED
  BY <1>8, <1>9, <1>10, <1>11, <1>12, <1>13, <1>14, <1>15 DEF IInv

-----------------------------------------------------------------------------
(* Sounds are paused, stopped and deleted.                                 *)

\* The flags of a sound change at once, its player later if it has one.
LEMMA UseStep ==
  ASSUME IInv, NEW t \in Thread, NEW op \in Operation, NEW s \in Sound, Use(t, op, s)
  PROVE  IInv'
<1>0. /\ TypeOK /\ Owners /\ Alive /\ Listed /\ Owned /\ Flags /\ Heard /\ Follows
      /\ s # None /\ t # None /\ AudioAssumption
  BY AudioAssumption DEF IInv
<1>1. /\ call[t].op = "none" /\ call[t].at = "idle" /\ call[t].s = None /\ call[t].p = None
      /\ call[t] = Idle /\ ~deleted[s]
      /\ \A u \in Thread : call[u].s = s => op # "delete" /\ call[u].op # "delete"
  BY DEF Use, MayCall, Idle
<1>2. soundLock[s] = None
  BY <1>0, <1>1 DEF Use, SoundFree, Owners
<1>3. UNCHANGED <<mixLock, playerLock, paused, exists, state, resume, sound, ready, player,
                  event, refused>>
  BY DEF Use, playerVars
<1>4. PICK pa, pl :
        /\ fPaused' = [fPaused EXCEPT ![s] = pa] /\ fPlaying' = [fPlaying EXCEPT ![s] = pl]
        /\ pa = (IF fPlaying[s] /\ op # "volume" THEN op = "pause" ELSE fPaused[s])
        /\ pl = (fPlaying[s] /\ op \notin {"stop", "delete"})
  BY DEF Use
<1>5. /\ fPaused' \in [Sound -> BOOLEAN] /\ fPlaying' \in [Sound -> BOOLEAN]
      /\ \A x \in Sound : x # s => (fPaused'[x] <=> fPaused[x]) /\ (fPlaying'[x] <=> fPlaying[x])
      /\ fPlaying'[s] <=> fPlaying[s] /\ op \notin {"stop", "delete"}
      /\ op = "volume" \/ ~fPlaying[s] => (fPaused'[s] <=> fPaused[s])
      /\ op # "volume" /\ fPlaying[s] => (fPaused'[s] <=> op = "pause")
  <2>1. pa \in BOOLEAN /\ pl \in BOOLEAN
    BY <1>0, <1>4 DEF TypeOK
  <2>2. /\ fPaused' \in [Sound -> BOOLEAN] /\ fPlaying' \in [Sound -> BOOLEAN]
        /\ \A x \in Sound : x # s => fPaused'[x] = fPaused[x] /\ fPlaying'[x] = fPlaying[x]
        /\ fPaused'[s] = pa /\ fPlaying'[s] = pl
    BY <1>0, <1>4, <2>1 DEF TypeOK
  <2>3. QED
    BY <1>4, <2>2
<1>6. Heard'
  <2>1. \A p \in Player : ready[p] => sound[p] \in Sound
    BY <1>0 DEF Listed, TypeOK
  <2>2. \A x \in Sound : fPlaying'[x] => fPlaying[x] /\ (fPaused[x] => fPaused'[x])
    BY <1>5 DEF Operation
  <2>3. QED
    BY <1>0, <1>3, <2>1, <2>2 DEF Heard
<1>7. CASE player[s] # None /\ (op = "volume" \/ fPlaying[s])
  <2>1. PICK q : q = [Idle EXCEPT !.op = op, !.s = s, !.at = "player"]
    OBVIOUS
  <2>2. /\ call' = [call EXCEPT ![t] = q] /\ soundLock' = [soundLock EXCEPT ![s] = t]
        /\ deleted' = deleted
    BY <1>7, <2>1 DEF Use, Enter
  <2>3. /\ q \in Calls /\ q.op = op /\ q.at = "player" /\ q.s = s /\ q.p = None /\ q.todo = {}
    BY <2>1 DEF Idle, Calls
  <2>4. CallOK(q)
    BY <1>0, <2>3 DEF CallOK, Playing, Operation
  <2>5. /\ call' \in [Thread -> Calls] /\ call'[t] = q
        /\ \A u \in Thread : u # t => call'[u] = call[u]
    BY <1>0, <2>2, <2>3, OneCall
  <2>6. /\ soundLock' \in [Sound -> Thread \cup {None}] /\ soundLock'[s] = t
        /\ \A x \in Sound : x # s => soundLock'[x] = soundLock[x]
    BY <1>0, <2>2 DEF TypeOK
  <2>7. TypeOK'
    BY <1>0, <1>3, <1>5, <2>2, <2>5, <2>6 DEF TypeOK
  <2>8. Owners'
    <3>1. \A u \in Thread : CallOK(call'[u])
      BY <1>0, <2>4, <2>5 DEF Owners
    <3>2. \A u \in Thread : mixLock' = u <=> call'[u].op \in MixUser
      BY <1>0, <1>1, <1>3, <2>3, <2>5 DEF Owners, MixUser, Operation
    <3>3. \A u \in Thread, x \in Sound :
            soundLock'[x] = u <=> call'[u].s = x /\ call'[u].at # "sound"
      BY <1>0, <1>1, <1>2, <2>3, <2>5, <2>6 DEF Owners, AudioAssumption
    <3>4. \A u \in Thread, p \in Player : playerLock'[p] = u <=> call'[u].p = p
      BY <1>0, <1>1, <1>3, <2>3, <2>5 DEF Owners
    <3>5. \A p, r \in Player : playerLock'[p] = r <=> p = r /\ event'[p] = "reset"
      BY <1>0, <1>3 DEF Owners
    <3>6. QED
      BY <3>1, <3>2, <3>3, <3>4, <3>5 DEF Owners, MixUser, CallOK, Idle
  <2>9. Alive'
    BY <1>0, <1>1, <2>2, <2>3, <2>5 DEF Alive
  <2>10. Listed'
    BY <1>0, <1>3, <2>3, <2>5 DEF Listed
  <2>11. Owned'
    BY <1>0, <1>3, <1>5, <1>7, <2>3, <2>5 DEF Owned, OneOwner
  <2>12. Flags'
    <3>1. \A u \in Thread : u # t /\ call[u].op \in {"pause", "stop", "delete"} =>
            call[u].s \in Sound \ {s}
      <4> SUFFICES ASSUME NEW u \in Thread, u # t, call[u].op \in {"pause", "stop", "delete"}
                   PROVE  call[u].s \in Sound \ {s}
        OBVIOUS
      <4>1. CallOK(call[u]) /\ call[u] \in Calls
        BY <1>0 DEF Owners, TypeOK
      <4>2. call[u].at = "player" /\ call[u].s # None /\ call[u].s \in Sound
        BY <4>1 DEF CallOK, Calls, Operation
      <4>3. call[u].s # s
        BY <1>0, <1>2, <4>2 DEF Owners, AudioAssumption
      <4>4. QED
        BY <4>2, <4>3
    <3>2. ASSUME NEW x \in Sound, x # s, NEW ops, About(x, ops) PROVE About(x, ops)'
      <4>1. soundLock[x] \in Thread /\ soundLock[x] # t
        BY <1>0, <1>1, <3>2 DEF About, Owners, TypeOK, AudioAssumption
      <4>2. QED
        BY <2>5, <2>6, <3>2, <4>1 DEF About
    <3>3. \A ops : ~About(s, ops) /\ (About(s, ops)' <=> op \in ops)
      BY <1>0, <1>2, <2>3, <2>5, <2>6 DEF About
    <3>4. \A p \in Player : state[p] # "stopped" \/ ready[p] => sound[p] \in Sound
      BY <1>0 DEF Listed, TypeOK
    <3>5. \A u \in Thread :
            /\ call'[u].op \in {"stop", "delete"} => ~fPlaying'[call'[u].s]
            /\ call'[u].op = "pause" => fPlaying'[call'[u].s] /\ fPaused'[call'[u].s]
      BY <1>0, <1>5, <1>7, <2>3, <2>5, <3>1 DEF Flags
    <3>6. ASSUME NEW p \in Player, NEW x, x = sound[p], state[p] # "stopped"
          PROVE  ~deleted[x] /\ (fPlaying'[x] \/ About(x, {"stop", "delete"})')
      <4>1. x \in Sound /\ ~deleted[x] /\ (fPlaying[x] \/ About(x, {"stop", "delete"}))
        BY <1>0, <3>6, <3>4 DEF Flags
      <4>2. CASE x = s
        BY <1>5, <3>3, <4>1, <4>2
      <4>3. CASE x # s
        BY <1>5, <3>2, <4>1, <4>3
      <4>4. QED
        BY <4>1, <4>2, <4>3
    <3>7. ASSUME NEW p \in Player, NEW x, x = sound[p],
                 state[p] = "playing" \/ (ready[p] /\ resume[p])
          PROVE  (fPlaying'[x] /\ ~fPaused'[x]) \/ About(x, {"stop", "delete", "pause"})'
      <4>1. /\ x \in Sound
            /\ (fPlaying[x] /\ ~fPaused[x]) \/ About(x, {"stop", "delete", "pause"})
        BY <1>0, <3>7, <3>4 DEF Flags
      <4>2. CASE x = s
        BY <1>5, <3>3, <4>1, <4>2 DEF Operation
      <4>3. CASE x # s
        BY <1>5, <3>2, <4>1, <4>3
      <4>4. QED
        BY <4>2, <4>3
    <3>8. QED
      BY <1>3, <2>2, <3>5, <3>6, <3>7 DEF Flags, About
  <2>13. Follows'
    <3>1. mixLock # t
      BY <1>0, <1>1 DEF Owners
    <3>2. mixLock # None => call'[mixLock] = call[mixLock]
      BY <1>0, <2>5, <3>1 DEF TypeOK
    <3>3. \A u \in Thread : call'[u].op \in {"suspend", "restore"} =>
            (call'[u].op = "suspend" <=> paused)
      BY <1>0, <2>3, <2>5 DEF Follows, Operation
    <3>4. QED
      BY <1>0, <1>3, <3>2, <3>3 DEF Follows, Awaits
  <2>14. QED
    BY <1>6, <2>7, <2>8, <2>9, <2>10, <2>11, <2>12, <2>13 DEF IInv
<1>8. CASE ~(player[s] # None /\ (op = "volume" \/ fPlaying[s]))
  <2>1. /\ call' = call /\ soundLock' = soundLock
        /\ deleted' = [deleted EXCEPT ![s] = op = "delete"]
    BY <1>8 DEF Use
  <2>2. /\ deleted' \in [Sound -> BOOLEAN] /\ (deleted'[s] <=> op = "delete")
        /\ \A x \in Sound : x # s => deleted'[x] = deleted[x]
    BY <1>0, <2>1 DEF TypeOK
  <2>3. ~fPlaying[s] \/ op = "volume"
    BY <1>0, <1>8 DEF Owned
  <2>4. (fPlaying'[s] <=> fPlaying[s]) /\ (fPaused'[s] <=> fPaused[s])
    BY <1>0, <1>5, <2>3 DEF TypeOK
  <2>5. TypeOK'
    BY <1>0, <1>3, <1>5, <2>1, <2>2 DEF TypeOK
  <2>6. Owners' /\ Listed'
    <3>1. \A u \in Thread : CallOK(call'[u])
      BY <1>0, <2>1 DEF Owners
    <3>2. /\ \A u \in Thread : mixLock' = u <=> call'[u].op \in MixUser
          /\ \A u \in Thread, x \in Sound :
               soundLock'[x] = u <=> call'[u].s = x /\ call'[u].at # "sound"
          /\ \A u \in Thread, p \in Player : playerLock'[p] = u <=> call'[u].p = p
          /\ \A p, r \in Player : playerLock'[p] = r <=> p = r /\ event'[p] = "reset"
      BY <1>0, <1>3, <2>1 DEF Owners, MixUser
    <3>3. Owners'
      BY <3>1, <3>2 DEF Owners, MixUser, CallOK, Idle
    <3>4. Listed'
      BY <1>0, <1>3, <2>1 DEF Listed
    <3>5. QED
      BY <3>3, <3>4
  <2>7. Alive'
    BY <1>0, <1>1, <2>1, <2>2 DEF Alive, TypeOK, Calls
  <2>8. Owned' /\ Follows'
    BY <1>0, <1>3, <1>5, <2>1, <2>4 DEF Owned, OneOwner, Follows, Awaits
  <2>9. Flags'
    <3>1. \A x \in Sound : (fPlaying'[x] <=> fPlaying[x]) /\ (fPaused'[x] <=> fPaused[x])
      BY <1>5, <2>4
    <3>2. ~About(s, {"stop", "delete"})
      BY <1>2 DEF About
    <3>3. ASSUME NEW p \in Player, state[p] # "stopped"
          PROVE  sound[p] \in Sound /\ ~deleted'[sound[p]]
      BY <1>0, <2>2, <2>3, <3>2, <3>3, AudioAssumption DEF Flags, Listed, TypeOK
    <3>4. \A p \in Player : state[p] = "playing" \/ (ready[p] /\ resume[p]) => sound[p] \in Sound
      BY <1>0 DEF Listed, TypeOK
    <3>5. \A u \in Thread : call[u].op \in {"pause", "stop", "delete"} => call[u].s \in Sound
      BY <1>0 DEF Owners, CallOK, TypeOK, Calls, Operation
    <3>6. QED
      BY <1>0, <1>3, <2>1, <3>1, <3>3, <3>4, <3>5 DEF Flags, About
  <2>10. QED
    BY <1>6, <2>5, <2>6, <2>7, <2>8, <2>9 DEF IInv
<1>9. QED
  BY <1>7, <1>8

\* A call that returns gives back all it has.
LEMMA Returns ==
  ASSUME TypeOK, Owners, NEW t \in Thread, call' = [call EXCEPT ![t] = Idle], UNCHANGED event,
         mixLock' = IF mixLock = t THEN None ELSE mixLock,
         \A s \in Sound : soundLock'[s] = IF soundLock[s] = t THEN None ELSE soundLock[s],
         \A p \in Player : playerLock'[p] = IF playerLock[p] = t THEN None ELSE playerLock[p]
  PROVE  /\ Owners' /\ call' \in [Thread -> Calls] /\ call'[t] = Idle
         /\ \A u \in Thread : u # t => call'[u] = call[u]
<1>1. /\ Idle \in Calls /\ CallOK(Idle) /\ Idle.op = "none" /\ Idle.at = "idle" /\ Idle.s = None
      /\ Idle.p = None /\ Idle.todo = {}
  BY AudioAssumption DEF Idle, Calls, CallOK, Playing, Operation
<1>2. /\ call' \in [Thread -> Calls] /\ call'[t] = Idle
      /\ \A u \in Thread : u # t => call'[u] = call[u]
  BY <1>1, OneCall
<1>3. \A u \in Thread : CallOK(call'[u])
  BY <1>1, <1>2 DEF Owners
<1>4. \A u \in Thread : mixLock' = u <=> call'[u].op \in MixUser
  BY <1>1, <1>2, AudioAssumption DEF Owners, MixUser
<1>5. \A u \in Thread, x \in Sound : soundLock'[x] = u <=> call'[u].s = x /\ call'[u].at # "sound"
  BY <1>1, <1>2, AudioAssumption DEF Owners
<1>6. \A u \in Thread, p \in Player : playerLock'[p] = u <=> call'[u].p = p
  BY <1>1, <1>2, AudioAssumption DEF Owners
<1>7. \A p, r \in Player : playerLock'[p] = r <=> p = r /\ event'[p] = "reset"
  BY AudioAssumption DEF Owners
<1>8. QED
  BY <1>2, <1>3, <1>4, <1>5, <1>6, <1>7 DEF Owners, MixUser, CallOK, Idle

\* The player of the sound follows the flags, if it still has the sound.
LEMMA UsePlayerStep ==
  ASSUME IInv, NEW t \in Thread, UsePlayer(t)
  PROVE  IInv'
<1>0. /\ TypeOK /\ Owners /\ Alive /\ Listed /\ Owned /\ Flags /\ Heard /\ Follows
      /\ t # None /\ AudioAssumption
  BY AudioAssumption DEF IInv
<1>1. PICK s, p, op : s = call[t].s /\ p = player[s] /\ op = call[t].op
  OBVIOUS
<1>2. call[t].at = "player" /\ call[t] \in Calls /\ CallOK(call[t])
  BY <1>0 DEF UsePlayer, TypeOK, Owners
<1>3. /\ s \in Sound /\ s # None /\ call[t].p = None /\ op \in Operation /\ soundLock[s] = t
  BY <1>0, <1>1, <1>2 DEF CallOK, Calls, Playing, Owners
<1>4. /\ p \in Player /\ playerLock[p] = None /\ ~deleted[s]
      /\ \A r \in Player : sound[r] = s => r = p
      /\ \A x \in Sound : x # s => soundLock[x] # t
      /\ \A r \in Player : playerLock[r] # t
      /\ mixLock # t
      /\ \A r \in Player : state[r] # "stopped" \/ ready[r] => sound[r] \in Sound
  <2>1. p \in Player
    BY <1>0, <1>1, <1>2, <1>3 DEF Owned, TypeOK
  <2>2. \A r \in Player : playerLock[r] # t
    BY <1>0, <1>3, AudioAssumption DEF Owners
  <2>3. playerLock[p] = None
    BY <1>1, <2>1, <2>2 DEF UsePlayer, PlayerFree
  <2>4. mixLock # t
    BY <1>0, <1>1, <1>3 DEF Owners, Operation
  <2>5. \A x \in Sound : x # s => soundLock[x] # t
    BY <1>0, <1>1 DEF Owners
  <2>6. ~deleted[s] /\ \A r \in Player : sound[r] = s => r = p
    BY <1>0, <1>1, <1>3 DEF Alive, Owned, OneOwner
  <2>7. \A r \in Player : state[r] # "stopped" \/ ready[r] => sound[r] \in Sound
    BY <1>0 DEF Listed, TypeOK
  <2>8. QED
    BY <2>1, <2>2, <2>3, <2>4, <2>5, <2>6, <2>7
<1>5. /\ UNCHANGED <<mixLock, playerLock, paused, exists, sound, ready, fPlaying, player,
                     event, refused>>
      /\ soundLock' = [soundLock EXCEPT ![s] = None] /\ call' = [call EXCEPT ![t] = Idle]
      /\ deleted' = [deleted EXCEPT ![s] = op = "delete"]
  BY <1>1 DEF UsePlayer, Return
<1>6. /\ soundLock' \in [Sound -> Thread \cup {None}] /\ soundLock'[s] = None
      /\ deleted' \in [Sound -> BOOLEAN] /\ (deleted'[s] <=> op = "delete")
      /\ \A x \in Sound : x # s => soundLock'[x] = soundLock[x] /\ (deleted'[x] <=> deleted[x])
  BY <1>0, <1>3, <1>5 DEF TypeOK
<1>7. /\ Owners' /\ call' \in [Thread -> Calls] /\ call'[t] = Idle
      /\ \A u \in Thread : u # t => call'[u] = call[u]
  <2>1. \A x \in Sound : soundLock'[x] = IF soundLock[x] = t THEN None ELSE soundLock[x]
    BY <1>3, <1>4, <1>6
  <2>2. \A r \in Player : playerLock'[r] = IF playerLock[r] = t THEN None ELSE playerLock[r]
    BY <1>4, <1>5
  <2>3. mixLock' = IF mixLock = t THEN None ELSE mixLock
    BY <1>4, <1>5
  <2>4. QED
    BY <1>0, <1>5, <2>1, <2>2, <2>3, Returns
<1>8. Idle.op = "none" /\ Idle.at = "idle" /\ Idle.s = None /\ Idle.p = None /\ Idle.todo = {}
  BY DEF Idle
<1>9. PICK st, re, pa :
        /\ state' = [state EXCEPT ![p] = st] /\ resume' = [resume EXCEPT ![p] = re]
        /\ fPaused' = [fPaused EXCEPT ![s] = pa]
        /\ \/ /\ op = "pause" /\ re = FALSE /\ pa = fPaused[s]
              /\ st = IF ready[p] /\ state[p] = "playing" THEN "paused" ELSE state[p]
           \/ /\ op \in {"stop", "delete"} /\ sound[p] = s
              /\ st = "stopped" /\ re = FALSE /\ pa = FALSE
           \/ /\ op = "volume" \/ (op \in {"stop", "delete"} /\ sound[p] # s)
              /\ st = state[p] /\ re = resume[p] /\ pa = fPaused[s]
  <2>1. /\ state = [state EXCEPT ![p] = state[p]] /\ resume = [resume EXCEPT ![p] = resume[p]]
        /\ fPaused = [fPaused EXCEPT ![s] = fPaused[s]]
    BY <1>0 DEF TypeOK
  <2>2. \/ /\ op = "pause" /\ resume' = [resume EXCEPT ![p] = FALSE]
           /\ state' = [state EXCEPT ![p] =
                          IF ready[p] /\ state[p] = "playing" THEN "paused" ELSE state[p]]
           /\ fPaused' = fPaused
        \/ /\ op \in {"stop", "delete"} /\ sound[p] = s
           /\ state' = [state EXCEPT ![p] = "stopped"]
           /\ resume' = [resume EXCEPT ![p] = FALSE]
           /\ fPaused' = [fPaused EXCEPT ![s] = FALSE]
        \/ /\ op = "volume" \/ (op \in {"stop", "delete"} /\ sound[p] # s)
           /\ state' = state /\ resume' = resume /\ fPaused' = fPaused
    BY <1>1, <1>3 DEF UsePlayer, Operation
  <2>3. QED
    BY <2>1, <2>2
<1>10. /\ re \in BOOLEAN /\ pa \in BOOLEAN /\ st \in {"stopped", "playing", "paused"}
  BY <1>0, <1>3, <1>4, <1>9 DEF TypeOK
<1>11. /\ state' \in [Player -> {"stopped", "playing", "paused"}] /\ state'[p] = st
       /\ resume' \in [Player -> BOOLEAN] /\ (resume'[p] <=> re)
       /\ fPaused' \in [Sound -> BOOLEAN] /\ (fPaused'[s] <=> pa)
       /\ \A r \in Player : r # p => state'[r] = state[r] /\ (resume'[r] <=> resume[r])
       /\ \A x \in Sound : x # s => (fPaused'[x] <=> fPaused[x])
  BY <1>0, <1>3, <1>4, <1>9, <1>10 DEF TypeOK
<1>12. /\ op \in {"stop", "delete"} => ~fPlaying[s]
       /\ op = "pause" => fPlaying[s] /\ fPaused[s]
  BY <1>0, <1>1 DEF Flags
<1>13. TypeOK'
  BY <1>0, <1>5, <1>6, <1>7, <1>11 DEF TypeOK
<1>14. Alive'
  <2>1. ASSUME NEW u \in Thread, call'[u].s # None PROVE ~deleted'[call'[u].s]
    <3>1. u # t /\ call'[u] = call[u] /\ call[u].s \in Sound
      BY <1>0, <1>7, <1>8, <2>1 DEF TypeOK, Calls
    <3>2. call[u].s = s => op # "delete"
      BY <1>0, <1>1, <3>1 DEF Alive
    <3>3. QED
      BY <1>0, <1>4, <1>6, <2>1, <3>1, <3>2 DEF Alive
  <2>2. ASSUME NEW u \in Thread, NEW v \in Thread, call'[u].op = "delete", call'[v].s = call'[u].s
        PROVE  v = u
    <3>1. u # t /\ call'[u] = call[u] /\ CallOK(call[u])
      BY <1>0, <1>7, <1>8, <2>2 DEF Owners
    <3>2. call[u].s # None
      BY <2>2, <3>1 DEF CallOK, Operation
    <3>3. QED
      BY <1>0, <1>7, <1>8, <2>2, <3>1, <3>2 DEF Alive
  <2>3. QED
    BY <2>1, <2>2 DEF Alive
<1>15. Listed'
  <2>1. state'[p] # "stopped" => state[p] # "stopped"
    BY <1>9, <1>11
  <2>2. resume'[p] => resume[p]
    BY <1>9, <1>11
  <2>3. \A r \in Player : /\ state'[r] # "stopped" => state[r] # "stopped"
                          /\ resume'[r] => resume[r]
    BY <1>11, <2>1, <2>2
  <2>4. \A u \in Thread : call'[u].todo \subseteq exists
    BY <1>0, <1>7, <1>8 DEF Listed
  <2>5. \A u \in Thread : call'[u].p # None => ~resume'[call'[u].p]
    BY <1>0, <1>7, <1>8, <2>3 DEF Listed, TypeOK, Calls
  <2>6. QED
    BY <1>0, <1>5, <2>3, <2>4, <2>5 DEF Listed
<1>16. Owned'
  BY <1>0, <1>5, <1>7, <1>8 DEF Owned, OneOwner
<1>17. Flags'
  <2>1. ASSUME NEW x \in Sound, x # s, NEW ops, About(x, ops) PROVE About(x, ops)'
    <3>1. soundLock[x] \in Thread /\ soundLock[x] # t
      BY <1>0, <1>4, <2>1 DEF About, TypeOK
    <3>2. QED
      BY <1>6, <1>7, <2>1, <3>1 DEF About
  <2>2. \A ops : About(s, ops) <=> op \in ops
    BY <1>0, <1>1, <1>3 DEF About
  <2>3. \A u \in Thread :
          /\ call'[u].op \in {"stop", "delete"} => ~fPlaying[call'[u].s]
          /\ call'[u].op = "pause" => fPlaying[call'[u].s] /\ fPaused'[call'[u].s]
    <3> SUFFICES ASSUME NEW u \in Thread, u # t, call[u].op \in {"stop", "delete", "pause"}
                 PROVE  /\ call[u].op \in {"stop", "delete"} => ~fPlaying[call[u].s]
                        /\ call[u].op = "pause" => fPlaying[call[u].s] /\ fPaused'[call[u].s]
      BY <1>7, <1>8
    <3>1. CallOK(call[u]) /\ call[u] \in Calls
      BY <1>0 DEF Owners, TypeOK
    <3>2. call[u].at = "player" /\ call[u].s \in Sound
      BY <3>1 DEF CallOK, Calls, Operation
    <3>3. call[u].s # s
      BY <1>0, <1>3, <3>2 DEF Owners
    <3>4. QED
      BY <1>0, <1>11, <3>2, <3>3 DEF Flags
  <2>4. ASSUME NEW r \in Player, NEW x, x = sound[r], state'[r] # "stopped"
        PROVE  ~deleted'[x] /\ (fPlaying[x] \/ About(x, {"stop", "delete"})')
    <3>1. state[r] # "stopped"
      BY <1>9, <1>11, <2>4
    <3>2. x \in Sound /\ ~deleted[x] /\ (fPlaying[x] \/ About(x, {"stop", "delete"}))
      BY <1>0, <1>4, <2>4, <3>1 DEF Flags
    <3>3. CASE x # s
      BY <1>6, <2>1, <3>2, <3>3
    <3>4. CASE x = s
      <4>1. r = p /\ sound[p] = s
        BY <1>4, <2>4, <3>4
      <4>2. op \notin {"stop", "delete"}
        BY <1>9, <1>11, <2>4, <4>1
      <4>3. QED
        BY <1>6, <2>2, <3>2, <3>4, <4>2
    <3>5. QED
      BY <3>3, <3>4
  <2>5. ASSUME NEW r \in Player, NEW x, x = sound[r],
               state'[r] = "playing" \/ (ready[r] /\ resume'[r])
        PROVE  (fPlaying[x] /\ ~fPaused'[x]) \/ About(x, {"stop", "delete", "pause"})'
    <3>1. state[r] = "playing" \/ (ready[r] /\ resume[r])
      BY <1>9, <1>11, <2>5
    <3>2. x \in Sound /\ ((fPlaying[x] /\ ~fPaused[x]) \/ About(x, {"stop", "delete", "pause"}))
      BY <1>0, <1>4, <2>5, <3>1 DEF Flags
    <3>3. CASE x # s
      BY <1>11, <2>1, <3>2, <3>3
    <3>4. CASE x = s
      <4>1. r = p /\ sound[p] = s
        BY <1>4, <2>5, <3>4
      <4>2. op \notin {"stop", "delete"}
        BY <1>9, <1>11, <2>5, <4>1
      <4>3. op # "pause"
        BY <1>0, <1>9, <1>11, <2>5, <4>1 DEF Listed
      <4>4. pa = fPaused[s] /\ fPlaying[x] /\ ~fPaused[x]
        BY <1>9, <2>2, <3>2, <3>4, <4>2, <4>3
      <4>5. QED
        BY <1>11, <3>4, <4>4
    <3>5. QED
      BY <3>3, <3>4
  <2>6. QED
    BY <1>5, <2>3, <2>4, <2>5 DEF Flags, About
<1>18. Heard'
  <2> SUFFICES ASSUME ~refused
               PROVE  \A r \in Player : ready[r] /\ state'[r] = "stopped" =>
                         \/ resume'[r] \/ ~fPlaying[sound[r]] \/ fPaused'[sound[r]]
                         \/ playerLock[r] # None
    BY <1>0, <1>5 DEF Heard
  <2>1. ASSUME NEW r \in Player, r # p, ready[r], state'[r] = "stopped"
        PROVE  \/ resume'[r] \/ ~fPlaying[sound[r]] \/ fPaused'[sound[r]]
               \/ playerLock[r] # None
    <3>1. sound[r] \in Sound \ {s}
      BY <1>4, <2>1
    <3>2. QED
      BY <1>0, <1>11, <2>1, <3>1 DEF Heard
  <2>2. ASSUME ready[p], state'[p] = "stopped"
        PROVE  \/ resume'[p] \/ ~fPlaying[sound[p]] \/ fPaused'[sound[p]]
               \/ playerLock[p] # None
    <3>1. CASE op = "pause"
      <4>1. sound[p] = s
        BY <1>0, <1>1, <1>3, <1>12, <3>1 DEF Heard
      <4>2. fPaused'[s]
        BY <1>9, <1>11, <1>12, <3>1
      <4>3. QED
        BY <4>1, <4>2
    <3>2. CASE op \in {"stop", "delete"} /\ sound[p] = s
      BY <1>12, <3>2
    <3>3. CASE op = "volume" \/ (op \in {"stop", "delete"} /\ sound[p] # s)
      <4>1. /\ state'[p] = state[p] /\ (resume'[p] <=> resume[p])
            /\ \A x \in Sound : fPaused'[x] <=> fPaused[x]
        BY <1>9, <1>11, <3>3
      <4>2. sound[p] \in Sound
        BY <1>4, <2>2
      <4>3. QED
        BY <1>0, <1>4, <2>2, <4>1, <4>2 DEF Heard
    <3>4. QED
      BY <1>3, <3>1, <3>2, <3>3 DEF Operation
  <2>3. QED
    BY <2>1, <2>2
<1>19. Follows'
  <2>1. mixLock # None => call'[mixLock] = call[mixLock]
    BY <1>0, <1>4, <1>7 DEF TypeOK
  <2>2. \A u \in Thread : call'[u].op \in {"suspend", "restore"} =>
          (call'[u].op = "suspend" <=> paused)
    BY <1>0, <1>7, <1>8 DEF Follows
  <2>3. \A r \in Player : state'[r] = "playing" => state[r] = "playing"
    BY <1>9, <1>11
  <2>4. \A r \in Player : state'[r] = "paused" /\ resume'[r] => state[r] = "paused" /\ resume[r]
    BY <1>9, <1>11
  <2>5. QED
    BY <1>0, <1>5, <2>1, <2>2, <2>3, <2>4 DEF Follows, Awaits
<1>20. QED
  BY <1>7, <1>13, <1>14, <1>15, <1>16, <1>17, <1>18, <1>19 DEF IInv

-----------------------------------------------------------------------------
(* A sound starts on its player.                                           *)

\* A thread that has the sound's lock has it alone: nobody is about to use its player.
LEMMA LockedFacts ==
  ASSUME IInv, NEW t \in Thread, NEW s, s = call[t].s,
         call[t].op = "play", call[t].at # "sound"
  PROVE  /\ s \in Sound /\ ~deleted[s] /\ soundLock[s] = t /\ mixLock = t /\ t # None
         /\ \A u \in Thread : u # t => call[u].op # "play"
         /\ \A u \in Thread : call[u].op \in Operation => u # t /\ call[u].s \in Sound \ {s}
         /\ \A x \in Sound : x # s => soundLock[x] # t
         /\ \A r \in Player : r # call[t].p => playerLock[r] # t
         /\ \A u \in Thread : call[u].op \notin {"suspend", "restore"}
         /\ InStep
<1>0. TypeOK /\ Owners
  BY DEF IInv
<1>1. s \in Sound /\ ~deleted[s] /\ mixLock = t /\ InStep /\ t # None
  BY PlayFacts
<1>2. soundLock[s] = t /\ \A x \in Sound : x # s => soundLock[x] # t
  BY <1>0, <1>1 DEF Owners
<1>3. \A u \in Thread : u # t => call[u].op \notin {"play", "suspend", "restore"}
  BY <1>0, <1>1 DEF Owners
<1>4. ASSUME NEW u \in Thread, call[u].op \in Operation PROVE u # t /\ call[u].s \in Sound \ {s}
  <2>1. CallOK(call[u]) /\ call[u] \in Calls /\ u # t
    BY <1>0, <1>4 DEF Owners, TypeOK, Operation
  <2>2. call[u].at = "player" /\ call[u].s \in Sound
    BY <1>4, <2>1 DEF CallOK, Calls
  <2>3. call[u].s # s
    BY <1>0, <1>2, <2>1, <2>2 DEF Owners
  <2>4. QED
    BY <2>1, <2>2, <2>3
<1>5. \A r \in Player : r # call[t].p => playerLock[r] # t
  BY <1>0 DEF Owners
<1>6. QED
  BY <1>1, <1>2, <1>3, <1>4, <1>5

\* Who is about to use a sound's player stays so while another sound's lock is given back.
LEMMA AboutStays ==
  ASSUME TypeOK, NEW t \in Thread, NEW x \in Sound, soundLock[x] # t,
         soundLock'[x] = soundLock[x],
         \A u \in Thread : u # t => call'[u] = call[u], NEW ops, About(x, ops)
  PROVE  About(x, ops)'
BY DEF About, TypeOK

\* A sound starts again on the player that still has it.
LEMMA PlayOwnStep ==
  ASSUME IInv, NEW t \in Thread, PlayOwn(t)
  PROVE  IInv'
<1>0. /\ TypeOK /\ Owners /\ Alive /\ Listed /\ Owned /\ Flags /\ Heard /\ Follows
      /\ AudioAssumption
  BY AudioAssumption DEF IInv
<1>1. PICK s, p : s = call[t].s /\ p = player[s]
  OBVIOUS
<1>2. call[t].op = "play" /\ call[t].at = "own" /\ sound[p] = s
  BY <1>1 DEF PlayOwn, At
<1>3. /\ s \in Sound /\ ~deleted[s] /\ soundLock[s] = t /\ mixLock = t /\ t # None
      /\ \A u \in Thread : call[u].op \in Operation => u # t /\ call[u].s \in Sound \ {s}
      /\ \A x \in Sound : x # s => soundLock[x] # t
      /\ \A u \in Thread : call[u].op \notin {"suspend", "restore"}
      /\ \A u \in Thread : u # t => call[u].op # "play"
      /\ InStep
  BY <1>1, <1>2, LockedFacts
<1>4. call[t].p = None /\ p \in Player
  BY <1>0, <1>1, <1>2, <1>3 DEF Owners, CallOK, Owned, TypeOK
<1>5. /\ playerLock[p] = None /\ p \in exists /\ \A r \in Player : playerLock[r] # t
      /\ \A r \in Player : r # p => sound[r] # s
      /\ \A r \in Player : state[r] # "stopped" \/ ready[r] => sound[r] \in Sound
  <2>1. \A r \in Player : playerLock[r] # t
    BY <1>0, <1>4 DEF Owners, AudioAssumption
  <2>2. playerLock[p] = None
    BY <1>1, <1>4, <2>1 DEF PlayOwn, PlayerFree
  <2>3. p \in exists /\ \A r \in Player : r # p => sound[r] # s
    BY <1>0, <1>1, <1>2, <1>3, <1>4 DEF TypeOK, Owned, OneOwner, AudioAssumption
  <2>4. QED
    BY <1>0, <2>1, <2>2, <2>3 DEF Listed, TypeOK
<1>6. /\ UNCHANGED <<paused, exists, sound, ready, player, deleted, event, refused>>
      /\ soundLock' = [soundLock EXCEPT ![s] = None] /\ mixLock' = None
      /\ call' = [call EXCEPT ![t] = Idle]
      /\ fPaused' = [fPaused EXCEPT ![s] = FALSE] /\ fPlaying' = [fPlaying EXCEPT ![s] = TRUE]
  BY <1>1 DEF PlayOwn, StartOn, Return
<1>7. /\ playerLock' \in [Player -> Thread \cup Player \cup {None}]
      /\ \A r \in Player : playerLock'[r] = playerLock[r]
  <2>1. playerLock' = playerLock \/ playerLock' = [playerLock EXCEPT ![p] = None]
    BY <1>1 DEF PlayOwn, StartOn
  <2>2. QED
    BY <1>0, <1>4, <1>5, <2>1 DEF TypeOK
<1>8. PICK st, re :
        /\ state' = [state EXCEPT ![p] = st] /\ resume' = [resume EXCEPT ![p] = re]
        /\ \/ state[p] = "playing" /\ st = state[p] /\ re = resume[p]
           \/ state[p] # "playing" /\ paused /\ st = state[p] /\ re = TRUE
           \/ /\ state[p] # "playing" /\ ~paused /\ re = resume[p]
              /\ st = IF ready[p] THEN "playing" ELSE state[p]
  <2>1. state = [state EXCEPT ![p] = state[p]] /\ resume = [resume EXCEPT ![p] = resume[p]]
    BY <1>0 DEF TypeOK
  <2>2. \/ state[p] = "playing" /\ state' = state /\ resume' = resume
        \/ /\ state[p] # "playing" /\ paused
           /\ state' = [state EXCEPT ![p] = state[p]] /\ resume' = [resume EXCEPT ![p] = TRUE]
        \/ /\ state[p] # "playing" /\ ~paused /\ resume' = resume
           /\ state' = [state EXCEPT ![p] = IF ready[p] THEN "playing" ELSE state[p]]
    BY <1>1, <1>6 DEF PlayOwn, StartOn
  <2>3. QED
    BY <2>1, <2>2
<1>9. re \in BOOLEAN /\ st \in {"stopped", "playing", "paused"}
  BY <1>0, <1>4, <1>8 DEF TypeOK
<1>10. /\ state' \in [Player -> {"stopped", "playing", "paused"}] /\ state'[p] = st
       /\ resume' \in [Player -> BOOLEAN] /\ (resume'[p] <=> re)
       /\ \A r \in Player : r # p => state'[r] = state[r] /\ (resume'[r] <=> resume[r])
  BY <1>0, <1>4, <1>8, <1>9 DEF TypeOK
<1>11. /\ fPaused' \in [Sound -> BOOLEAN] /\ ~fPaused'[s]
       /\ fPlaying' \in [Sound -> BOOLEAN] /\ fPlaying'[s]
       /\ \A x \in Sound : x # s => (fPaused'[x] <=> fPaused[x]) /\ (fPlaying'[x] <=> fPlaying[x])
       /\ soundLock' \in [Sound -> Thread \cup {None}] /\ soundLock'[s] = None
       /\ \A x \in Sound : x # s => soundLock'[x] = soundLock[x]
  BY <1>0, <1>3, <1>6 DEF TypeOK
<1>12. /\ Owners' /\ call' \in [Thread -> Calls] /\ call'[t] = Idle
       /\ \A u \in Thread : u # t => call'[u] = call[u]
  <2>1. \A x \in Sound : soundLock'[x] = IF soundLock[x] = t THEN None ELSE soundLock[x]
    BY <1>3, <1>11
  <2>2. \A r \in Player : playerLock'[r] = IF playerLock[r] = t THEN None ELSE playerLock[r]
    BY <1>5, <1>7
  <2>3. QED
    BY <1>0, <1>3, <1>6, <2>1, <2>2, Returns
<1>13. Idle.op = "none" /\ Idle.at = "idle" /\ Idle.s = None /\ Idle.p = None /\ Idle.todo = {}
  BY DEF Idle
<1>14. TypeOK'
  BY <1>0, <1>6, <1>7, <1>10, <1>11, <1>12 DEF TypeOK
<1>15. Alive'
  <2>1. \A u \in Thread : call'[u].s # None => u # t
    BY <1>12, <1>13
  <2>2. \A u \in Thread : call'[u].op = "delete" => u # t /\ call[u].s # None
    BY <1>3, <1>12, <1>13, AudioAssumption DEF Operation
  <2>3. QED
    BY <1>0, <1>6, <1>12, <1>13, <2>1, <2>2 DEF Alive
<1>16. Listed'
  <2>1. \A r \in Player \ exists' : state'[r] = "stopped" /\ ~resume'[r] /\ event'[r] = "idle"
    BY <1>0, <1>5, <1>6, <1>10 DEF Listed
  <2>2. \A u \in Thread : call'[u].todo \subseteq exists'
    BY <1>0, <1>6, <1>12, <1>13 DEF Listed
  <2>3. \A u \in Thread : call'[u].p # None => ~resume'[call'[u].p]
    <3>1. \A u \in Thread : call[u].p # p
      BY <1>0, <1>4, <1>5, AudioAssumption DEF Owners
    <3>2. QED
      BY <1>0, <1>10, <1>12, <1>13, <3>1 DEF Listed, TypeOK, Calls
  <2>4. \A r \in Player : event'[r] = "reset" => state'[r] = "stopped" /\ ~resume'[r]
    BY <1>0, <1>4, <1>5, <1>6, <1>10 DEF Listed, Owners
  <2>5. \A r \in Player : state'[r] # "stopped" => ready'[r]
    BY <1>0, <1>6, <1>8, <1>10 DEF Listed
  <2>6. \A r \in Player : ready'[r] => sound'[r] # None
    BY <1>0, <1>6 DEF Listed
  <2>7. QED
    BY <2>1, <2>2, <2>3, <2>4, <2>5, <2>6 DEF Listed
<1>17. Owned'
  <2>1. \A x \in Sound : fPlaying'[x] => player[x] # None
    BY <1>0, <1>1, <1>4, <1>11, AudioAssumption DEF Owned
  <2>2. QED
    BY <1>0, <1>6, <1>12, <1>13, <2>1 DEF Owned, OneOwner
<1>18. Flags'
  <2>1. \A u \in Thread :
          /\ call'[u].op \in {"stop", "delete"} => ~fPlaying'[call'[u].s]
          /\ call'[u].op = "pause" => fPlaying'[call'[u].s] /\ fPaused'[call'[u].s]
    BY <1>0, <1>3, <1>11, <1>12, <1>13 DEF Flags, Operation
  <2>2. ASSUME NEW x \in Sound, x # s, NEW ops, About(x, ops) PROVE About(x, ops)'
    BY <1>0, <1>3, <1>11, <1>12, <2>2, AboutStays
  <2>3. ASSUME NEW r \in Player, NEW x, x = sound[r], state'[r] # "stopped"
        PROVE  ~deleted[x] /\ (fPlaying'[x] \/ About(x, {"stop", "delete"})')
    <3>1. CASE x = s
      BY <1>3, <1>11, <3>1
    <3>2. CASE x # s
      <4>1. r # p /\ state[r] # "stopped"
        BY <1>2, <1>10, <2>3, <3>2
      <4>2. x \in Sound /\ ~deleted[x] /\ (fPlaying[x] \/ About(x, {"stop", "delete"}))
        BY <1>0, <1>5, <2>3, <4>1 DEF Flags
      <4>3. QED
        BY <1>11, <2>2, <3>2, <4>2
    <3>3. QED
      BY <3>1, <3>2
  <2>4. ASSUME NEW r \in Player, NEW x, x = sound[r],
               state'[r] = "playing" \/ (ready[r] /\ resume'[r])
        PROVE  (fPlaying'[x] /\ ~fPaused'[x]) \/ About(x, {"stop", "delete", "pause"})'
    <3>1. CASE x = s
      BY <1>11, <3>1
    <3>2. CASE x # s
      <4>1. r # p /\ (state[r] = "playing" \/ (ready[r] /\ resume[r]))
        BY <1>2, <1>10, <2>4, <3>2
      <4>2. x \in Sound /\ ((fPlaying[x] /\ ~fPaused[x]) \/ About(x, {"stop", "delete", "pause"}))
        BY <1>0, <1>5, <2>4, <4>1 DEF Flags
      <4>3. QED
        BY <1>11, <2>2, <3>2, <4>2
    <3>3. QED
      BY <3>1, <3>2
  <2>5. QED
    BY <1>6, <2>1, <2>3, <2>4 DEF Flags, About
<1>19. Heard'
  <2> SUFFICES ASSUME ~refused PROVE Heard'
    BY <1>6 DEF Heard
  <2>1. \A x \in Sound : fPlaying'[x] => sound[player[x]] = x
    BY <1>0, <1>1, <1>2, <1>11 DEF Heard
  <2>2. ASSUME NEW r \in Player, ready[r], state'[r] = "stopped"
        PROVE  \/ resume'[r] \/ ~fPlaying'[sound[r]] \/ fPaused'[sound[r]]
               \/ playerLock[r] # None
    <3>1. CASE r = p
      BY <1>8, <1>10, <2>2, <3>1
    <3>2. CASE r # p
      <4>1. sound[r] \in Sound \ {s}
        BY <1>5, <2>2, <3>2
      <4>2. QED
        BY <1>0, <1>10, <1>11, <2>2, <3>2, <4>1 DEF Heard
    <3>3. QED
      BY <3>1, <3>2
  <2>3. QED
    BY <1>0, <1>6, <1>7, <2>1, <2>2 DEF Heard
<1>20. Follows'
  <2>1. \A u \in Thread : call'[u].op \notin {"suspend", "restore"}
    BY <1>3, <1>12, <1>13
  <2>2. paused => \A r \in Player : state'[r] # "playing"
    BY <1>3, <1>4, <1>8, <1>10 DEF InStep
  <2>3. ~paused => \A r \in Player : ~(ready[r] /\ state'[r] = "paused" /\ resume'[r])
    BY <1>3, <1>4, <1>8, <1>10 DEF InStep
  <2>4. QED
    BY <1>6, <2>1, <2>2, <2>3 DEF Follows
<1>21. QED
  BY <1>12, <1>14, <1>15, <1>16, <1>17, <1>18, <1>19, <1>20 DEF IInv

-----------------------------------------------------------------------------
(* A player is taken from a sound.                                         *)

\* Nobody is about to change the player of a sound whose lock is free, or that is deleted.
LEMMA NobodyUses ==
  ASSUME TypeOK, Owners, Alive, NEW x \in Sound, soundLock[x] = None \/ deleted[x]
  PROVE  \A u \in Thread : call[u].op \in Operation => call[u].s # x
<1> SUFFICES ASSUME NEW u \in Thread, call[u].op \in Operation, call[u].s = x
             PROVE  FALSE
  OBVIOUS
<1>1. x # None /\ u # None
  BY AudioAssumption
<1>2. CallOK(call[u])
  BY DEF Owners
<1>3. call[u].at = "player"
  BY <1>2 DEF CallOK
<1>4. soundLock[x] = u
  BY <1>3 DEF Owners
<1>5. ~deleted[x]
  BY <1>1 DEF Alive
<1>6. QED
  BY <1>1, <1>4, <1>5

\* A player that has stopped tells its sound, which no other player has.
LEMMA ResetFlags ==
  ASSUME IInv, NEW p \in Player, NEW x, x = sound[p],
         \A u \in Thread : call[u].op \in Operation => call[u].s # x,
         \A u \in Thread : call'[u].op = call[u].op /\ call'[u].s = call[u].s,
         Reset(p), UNCHANGED <<soundLock, sound, ready, player, deleted, refused>>,
         state'[p] = "stopped", ~resume'[p],
         \A r \in Player : r # p =>
           /\ state'[r] = state[r] /\ (resume'[r] <=> resume[r])
           /\ playerLock'[r] = playerLock[r]
  PROVE  /\ Flags' /\ Heard' /\ \A y \in Sound : fPlaying'[y] => fPlaying[y]
         /\ fPaused' \in [Sound -> BOOLEAN] /\ fPlaying' \in [Sound -> BOOLEAN]
<1>0. TypeOK /\ Owners /\ Listed /\ Owned /\ Flags /\ Heard /\ AudioAssumption
  BY AudioAssumption DEF IInv
<1>1. /\ fPaused' \in [Sound -> BOOLEAN] /\ fPlaying' \in [Sound -> BOOLEAN]
      /\ \A y \in Sound : /\ fPaused'[y] <=> fPaused[y] /\ y # x
                          /\ fPlaying'[y] <=> fPlaying[y] /\ y # x
  <2>1. /\ \A y \in Sound : (fPaused[y] /\ y # sound[p]) \in BOOLEAN
        /\ \A y \in Sound : (fPlaying[y] /\ y # sound[p]) \in BOOLEAN
    OBVIOUS
  <2>2. QED
    BY <2>1 DEF Reset
<1>2. /\ \A r \in Player : state[r] # "stopped" \/ ready[r] => sound[r] \in Sound
      /\ \A r \in Player : r # p /\ sound[r] \in Sound => sound[r] # x
  BY <1>0 DEF Listed, Owned, OneOwner, TypeOK, AudioAssumption
<1>3. ASSUME NEW y \in Sound, NEW ops, About(y, ops) PROVE About(y, ops)'
  <2>1. soundLock[y] \in Thread
    BY <1>0, <1>3 DEF TypeOK, About
  <2>2. QED
    BY <1>3, <2>1 DEF About
<1>4. Flags'
  <2>1. \A u \in Thread :
          /\ call'[u].op \in {"stop", "delete"} => ~fPlaying'[call'[u].s]
          /\ call'[u].op = "pause" => fPlaying'[call'[u].s] /\ fPaused'[call'[u].s]
    <3> SUFFICES ASSUME NEW u \in Thread, call[u].op \in {"stop", "delete", "pause"}
                 PROVE  /\ call[u].op \in {"stop", "delete"} => ~fPlaying'[call[u].s]
                        /\ call[u].op = "pause" => fPlaying'[call[u].s] /\ fPaused'[call[u].s]
      OBVIOUS
    <3>1. CallOK(call[u]) /\ call[u] \in Calls /\ call[u].op \in Operation
      BY <1>0 DEF Owners, TypeOK, Operation
    <3>2. call[u].s \in Sound /\ call[u].s # x
      BY <3>1 DEF CallOK, Calls
    <3>3. QED
      BY <1>0, <1>1, <3>2 DEF Flags
  <2>2. ASSUME NEW r \in Player, NEW y, y = sound[r], state'[r] # "stopped"
        PROVE  ~deleted[y] /\ (fPlaying'[y] \/ About(y, {"stop", "delete"})')
    <3>1. r # p /\ state[r] # "stopped"
      BY <2>2
    <3>2. /\ y \in Sound /\ y # x /\ ~deleted[y]
          /\ fPlaying[y] \/ About(y, {"stop", "delete"})
      BY <1>0, <1>2, <2>2, <3>1 DEF Flags
    <3>3. QED
      BY <1>1, <1>3, <3>2
  <2>3. ASSUME NEW r \in Player, NEW y, y = sound[r],
               state'[r] = "playing" \/ (ready[r] /\ resume'[r])
        PROVE  (fPlaying'[y] /\ ~fPaused'[y]) \/ About(y, {"stop", "delete", "pause"})'
    <3>1. r # p /\ (state[r] = "playing" \/ (ready[r] /\ resume[r]))
      BY <2>3
    <3>2. /\ y \in Sound /\ y # x
          /\ (fPlaying[y] /\ ~fPaused[y]) \/ About(y, {"stop", "delete", "pause"})
      BY <1>0, <1>2, <2>3, <3>1 DEF Flags
    <3>3. QED
      BY <1>1, <1>3, <3>2
  <2>4. QED
    BY <2>1, <2>2, <2>3 DEF Flags, About
<1>5. Heard'
  <2> SUFFICES ASSUME ~refused PROVE Heard'
    BY DEF Heard
  <2>1. \A y \in Sound : fPlaying'[y] => sound[player[y]] = y
    BY <1>0, <1>1 DEF Heard
  <2>2. ASSUME NEW r \in Player, ready[r], state'[r] = "stopped"
        PROVE  \/ resume'[r] \/ ~fPlaying'[sound[r]] \/ fPaused'[sound[r]]
               \/ playerLock'[r] # None
    <3>1. sound[r] \in Sound
      BY <1>2, <2>2
    <3>2. CASE r = p
      BY <1>1, <3>1, <3>2
    <3>3. CASE r # p
      BY <1>0, <1>1, <1>2, <2>2, <3>1, <3>3 DEF Heard
    <3>4. QED
      BY <3>2, <3>3
  <2>3. QED
    BY <1>0, <2>1, <2>2 DEF Heard
<1>6. QED
  BY <1>1, <1>4, <1>5

\* A running player is stopped for another sound, and the one it had is told.
LEMMA StealPlayerStep ==
  ASSUME IInv, NEW t \in Thread, StealPlayer(t)
  PROVE  IInv'
<1>0. /\ TypeOK /\ Owners /\ Alive /\ Listed /\ Owned /\ Flags /\ Heard /\ Follows
      /\ t # None /\ AudioAssumption
  BY AudioAssumption DEF IInv
<1>1. PICK s, p, x : s = call[t].s /\ p = call[t].p /\ x = sound[p]
  OBVIOUS
<1>2. call[t].op = "play" /\ call[t].at = "steal" /\ SoundFree(x, t)
  BY <1>1 DEF StealPlayer, At
<1>3. /\ s \in Sound /\ soundLock[s] = t /\ mixLock = t
      /\ \A u \in Thread : call[u].op \in Operation => u # t /\ call[u].s \in Sound \ {s}
      /\ \A y \in Sound : y # s => soundLock[y] # t
      /\ \A u \in Thread : call[u].op \notin {"suspend", "restore"}
      /\ InStep
  BY <1>1, <1>2, LockedFacts
<1>4. /\ call[t] \in Calls /\ CallOK(call[t]) /\ p \in Player /\ ~resume[p]
      /\ playerLock[p] = t /\ p \in exists
      /\ \A r \in Player : sound[r] # s
  <2>1. call[t] \in Calls /\ CallOK(call[t])
    BY <1>0 DEF TypeOK, Owners
  <2>2. p \in Player /\ p # None
    BY <1>1, <1>2, <2>1 DEF CallOK, Calls
  <2>3. playerLock[p] = t /\ ~resume[p]
    BY <1>0, <1>1, <2>2 DEF Owners, Listed
  <2>4. p \in exists
    BY <1>0, <2>2, <2>3 DEF TypeOK
  <2>5. QED
    BY <1>0, <1>1, <1>2, <2>1, <2>2, <2>3, <2>4 DEF Owned
<1>5. \A u \in Thread : call[u].op \in Operation => call[u].s # x
  <2>1. CASE x \in Sound
    <3>1. soundLock[x] = None \/ deleted[x]
      BY <1>1, <1>2, <1>3, <1>4, <2>1 DEF SoundFree
    <3>2. QED
      BY <1>0, <2>1, <3>1, NobodyUses
  <2>2. CASE x \notin Sound
    BY <1>3, <2>2
  <2>3. QED
    BY <2>1, <2>2
<1>6. /\ UNCHANGED <<mixLock, soundLock, playerLock, paused, exists, resume, sound, ready>>
      /\ UNCHANGED <<player, deleted, event, refused>> /\ Reset(p)
      /\ state' = [state EXCEPT ![p] = "stopped"]
  BY <1>1 DEF StealPlayer, lockVars
<1>7. PICK q : q = [call[t] EXCEPT !.at = "set"]
  OBVIOUS
<1>8. /\ q \in Calls /\ q.op = "play" /\ q.at = "set" /\ q.s = s /\ q.p = p
      /\ q.todo = call[t].todo
  BY <1>1, <1>2, <1>4, <1>7 DEF Calls
<1>9. CallOK(q)
  BY <1>1, <1>2, <1>4, <1>8 DEF CallOK, Playing, Operation
<1>10. call' = [call EXCEPT ![t] = q]
  BY <1>0, <1>7 DEF StealPlayer, Go, TypeOK
<1>11. /\ call' \in [Thread -> Calls] /\ call'[t] = q
       /\ \A u \in Thread : u # t => call'[u] = call[u]
  BY <1>0, <1>8, <1>10, OneCall
<1>12. /\ \A u \in Thread : call'[u].op = call[u].op /\ call'[u].s = call[u].s
       /\ \A u \in Thread : call'[u].p = call[u].p /\ call'[u].todo = call[u].todo
  BY <1>1, <1>2, <1>8, <1>11
<1>13. /\ state' \in [Player -> {"stopped", "playing", "paused"}] /\ state'[p] = "stopped"
       /\ \A r \in Player : r # p => state'[r] = state[r]
  BY <1>0, <1>4, <1>6 DEF TypeOK
<1>14. /\ Flags' /\ Heard' /\ \A y \in Sound : fPlaying'[y] => fPlaying[y]
       /\ fPaused' \in [Sound -> BOOLEAN] /\ fPlaying' \in [Sound -> BOOLEAN]
  BY <1>1, <1>4, <1>5, <1>6, <1>12, <1>13, ResetFlags
<1>15. TypeOK'
  BY <1>0, <1>6, <1>11, <1>13, <1>14 DEF TypeOK
<1>16. Owners'
  BY <1>0, <1>1, <1>2, <1>6, <1>8, <1>9, <1>10, SameLocks
<1>17. Alive'
  BY <1>0, <1>6, <1>12 DEF Alive
<1>18. Listed'
  BY <1>0, <1>4, <1>6, <1>12, <1>13 DEF Listed
<1>19. Owned'
  BY <1>0, <1>1, <1>2, <1>4, <1>6, <1>8, <1>11, <1>14 DEF Owned, OneOwner
<1>20. Follows'
  <2>1. \A u \in Thread : call'[u].op \notin {"suspend", "restore"}
    BY <1>3, <1>12
  <2>2. \A r \in Player : state'[r] = state[r] \/ state'[r] = "stopped"
    BY <1>13
  <2>3. QED
    BY <1>3, <1>6, <2>1, <2>2 DEF Follows, InStep
<1>21. QED
  BY <1>14, <1>15, <1>16, <1>17, <1>18, <1>19, <1>20 DEF IInv

\* The player gets the new sound, unless OpenSL refuses, and tells the one it had.
LEMMA SetSoundStep ==
  ASSUME IInv, NEW t \in Thread, SetSound(t)
  PROVE  IInv'
<1>0. /\ TypeOK /\ Owners /\ Alive /\ Listed /\ Owned /\ Flags /\ Heard /\ Follows
      /\ AudioAssumption
  BY AudioAssumption DEF IInv
<1>1. PICK s, p, x : s = call[t].s /\ p = call[t].p /\ x = sound[p]
  OBVIOUS
<1>2. call[t].op = "play" /\ call[t].at = "set"
  BY <1>1 DEF SetSound, At
<1>3. /\ s \in Sound /\ ~deleted[s] /\ soundLock[s] = t /\ mixLock = t /\ t # None
      /\ \A u \in Thread : call[u].op \in Operation => u # t /\ call[u].s \in Sound \ {s}
      /\ \A y \in Sound : y # s => soundLock[y] # t
      /\ \A r \in Player : r # p => playerLock[r] # t
      /\ \A u \in Thread : call[u].op \notin {"suspend", "restore"}
      /\ \A u \in Thread : u # t => call[u].op # "play"
      /\ InStep
  BY <1>1, <1>2, LockedFacts
<1>4. /\ p \in Player /\ p # None /\ ~resume[p] /\ playerLock[p] = t /\ p \in exists
      /\ event[p] # "reset" /\ \A r \in Player : sound[r] # s
  <2>1. call[t] \in Calls /\ CallOK(call[t])
    BY <1>0 DEF TypeOK, Owners
  <2>2. p \in Player /\ p # None
    BY <1>1, <1>2, <2>1 DEF CallOK, Calls
  <2>3. playerLock[p] = t /\ ~resume[p]
    BY <1>0, <1>1, <2>2 DEF Owners, Listed
  <2>4. p \in exists /\ event[p] # "reset"
    BY <1>0, <1>3, <2>2, <2>3 DEF TypeOK, Owners, AudioAssumption
  <2>5. QED
    BY <1>0, <1>1, <1>2, <2>2, <2>3, <2>4 DEF Owned
<1>5. /\ \A r \in Player : state[r] # "stopped" \/ ready[r] => sound[r] \in Sound
      /\ \A r \in Player : r # p /\ sound[r] \in Sound => sound[r] # x
      /\ x # s
  BY <1>0, <1>1, <1>4 DEF Listed, Owned, OneOwner, TypeOK, AudioAssumption
<1>7. PICK ok \in BOOLEAN, stops \in BOOLEAN :
        /\ stops => x # None /\ SoundFree(x, t)
        /\ ready[p] /\ x # None => stops
        /\ ready' = [ready EXCEPT ![p] = ok]
        /\ sound' = [sound EXCEPT ![p] = IF ok THEN s ELSE x]
        /\ refused' = (refused \/ ~ok)
        /\ fPlaying' = [y \in Sound |-> y = s \/ (fPlaying[y] /\ ~(stops /\ y = x))]
        /\ fPaused' = [y \in Sound |-> fPaused[y] /\ y # s /\ ~(stops /\ y = x)]
  <2>1. PICK result \in {"made", "refused", "refused late"} :
          LET ok == result = "made"
              stops == x # None /\ (ready[p] \/ result = "refused late")
          IN /\ stops => SoundFree(x, t)
             /\ ready' = [ready EXCEPT ![p] = ok]
             /\ sound' = [sound EXCEPT ![p] = IF ok THEN s ELSE x]
             /\ refused' = (refused \/ ~ok)
             /\ fPlaying' = [y \in Sound |-> y = s \/ (fPlaying[y] /\ ~(stops /\ y = x))]
             /\ fPaused' = [y \in Sound |-> fPaused[y] /\ y # s /\ ~(stops /\ y = x)]
    BY Zenon, <1>1 DEF SetSound
  <2>2. (result = "made") \in BOOLEAN /\ (x # None /\ (ready[p] \/ result = "refused late")) \in BOOLEAN
    OBVIOUS
  <2>3. QED
    BY Zenon, <2>1, <2>2
<1>6. stops => x \in Sound /\ \A u \in Thread : call[u].op \in Operation => call[u].s # x
  <2> SUFFICES ASSUME stops
               PROVE  x \in Sound /\ \A u \in Thread : call[u].op \in Operation => call[u].s # x
    OBVIOUS
  <2>1. x \in Sound /\ x # None
    BY <1>0, <1>1, <1>4, <1>7 DEF TypeOK
  <2>2. soundLock[x] = None \/ deleted[x]
    BY <1>3, <1>5, <1>7, <2>1 DEF SoundFree
  <2>3. QED
    BY <1>0, <2>1, <2>2, NobodyUses
<1>8. /\ ready' \in [Player -> BOOLEAN] /\ (ready'[p] <=> ok)
      /\ sound' \in [Player -> Sound \cup {None}] /\ sound'[p] = (IF ok THEN s ELSE x)
      /\ refused' \in BOOLEAN /\ (refused' <=> refused \/ ~ok)
      /\ \A r \in Player : r # p => (ready'[r] <=> ready[r]) /\ sound'[r] = sound[r]
  BY <1>0, <1>1, <1>3, <1>4, <1>7 DEF TypeOK
<1>9. /\ UNCHANGED <<paused, exists, deleted, event>> /\ mixLock' = None
      /\ soundLock' = [soundLock EXCEPT ![s] = None]
      /\ playerLock' = [playerLock EXCEPT ![p] = None]
      /\ call' = [call EXCEPT ![t] = Idle] /\ player' = [player EXCEPT ![s] = p]
  BY <1>1 DEF SetSound, StartOn, Return
<1>10. /\ soundLock' \in [Sound -> Thread \cup {None}] /\ soundLock'[s] = None
       /\ \A y \in Sound : y # s => soundLock'[y] = soundLock[y]
       /\ playerLock' \in [Player -> Thread \cup Player \cup {None}] /\ playerLock'[p] = None
       /\ \A r \in Player : r # p => playerLock'[r] = playerLock[r]
       /\ player' \in [Sound -> Player \cup {None}] /\ player'[s] = p
       /\ \A y \in Sound : y # s => player'[y] = player[y]
  BY <1>0, <1>3, <1>4, <1>9 DEF TypeOK
<1>11. /\ fPaused' \in [Sound -> BOOLEAN] /\ fPlaying' \in [Sound -> BOOLEAN]
       /\ \A y \in Sound :
            /\ fPlaying'[y] <=> y = s \/ (fPlaying[y] /\ ~(stops /\ y = x))
            /\ fPaused'[y] <=> fPaused[y] /\ y # s /\ ~(stops /\ y = x)
  <2>1. \A y \in Sound : /\ (y = s \/ (fPlaying[y] /\ ~(stops /\ y = x))) \in BOOLEAN
                         /\ (fPaused[y] /\ y # s /\ ~(stops /\ y = x)) \in BOOLEAN
    OBVIOUS
  <2>2. QED
    BY <1>7, <2>1
<1>12. /\ state' \in [Player -> {"stopped", "playing", "paused"}]
       /\ state'[p] = (IF ok /\ ~paused THEN "playing" ELSE "stopped")
       /\ resume' \in [Player -> BOOLEAN] /\ (resume'[p] <=> paused)
       /\ \A r \in Player : r # p => state'[r] = state[r] /\ (resume'[r] <=> resume[r])
  <2>1. \/ /\ paused /\ resume' = [resume EXCEPT ![p] = TRUE]
           /\ state' = [state EXCEPT ![p] = "stopped"]
        \/ /\ ~paused /\ resume' = resume
           /\ state' = [state EXCEPT ![p] = IF ready'[p] THEN "playing" ELSE "stopped"]
    BY <1>1 DEF SetSound, StartOn
  <2>2. CASE paused
    BY <1>0, <1>4, <2>1, <2>2 DEF TypeOK
  <2>3. CASE ~paused
    <3>1. PICK st : st = IF ok THEN "playing" ELSE "stopped"
      OBVIOUS
    <3>2. state' = [state EXCEPT ![p] = st] /\ resume' = resume
      BY <1>8, <2>1, <2>3, <3>1
    <3>3. QED
      BY <1>0, <1>4, <2>3, <3>1, <3>2 DEF TypeOK
  <2>4. QED
    BY <2>2, <2>3
<1>13. /\ Owners' /\ call' \in [Thread -> Calls] /\ call'[t] = Idle
       /\ \A u \in Thread : u # t => call'[u] = call[u]
  <2>1. \A y \in Sound : soundLock'[y] = IF soundLock[y] = t THEN None ELSE soundLock[y]
    BY <1>3, <1>10
  <2>2. \A r \in Player : playerLock'[r] = IF playerLock[r] = t THEN None ELSE playerLock[r]
    BY <1>3, <1>4, <1>10
  <2>3. mixLock' = IF mixLock = t THEN None ELSE mixLock
    BY <1>3, <1>9
  <2>4. QED
    BY <1>0, <1>9, <2>1, <2>2, <2>3, Returns
<1>14. Idle.op = "none" /\ Idle.at = "idle" /\ Idle.s = None /\ Idle.p = None /\ Idle.todo = {}
  BY DEF Idle
<1>15. TypeOK'
  <2>1. \A r \in Player \ exists' : ~ready'[r] /\ sound'[r] = None /\ playerLock'[r] = None
    BY <1>0, <1>4, <1>8, <1>9, <1>10 DEF TypeOK
  <2>2. QED
    BY <1>0, <1>8, <1>9, <1>10, <1>11, <1>12, <1>13, <2>1 DEF TypeOK
<1>16. Alive'
  <2>1. \A u \in Thread : call'[u].s # None => u # t
    BY <1>13, <1>14
  <2>2. \A u \in Thread : call'[u].op = "delete" => u # t /\ call[u].s # None
    BY <1>3, <1>13, <1>14, AudioAssumption DEF Operation
  <2>3. QED
    BY <1>0, <1>9, <1>13, <1>14, <2>1, <2>2 DEF Alive
<1>17. Listed'
  <2>1. \A r \in Player \ exists' : state'[r] = "stopped" /\ ~resume'[r] /\ event'[r] = "idle"
    BY <1>0, <1>4, <1>9, <1>12 DEF Listed
  <2>2. \A u \in Thread : call'[u].todo \subseteq exists'
    BY <1>0, <1>9, <1>13, <1>14 DEF Listed
  <2>3. \A u \in Thread : call'[u].p # None => ~resume'[call'[u].p]
    <3>1. \A u \in Thread : u # t => call[u].p # p
      BY <1>0, <1>4 DEF Owners
    <3>2. QED
      BY <1>0, <1>12, <1>13, <1>14, <3>1 DEF Listed, TypeOK, Calls
  <2>4. \A r \in Player : event'[r] = "reset" => state'[r] = "stopped" /\ ~resume'[r]
    BY <1>0, <1>4, <1>9, <1>12 DEF Listed
  <2>5. \A r \in Player : state'[r] # "stopped" => ready'[r]
    BY <1>0, <1>8, <1>12 DEF Listed
  <2>6. \A r \in Player : ready'[r] => sound'[r] # None
    BY <1>0, <1>3, <1>8, AudioAssumption DEF Listed
  <2>7. QED
    BY <2>1, <2>2, <2>3, <2>4, <2>5, <2>6 DEF Listed
<1>18. Owned'
  <2>1. ASSUME NEW r \in Player, NEW y, y = sound'[r], y # None PROVE player'[y] = r
    <3>1. CASE r = p /\ ok
      BY <1>8, <1>10, <2>1, <3>1
    <3>2. CASE ~(r = p /\ ok)
      <4>1. y = sound[r]
        BY <1>1, <1>8, <2>1, <3>2
      <4>2. y \in Sound /\ y # s /\ player[y] = r
        BY <1>0, <1>4, <2>1, <4>1 DEF Owned, OneOwner, TypeOK
      <4>3. QED
        BY <1>10, <4>2
    <3>3. QED
      BY <3>1, <3>2
  <2>2. \A y \in Sound : player[y] # None => player'[y] # None
    BY <1>4, <1>10
  <2>3. \A y \in Sound : fPlaying'[y] => player'[y] # None
    BY <1>0, <1>4, <1>10, <1>11, <2>2 DEF Owned
  <2>4. ASSUME NEW u \in Thread, call'[u].at \in {"own", "player"}
        PROVE  player'[call'[u].s] # None
    <3>1. u # t /\ call'[u] = call[u] /\ CallOK(call[u]) /\ call[u] \in Calls
      BY <1>0, <1>13, <1>14, <2>4 DEF Owners, TypeOK
    <3>2. call[u].s \in Sound
      BY <2>4, <3>1 DEF CallOK, Calls, Playing
    <3>3. QED
      BY <1>0, <2>2, <2>4, <3>1, <3>2 DEF Owned
  <2>5. ASSUME NEW u \in Thread PROVE call'[u].at \notin {"visit", "steal", "set"}
    <3>1. CASE u = t
      BY <1>13, <1>14, <3>1
    <3>2. CASE u # t
      <4>1. call'[u] = call[u] /\ CallOK(call[u]) /\ call[u].op # "play"
        BY <1>0, <1>3, <1>13, <3>2 DEF Owners
      <4>2. QED
        BY <4>1 DEF CallOK, Playing
    <3>3. QED
      BY <3>1, <3>2
  <2>6. QED
    BY <2>1, <2>3, <2>4, <2>5 DEF Owned, OneOwner
<1>19. Flags'
  <2>1. \A u \in Thread :
          /\ call'[u].op \in {"stop", "delete"} => ~fPlaying'[call'[u].s]
          /\ call'[u].op = "pause" => fPlaying'[call'[u].s] /\ fPaused'[call'[u].s]
    <3> SUFFICES ASSUME NEW u \in Thread, u # t, call[u].op \in {"stop", "delete", "pause"}
                 PROVE  /\ call[u].op \in {"stop", "delete"} => ~fPlaying'[call[u].s]
                        /\ call[u].op = "pause" => fPlaying'[call[u].s] /\ fPaused'[call[u].s]
      BY <1>13, <1>14
    <3>1. call[u].s \in Sound \ {s} /\ (stops => call[u].s # x)
      BY <1>3, <1>6 DEF Operation
    <3>2. QED
      BY <1>0, <1>11, <3>1 DEF Flags
  <2>2. ASSUME NEW y \in Sound, y # s, NEW ops, About(y, ops) PROVE About(y, ops)'
    BY <1>0, <1>3, <1>10, <1>13, <2>2, AboutStays
  <2>3. ASSUME NEW r \in Player, NEW y, y = sound'[r], state'[r] # "stopped"
        PROVE  ~deleted[y] /\ (fPlaying'[y] \/ About(y, {"stop", "delete"})')
    <3>1. CASE r = p
      <4>1. y = s
        BY <1>8, <1>12, <2>3, <3>1
      <4>2. QED
        BY <1>3, <1>11, <4>1
    <3>2. CASE r # p
      <4>1. y = sound[r] /\ state[r] # "stopped"
        BY <1>8, <1>12, <2>3, <3>2
      <4>2. /\ y \in Sound /\ y # s /\ y # x /\ ~deleted[y]
            /\ fPlaying[y] \/ About(y, {"stop", "delete"})
        BY <1>0, <1>4, <1>5, <3>2, <4>1 DEF Flags
      <4>3. QED
        BY <1>11, <2>2, <4>2
    <3>3. QED
      BY <3>1, <3>2
  <2>4. ASSUME NEW r \in Player, NEW y, y = sound'[r],
               state'[r] = "playing" \/ (ready'[r] /\ resume'[r])
        PROVE  (fPlaying'[y] /\ ~fPaused'[y]) \/ About(y, {"stop", "delete", "pause"})'
    <3>1. CASE r = p
      <4>1. y = s
        BY <1>8, <1>12, <2>4, <3>1
      <4>2. QED
        BY <1>3, <1>11, <4>1
    <3>2. CASE r # p
      <4>1. y = sound[r] /\ (state[r] = "playing" \/ (ready[r] /\ resume[r]))
        BY <1>8, <1>12, <2>4, <3>2
      <4>2. /\ y \in Sound /\ y # s /\ y # x
            /\ (fPlaying[y] /\ ~fPaused[y]) \/ About(y, {"stop", "delete", "pause"})
        BY <1>0, <1>4, <1>5, <3>2, <4>1 DEF Flags
      <4>3. QED
        BY <1>11, <2>2, <4>2
    <3>3. QED
      BY <3>1, <3>2
  <2>5. QED
    BY <1>9, <2>1, <2>3, <2>4 DEF Flags, About
<1>20. Heard'
  <2> SUFFICES ASSUME ~refused, ok PROVE Heard'
    BY <1>8 DEF Heard
  <2>1. \A r \in Player : sound'[r] # None => ready'[r]
    BY <1>0, <1>8 DEF Heard
  <2>2. ASSUME NEW y \in Sound, fPlaying'[y], NEW r, r = player'[y] PROVE sound'[r] = y
    <3>1. CASE y = s
      BY <1>8, <1>10, <2>2, <3>1
    <3>2. CASE y # s
      <4>1. r = player[y] /\ fPlaying[y] /\ ~(ready[p] /\ y = x)
        BY <1>0, <1>7, <1>10, <1>11, <2>2, <3>2, AudioAssumption
      <4>2. sound[r] = y /\ r \in Player
        BY <1>0, <4>1 DEF Heard, Owned, TypeOK
      <4>3. r # p
        BY <1>0, <1>1, <1>4, <4>1, <4>2, AudioAssumption DEF Heard
      <4>4. QED
        BY <1>8, <4>2, <4>3
    <3>3. QED
      BY <3>1, <3>2
  <2>3. ASSUME NEW r \in Player, NEW y, y = sound'[r], ready'[r], state'[r] = "stopped"
        PROVE  resume'[r] \/ ~fPlaying'[y] \/ fPaused'[y] \/ playerLock'[r] # None
    <3>1. CASE r = p
      BY <1>12, <2>3, <3>1
    <3>2. CASE r # p
      <4>1. y = sound[r] /\ y \in Sound /\ y # s /\ y # x
        BY <1>4, <1>5, <1>8, <2>3, <3>2
      <4>2. QED
        BY <1>0, <1>8, <1>10, <1>11, <1>12, <2>3, <3>2, <4>1 DEF Heard
    <3>3. QED
      BY <3>1, <3>2
  <2>4. QED
    BY <2>1, <2>2, <2>3 DEF Heard
<1>21. Follows'
  <2>1. \A u \in Thread : call'[u].op \notin {"suspend", "restore"}
    BY <1>3, <1>13, <1>14
  <2>2. paused => \A r \in Player : state'[r] # "playing"
    BY <1>3, <1>12 DEF InStep
  <2>3. ~paused => \A r \in Player : ~(ready'[r] /\ state'[r] = "paused" /\ resume'[r])
    BY <1>3, <1>8, <1>12 DEF InStep
  <2>4. QED
    BY <1>9, <2>1, <2>2, <2>3 DEF Follows
<1>22. QED
  BY <1>13, <1>15, <1>16, <1>17, <1>18, <1>19, <1>20, <1>21 DEF IInv

-----------------------------------------------------------------------------
(* OpenSL calls back at the end of a sound.                                *)

\* The callback is on its way; nothing else has changed.
LEMMA HeadAtEndStep ==
  ASSUME IInv, NEW p \in Player, HeadAtEnd(p)
  PROVE  IInv'
<1>0. TypeOK /\ Owners /\ Alive /\ Listed /\ Owned /\ Flags /\ Heard /\ Follows
  BY DEF IInv
<1>1. /\ UNCHANGED <<mixLock, soundLock, playerLock, paused, exists, state, resume, sound>>
      /\ UNCHANGED <<ready, fPaused, fPlaying, player, deleted, call, refused>>
      /\ event[p] = "idle" /\ state[p] = "playing" /\ event' = [event EXCEPT ![p] = "lock"]
  BY DEF HeadAtEnd, lockVars, playerVars, soundVars
<1>2. /\ event' \in [Player -> {"idle", "lock", "reset"}]
      /\ \A r \in Player : (event'[r] = "reset" <=> event[r] = "reset")
      /\ \A r \in Player : r # p => event'[r] = event[r]
  BY <1>0, <1>1 DEF TypeOK
<1>3. TypeOK'
  BY <1>0, <1>1, <1>2 DEF TypeOK
<1>4. Owners'
  <2>1. /\ \A u \in Thread : CallOK(call'[u])
        /\ \A u \in Thread : mixLock' = u <=> call'[u].op \in MixUser
        /\ \A u \in Thread, y \in Sound :
             soundLock'[y] = u <=> call'[u].s = y /\ call'[u].at # "sound"
        /\ \A u \in Thread, r \in Player : playerLock'[r] = u <=> call'[u].p = r
        /\ \A r, q \in Player : playerLock'[r] = q <=> r = q /\ event'[r] = "reset"
    BY <1>0, <1>1, <1>2 DEF Owners, MixUser
  <2>2. QED
    BY <2>1 DEF Owners, MixUser, CallOK, Idle
<1>5. Alive' /\ Owned' /\ Flags' /\ Heard' /\ Follows'
  BY <1>0, <1>1 DEF Alive, Owned, OneOwner, Flags, About, Heard, Follows, Awaits
<1>6. Listed'
  BY <1>0, <1>1, <1>2 DEF Listed
<1>7. QED
  BY <1>3, <1>4, <1>5, <1>6 DEF IInv

\* The player is stopped; if it has a sound, that one is still to be told.
LEMMA EventStopStep ==
  ASSUME IInv, NEW p \in Player, EventStop(p)
  PROVE  IInv'
<1>0. /\ TypeOK /\ Owners /\ Alive /\ Listed /\ Owned /\ Flags /\ Heard /\ Follows
      /\ p # None /\ p \notin Thread /\ AudioAssumption
  BY AudioAssumption DEF IInv
<1>1. event[p] = "lock" /\ playerLock[p] = None /\ p \in exists
  BY <1>0 DEF EventStop, PlayerFree, Owners, Listed
<1>2. /\ UNCHANGED <<mixLock, soundLock, paused, exists, sound, ready>>
      /\ UNCHANGED <<fPaused, fPlaying, player, deleted, call, refused>>
      /\ state' = [state EXCEPT ![p] = "stopped"] /\ resume' = [resume EXCEPT ![p] = FALSE]
  BY DEF EventStop, soundVars
<1>3. /\ state' \in [Player -> {"stopped", "playing", "paused"}] /\ state'[p] = "stopped"
      /\ resume' \in [Player -> BOOLEAN] /\ ~resume'[p]
      /\ \A r \in Player : r # p => state'[r] = state[r] /\ (resume'[r] <=> resume[r])
  BY <1>0, <1>2 DEF TypeOK
<1>4. /\ playerLock' \in [Player -> Thread \cup Player \cup {None}]
      /\ event' \in [Player -> {"idle", "lock", "reset"}]
      /\ \A r \in Player : r # p => playerLock'[r] = playerLock[r] /\ event'[r] = event[r]
      /\ \/ playerLock'[p] = p /\ event'[p] = "reset"
         \/ playerLock'[p] = None /\ event'[p] = "idle" /\ ~ready[p]
  <2>1. CASE ready[p] /\ sound[p] # None
    <3>1. playerLock' = [playerLock EXCEPT ![p] = p] /\ event' = [event EXCEPT ![p] = "reset"]
      BY <2>1 DEF EventStop
    <3>2. QED
      BY <1>0, <3>1 DEF TypeOK
  <2>2. CASE ~(ready[p] /\ sound[p] # None)
    <3>1. playerLock' = playerLock /\ event' = [event EXCEPT ![p] = "idle"]
      BY <2>2 DEF EventStop
    <3>2. ~ready[p]
      BY <1>0, <2>2 DEF Listed
    <3>3. QED
      BY <1>0, <1>1, <3>1, <3>2 DEF TypeOK
  <2>3. QED
    BY <2>1, <2>2
<1>5. \A r \in Player : /\ state'[r] # "stopped" => r # p /\ state'[r] = state[r]
                        /\ resume'[r] => r # p /\ resume[r]
  BY <1>3
<1>6. TypeOK'
  <2>1. \A r \in Player \ exists' : ~ready'[r] /\ sound'[r] = None /\ playerLock'[r] = None
    BY <1>0, <1>1, <1>2, <1>4 DEF TypeOK
  <2>2. QED
    BY <1>0, <1>2, <1>3, <1>4, <2>1 DEF TypeOK
<1>7. Owners'
  <2>1. \A u \in Thread, r \in Player : playerLock'[r] = u <=> call'[u].p = r
    BY <1>0, <1>1, <1>2, <1>4 DEF Owners, AudioAssumption
  <2>2. \A r, q \in Player : playerLock'[r] = q <=> r = q /\ event'[r] = "reset"
    BY <1>0, <1>1, <1>4 DEF Owners, AudioAssumption
  <2>3. /\ \A u \in Thread : CallOK(call'[u])
        /\ \A u \in Thread : mixLock' = u <=> call'[u].op \in MixUser
        /\ \A u \in Thread, y \in Sound :
             soundLock'[y] = u <=> call'[u].s = y /\ call'[u].at # "sound"
    BY <1>0, <1>2 DEF Owners, MixUser
  <2>4. QED
    BY <2>1, <2>2, <2>3 DEF Owners, MixUser, CallOK, Idle
<1>8. Alive' /\ Owned'
  BY <1>0, <1>2 DEF Alive, Owned, OneOwner
<1>9. Listed'
  BY <1>0, <1>1, <1>2, <1>3, <1>4, <1>5 DEF Listed
<1>10. Flags'
  BY <1>0, <1>2, <1>5 DEF Flags, About
<1>11. Heard'
  BY <1>0, <1>2, <1>3, <1>4 DEF Heard
<1>12. Follows'
  BY <1>0, <1>2, <1>5 DEF Follows, Awaits
<1>13. QED
  BY <1>6, <1>7, <1>8, <1>9, <1>10, <1>11, <1>12 DEF IInv

\* The sound the player has by now is told that it does not play.
LEMMA EventResetStep ==
  ASSUME IInv, NEW p \in Player, EventReset(p)
  PROVE  IInv'
<1>0. /\ TypeOK /\ Owners /\ Alive /\ Listed /\ Owned /\ Flags /\ Heard /\ Follows
      /\ p # None /\ p \notin Thread /\ AudioAssumption
  BY AudioAssumption DEF IInv
<1>1. PICK x : x = sound[p]
  OBVIOUS
<1>2. /\ event[p] = "reset" /\ playerLock[p] = p /\ state[p] = "stopped" /\ ~resume[p]
      /\ SoundFree(x, p)
  BY <1>0, <1>1 DEF EventReset, Owners, Listed
<1>3. /\ UNCHANGED <<mixLock, soundLock, paused, exists, state, resume, sound, ready>>
      /\ UNCHANGED <<player, deleted, call, refused>> /\ Reset(p)
      /\ playerLock' = [playerLock EXCEPT ![p] = None] /\ event' = [event EXCEPT ![p] = "idle"]
  BY DEF EventReset, playerVars
<1>4. /\ playerLock' \in [Player -> Thread \cup Player \cup {None}] /\ playerLock'[p] = None
      /\ event' \in [Player -> {"idle", "lock", "reset"}] /\ event'[p] = "idle"
      /\ \A r \in Player : r # p => playerLock'[r] = playerLock[r] /\ event'[r] = event[r]
  BY <1>0, <1>3 DEF TypeOK
<1>5. \A u \in Thread : call[u].op \in Operation => call[u].s # x
  <2>1. CASE x \in Sound
    <3>1. soundLock[x] = None \/ deleted[x]
      BY <1>0, <1>2, <2>1 DEF SoundFree, TypeOK
    <3>2. QED
      BY <1>0, <2>1, <3>1, NobodyUses
  <2>2. CASE x \notin Sound
    <3> SUFFICES ASSUME NEW u \in Thread, call[u].op \in Operation PROVE call[u].s \in Sound
      BY <2>2
    <3>1. CallOK(call[u]) /\ call[u] \in Calls
      BY <1>0 DEF Owners, TypeOK
    <3>2. QED
      BY <3>1 DEF CallOK, Calls
  <2>3. QED
    BY <2>1, <2>2
<1>6. /\ Flags' /\ Heard' /\ \A y \in Sound : fPlaying'[y] => fPlaying[y]
      /\ fPaused' \in [Sound -> BOOLEAN] /\ fPlaying' \in [Sound -> BOOLEAN]
  <2>1. \A u \in Thread : call'[u].op = call[u].op /\ call'[u].s = call[u].s
    BY <1>3
  <2>2. /\ state'[p] = "stopped" /\ ~resume'[p]
        /\ \A r \in Player : r # p => /\ state'[r] = state[r] /\ (resume'[r] <=> resume[r])
                                      /\ playerLock'[r] = playerLock[r]
    BY <1>2, <1>3, <1>4
  <2>3. QED
    BY <1>1, <1>3, <1>5, <2>1, <2>2, ResetFlags
<1>7. TypeOK'
  BY <1>0, <1>3, <1>4, <1>6 DEF TypeOK
<1>8. Owners'
  <2>1. \A u \in Thread, r \in Player : playerLock'[r] = u <=> call'[u].p = r
    BY <1>0, <1>2, <1>3, <1>4 DEF Owners, AudioAssumption
  <2>2. \A r, q \in Player : playerLock'[r] = q <=> r = q /\ event'[r] = "reset"
    BY <1>0, <1>4 DEF Owners, AudioAssumption
  <2>3. /\ \A u \in Thread : CallOK(call'[u])
        /\ \A u \in Thread : mixLock' = u <=> call'[u].op \in MixUser
        /\ \A u \in Thread, y \in Sound :
             soundLock'[y] = u <=> call'[u].s = y /\ call'[u].at # "sound"
    BY <1>0, <1>3 DEF Owners, MixUser
  <2>4. QED
    BY <2>1, <2>2, <2>3 DEF Owners, MixUser, CallOK, Idle
<1>9. Alive'
  BY <1>0, <1>3 DEF Alive
<1>10. Owned'
  BY <1>0, <1>3, <1>6 DEF Owned, OneOwner
<1>11. Listed'
  BY <1>0, <1>3, <1>4 DEF Listed
<1>12. Follows'
  BY <1>0, <1>3 DEF Follows, Awaits
<1>13. QED
  BY <1>6, <1>7, <1>8, <1>9, <1>10, <1>11, <1>12 DEF IInv

-----------------------------------------------------------------------------
(* The theorems.                                                           *)

\* At first no player exists and nothing is called.
LEMMA InitIInv == Init => IInv
<1> SUFFICES ASSUME Init PROVE IInv
  OBVIOUS
<1>1. /\ Idle \in Calls /\ CallOK(Idle) /\ Idle.op = "none" /\ Idle.at = "idle" /\ Idle.s = None
      /\ Idle.p = None /\ Idle.todo = {}
  BY AudioAssumption DEF Idle, Calls, CallOK, Playing, Operation
<1>2. TypeOK
  BY <1>1 DEF Init, TypeOK
<1>3. Owners
  BY <1>1, AudioAssumption DEF Init, Owners
<1>4. Alive /\ Listed /\ Owned
  BY <1>1 DEF Init, Alive, Listed, Owned, OneOwner
<1>5. Flags /\ Heard /\ Follows
  BY <1>1 DEF Init, Flags, Heard, Follows
<1>6. QED
  BY <1>2, <1>3, <1>4, <1>5 DEF IInv

\* Locks are where calls have taken them, players follow their sounds' flags and the
\* context, and every sound that plays has its player, in all reachable states.
THEOREM Invariance == Spec => []IInv
<1>1. Init => IInv
  BY InitIInv
<1>2. IInv /\ [Next]_vars => IInv'
  <2> SUFFICES ASSUME IInv, [Next]_vars PROVE IInv'
    OBVIOUS
  <2>1. ASSUME NEW t \in Thread, Step(t) PROVE IInv'
    BY <2>1, LockPlayedStep, UsePlayerStep, PlayOwnStep, PlayLostStep, StealPlayerStep,
       SetSoundStep, UnlockContextStep, VisitStep, MakePlayerStep, TakePlayerStep,
       EachPlayerStep DEF Step
  <2>2. ASSUME NEW t \in Thread, NEW s \in Sound, Play(t, s) PROVE IInv'
    BY <2>2, PlayStep
  <2>3. ASSUME NEW t \in Thread, NEW s \in Sound, NEW op \in Operation, Use(t, op, s)
        PROVE  IInv'
    BY <2>3, UseStep
  <2>4. ASSUME NEW t \in Thread, NEW on \in BOOLEAN, SwitchContext(t, on) PROVE IInv'
    BY <2>4, SwitchContextStep
  <2>5. ASSUME NEW p \in Player, HeadAtEnd(p) \/ Callback(p) PROVE IInv'
    BY <2>5, HeadAtEndStep, EventStopStep, EventResetStep DEF Callback
  <2>6. CASE UNCHANGED vars
    <3>1. /\ UNCHANGED <<mixLock, soundLock, playerLock, paused, exists, state, resume, sound>>
          /\ UNCHANGED <<ready, fPaused, fPlaying, player, deleted, call, event, refused>>
      BY <2>6 DEF vars
    <3>2. TypeOK' /\ Owners' /\ Alive' /\ Listed'
      BY <3>1 DEF IInv, TypeOK, Owners, CallOK, Idle, Alive, Listed
    <3>3. Owned' /\ Flags' /\ Heard' /\ Follows'
      BY <3>1 DEF IInv, Owned, OneOwner, Flags, About, Heard, Follows, Awaits
    <3>4. QED
      BY <3>2, <3>3 DEF IInv
  <2>7. QED
    BY <2>1, <2>2, <2>3, <2>4, <2>5, <2>6 DEF Next
<1>3. QED
  BY <1>1, <1>2, PTL DEF Spec

\* Whoever holds a lock of the context, of a sound or of a player is at work on it: no
\* call returns, by whatever way out, with one it took (play of uMixer.cpp, OpenSLSound,
\* OpenSLPlayer).
THEOREM LocksGivenBack == Spec => [](TypeOK /\ LocksReturned)
<1>1. IInv => TypeOK /\ LocksReturned
  <2> SUFFICES ASSUME IInv PROVE TypeOK /\ LocksReturned
    OBVIOUS
  <2>1. TypeOK /\ Owners
    BY DEF IInv
  <2>2. mixLock # None => call[mixLock] # Idle
    BY <2>1 DEF TypeOK, Owners, Idle
  <2>3. \A s \in Sound : soundLock[s] # None => call[soundLock[s]].s = s
    BY <2>1 DEF TypeOK, Owners
  <2>4. \A p \in Player : playerLock[p] # None =>
          IF playerLock[p] \in Thread THEN call[playerLock[p]].p = p ELSE event[p] = "reset"
    BY <2>1 DEF TypeOK, Owners
  <2>5. QED
    BY <2>1, <2>2, <2>3, <2>4 DEF LocksReturned
<1>2. QED
  BY <1>1, Invariance, PTL

-----------------------------------------------------------------------------
(* Who waits for whom.                                                     *)

\* A player that is about to be stolen has a sound.
Robbed == \A t \in Thread : call[t].at = "steal" => sound[call[t].p] # None

LEMMA RobbedKept == IInv /\ Robbed /\ [Next]_vars => Robbed'
<1> SUFFICES ASSUME IInv, Robbed, [Next]_vars PROVE Robbed'
  OBVIOUS
<1>0. TypeOK /\ Owners /\ Listed
  BY DEF IInv
<1>1. CASE UNCHANGED <<call, sound>>
  BY <1>1 DEF Robbed
<1>2. ASSUME NEW t \in Thread, NEW p \in Player, TakePlayer(t, p) PROVE Robbed'
  <2>1. /\ call' = [call EXCEPT ![t].at = IF state[p] = "playing" THEN "steal" ELSE "set",
                                ![t].p = p]
        /\ sound' = sound
    BY <1>2 DEF TakePlayer
  <2>2. /\ call'[t].p = p /\ (call'[t].at = "steal" => state[p] = "playing")
        /\ \A u \in Thread : u # t => call'[u] = call[u]
    BY <1>0, <2>1 DEF TypeOK, Calls
  <2>3. state[p] = "playing" => sound[p] # None
    BY <1>0 DEF Listed
  <2>4. QED
    BY <2>1, <2>2, <2>3 DEF Robbed
<1>3. ASSUME NEW t \in Thread, call'[t].at # "steal",
             \A u \in Thread : u # t => call'[u] = call[u],
             \A p \in Player : sound[p] # None => sound'[p] # None
      PROVE  Robbed'
  <2>1. SUFFICES ASSUME NEW u \in Thread, call'[u].at = "steal" PROVE sound'[call'[u].p] # None
    BY DEF Robbed
  <2>2. call'[u] = call[u] /\ sound[call[u].p] # None
    BY <1>3, <2>1 DEF Robbed
  <2>3. call[u].p \in Player
    <3>1. call[u] \in Calls /\ call[u].at = "steal" /\ CallOK(call[u])
      BY <1>0, <2>1, <2>2 DEF TypeOK, Owners
    <3>2. call[u].p # None
      BY <3>1 DEF CallOK
    <3>3. QED
      BY <3>1, <3>2 DEF Calls
  <2>4. QED
    BY <1>3, <2>2, <2>3
<1>4. ASSUME NEW t \in Thread, Step(t) PROVE Robbed'
  <2>1. CASE \E p \in Player : TakePlayer(t, p)
    BY <1>2, <2>1
  <2>2. CASE ~\E p \in Player : TakePlayer(t, p)
    <3>1. call'[t].at # "steal" /\ \A u \in Thread : u # t => call'[u] = call[u]
      <4>1. CASE LockPlayed(t)
        BY <1>0, <4>1 DEF LockPlayed, Scan, Go, TypeOK, Calls
      <4>2. CASE UsePlayer(t) \/ UnlockContext(t)
        BY <1>0, <4>2 DEF UsePlayer, UnlockContext, Return, Idle, TypeOK, Calls
      <4>3. CASE PlayOwn(t) \/ SetSound(t)
        BY <1>0, <4>3 DEF PlayOwn, SetSound, StartOn, Return, Idle, TypeOK, Calls
      <4>4. CASE PlayLost(t) \/ StealPlayer(t)
        BY <1>0, <4>4 DEF PlayLost, StealPlayer, Scan, Go, TypeOK, Calls
      <4>5. ASSUME NEW p \in Player, Visit(t, p) \/ MakePlayer(t, p) \/ EachPlayer(t, p)
            PROVE  call'[t].at # "steal" /\ \A u \in Thread : u # t => call'[u] = call[u]
        BY <1>0, <4>5 DEF Visit, MakePlayer, EachPlayer, At, TypeOK, Calls
      <4>6. QED
        BY <1>4, <2>2, <4>1, <4>2, <4>3, <4>4, <4>5 DEF Step
    <3>2. \A p \in Player : sound[p] # None => sound'[p] # None
      <4>1. CASE SetSound(t)
        <5>1. \E ok \in BOOLEAN :
                sound' = [sound EXCEPT ![call[t].p] = IF ok THEN call[t].s ELSE @]
          BY Zenon, <4>1 DEF SetSound
        <5>2. call[t].s # None
          BY <1>0, <4>1 DEF SetSound, At, Owners, CallOK, Playing
        <5>3. QED
          BY <1>0, <5>1, <5>2 DEF TypeOK
      <4>2. CASE ~SetSound(t)
        <5>1. sound' = sound
          BY <1>4, <2>2, <4>2 DEF Step, LockPlayed, UsePlayer, PlayOwn, PlayLost, StealPlayer,
             UnlockContext, Visit, MakePlayer, EachPlayer, playerVars
        <5>2. QED
          BY <5>1
      <4>3. QED
        BY <4>1, <4>2
    <3>3. QED
      BY <1>3, <3>1, <3>2
  <2>3. QED
    BY <2>1, <2>2
<1>5. ASSUME NEW t \in Thread, NEW s \in Sound, Play(t, s) PROVE Robbed'
  <2>1. call'[t].at # "steal" /\ (\A u \in Thread : u # t => call'[u] = call[u]) /\ sound' = sound
    BY <1>0, <1>5 DEF Play, Enter, Idle, playerVars, TypeOK
  <2>2. QED
    BY <1>3, <2>1
<1>6. ASSUME NEW t \in Thread, NEW s \in Sound, NEW op \in Operation, Use(t, op, s)
      PROVE  Robbed'
  <2>1. CASE call' = call
    BY <1>1, <1>6, <2>1 DEF Use, playerVars
  <2>2. CASE call' # call
    <3>0. Enter(t, op, s, "player") /\ sound' = sound
      BY <1>6, <2>2 DEF Use, playerVars
    <3>1. call'[t].at # "steal" /\ \A u \in Thread : u # t => call'[u] = call[u]
      <4> DEFINE q == [Idle EXCEPT !.op = op, !.s = s, !.at = "player"]
      <4>1. call' = [call EXCEPT ![t] = q]
        BY <3>0 DEF Enter
      <4>2. q.at = "player"
        BY DEF Idle
      <4> HIDE DEF q
      <4>3. QED
        BY <1>0, <4>1, <4>2 DEF TypeOK
    <3>2. QED
      BY <1>3, <3>0, <3>1
  <2>3. QED
    BY <2>1, <2>2
<1>7. ASSUME NEW t \in Thread, NEW on \in BOOLEAN, SwitchContext(t, on) PROVE Robbed'
  <2>1. call'[t].at # "steal" /\ (\A u \in Thread : u # t => call'[u] = call[u]) /\ sound' = sound
    BY <1>0, <1>7 DEF SwitchContext, Idle, playerVars, TypeOK
  <2>2. QED
    BY <1>3, <2>1
<1>8. ASSUME NEW p \in Player, HeadAtEnd(p) \/ Callback(p) PROVE Robbed'
  <2>1. UNCHANGED <<call, sound>>
    BY <1>8 DEF HeadAtEnd, Callback, EventStop, EventReset, playerVars
  <2>2. QED
    BY <1>1, <2>1
<1>9. CASE UNCHANGED vars
  BY <1>1, <1>9 DEF vars
<1>10. QED
  BY <1>4, <1>5, <1>6, <1>7, <1>8, <1>9 DEF Next

\* If nobody waits in a reset, nobody has a player; then nobody waits for one, and who has
\* a sound goes on.
LEMMA OnlyResetsWait == IInv /\ Robbed => SomeoneGoesOn
<1> SUFFICES ASSUME IInv, Robbed, ~ResetWait,
                    \A t \in Thread : ~GoesOn(t), \A p \in Player : ~CallsBack(p)
             PROVE  /\ \A t \in Thread : call[t] = Idle
                    /\ \A p \in Player : event[p] = "idle"
  BY DEF SomeoneGoesOn
<1>0. TypeOK /\ Owners /\ Alive /\ Listed /\ Owned /\ AudioAssumption
  BY AudioAssumption DEF IInv
<1>1. \A t \in Thread : call[t] \in Calls /\ CallOK(call[t])
  BY <1>0 DEF TypeOK, Owners
<1>2. ASSUME NEW t \in Thread PROVE call[t].at \notin {"steal", "set"}
  <2>1. SUFFICES ASSUME call[t].at \in {"steal", "set"} PROVE FALSE
    OBVIOUS
  <2>2. call[t].op = "play" /\ call[t].p \in Player
    BY <1>1, <2>1 DEF CallOK, Playing, Calls
  <2>3. sound[call[t].p] # None /\ ~SoundSure(sound[call[t].p], t)
    BY <1>0, <2>1, <2>2 DEF GoesOn, At, Robbed
  <2>4. QED
    BY <2>1, <2>2, <2>3 DEF ResetWait
<1>3. ASSUME NEW p \in Player PROVE event[p] # "reset"
  BY DEF CallsBack, ResetWait
<1>4. ASSUME NEW p \in Player PROVE playerLock[p] = None
  <2>1. ASSUME NEW t \in Thread, playerLock[p] = t PROVE FALSE
    <3>1. call[t].p = p
      BY <1>0, <2>1 DEF Owners
    <3>2. call[t].p # None
      BY <1>0, <3>1 DEF AudioAssumption
    <3>3. call[t].at \in {"steal", "set"}
      BY <1>1, <3>2 DEF CallOK
    <3>4. QED
      BY <1>2, <3>3
  <2>2. ASSUME NEW q \in Player, playerLock[p] = q PROVE FALSE
    BY <1>0, <1>3, <2>2 DEF Owners
  <2>3. QED
    BY <1>0, <2>1, <2>2 DEF TypeOK
<1>5. \A p \in Player : event[p] = "idle"
  BY <1>0, <1>3, <1>4 DEF CallsBack, PlayerFree, TypeOK
<1>6. ASSUME NEW t \in Thread PROVE call[t].at \notin {"own", "player", "visit", "each"}
  <2>1. \A p \in Player : PlayerFree(p, t)
    BY <1>4 DEF PlayerFree
  <2>2. call[t].todo \subseteq Player
    BY <1>1 DEF Calls
  <2>3. call[t].at # "each"
    BY <2>1, <2>2 DEF GoesOn
  <2>4. call[t].at # "visit"
    <3>1. SUFFICES ASSUME call[t].at = "visit" PROVE FALSE
      OBVIOUS
    <3>2. At(t, "play", "visit")
      BY <1>1, <3>1 DEF At, CallOK, Playing
    <3>3. CASE call[t].todo = {}
      BY <1>0, <2>1, <3>2, <3>3 DEF GoesOn, AudioAssumption
    <3>4. CASE call[t].todo # {}
      BY <2>1, <2>2, <3>2, <3>4 DEF GoesOn
    <3>5. QED
      BY <3>3, <3>4
  <2>5. ASSUME call[t].at \in {"own", "player"} PROVE FALSE
    <3>1. At(t, "play", "own") \/ call[t].at = "player"
      BY <1>1, <2>5 DEF At, CallOK, Playing
    <3>2. call[t].s \in Sound
      BY <1>1, <2>5 DEF CallOK, Playing, Calls
    <3>3. player[call[t].s] \in Player
      BY <1>0, <2>5, <3>2 DEF Owned, TypeOK
    <3>4. QED
      BY <2>1, <3>1, <3>3 DEF GoesOn
  <2>6. QED
    BY <2>3, <2>4, <2>5
<1>7. ASSUME NEW t \in Thread PROVE call[t].at # "sound"
  <2>1. SUFFICES ASSUME call[t].at = "sound" PROVE FALSE
    OBVIOUS
  <2>2. At(t, "play", "sound") /\ call[t].s \in Sound
    BY <1>1, <2>1 DEF At, CallOK, Playing, Calls
  <2>3. ~SoundFree(call[t].s, t)
    <3>1. ~SoundSure(call[t].s, t)
      BY <2>2 DEF GoesOn
    <3>2. ~deleted[call[t].s]
      BY <1>0, <2>2, AudioAssumption DEF Alive
    <3>3. QED
      BY <3>1, <3>2 DEF SoundSure
  <2>4. PICK u \in Thread : soundLock[call[t].s] = u
    BY <1>0, <2>2, <2>3 DEF SoundFree, TypeOK
  <2>5. call[u].s = call[t].s /\ call[u].at # "sound"
    BY <1>0, <2>2, <2>4 DEF Owners
  <2>6. call[u].s # None
    BY <1>0, <2>2, <2>5 DEF AudioAssumption
  <2>7. call[u].at \in Playing \cup {"player"}
    BY <1>1, <2>6 DEF CallOK
  <2>8. QED
    BY <1>2, <1>6, <2>5, <2>7 DEF Playing
<1>8. ASSUME NEW t \in Thread PROVE call[t] = Idle
  <2>1. call[t].at = "idle"
    BY <1>1, <1>2, <1>6, <1>7 DEF Calls
  <2>2. QED
    BY <1>1, <2>1 DEF CallOK
<1>9. QED
  BY <1>5, <1>8

\* However many threads call, sounds share players and callbacks come late: if all that
\* are under way wait, one is a reset that has the player and waits for the sound.
THEOREM LocksKept == Spec => []Locks
<1>1. Init => Robbed
  BY DEF Init, Robbed, Idle
<1>2. Spec => []Robbed
  BY <1>1, Invariance, RobbedKept, PTL DEF Spec
<1>3. TypeOK /\ LocksReturned /\ IInv /\ Robbed => Locks
  BY OnlyResetsWait DEF Locks
<1>4. QED
  BY <1>2, <1>3, Invariance, LocksGivenBack, PTL

\* However players are taken over and OpenSL refuses to make them anew, no two have the
\* same sound: one that has a sound is the player this sound looks for.
THEOREM OneOwnerKept == Spec => []OneOwner
<1>1. IInv => OneOwner
  BY DEF IInv, Owned
<1>2. QED
  BY <1>1, Invariance, PTL

\* What plays, or waits to play again, can be stopped: the sound of its player has not
\* been deleted and knows that it plays.
THEOREM NoOrphanKept == Spec => []NoOrphan
<1>1. IInv => NoOrphan
  <2> SUFFICES ASSUME IInv, NEW p \in Player, state[p] # "stopped", Settled(p)
               PROVE  ~deleted[sound[p]] /\ fPlaying[sound[p]]
    BY DEF NoOrphan
  <2>1. sound[p] # None
    BY DEF IInv, Listed
  <2>2. ~About(sound[p], {"stop", "delete"})
    BY <2>1 DEF Settled, About
  <2>3. QED
    BY <2>2 DEF IInv, Flags
<1>2. QED
  BY <1>1, Invariance, PTL

\* A sound that thinks it plays is played by its player, is paused or comes back with the
\* context: whatever stopped the player, a callback or another sound, has told it.
THEOREM HeardKept == Spec => []HeardOrMarked
<1>1. IInv => HeardOrMarked
  BY DEF IInv, Heard, HeardOrMarked, Settled
<1>2. QED
  BY <1>1, Invariance, PTL

\* In the background nothing plays, back in the foreground nothing marked is left paused,
\* and no sound the game has paused or stopped is marked (OpenSLContext::pause, resume).
THEOREM BackgroundKept == Spec => []Background
<1>1. IInv => FollowsContext
  BY ContextSettled DEF FollowsContext, InStep
<1>2. IInv => NoUnwantedResume
  <2> SUFFICES ASSUME IInv, NEW p \in Player, Settled(p), ready[p], resume[p]
               PROVE  fPlaying[sound[p]] /\ ~fPaused[sound[p]]
    BY DEF NoUnwantedResume
  <2>1. sound[p] # None
    BY DEF IInv, Listed
  <2>2. ~About(sound[p], {"stop", "delete", "pause"})
    BY <2>1 DEF Settled, About
  <2>3. QED
    BY <2>2 DEF IInv, Flags
<1>3. QED
  BY <1>1, <1>2, Invariance, PTL DEF Background
=============================================================================
