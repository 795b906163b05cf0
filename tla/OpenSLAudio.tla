----------------------------- MODULE OpenSLAudio -----------------------------
(***************************************************************************)
(* Sounds and the players they share on Android: uMixer.cpp,               *)
(* OpenSLContext, OpenSLPlayer, OpenSLSound.                               *)
(*                                                                         *)
(* Application threads play, pause, stop, set the volume of and delete     *)
(* sounds and pause or resume the whole context; OpenSL ES calls back in a *)
(* thread of its own when a player reaches the end.  A sound that needs a  *)
(* player takes a stopped one, makes one, or takes one from another sound. *)
(*                                                                         *)
(* A step ends where the code next waits for a lock; a call that waits for *)
(* its first one holds nothing and counts as not made yet.  Locks are      *)
(* reentrant (module ObjectLock): a thread passes its own.  The lock of    *)
(* OpenSLContext is taken only under context_lock of uMixer.cpp and is not *)
(* modelled apart from it.                                                 *)
(***************************************************************************)
EXTENDS Naturals, FiniteSets

CONSTANTS
  Thread,   \* application threads
  Sound, Player,
  None

ASSUME AudioAssumption ==
  /\ None \notin Thread \cup Sound \cup Player
  /\ Thread \cap Player = {}  \* the callbacks of OpenSL run in threads of their own
  /\ Player # {}  \* OPENSL_CHANNELS is 16

VARIABLES
  mixLock,     \* context_lock
  soundLock, playerLock, \* owner of each object's lock: a thread, a player's callback
  paused,      \* OpenSLContext.paused
  exists,      \* the players made so far
  state, resume, sound, ready, \* of each player; ready: OpenSL has made its object
  fPaused, fPlaying, player, deleted, \* of each sound
  call,        \* what each thread does: operation, place, sound, player, players to visit
  event,       \* callback of each player: "idle", "lock", "reset"
  refused      \* history: OpenSL has refused to make a player's object

vars == <<mixLock, soundLock, playerLock, paused, exists, state, resume, sound, ready,
          fPaused, fPlaying, player, deleted, call, event, refused>>
lockVars == <<mixLock, soundLock, playerLock>>
playerVars == <<exists, state, resume, sound, ready>>
soundVars == <<fPaused, fPlaying, player, deleted>>


Idle == [op |-> "none", at |-> "idle", s |-> None, p |-> None, todo |-> {}]

Init ==
  /\ mixLock = None
  /\ soundLock = [s \in Sound |-> None] /\ playerLock = [p \in Player |-> None]
  /\ paused = FALSE /\ exists = {}
  /\ state = [p \in Player |-> "stopped"] /\ resume = [p \in Player |-> FALSE]
  /\ sound = [p \in Player |-> None] /\ ready = [p \in Player |-> FALSE]
  /\ fPaused = [s \in Sound |-> FALSE] /\ fPlaying = [s \in Sound |-> FALSE]
  /\ player = [s \in Sound |-> None] /\ deleted = [s \in Sound |-> FALSE]
  /\ call = [t \in Thread |-> Idle]
  /\ event = [p \in Player |-> "idle"]
  /\ refused = FALSE

At(t, op, at) == call[t].op = op /\ call[t].at = at
Go(t, at) == call' = [call EXCEPT ![t].at = at]
Return(t) == call' = [call EXCEPT ![t] = Idle]
\* The destructor of a sound keeps its lock, and then the memory is gone: whoever still
\* calls it may go through, as here, or wait for ever (SoundSure).
SoundFree(s, t) == soundLock[s] \in {None, t} \/ deleted[s]
PlayerFree(p, t) == playerLock[p] \in {None, t}

-----------------------------------------------------------------------------
(* Sounds.                                                                 *)

\* A sound is not used by one thread and deleted by another: that is the caller's.
MayCall(t, op, s) ==
  /\ call[t] = Idle /\ ~deleted[s]
  /\ \A u \in Thread : call[u].s = s => op # "delete" /\ call[u].op # "delete"

Enter(t, op, s, at) ==
  call' = [call EXCEPT ![t] = [Idle EXCEPT !.op = op, !.s = s, !.at = at]]

\* playAudio.
Play(t, s) ==
  /\ MayCall(t, "play", s) /\ mixLock = None
  /\ mixLock' = t
  /\ Enter(t, "play", s, "sound")
  /\ UNCHANGED <<soundLock, playerLock, paused, playerVars, soundVars, event, refused>>

\* getFreePlayer starts its loop.
Scan(t) == call' = [call EXCEPT ![t].at = "visit", ![t].todo = exists]

\* play() looks for a player each time.
LockPlayedAnew(t) ==
  LET s == call[t].s
  IN /\ At(t, "play", "sound") /\ SoundFree(s, t)
     /\ soundLock' = [soundLock EXCEPT ![s] = t]
     /\ Scan(t)
     /\ UNCHANGED <<mixLock, playerLock, paused, playerVars, soundVars, event, refused>>

\* OpenSLSound::play: its own player first, if it ever had one.
LockPlayed(t) ==
  LET s == call[t].s
  IN /\ At(t, "play", "sound") /\ SoundFree(s, t)
     /\ soundLock' = [soundLock EXCEPT ![s] = t]
     /\ IF player[s] = None THEN Scan(t) ELSE Go(t, "own")
     /\ UNCHANGED <<mixLock, playerLock, paused, playerVars, soundVars, event, refused>>

\* The destructor closes the file and forgets the player.
UseOrClose(t, op, s) ==
  /\ MayCall(t, op, s) /\ op = "delete" /\ SoundFree(s, t)
  /\ deleted' = [deleted EXCEPT ![s] = TRUE]
  /\ UNCHANGED <<lockVars, paused, playerVars, fPaused, fPlaying, player, call, event, refused>>

\* OpenSLSound::pause, stop, setVolume and the destructor: flags, then the player.
Use(t, op, s) ==
  /\ MayCall(t, op, s) /\ SoundFree(s, t)
  /\ fPaused' = [fPaused EXCEPT ![s] = IF fPlaying[s] /\ op # "volume" THEN op = "pause" ELSE @]
  /\ fPlaying' = [fPlaying EXCEPT ![s] = @ /\ op \notin {"stop", "delete"}]
  /\ IF player[s] # None /\ (op = "volume" \/ fPlaying[s])
     THEN /\ Enter(t, op, s, "player")
          /\ soundLock' = [soundLock EXCEPT ![s] = t] /\ UNCHANGED deleted
     ELSE /\ deleted' = [deleted EXCEPT ![s] = op = "delete"]
          /\ UNCHANGED <<call, soundLock>>
  /\ UNCHANGED <<mixLock, playerLock, paused, playerVars, player, event, refused>>

\* OpenSLPlayer::pause, stop and setVolume on the sound's player; stop() resets this
\* very sound.  pause() does not look whether the player is still its own.
UsePlayer(t) ==
  LET s == call[t].s  p == player[s]  op == call[t].op
      own == sound[p] = s
  IN /\ call[t].at = "player" /\ PlayerFree(p, t)
     /\ \/ /\ op = "pause" /\ resume' = [resume EXCEPT ![p] = FALSE]
           /\ state' = [state EXCEPT ![p] =
                          IF ready[p] /\ @ = "playing" THEN "paused" ELSE @]
           /\ UNCHANGED fPaused
        \/ /\ op \in {"stop", "delete"} /\ own
           /\ state' = [state EXCEPT ![p] = "stopped"]
           /\ resume' = [resume EXCEPT ![p] = FALSE]
           /\ fPaused' = [fPaused EXCEPT ![s] = FALSE]
        \/ /\ op = "volume" \/ (op # "pause" /\ ~own)
           /\ UNCHANGED <<state, resume, fPaused>>
     /\ soundLock' = [soundLock EXCEPT ![s] = None]
     /\ deleted' = [deleted EXCEPT ![s] = op = "delete"]
     /\ Return(t)
     /\ UNCHANGED <<mixLock, playerLock, paused, exists, sound, ready, fPlaying, player, event, refused>>

\* play() does not ask whether the context is paused.
StartRegardless(t, s, p, made) ==
  /\ state' = [state EXCEPT ![p] = IF ready'[p] THEN "playing" ELSE made]
  /\ soundLock' = [soundLock EXCEPT ![s] = None]
  /\ playerLock' = [playerLock EXCEPT ![p] = None]
  /\ mixLock' = None
  /\ Return(t)
  /\ UNCHANGED <<paused, resume, exists, deleted, event>>

\* The end of play(): the player starts, or is left to resume().
StartOn(t, s, p, made) ==
  /\ IF paused
     THEN resume' = [resume EXCEPT ![p] = TRUE] /\ state' = [state EXCEPT ![p] = made]
     ELSE /\ UNCHANGED resume
          /\ state' = [state EXCEPT ![p] = IF ready'[p] THEN "playing" ELSE made]
  /\ soundLock' = [soundLock EXCEPT ![s] = None]
  /\ playerLock' = [playerLock EXCEPT ![p] = None]
  /\ mixLock' = None
  /\ Return(t)
  /\ UNCHANGED <<paused, exists, deleted, event>>

\* The player still plays this sound; if it does not run, it is started again.
PlayOwn(t) ==
  LET s == call[t].s  p == player[s]
  IN /\ At(t, "play", "own") /\ PlayerFree(p, t) /\ sound[p] = s
     /\ fPaused' = [fPaused EXCEPT ![s] = FALSE]
     /\ fPlaying' = [fPlaying EXCEPT ![s] = TRUE]
     /\ UNCHANGED <<sound, ready, player, refused>>
     /\ IF state[p] # "playing"
        THEN StartOn(t, s, p, state[p])
        ELSE /\ soundLock' = [soundLock EXCEPT ![s] = None]
             /\ mixLock' = None
             /\ Return(t)
             /\ UNCHANGED <<playerLock, state, resume, paused, exists, deleted, event>>

\* The player of another sound is left locked.
PlayLostLocked(t) ==
  LET p == player[call[t].s]
  IN /\ At(t, "play", "own") /\ PlayerFree(p, t) /\ sound[p] # call[t].s
     /\ Scan(t)
     /\ playerLock' = [playerLock EXCEPT ![p] = t]
     /\ UNCHANGED <<mixLock, soundLock, paused, playerVars, soundVars, event, refused>>

PlayLost(t) ==
  LET p == player[call[t].s]
  IN /\ At(t, "play", "own") /\ PlayerFree(p, t) /\ sound[p] # call[t].s
     /\ Scan(t)
     /\ UNCHANGED <<lockVars, paused, playerVars, soundVars, event, refused>>

-----------------------------------------------------------------------------
(* OpenSLContext::getFreePlayer, with the sound locked.                    *)

\* One player after the other, each under its lock; the first that has stopped is taken.
Visit(t, p) ==
  /\ At(t, "play", "visit") /\ p \in call[t].todo /\ PlayerFree(p, t)
  /\ IF state[p] = "stopped"
     THEN /\ playerLock' = [playerLock EXCEPT ![p] = t]
          /\ resume' = [resume EXCEPT ![p] = FALSE]
          /\ call' = [call EXCEPT ![t].at = "set", ![t].p = p]
     ELSE /\ call' = [call EXCEPT ![t].todo = @ \ {p}]
          /\ UNCHANGED <<playerLock, resume>>
  /\ UNCHANGED <<mixLock, soundLock, paused, exists, state, sound, ready, soundVars, event, refused>>

MakePlayer(t, p) ==
  /\ At(t, "play", "visit") /\ call[t].todo = {} /\ p \notin exists
  /\ exists' = exists \cup {p}
  /\ playerLock' = [playerLock EXCEPT ![p] = t]
  /\ call' = [call EXCEPT ![t].at = "set", ![t].p = p]
  /\ UNCHANGED <<mixLock, soundLock, paused, state, resume, sound, ready, soundVars, event, refused>>

\* All run: the one used longest ago.  Access times are milliseconds and tie; any.
TakePlayer(t, p) ==
  /\ At(t, "play", "visit") /\ call[t].todo = {} /\ exists = Player
  /\ PlayerFree(p, t)
  /\ playerLock' = [playerLock EXCEPT ![p] = t]
  /\ call' = [call EXCEPT ![t].at = IF state[p] = "playing" THEN "steal" ELSE "set", ![t].p = p]
  /\ resume' = [resume EXCEPT ![p] = FALSE]
  /\ UNCHANGED <<mixLock, soundLock, paused, exists, state, sound, ready, soundVars, event, refused>>

\* OpenSLPlayer::stop tells the sound the player has, which needs that sound's lock.
Reset(p) ==
  /\ fPaused' = [s \in Sound |-> fPaused[s] /\ s # sound[p]]
  /\ fPlaying' = [s \in Sound |-> fPlaying[s] /\ s # sound[p]]

StealPlayer(t) ==
  LET p == call[t].p
  IN /\ At(t, "play", "steal") /\ SoundFree(sound[p], t)
     /\ state' = [state EXCEPT ![p] = "stopped"]
     /\ Reset(p)
     /\ Go(t, "set")
     /\ UNCHANGED <<lockVars, paused, exists, resume, sound, ready, player, deleted, event, refused>>

\* setSound: clear() stops what the player had.  OpenSL may refuse to make a new object,
\* or, later, one of its interfaces, so that clear() stops the old sound once more; then
\* the player keeps its old sound.  play() goes on either way.
SetSound(t) ==
  LET s == call[t].s  p == call[t].p
  IN /\ At(t, "play", "set")
     /\ \E result \in {"made", "refused", "refused late"} :
          LET ok == result = "made"
              stops == sound[p] # None /\ (ready[p] \/ result = "refused late")
          IN /\ stops => SoundFree(sound[p], t)
             /\ ready' = [ready EXCEPT ![p] = ok]
             /\ sound' = [sound EXCEPT ![p] = IF ok THEN s ELSE @]
             /\ refused' = (refused \/ ~ok)
             /\ fPlaying' = [x \in Sound |-> x = s \/ (fPlaying[x] /\ ~(stops /\ x = sound[p]))]
             /\ fPaused' = [x \in Sound |-> fPaused[x] /\ x # s /\ ~(stops /\ x = sound[p])]
     /\ player' = [player EXCEPT ![s] = p]
     /\ StartOn(t, s, p, "stopped")

-----------------------------------------------------------------------------
(* OpenSLContext::pause and resume, under context_lock.                    *)

SwitchContext(t, on) ==
  /\ call[t] = Idle /\ mixLock = None
  /\ mixLock' = t
  /\ paused' = on
  /\ call' = [call EXCEPT ![t] = [Idle EXCEPT !.op = IF on THEN "suspend" ELSE "restore",
                                    !.at = "each", !.todo = IF paused = on THEN {} ELSE exists]]
  /\ UNCHANGED <<soundLock, playerLock, playerVars, soundVars, event, refused>>

\* Players that play are paused and marked; marked ones that are paused play again.
EachPlayer(t, p) ==
  LET stops == call[t].op = "suspend" /\ state[p] = "playing"
      starts == call[t].op = "restore" /\ ready[p] /\ state[p] = "paused" /\ resume[p]
  IN /\ call[t].at = "each" /\ p \in call[t].todo /\ PlayerFree(p, t)
     /\ call' = [call EXCEPT ![t].todo = @ \ {p}]
     /\ state' = [state EXCEPT ![p] = IF stops THEN "paused" ELSE IF starts THEN "playing" ELSE @]
     /\ resume' = [resume EXCEPT ![p] = stops \/ (@ /\ ~starts)]
     /\ UNCHANGED <<lockVars, paused, exists, sound, ready, soundVars, event, refused>>

UnlockContext(t) ==
  /\ call[t].at = "each" /\ call[t].todo = {}
  /\ mixLock' = None
  /\ Return(t)
  /\ UNCHANGED <<soundLock, playerLock, paused, playerVars, soundVars, event, refused>>

-----------------------------------------------------------------------------
(* The thread of OpenSL ES: EventCallback at the end of a sound.           *)

HeadAtEnd(p) ==
  /\ event[p] = "idle" /\ state[p] = "playing"
  /\ event' = [event EXCEPT ![p] = "lock"]
  /\ UNCHANGED <<lockVars, paused, playerVars, soundVars, call, refused>>

\* The sound is not told.
EventStopSilent(p) ==
  /\ event[p] = "lock" /\ PlayerFree(p, p)
  /\ state' = [state EXCEPT ![p] = "stopped"]
  /\ resume' = [resume EXCEPT ![p] = FALSE]
  /\ event' = [event EXCEPT ![p] = "idle"]
  /\ UNCHANGED <<lockVars, paused, exists, sound, ready, soundVars, call, refused>>

\* stop(): by now the player may have another sound, or none.
EventStop(p) ==
  /\ event[p] = "lock" /\ PlayerFree(p, p)
  /\ state' = [state EXCEPT ![p] = "stopped"]
  /\ resume' = [resume EXCEPT ![p] = FALSE]
  /\ IF ready[p] /\ sound[p] # None
     THEN /\ playerLock' = [playerLock EXCEPT ![p] = p]
          /\ event' = [event EXCEPT ![p] = "reset"]
     ELSE event' = [event EXCEPT ![p] = "idle"] /\ UNCHANGED playerLock
  /\ UNCHANGED <<mixLock, soundLock, paused, exists, sound, ready, soundVars, call, refused>>

EventReset(p) ==
  /\ event[p] = "reset" /\ SoundFree(sound[p], p)
  /\ Reset(p)
  /\ playerLock' = [playerLock EXCEPT ![p] = None]
  /\ event' = [event EXCEPT ![p] = "idle"]
  /\ UNCHANGED <<mixLock, soundLock, paused, playerVars, player, deleted, call, refused>>

-----------------------------------------------------------------------------

Step(t) ==
  \/ LockPlayed(t) \/ UsePlayer(t) \/ PlayOwn(t) \/ PlayLost(t)
  \/ StealPlayer(t) \/ SetSound(t) \/ UnlockContext(t)
  \/ \E p \in Player : Visit(t, p) \/ MakePlayer(t, p) \/ TakePlayer(t, p) \/ EachPlayer(t, p)

Callback(p) == EventStop(p) \/ EventReset(p)

Operation == {"pause", "stop", "volume", "delete"}

Next ==
  \/ \E t \in Thread : \/ Step(t)
                       \/ \E s \in Sound : Play(t, s) \/ \E op \in Operation : Use(t, op, s)
                       \/ \E on \in BOOLEAN : SwitchContext(t, on)
  \/ \E p \in Player : HeadAtEnd(p) \/ Callback(p)

Spec == Init /\ [][Next]_vars

-----------------------------------------------------------------------------

Calls == [op : Operation \cup {"none", "play", "suspend", "restore"},
          at : {"idle", "sound", "own", "visit", "player", "steal", "set", "each"},
          s : Sound \cup {None}, p : Player \cup {None}, todo : SUBSET Player]

\* The types; and a player that is not in the list, which pause() of the context and
\* the next play() go through, is nobody's.
TypeOK ==
  /\ mixLock \in Thread \cup {None}
  /\ soundLock \in [Sound -> Thread \cup {None}]
  /\ playerLock \in [Player -> Thread \cup Player \cup {None}]
  /\ paused \in BOOLEAN /\ exists \subseteq Player
  /\ \A p \in Player \ exists : ~ready[p] /\ sound[p] = None /\ playerLock[p] = None
  /\ state \in [Player -> {"stopped", "playing", "paused"}]
  /\ resume \in [Player -> BOOLEAN] /\ ready \in [Player -> BOOLEAN]
  /\ sound \in [Player -> Sound \cup {None}] /\ player \in [Sound -> Player \cup {None}]
  /\ fPaused \in [Sound -> BOOLEAN] /\ fPlaying \in [Sound -> BOOLEAN]
  /\ deleted \in [Sound -> BOOLEAN]
  /\ call \in [Thread -> Calls]
  /\ event \in [Player -> {"idle", "lock", "reset"}] /\ refused \in BOOLEAN

\* Nobody is in the middle of changing this player or its sound.
Settled(p) == playerLock[p] = None /\ (sound[p] # None => soundLock[sound[p]] = None)

\* A player that has a sound is the player this sound looks for: however players
\* are taken over, no two of them have the same sound.
OneOwner == \A p \in Player : sound[p] # None => player[sound[p]] = p

\* What plays or waits to play again can be stopped: its sound still exists and
\* knows that it plays.
NoOrphan ==
  \A p \in Player : state[p] # "stopped" /\ Settled(p) =>
                      ~deleted[sound[p]] /\ fPlaying[sound[p]]

\* A sound that thinks it plays on a player of its own has not been stopped, by a
\* late callback or by another sound, without being told.  (A sound OpenSL has refused
\* believes that it plays, and its pause() is then another sound's.)
HeardOrMarked ==
  ~refused => \A p \in Player : Settled(p) /\ ready[p] /\ state[p] = "stopped" =>
                      resume[p] \/ ~fPlaying[sound[p]] \/ fPaused[sound[p]]

\* Coming back to the foreground never starts what the game has paused or stopped.
NoUnwantedResume ==
  \A p \in Player : Settled(p) /\ ready[p] /\ resume[p] =>
                      fPlaying[sound[p]] /\ ~fPaused[sound[p]]

\* In the background nothing plays, whatever was started meanwhile; back in the
\* foreground nothing that was marked is left paused.
FollowsContext ==
  mixLock = None =>
    \A p \in Player : IF paused THEN state[p] # "playing"
                      ELSE ~(ready[p] /\ state[p] = "paused" /\ resume[p])

\* The lock of a sound is there, and free.
SoundSure(s, t) == SoundFree(s, t) /\ ~deleted[s]

\* Somebody holds a player and wants the lock of the sound it has: stop() takes the
\* two in the order opposite to OpenSLSound's, and looks in a deleted sound for its lock.
ResetWait ==
  \E p \in Player :
    \/ event[p] = "reset" /\ ~SoundSure(sound[p], p)
    \/ \E t \in Thread : /\ call[t].at \in {"steal", "set"} /\ call[t].p = p
                          /\ sound[p] # None /\ ~SoundSure(sound[p], t)

\* Whoever holds a lock is at work and gives it back: a call that returned, however
\* early, holds nothing.
LocksReturned ==
  /\ mixLock # None => call[mixLock] # Idle
  /\ \A s \in Sound : soundLock[s] # None => call[soundLock[s]].s = s
  /\ \A p \in Player : playerLock[p] # None =>
       IF playerLock[p] \in Thread THEN call[playerLock[p]].p = p ELSE event[p] = "reset"

\* The locks that the next step of a call asks for are free, or one player's is.
GoesOn(t) ==
  \/ At(t, "play", "sound") /\ SoundSure(call[t].s, t)
  \/ (At(t, "play", "own") \/ call[t].at = "player") /\ PlayerFree(player[call[t].s], t)
  \/ /\ At(t, "play", "visit")
     /\ \/ \E p \in call[t].todo : PlayerFree(p, t)
        \/ call[t].todo = {} /\ (exists # Player \/ \E p \in Player : PlayerFree(p, t))
  \/ At(t, "play", "steal") /\ SoundSure(sound[call[t].p], t)
  \/ /\ At(t, "play", "set")
     /\ sound[call[t].p] # None => SoundSure(sound[call[t].p], t)
  \/ call[t].at = "each" /\ (call[t].todo = {} \/ \E p \in call[t].todo : PlayerFree(p, t))

\* And those of a callback.
CallsBack(p) == \/ event[p] = "lock" /\ PlayerFree(p, p)
                \/ event[p] = "reset" /\ SoundSure(sound[p], p)

\* If nobody can go on, it is for that one place: unless a player's reset waits for a
\* sound, of all calls and callbacks under way there is one that has the locks it needs.
SomeoneGoesOn ==
  (\E t \in Thread : call[t] # Idle) \/ (\E p \in Player : event[p] # "idle") =>
    (\E t \in Thread : GoesOn(t)) \/ (\E p \in Player : CallsBack(p)) \/ ResetWait

\* Calls give their locks back, and only the reset of a sound can wait for ever.
Locks == TypeOK /\ LocksReturned /\ SomeoneGoesOn

\* The application in the background is silent, and what comes back is what played.
Background == FollowsContext /\ NoUnwantedResume
=============================================================================
