---------------------------- MODULE TouchScreen ----------------------------
(***************************************************************************)
(* Touches on their way from Android to the game: onMotionEvent, with its  *)
(* list of pointers (uMotionEvent.cpp), and the touch screen, which tracks *)
(* the areas under the first pointer and makes a click or a gesture of     *)
(* what it has recorded (uGLTouchScreen.cpp).                              *)
(*                                                                         *)
(* All of it runs in the main thread, one event after the other.  The      *)
(* fingers and the dispatch of their events are external.  onTouch drops   *)
(* what arrives while the context does not run, the end of a touch too.    *)
(* The mouse handlers have no caller; multitouch has no reader.            *)
(***************************************************************************)
EXTENDS Integers, Sequences, FiniteSets, SequencesExt

CONSTANTS
  Id,        \* pointer ids of Android
  Place,     \* where a finger can be, on a line
  Screen,    \* the places on the screen
  Areas,     \* trackList, and clickList: names in order
  Inside,    \* Inside[a]: the places of area a
  recordDistance,
  MaxLost,   \* bound: how many ends of touches do not arrive
  Nowhere

ASSUME TouchAssumption ==
  /\ Areas \in Seq(ToSet(Areas))  \* a list
  /\ Place \subseteq Int /\ Screen \subseteq Place /\ Nowhere \notin Place
  /\ \A a \in ToSet(Areas) : Inside[a] \subseteq Place
  /\ recordDistance \in Nat /\ MaxLost \in Nat

Area == ToSet(Areas)

VARIABLES
  fingers,      \* fingers on the glass, in order: id, was its start delivered
  running,
  pointers,     \* motionEvent: ids and places
  touchDown, touchCancel,
  touchTimeout, \* "off", "armed", or "due" when a second has passed
  touchList,    \* recorded points: the first, and 0, 1 or more (2); emptied here
                \* when the gesture ends, in the code before the next begins
  touchLast,    \* the last one, or Nowhere
  trackingList, trackingLast, \* areas entered, and where each was last told of
  told,         \* history: where the handler of an area thinks the finger is
  gesture,      \* history: first place, has it moved from there, is it long
  lost,         \* history: how many ends of known pointers did not arrive
  report        \* history: what became of the last gesture

handVars == <<fingers, running>>
screenVars == <<touchDown, touchCancel, touchTimeout, touchList, touchLast,
                trackingList, trackingLast, told, report>>
vars == <<handVars, pointers, screenVars, gesture, lost>>

NoPoints == [first |-> Nowhere, count |-> 0]
NoGesture == [start |-> Nowhere, moved |-> FALSE, long |-> FALSE]

Init ==
  /\ fingers = <<>> /\ running = TRUE /\ pointers = <<>>
  /\ touchDown = FALSE /\ touchCancel = FALSE /\ touchTimeout = "off"
  /\ touchList = NoPoints /\ touchLast = Nowhere
  /\ trackingList = <<>> /\ trackingLast = <<>>
  /\ told = [a \in Area |-> Nowhere]
  /\ gesture = NoGesture
  /\ lost = 0 /\ report = "silent"

Far(p, q) == p - q > recordDistance \/ q - p > recordDistance

\* findPointerIndex; 0 stands for -1.
Find(list, id) ==
  IF \E i \in DOMAIN list : list[i].id = id THEN SelectInSeq(list, LAMBDA p : p.id = id) ELSE 0

-----------------------------------------------------------------------------
(* The touch screen.                                                       *)

Tracking == [list |-> trackingList, last |-> trackingLast, told |-> told, processed |-> FALSE]

Tracked(t, a) == Find([j \in DOMAIN t.list |-> [id |-> t.list[j]]], a)

\* An area under the finger hears of it, unless a handler before has processed it.
Under(t, a, x, handled) ==
  LET i == Tracked(t, a)
      enter == [t EXCEPT !.list = Append(@, a), !.last = Append(@, x), !.told[a] = x]
      move == [t EXCEPT !.last[i] = x, !.told[a] = @ + x - t.last[i]]
  IN IF t.processed THEN t
     ELSE [(IF i = 0 THEN enter ELSE move) EXCEPT !.processed = a \in handled]

\* An area that is left stays in one of the two vectors.
OutForgets(t, a) ==
  LET i == Tracked(t, a)
  IN IF i = 0 THEN t ELSE [t EXCEPT !.list = RemoveAt(@, i), !.told[a] = Nowhere]

\* An area that is left: both vectors lose it.
Out(t, a) ==
  LET i == Tracked(t, a)
  IN IF i = 0 THEN t ELSE [t EXCEPT !.list = RemoveAt(@, i), !.last = RemoveAt(@, i),
                                    !.told[a] = Nowhere]

Visit(t, a, x, stop, handled) ==
  IF ~stop /\ x \in Inside[a] THEN Under(t, a, x, handled) ELSE Out(t, a)

\* All areas, one after the other; handled are those whose handler returns true.
recordTrack(t, x, stop, handled) ==
  LET walk[n \in 0..Len(Areas)] ==
        IF n = 0 THEN [t EXCEPT !.processed = FALSE]
        ELSE Visit(walk[n - 1], Areas[n], x, stop, handled)
  IN walk[Len(Areas)]

SetTracking(t) == trackingList' = t.list /\ trackingLast' = t.last /\ told' = t.told

\* A point, if it is the first or far enough from the last.
record(list, last, x) ==
  IF last = Nowhere \/ Far(last, x)
  THEN /\ touchLast' = x
       /\ touchList' = IF list.count = 0 THEN [first |-> x, count |-> 1]
                                         ELSE [list EXCEPT !.count = 2]
  ELSE touchLast' = last /\ touchList' = list

\* checkTimeout: a second has passed since the start.
TimedOut == touchCancel \/ touchTimeout = "due"

\* onTouchStart, at the place of the first pointer.
onTouchStart(x, handled) ==
  IF x \in Screen
  THEN /\ touchDown' = TRUE /\ touchCancel' = TimedOut
       /\ touchTimeout' = IF TimedOut THEN "off" ELSE "armed"
       /\ record(NoPoints, Nowhere, x)
       /\ SetTracking(recordTrack(Tracking, x, FALSE, handled))
       /\ report' = "silent"
  ELSE /\ touchCancel' = TimedOut
       /\ touchTimeout' = IF touchTimeout = "due" THEN "off" ELSE touchTimeout
       /\ UNCHANGED <<touchDown, touchList, touchLast, trackingList, trackingLast, told, report>>

\* The areas hear of a move as often as there are pointers that moved; handled[i] at
\* the i-th time.
Repeated(x, times, handled) ==
  LET rounds[n \in 0..times] ==
        IF n = 0 THEN Tracking ELSE recordTrack(rounds[n - 1], x, FALSE, handled[n])
  IN rounds[times]

\* onTouchMove, once for each pointer that moved.
onTouchMove(x, times, handled) ==
  /\ touchCancel' = TimedOut
  /\ touchTimeout' = IF touchTimeout = "due" THEN "off" ELSE touchTimeout
  /\ IF touchDown
     THEN /\ record(touchList, touchLast, x)
          /\ SetTracking(Repeated(x, times, handled))
     ELSE UNCHANGED <<touchList, touchLast, trackingList, trackingLast, told>>
  /\ UNCHANGED <<touchDown, report>>

\* One point is a click on an area there, the topmost whose handler takes it or
\* the last of all; more are a circle, an arc, a swipe, or nothing.
Outcomes ==
  IF touchList.count = 1
  THEN LET hit == {a \in Area : touchList.first \in Inside[a]}
       IN IF hit = {} THEN {"none"} ELSE hit
  ELSE {"gesture", "silent"}

\* analyze and onTouchEnd, with a cancellation that stays for the next gesture.
onTouchEndKeeps(x) ==
  IF touchDown
  THEN /\ SetTracking(recordTrack(Tracking, x, TRUE, {}))
       /\ touchDown' = FALSE /\ touchTimeout' = "off" /\ touchCancel' = TimedOut
       /\ IF TimedOut THEN report' = "cancelled" ELSE report' \in Outcomes
       /\ touchList' = NoPoints /\ touchLast' = Nowhere
  ELSE /\ touchCancel' = TimedOut
       /\ touchTimeout' = IF touchTimeout = "due" THEN "off" ELSE touchTimeout
       /\ UNCHANGED <<touchDown, touchList, touchLast, trackingList, trackingLast, told, report>>

\* onTouchEnd and analyze: all areas are left, and the gesture told unless it
\* took longer than a second.
onTouchEnd(x) ==
  IF touchDown
  THEN /\ SetTracking(recordTrack(Tracking, x, TRUE, {}))
       /\ touchDown' = FALSE /\ touchTimeout' = "off" /\ touchCancel' = FALSE
       /\ IF TimedOut THEN report' = "cancelled" ELSE report' \in Outcomes
       /\ touchList' = NoPoints /\ touchLast' = Nowhere
  ELSE /\ touchCancel' = TimedOut
       /\ touchTimeout' = IF touchTimeout = "due" THEN "off" ELSE touchTimeout
       /\ UNCHANGED <<touchDown, touchList, touchLast, trackingList, trackingLast, told, report>>

-----------------------------------------------------------------------------
(* onMotionEvent.                                                          *)

\* The first finger of those whose start was delivered.
Oldest(f) == fingers[f].seen /\ \A g \in 1..f - 1 : ~fingers[g].seen

\* What the handlers of the areas answer; nobody asks for the last one's answer.
Answers == SUBSET (Area \ {Last(Areas)})

\* ACTION_DOWN, ACTION_POINTER_DOWN: the pointer is inserted at the end.
Down(id, x) ==
  /\ \A i \in DOMAIN fingers : fingers[i].id # id
  /\ fingers' = Append(fingers, [id |-> id, seen |-> running])
  /\ IF running
     THEN /\ pointers' = Append(pointers, [id |-> id, at |-> x])
          /\ \E handled \in Answers : onTouchStart(pointers'[1].at, handled)
          /\ gesture' = IF pointers'[1].at \in Screen
                        THEN [start |-> pointers'[1].at, moved |-> FALSE,
                              long |-> touchDown /\ gesture.long]
                        ELSE gesture
     ELSE UNCHANGED <<pointers, screenVars, gesture>>
  /\ UNCHANGED <<running, lost>>

\* ACTION_MOVE tells of all fingers, now at to[id]; the touch screen hears of
\* each that is known.
Move(to) ==
  LET ids == {fingers[f].id : f \in DOMAIN fingers}
      known == {id \in ids : Find(pointers, id) # 0}
  IN /\ running /\ known # {}
     /\ pointers' = [p \in DOMAIN pointers |->
                      IF \E id \in known : Find(pointers, id) = p
                      THEN [pointers[p] EXCEPT !.at = to[pointers[p].id]] ELSE pointers[p]]
     /\ \E handled \in [1..Cardinality(known) -> Answers] :
          onTouchMove(pointers'[1].at, Cardinality(known), handled)
     /\ gesture' = [gesture EXCEPT !.moved =
          @ \/ (touchDown /\ gesture.start # Nowhere
                /\ \E f \in DOMAIN fingers : Oldest(f) /\ Far(gesture.start, to[fingers[f].id]))]
     /\ UNCHANGED <<handVars, lost>>

\* The pointer that ends is not the one with its id.
EndsAtIndex(id, x) ==
  LET p == Find(fingers, id)
  IN IF running /\ p # 0 /\ p <= Len(pointers)
     THEN LET moved == [pointers EXCEPT ![p].at = x]
          IN onTouchEnd(moved[1].at) /\ pointers' = RemoveAt(moved, Len(pointers))
     ELSE UNCHANGED <<pointers, screenVars>>

\* ACTION_UP, ACTION_POINTER_UP, ACTION_CANCEL: the touch screen hears of a known
\* pointer before it is removed.
Ends(id, x) ==
  LET p == Find(pointers, id)
  IN IF running /\ p # 0
     THEN LET moved == [pointers EXCEPT ![p].at = x]
          IN onTouchEnd(moved[1].at) /\ pointers' = RemoveAt(moved, p)
     ELSE UNCHANGED <<pointers, screenVars>>

\* One finger goes up, or all are cancelled by one event, which names one of them.
Leave(i, x, all) ==
  /\ fingers' = IF all THEN <<>> ELSE RemoveAt(fingers, i)
  /\ Ends(fingers[i].id, x)
  /\ lost' = lost + Cardinality({f \in DOMAIN fingers :
                      fingers[f].seen /\ (f = i \/ all) /\ (f # i \/ ~running)})
  /\ lost' <= MaxLost
  /\ gesture' = IF touchDown' THEN gesture ELSE NoGesture
  /\ UNCHANGED running

-----------------------------------------------------------------------------
(* Time, and the context.                                                  *)

Elapse ==
  /\ touchTimeout = "armed" /\ touchTimeout' = "due"
  /\ gesture' = [gesture EXCEPT !.long = TRUE]
  /\ UNCHANGED <<handVars, pointers, touchDown, touchCancel, touchList, touchLast,
                 trackingList, trackingLast, told, report, lost>>

\* onPause and onResume of the context.
Switch ==
  /\ running' = ~running
  /\ UNCHANGED <<fingers, pointers, screenVars, gesture, lost>>

Next ==
  \/ \E id \in Id, x \in Place : Down(id, x)
  \/ \E to \in [Id -> Place] : Move(to)
  \/ \E i \in DOMAIN fingers, x \in Place : Leave(i, x, FALSE) \/ Leave(i, x, TRUE)
  \/ Elapse \/ Switch

Spec == Init /\ [][Next]_vars

-----------------------------------------------------------------------------

\* The types; the first pointer, which every handler reads, exists by then.
TypeOK ==
  /\ running \in BOOLEAN /\ lost \in 0..MaxLost
  /\ \A i \in DOMAIN fingers : fingers[i] \in [id : Id, seen : BOOLEAN]
  /\ \A i \in DOMAIN pointers : pointers[i] \in [id : Id, at : Place]
  /\ touchDown \in BOOLEAN /\ touchCancel \in BOOLEAN
  /\ touchTimeout \in {"off", "armed", "due"}
  /\ touchList \in [first : Place \cup {Nowhere}, count : 0..2]
  /\ touchLast \in Place \cup {Nowhere}
  /\ ToSet(trackingList) \subseteq Area /\ ToSet(trackingLast) \subseteq Place
  /\ report \in {"silent", "cancelled", "none", "gesture"} \cup Area
  /\ touchDown => pointers # <<>>

\* The pointers of motionEvent are the fingers whose start arrived, in their
\* order and none twice, as long as the end of each arrives too.
PointersFollow ==
  lost = 0 =>
    /\ {pointers[i].id : i \in DOMAIN pointers} =
         {fingers[f].id : f \in {g \in DOMAIN fingers : fingers[g].seen}}
    /\ \A i, j \in DOMAIN pointers, f, g \in DOMAIN fingers :
         i < j /\ pointers[i].id = fingers[f].id /\ pointers[j].id = fingers[g].id => f < g

\* The two tracking vectors stay in step: who adds up the deltas an area was told
\* knows where the finger was, whichever handlers processed what in between.
DeltasAddUp ==
  /\ Len(trackingList) = Len(trackingLast)
  /\ \A i \in DOMAIN trackingList : told[trackingList[i]] = trackingLast[i]

\* When no gesture goes on, every area that was entered has been left.
AllLeft == ~touchDown => trackingList = <<>>

\* A short touch that stays where it began becomes a click on an area there, or
\* "none" without one; a long one is cancelled; and neither spoils the next.
ShortTouchTold ==
  [][touchDown /\ ~touchDown' /\ lost' = 0 =>
       IF gesture.long THEN report' = "cancelled"
       ELSE IF gesture.moved THEN report' \in {"gesture", "silent"}
       ELSE IF \E a \in Area : gesture.start \in Inside[a]
            THEN report' \in Area /\ gesture.start \in Inside[report']
            ELSE report' = "none"]_vars

\* An area that a touch enters hears where it goes, and that it leaves.
TracksAreas == TypeOK /\ DeltasAddUp /\ AllLeft
=============================================================================
