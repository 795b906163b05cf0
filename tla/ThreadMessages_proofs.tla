------------------------ MODULE ThreadMessages_proofs ------------------------
(***************************************************************************)
(* Proofs about the calls between threads, for every set of threads and    *)
(* calls: the handshake of a Sync call is safe, the counter of the OpenGL  *)
(* pipe is exact, and every step is a step of RemoteCall or a stutter.     *)
(***************************************************************************)
EXTENDS ThreadMessages, SequenceTheorems, FiniteSetTheorems, TLAPS

\* The d-th frame of a stack from its bottom: a push or a pop above leaves it.
Nth(s, d) == s[Len(s) + 1 - d]

\* A frame of c's caller; a frame of c's runner.
Calls(s, d, c) == Nth(s, d).call = c /\ Nth(s, d).at \in CallerAt
Runs(s, d, c) == Nth(s, d).call = c /\ Nth(s, d).at \in RunnerAt

Depths(t) == 1 .. Len(stack[t])
Called(c) == \E t \in Thread : \E d \in Depths(t) : Calls(stack[t], d, c)
Running(c) == \E t \in Thread : \E d \in Depths(t) : Runs(stack[t], d, c)
InPipe(c) == \E p \in {Main, GL} : \E i \in 1 .. Len(pipe[p]) : pipe[p][i] = c

\* What a frame works on and where it lies: a thread that is not running a callback
\* or its drain loop does nothing else; what a Sync call's runner unwinds after an
\* error is the loop that read its message.
FrameOK(s, d) ==
  LET f == Nth(s, d)
  IN /\ f.call \in Call <=> f.at # "read"
     /\ f.at \in {"lock", "wait", "collect", "set", "unlock"} => f.call \in SyncCall
     /\ f.at = "result" => f.call \notin SyncCall
     /\ f.at \in CallerAt => Target[f.call] \in {Main, GL}
     /\ f.at = "count" => Target[f.call] = GL
     /\ f.at \in CallerAt \cup {"uncount", "set", "unlock"} => d = Len(s)
     /\ f.at \in {"uncount", "set", "unlock"} \/ (f.at = "run" /\ f.call \in SyncCall) =>
          d > 1 /\ Nth(s, d - 1).at = "read"

StackOK(s) == \A d \in 1 .. Len(s) : FrameOK(s, d)
Stacked == \A t \in Thread : StackOK(stack[t])

PipesOnce ==
  \A p, q \in {Main, GL} : \A i \in 1 .. Len(pipe[p]), j \in 1 .. Len(pipe[q]) :
    pipe[p][i] = pipe[q][j] => p = q /\ i = j

\* A call has one caller at most, and one place where its callback waits or runs.
Once ==
  /\ \A c \in Call : \A t, u \in Thread : \A d \in Depths(t), e \in Depths(u) :
       /\ Calls(stack[t], d, c) /\ Calls(stack[u], e, c) => t = u /\ d = e
       /\ Runs(stack[t], d, c) /\ Runs(stack[u], e, c) => t = u /\ d = e
  /\ \A c \in Call : ~(InPipe(c) /\ Running(c))
  /\ PipesOnce

Active(c) == InPipe(c) \/ Running(c)

\* The caller waits for an answer nobody has stored.
Unanswered(c) ==
  c \in SyncCall =>
    /\ outcome[c] = "pending"
    /\ syncData[c].live /\ syncData[c].lock /\ ~syncData[c].error

\* The callback has ended, and its end is stored.
Stored(c) ==
  /\ c \in SyncCall
  /\ callback[c] \in {"ok", "threw"}
  /\ syncData[c].error <=> callback[c] = "threw"

CallerStage(at, c) ==
  /\ c \in SyncCall => outcome[c] \in {"pending", "lost"} /\ syncData[c].live
  /\ at \in {"lock", "post"} =>
       /\ ~Active(c) /\ callback[c] = "none" /\ outcome[c] = "pending"
       /\ c \in SyncCall => ~syncData[c].error
       /\ c \in SyncCall /\ at = "post" => syncData[c].lock
  /\ at \in {"count", "wait"} /\ c \in SyncCall => syncData[c].lock \/ Stored(c)
  /\ at = "collect" => ~Active(c) /\ Stored(c) /\ outcome[c] = "pending"

RunnerStage(at, c) ==
  /\ at = "uncount" => callback[c] = "none" /\ Unanswered(c)
  /\ at = "run" => (crashed \/ callback[c] = "running") /\ Unanswered(c)
  /\ at = "set" => callback[c] \in {"ok", "threw"} /\ Unanswered(c)
  /\ at = "unlock" =>
       Stored(c) /\ outcome[c] = "pending" /\ syncData[c].live /\ syncData[c].lock
  /\ at \in {"inline", "inlineResult"} => ~Called(c) /\ outcome[c] = "pending"
  /\ at = "inline" => callback[c] = "running"
  /\ at = "inlineResult" => callback[c] \in {"ok", "threw"}

CallersOf(c) ==
  \A t \in Thread : \A d \in Depths(t) :
    Calls(stack[t], d, c) => CallerStage(Nth(stack[t], d).at, c)
RunnersOf(c) ==
  \A t \in Thread : \A d \in Depths(t) :
    Runs(stack[t], d, c) => RunnerStage(Nth(stack[t], d).at, c)
DataOf(c) ==
  /\ outcome[c] = "none" => ~Active(c) /\ ~Called(c) /\ callback[c] = "none"
  /\ c \in SyncCall /\ outcome[c] \in {"lost", "returned", "raised"} => ~Active(c)
  /\ c \in SyncCall /\ outcome[c] = "lost" => syncData[c].lock
  /\ InPipe(c) => callback[c] = "none" /\ Unanswered(c)

\* How far each call has come, told by where its frames and its message are.
StageOf(c) == DataOf(c) /\ CallersOf(c) /\ RunnersOf(c)
Stages == \A c \in Call : StageOf(c)

IInv == TypeOK /\ Stacked /\ Once /\ Stages

-----------------------------------------------------------------------------
(* What the operations on a stack do to its frames, counted from the bottom. *)

\* A push adds the frame one above the last; those below keep their place.
LEMMA PushSeq ==
  ASSUME NEW S, NEW s \in Seq(S), NEW f \in S
  PROVE  /\ <<f>> \o s \in Seq(S) /\ Len(<<f>> \o s) = Len(s) + 1
         /\ Nth(<<f>> \o s, Len(s) + 1) = f
         /\ \A d \in 1 .. Len(s) : Nth(<<f>> \o s, d) = Nth(s, d)
  BY DEF Nth

\* A pop takes the last frame; those below keep their place.
LEMMA PopSeq ==
  ASSUME NEW S, NEW s \in Seq(S), s # <<>>
  PROVE  /\ Tail(s) \in Seq(S) /\ Len(Tail(s)) = Len(s) - 1 /\ Len(s) > 0
         /\ Nth(s, Len(s)) = Head(s) /\ Head(s) \in S
         /\ \A d \in 1 .. Len(s) - 1 : Nth(Tail(s), d) = Nth(s, d)
  BY DEF Nth

Others(t) == \A u \in Thread \ {t} : stack'[u] = stack[u]
Pushed(t, f) ==
  /\ stack' \in [Thread -> Seq(Frames)] /\ Others(t)
  /\ Len(stack'[t]) = Len(stack[t]) + 1 /\ Nth(stack'[t], Len(stack[t]) + 1) = f
  /\ \A d \in Depths(t) : Nth(stack'[t], d) = Nth(stack[t], d)
Popped(t) ==
  /\ stack' \in [Thread -> Seq(Frames)] /\ Others(t)
  /\ Len(stack[t]) > 0 /\ Len(stack'[t]) = Len(stack[t]) - 1
  /\ \A d \in 1 .. Len(stack[t]) - 1 : Nth(stack'[t], d) = Nth(stack[t], d)
Moved(t, f) ==
  /\ stack' \in [Thread -> Seq(Frames)] /\ Others(t)
  /\ Len(stack[t]) > 0 /\ Len(stack'[t]) = Len(stack[t]) /\ Nth(stack'[t], Len(stack[t])) = f
  /\ \A d \in 1 .. Len(stack[t]) - 1 : Nth(stack'[t], d) = Nth(stack[t], d)

\* The running frame is the last one from the bottom.
LEMMA TopIsLast ==
  ASSUME TypeOK, NEW t \in Thread, stack[t] # <<>>
  PROVE  /\ Len(stack[t]) \in Nat /\ Len(stack[t]) \in Depths(t)
         /\ Top(t) = Nth(stack[t], Len(stack[t])) /\ Top(t) \in Frames
<1>1. stack[t] \in Seq(Frames)
  BY DEF TypeOK
<1>2. QED
  BY <1>1, PopSeq DEF Top, Depths

\* Push, Pop and MoveTo in terms of places counted from the bottom.
LEMMA PushLemma ==
  ASSUME TypeOK, NEW t \in Thread, NEW f \in Frames, Push(t, f)
  PROVE  Pushed(t, f)
<1>1. stack \in [Thread -> Seq(Frames)] /\ stack[t] \in Seq(Frames)
  BY DEF TypeOK
<1>2. stack' = [stack EXCEPT ![t] = <<f>> \o stack[t]]
  BY DEF Push
<1>3. <<f>> \o stack[t] \in Seq(Frames)
  BY <1>1, PushSeq
<1>4. stack'[t] = <<f>> \o stack[t] /\ stack' \in [Thread -> Seq(Frames)] /\ Others(t)
  BY <1>1, <1>2, <1>3 DEF Others
<1>5. QED
  BY <1>1, <1>4, PushSeq DEF Pushed, Depths

\* Pop removes the last frame of t and no other.
LEMMA PopLemma ==
  ASSUME TypeOK, NEW t \in Thread, stack[t] # <<>>, Pop(t)
  PROVE  Popped(t)
<1>1. stack \in [Thread -> Seq(Frames)] /\ stack[t] \in Seq(Frames)
  BY DEF TypeOK
<1>2. Tail(stack[t]) \in Seq(Frames)
  BY <1>1, PopSeq
<1>3. stack'[t] = Tail(stack[t]) /\ stack' \in [Thread -> Seq(Frames)] /\ Others(t)
  BY <1>1, <1>2 DEF Pop, Others
<1>4. QED
  BY <1>1, <1>3, PopSeq DEF Popped

\* MoveTo replaces the last frame of t and no other.
LEMMA MoveLemma ==
  ASSUME TypeOK, NEW t \in Thread, stack[t] # <<>>, NEW at \in Location, MoveTo(t, at)
  PROVE  Moved(t, Frame(at, Top(t).call))
<1> DEFINE f == Frame(at, Top(t).call)
           r == Tail(stack[t])
<1>1. stack \in [Thread -> Seq(Frames)] /\ stack[t] \in Seq(Frames) /\ f \in Frames
  BY TopIsLast DEF TypeOK, Frames, Frame
<1>2. /\ r \in Seq(Frames) /\ Len(r) = Len(stack[t]) - 1 /\ Len(stack[t]) > 0
      /\ \A d \in 1 .. Len(stack[t]) - 1 : Nth(r, d) = Nth(stack[t], d)
  BY <1>1, PopSeq
<1>3. /\ <<f>> \o r \in Seq(Frames) /\ Len(<<f>> \o r) = Len(r) + 1
      /\ Nth(<<f>> \o r, Len(r) + 1) = f
      /\ \A d \in 1 .. Len(r) : Nth(<<f>> \o r, d) = Nth(r, d)
  <2> HIDE DEF f, r
  <2>1. QED
    BY <1>1, <1>2, PushSeq
<1>4. stack'[t] = <<f>> \o r /\ stack' \in [Thread -> Seq(Frames)] /\ Others(t)
  <2>1. stack' = [stack EXCEPT ![t] = <<f>> \o r]
    BY DEF MoveTo, Top
  <2> HIDE DEF f, r
  <2>2. QED
    BY <1>1, <1>3, <2>1 DEF Others
<1>5. Len(stack[t]) \in Nat
  BY <1>1
<1> HIDE DEF f, r
<1>6. Moved(t, f)
  BY <1>2, <1>3, <1>4, <1>5 DEF Moved
<1>7. QED
  BY <1>6 DEF f

-----------------------------------------------------------------------------
(* What the operations on a stack do to the callers and runners of calls.  *)

\* A frame that goes on keeps its call, and stays its caller's or its runner's.
LEMMA MovedFrames ==
  ASSUME TypeOK, NEW t \in Thread, NEW f \in Frames, stack[t] # <<>>, Moved(t, f),
         f.call = Top(t).call, Top(t).at \in CallerAt <=> f.at \in CallerAt,
         Top(t).at \in RunnerAt <=> f.at \in RunnerAt
  PROVE  /\ \A u \in Thread : Depths(u)' = Depths(u)
         /\ \A u \in Thread : \A d \in Depths(u) :
              Nth(stack'[u], d) =
                IF u = t /\ d = Len(stack[t]) THEN f ELSE Nth(stack[u], d)
         /\ \A u \in Thread : \A d \in Depths(u) : \A c \in Call :
              /\ Calls(stack'[u], d, c) <=> Calls(stack[u], d, c)
              /\ Runs(stack'[u], d, c) <=> Runs(stack[u], d, c)
         /\ \A c \in Call : (Called(c)' <=> Called(c)) /\ (Running(c)' <=> Running(c))
<1>0. Len(stack[t]) \in Nat /\ Top(t) = Nth(stack[t], Len(stack[t]))
  BY TopIsLast
<1>1. \A u \in Thread : Len(stack'[u]) = Len(stack[u])
  BY DEF Moved, Others
<1>2. \A u \in Thread : \A d \in Depths(u) :
        Nth(stack'[u], d) = IF u = t /\ d = Len(stack[t]) THEN f ELSE Nth(stack[u], d)
  <2> SUFFICES ASSUME NEW u \in Thread, NEW d \in Depths(u)
      PROVE Nth(stack'[u], d) = IF u = t /\ d = Len(stack[t]) THEN f ELSE Nth(stack[u], d)
    OBVIOUS
  <2>1. CASE u # t
    BY <2>1 DEF Moved, Others
  <2>2. CASE u = t /\ d = Len(stack[t])
    BY <2>2 DEF Moved
  <2>3. CASE u = t /\ d # Len(stack[t])
    BY <1>0, <2>3 DEF Moved, Depths
  <2>4. QED
    BY <2>1, <2>2, <2>3
<1>3. \A u \in Thread : Depths(u)' = Depths(u)
  BY <1>1 DEF Depths
<1>4. \A u \in Thread : \A d \in Depths(u), c \in Call :
        /\ Calls(stack'[u], d, c) <=> Calls(stack[u], d, c)
        /\ Runs(stack'[u], d, c) <=> Runs(stack[u], d, c)
  BY <1>0, <1>2 DEF Calls, Runs
<1>5. \A c \in Call : (Called(c)' <=> Called(c)) /\ (Running(c)' <=> Running(c))
  BY <1>3, <1>4 DEF Called, Running
<1>6. QED
  BY <1>2, <1>3, <1>4, <1>5

\* Frames stay well placed when the running one moves to a place it may have.
LEMMA MovedStacked ==
  ASSUME TypeOK, Stacked, NEW t \in Thread, NEW f \in Frames, stack[t] # <<>>, Moved(t, f),
         FrameOK(stack'[t], Len(stack[t]))
  PROVE  Stacked'
<1>0. Len(stack[t]) \in Nat /\ Len(stack[t]) > 0 /\ Len(stack'[t]) = Len(stack[t])
  BY TopIsLast DEF Moved
<1>1. ASSUME NEW d \in 1 .. Len(stack[t]) - 1 PROVE FrameOK(stack'[t], d)
  <2>1. Nth(stack'[t], d) = Nth(stack[t], d) /\ FrameOK(stack[t], d)
    BY <1>0 DEF Moved, Stacked, StackOK
  <2>2. d > 1 => Nth(stack'[t], d - 1) = Nth(stack[t], d - 1)
    BY <1>0 DEF Moved
  <2>3. QED
    BY <1>0, <2>1, <2>2 DEF FrameOK
<1>2. StackOK(stack'[t])
  BY <1>0, <1>1 DEF StackOK
<1>3. QED
  BY <1>2 DEF Stacked, Moved, Others

\* A push adds a caller or a runner to the call of the new frame only.
LEMMA PushedFrames ==
  ASSUME TypeOK, NEW t \in Thread, NEW f \in Frames, Pushed(t, f)
  PROVE  /\ \A u \in Thread \ {t} : Depths(u)' = Depths(u)
         /\ Depths(t)' = Depths(t) \cup {Len(stack[t]) + 1}
         /\ Len(stack[t]) + 1 \notin Depths(t)
         /\ \A u \in Thread : \A d \in Depths(u)' :
              Nth(stack'[u], d) = IF u = t /\ d = Len(stack[t]) + 1 THEN f ELSE Nth(stack[u], d)
         /\ \A c \in Call :
              /\ Called(c)' <=> Called(c) \/ (f.call = c /\ f.at \in CallerAt)
              /\ Running(c)' <=> Running(c) \/ (f.call = c /\ f.at \in RunnerAt)
<1>0. Len(stack[t]) \in Nat
  BY DEF TypeOK
<1>1. \A u \in Thread \ {t} : Depths(u)' = Depths(u)
  BY DEF Pushed, Others, Depths
<1>2. Depths(t)' = Depths(t) \cup {Len(stack[t]) + 1} /\ Len(stack[t]) + 1 \notin Depths(t)
  BY <1>0 DEF Pushed, Depths
<1>3. \A u \in Thread : \A d \in Depths(u)' :
        Nth(stack'[u], d) = IF u = t /\ d = Len(stack[t]) + 1 THEN f ELSE Nth(stack[u], d)
  BY <1>1, <1>2 DEF Pushed, Others
<1>4. ASSUME NEW c \in Call
      PROVE  /\ Called(c)' <=> Called(c) \/ (f.call = c /\ f.at \in CallerAt)
             /\ Running(c)' <=> Running(c) \/ (f.call = c /\ f.at \in RunnerAt)
  BY <1>1, <1>2, <1>3 DEF Called, Running, Calls, Runs
<1>5. QED
  BY <1>1, <1>2, <1>3, <1>4

\* Frames stay well placed under a push, if the one below may lie below another.
LEMMA PushedStacked ==
  ASSUME TypeOK, Stacked, NEW t \in Thread, NEW f \in Frames, Pushed(t, f),
         FrameOK(stack'[t], Len(stack[t]) + 1),
         stack[t] # <<>> => Top(t).at \notin CallerAt \cup {"uncount", "set", "unlock"}
  PROVE  Stacked'
<1>0. Len(stack[t]) \in Nat /\ Len(stack'[t]) = Len(stack[t]) + 1
  BY DEF TypeOK, Pushed
<1>1. ASSUME NEW d \in 1 .. Len(stack[t]) PROVE FrameOK(stack'[t], d)
  <2>1. Nth(stack'[t], d) = Nth(stack[t], d) /\ FrameOK(stack[t], d)
    BY <1>0 DEF Pushed, Stacked, StackOK, Depths
  <2>2. d > 1 => Nth(stack'[t], d - 1) = Nth(stack[t], d - 1)
    BY <1>0 DEF Pushed, Depths
  <2>3. Nth(stack[t], d).at \notin CallerAt \cup {"uncount", "set", "unlock"}
    <3>1. stack[t] # <<>>
      BY <1>0
    <3>2. QED
      BY <1>0, <2>1, <3>1, TopIsLast DEF FrameOK
  <2>4. QED
    BY <1>0, <2>1, <2>2, <2>3 DEF FrameOK
<1>2. StackOK(stack'[t])
  BY <1>0, <1>1 DEF StackOK
<1>3. QED
  BY <1>2 DEF Stacked, Pushed, Others

\* A pop takes the caller or the runner from the call of the last frame only.
LEMMA PoppedFrames ==
  ASSUME TypeOK, Once, NEW t \in Thread, stack[t] # <<>>, Popped(t)
  PROVE  /\ \A u \in Thread \ {t} : Depths(u)' = Depths(u)
         /\ Depths(t)' = Depths(t) \ {Len(stack[t])}
         /\ \A u \in Thread : \A d \in Depths(u)' : Nth(stack'[u], d) = Nth(stack[u], d)
         /\ \A c \in Call :
              /\ Called(c)' <=> Called(c) /\ ~(Top(t).call = c /\ Top(t).at \in CallerAt)
              /\ Running(c)' <=> Running(c) /\ ~(Top(t).call = c /\ Top(t).at \in RunnerAt)
<1>0. /\ Len(stack[t]) \in Nat /\ Len(stack[t]) \in Depths(t)
      /\ Top(t) = Nth(stack[t], Len(stack[t]))
  BY TopIsLast
<1>1. \A u \in Thread \ {t} : Depths(u)' = Depths(u)
  BY DEF Popped, Others, Depths
<1>2. Depths(t)' = Depths(t) \ {Len(stack[t])}
  BY <1>0 DEF Popped, Depths
<1>3. \A u \in Thread : \A d \in Depths(u)' : Nth(stack'[u], d) = Nth(stack[u], d)
  BY <1>0, <1>1, <1>2 DEF Popped, Others, Depths
<1>4. ASSUME NEW c \in Call
      PROVE  /\ Called(c)' <=> Called(c) /\ ~(Top(t).call = c /\ Top(t).at \in CallerAt)
             /\ Running(c)' <=> Running(c) /\ ~(Top(t).call = c /\ Top(t).at \in RunnerAt)
  BY <1>0, <1>1, <1>2, <1>3 DEF Called, Running, Calls, Runs, Once
<1>5. QED
  BY <1>1, <1>2, <1>3, <1>4

\* Frames stay well placed when the last one is gone.
LEMMA PoppedStacked ==
  ASSUME TypeOK, Stacked, NEW t \in Thread, Popped(t)
  PROVE  Stacked'
<1>0. Len(stack[t]) \in Nat /\ Len(stack'[t]) = Len(stack[t]) - 1
  BY DEF TypeOK, Popped
<1>1. ASSUME NEW d \in 1 .. Len(stack[t]) - 1 PROVE FrameOK(stack'[t], d)
  <2>1. Nth(stack'[t], d) = Nth(stack[t], d) /\ FrameOK(stack[t], d)
    BY <1>0 DEF Popped, Stacked, StackOK
  <2>2. d > 1 => Nth(stack'[t], d - 1) = Nth(stack[t], d - 1)
    BY <1>0 DEF Popped
  <2>3. QED
    BY <1>0, <2>1, <2>2 DEF FrameOK
<1>2. StackOK(stack'[t])
  BY <1>0, <1>1 DEF StackOK
<1>3. QED
  BY <1>2 DEF Stacked, Popped, Others

-----------------------------------------------------------------------------
(* One caller and one runner, and what is kept of the calls a step is not about. *)

\* A frame that moves leaves each call its one caller and its one runner.
LEMMA MovedOnce ==
  ASSUME TypeOK, Once, NEW t \in Thread, NEW f \in Frames, stack[t] # <<>>, Moved(t, f),
         f.call = Top(t).call, Top(t).at \in CallerAt <=> f.at \in CallerAt,
         Top(t).at \in RunnerAt <=> f.at \in RunnerAt,
         PipesOnce', \A c \in Call : InPipe(c)' => ~Running(c)
  PROVE  Once'
<1>1. /\ \A u \in Thread : Depths(u)' = Depths(u)
      /\ \A u \in Thread : \A d \in Depths(u) : \A c \in Call :
           /\ Calls(stack'[u], d, c) <=> Calls(stack[u], d, c)
           /\ Runs(stack'[u], d, c) <=> Runs(stack[u], d, c)
      /\ \A c \in Call : Running(c)' <=> Running(c)
  BY MovedFrames
<1>2. QED
  BY <1>1 DEF Once

\* A new frame is alone of its kind if its call had no such frame, nor a message for
\* a runner.
LEMMA PushedOnce ==
  ASSUME TypeOK, Once, NEW t \in Thread, NEW f \in Frames, Pushed(t, f),
         f.at \in CallerAt => ~Called(f.call),
         f.at \in RunnerAt => ~Running(f.call) /\ ~InPipe(f.call)',
         PipesOnce', \A c \in Call : InPipe(c)' => InPipe(c)
  PROVE  Once'
<1>1. /\ \A u \in Thread \ {t} : Depths(u)' = Depths(u)
      /\ Depths(t)' = Depths(t) \cup {Len(stack[t]) + 1}
      /\ \A u \in Thread : \A d \in Depths(u)' :
           Nth(stack'[u], d) = IF u = t /\ d = Len(stack[t]) + 1 THEN f ELSE Nth(stack[u], d)
      /\ \A c \in Call : Running(c)' <=> Running(c) \/ (f.call = c /\ f.at \in RunnerAt)
  BY PushedFrames
<1>2. ASSUME NEW c \in Call, NEW u \in Thread, NEW d \in Depths(u)'
      PROVE  /\ Calls(stack'[u], d, c) =>
                  \/ d \in Depths(u) /\ Calls(stack[u], d, c)
                  \/ u = t /\ d = Len(stack[t]) + 1 /\ f.call = c /\ f.at \in CallerAt
             /\ Runs(stack'[u], d, c) =>
                  \/ d \in Depths(u) /\ Runs(stack[u], d, c)
                  \/ u = t /\ d = Len(stack[t]) + 1 /\ f.call = c /\ f.at \in RunnerAt
  BY <1>1 DEF Calls, Runs
<1>3. ASSUME NEW c \in Call, NEW u \in Thread, NEW v \in Thread,
             NEW d \in Depths(u)', NEW e \in Depths(v)'
      PROVE  /\ Calls(stack'[u], d, c) /\ Calls(stack'[v], e, c) => u = v /\ d = e
             /\ Runs(stack'[u], d, c) /\ Runs(stack'[v], e, c) => u = v /\ d = e
  BY <1>2 DEF Once, Called, Running
<1>4. ASSUME NEW c \in Call PROVE ~(InPipe(c)' /\ Running(c)')
  BY <1>1 DEF Once
<1>5. QED
  BY <1>3, <1>4 DEF Once

\* A pop leaves each call at most the frames it had.
LEMMA PoppedOnce ==
  ASSUME TypeOK, Once, NEW t \in Thread, stack[t] # <<>>, Popped(t), PipesOnce',
         \A c \in Call : InPipe(c)' => ~Running(c)
  PROVE  Once'
<1>1. /\ \A u \in Thread \ {t} : Depths(u)' = Depths(u)
      /\ Depths(t)' = Depths(t) \ {Len(stack[t])}
      /\ \A u \in Thread : \A d \in Depths(u)' : Nth(stack'[u], d) = Nth(stack[u], d)
      /\ \A c \in Call : Running(c)' => Running(c)
  BY PoppedFrames
<1>2. QED
  BY <1>1 DEF Once, Calls, Runs

\* A call whose message, frames and answer a step does not touch keeps its stage.
LEMMA StageKept ==
  ASSUME NEW c \in Call, StageOf(c), outcome'[c] = outcome[c], callback'[c] = callback[c],
         c \in SyncCall => syncData'[c] = syncData[c], crashed => crashed',
         InPipe(c)' <=> InPipe(c), Running(c)' <=> Running(c), Called(c)' <=> Called(c),
         \A u \in Thread : \A d \in Depths(u)' :
           Calls(stack'[u], d, c) \/ Runs(stack'[u], d, c) =>
             d \in Depths(u) /\ Nth(stack'[u], d) = Nth(stack[u], d)
  PROVE  StageOf(c)'
<1> USE DEF StageOf, Active, Unanswered, Stored
<1>1. DataOf(c)'
  BY DEF DataOf
<1>2. CallersOf(c)'
  <2> SUFFICES ASSUME NEW u \in Thread, NEW d \in Depths(u)', Calls(stack'[u], d, c)
               PROVE  CallerStage(Nth(stack[u], d).at, c)'
    BY DEF CallersOf
  <2>1. d \in Depths(u) /\ Nth(stack'[u], d) = Nth(stack[u], d) /\ Calls(stack[u], d, c)
    BY DEF Calls
  <2>2. CallerStage(Nth(stack[u], d).at, c)
    BY <2>1 DEF CallersOf
  <2>3. QED
    BY <2>1, <2>2 DEF CallerStage
<1>3. RunnersOf(c)'
  <2> SUFFICES ASSUME NEW u \in Thread, NEW d \in Depths(u)', Runs(stack'[u], d, c)
               PROVE  RunnerStage(Nth(stack[u], d).at, c)'
    BY DEF RunnersOf
  <2>1. d \in Depths(u) /\ Nth(stack'[u], d) = Nth(stack[u], d) /\ Runs(stack[u], d, c)
    BY DEF Runs
  <2>2. RunnerStage(Nth(stack[u], d).at, c)
    BY <2>1 DEF RunnersOf
  <2>3. QED
    BY <2>1, <2>2 DEF RunnerStage
<1>4. QED
  BY <1>1, <1>2, <1>3

Untouched(c) ==
  /\ outcome'[c] = outcome[c] /\ callback'[c] = callback[c]
  /\ c \in SyncCall => syncData'[c] = syncData[c]
  /\ crashed => crashed'
  /\ InPipe(c)' <=> InPipe(c)

\* The calls other than the one whose frame moves, comes or goes keep their stages.
LEMMA MovedOthers ==
  ASSUME TypeOK, NEW t \in Thread, NEW f \in Frames, stack[t] # <<>>, Moved(t, f),
         f.call = Top(t).call, Top(t).at \in CallerAt <=> f.at \in CallerAt,
         Top(t).at \in RunnerAt <=> f.at \in RunnerAt,
         NEW c \in Call, c # f.call, StageOf(c), Untouched(c)
  PROVE  StageOf(c)'
<1>1. /\ \A u \in Thread : Depths(u)' = Depths(u)
      /\ \A u \in Thread : \A d \in Depths(u) :
           Nth(stack'[u], d) = IF u = t /\ d = Len(stack[t]) THEN f ELSE Nth(stack[u], d)
      /\ (Called(c)' <=> Called(c)) /\ (Running(c)' <=> Running(c))
  BY MovedFrames
<1>2. QED
  BY <1>1, StageKept DEF Untouched, Calls, Runs

\* The same when a frame comes.
LEMMA PushedOthers ==
  ASSUME TypeOK, NEW t \in Thread, NEW f \in Frames, Pushed(t, f),
         NEW c \in Call, c # f.call, StageOf(c), Untouched(c)
  PROVE  StageOf(c)'
<1>1. /\ \A u \in Thread \ {t} : Depths(u)' = Depths(u)
      /\ Depths(t)' = Depths(t) \cup {Len(stack[t]) + 1}
      /\ \A u \in Thread : \A d \in Depths(u)' :
           Nth(stack'[u], d) = IF u = t /\ d = Len(stack[t]) + 1 THEN f ELSE Nth(stack[u], d)
      /\ (Called(c)' <=> Called(c)) /\ (Running(c)' <=> Running(c))
  BY PushedFrames
<1>2. QED
  BY <1>1, StageKept DEF Untouched, Calls, Runs

\* The same when a frame goes.
LEMMA PoppedOthers ==
  ASSUME TypeOK, Once, NEW t \in Thread, stack[t] # <<>>, Popped(t),
         NEW c \in Call, c # Top(t).call, StageOf(c), Untouched(c)
  PROVE  StageOf(c)'
<1>1. /\ \A u \in Thread \ {t} : Depths(u)' = Depths(u)
      /\ Depths(t)' = Depths(t) \ {Len(stack[t])}
      /\ \A u \in Thread : \A d \in Depths(u)' : Nth(stack'[u], d) = Nth(stack[u], d)
      /\ (Called(c)' <=> Called(c)) /\ (Running(c)' <=> Running(c))
  BY PoppedFrames
<1>2. QED
  BY <1>1, StageKept DEF Untouched, Calls, Runs

\* The frame that moved is the only one of its call.
LEMMA MovedCaller ==
  ASSUME TypeOK, Once, NEW t \in Thread, NEW f \in Frames, stack[t] # <<>>, Moved(t, f),
         f.call = Top(t).call, f.call \in Call, Top(t).at \in CallerAt, f.at \in CallerAt,
         CallerStage(f.at, f.call)'
  PROVE  CallersOf(f.call)'
<1>0. CallerAt \cap RunnerAt = {}
  BY DEF CallerAt, RunnerAt
<1>1. /\ \A u \in Thread : Depths(u)' = Depths(u)
      /\ \A u \in Thread : \A d \in Depths(u) :
           Nth(stack'[u], d) = IF u = t /\ d = Len(stack[t]) THEN f ELSE Nth(stack[u], d)
  BY <1>0, MovedFrames
<1>2. Len(stack[t]) \in Depths(t) /\ Calls(stack[t], Len(stack[t]), f.call)
  BY TopIsLast DEF Calls
<1>3. ASSUME NEW u \in Thread, NEW d \in Depths(u), Calls(stack'[u], d, f.call)
      PROVE  u = t /\ d = Len(stack[t])
  BY <1>1, <1>2, <1>3 DEF Calls, Once
<1>4. QED
  BY <1>1, <1>3 DEF CallersOf

\* The same for a runner's frame.
LEMMA MovedRunner ==
  ASSUME TypeOK, Once, NEW t \in Thread, NEW f \in Frames, stack[t] # <<>>, Moved(t, f),
         f.call = Top(t).call, f.call \in Call, Top(t).at \in RunnerAt, f.at \in RunnerAt,
         RunnerStage(f.at, f.call)'
  PROVE  RunnersOf(f.call)'
<1>0. CallerAt \cap RunnerAt = {}
  BY DEF CallerAt, RunnerAt
<1>1. /\ \A u \in Thread : Depths(u)' = Depths(u)
      /\ \A u \in Thread : \A d \in Depths(u) :
           Nth(stack'[u], d) = IF u = t /\ d = Len(stack[t]) THEN f ELSE Nth(stack[u], d)
  BY <1>0, MovedFrames
<1>2. Len(stack[t]) \in Depths(t) /\ Runs(stack[t], Len(stack[t]), f.call)
  BY TopIsLast DEF Runs
<1>3. ASSUME NEW u \in Thread, NEW d \in Depths(u), Runs(stack'[u], d, f.call)
      PROVE  u = t /\ d = Len(stack[t])
  BY <1>1, <1>2, <1>3 DEF Runs, Once
<1>4. QED
  BY <1>1, <1>3 DEF RunnersOf

\* A call without callers, or runners, after a step asks nothing of them.
LEMMA NoFrames ==
  ASSUME NEW c \in Call
  PROVE  (~Called(c)' => CallersOf(c)') /\ (~Running(c)' => RunnersOf(c)')
BY DEF Called, Running, CallersOf, RunnersOf

\* What the running frame of a thread says of its call.
LEMMA TopStage ==
  ASSUME IInv, NEW t \in Thread, stack[t] # <<>>
  PROVE  /\ FrameOK(stack[t], Len(stack[t]))
         /\ Top(t).call \in Call <=> Top(t).at # "read"
         /\ Top(t).at \in CallerAt =>
              Called(Top(t).call) /\ CallerStage(Top(t).at, Top(t).call)
         /\ Top(t).at \in RunnerAt =>
              Running(Top(t).call) /\ RunnerStage(Top(t).at, Top(t).call)
<1>1. /\ Len(stack[t]) \in Nat /\ Len(stack[t]) \in Depths(t)
      /\ Top(t) = Nth(stack[t], Len(stack[t])) /\ Top(t) \in Frames
  BY TopIsLast DEF IInv
<1>2. FrameOK(stack[t], Len(stack[t]))
  BY <1>1 DEF IInv, Stacked, StackOK, Depths
<1>3. Top(t).call \in Call <=> Top(t).at # "read"
  BY <1>1, <1>2 DEF FrameOK
<1>4. Top(t).at \in CallerAt => Called(Top(t).call) /\ CallerStage(Top(t).at, Top(t).call)
  BY <1>1, <1>3 DEF IInv, Stages, StageOf, CallersOf, Called, Calls, CallerAt
<1>5. Top(t).at \in RunnerAt => Running(Top(t).call) /\ RunnerStage(Top(t).at, Top(t).call)
  BY <1>1, <1>3 DEF IInv, Stages, StageOf, RunnersOf, Running, Runs, RunnerAt
<1>6. QED
  BY <1>2, <1>3, <1>4, <1>5

-----------------------------------------------------------------------------
(* The pipes.                                                              *)

\* Pipes nobody writes or reads.
LEMMA SamePipes ==
  ASSUME UNCHANGED pipe
  PROVE  /\ PipesOnce => PipesOnce'
         /\ \A c \in Call : InPipe(c)' <=> InPipe(c)
BY DEF PipesOnce, InPipe

\* A write adds one message, and the pipe holds no more than it can.
LEMMA Written ==
  ASSUME TypeOK, PipesOnce, NEW p \in {Main, GL}, NEW c \in Call, ~InPipe(c),
         Len(pipe[p]) < PipeSize, pipe' = [pipe EXCEPT ![p] = Append(@, c)]
  PROVE  /\ pipe' \in [{Main, GL} -> Seq(Call)]
         /\ \A q \in {Main, GL} : Len(pipe'[q]) <= PipeSize
         /\ PipesOnce'
         /\ \A d \in Call : InPipe(d)' <=> InPipe(d) \/ d = c
<1>1. /\ pipe \in [{Main, GL} -> Seq(Call)] /\ pipe[p] \in Seq(Call)
      /\ \A q \in {Main, GL} : pipe[q] \in Seq(Call) /\ Len(pipe[q]) <= PipeSize
      /\ PipeSize \in Nat
  BY ThreadMessagesAssumption DEF TypeOK
<1>2. /\ pipe'[p] = Append(pipe[p], c) /\ pipe'[p] \in Seq(Call)
      /\ Len(pipe'[p]) = Len(pipe[p]) + 1 /\ pipe'[p][Len(pipe[p]) + 1] = c
      /\ \A i \in 1 .. Len(pipe[p]) : pipe'[p][i] = pipe[p][i]
      /\ \A q \in {Main, GL} \ {p} : pipe'[q] = pipe[q]
  BY <1>1
<1>3. /\ pipe' \in [{Main, GL} -> Seq(Call)]
      /\ \A q \in {Main, GL} : Len(pipe'[q]) <= PipeSize
  BY <1>1, <1>2
<1>4. ASSUME NEW q \in {Main, GL}, NEW i \in 1 .. Len(pipe'[q])
      PROVE  \/ q = p /\ i = Len(pipe[p]) + 1 /\ pipe'[q][i] = c
             \/ i \in 1 .. Len(pipe[q]) /\ pipe'[q][i] = pipe[q][i] /\ pipe[q][i] # c
  BY <1>1, <1>2 DEF InPipe
<1>5. PipesOnce'
  <2> SUFFICES ASSUME NEW q \in {Main, GL}, NEW r \in {Main, GL},
                      NEW i \in 1 .. Len(pipe'[q]), NEW j \in 1 .. Len(pipe'[r]),
                      pipe'[q][i] = pipe'[r][j]
               PROVE  q = r /\ i = j
    BY DEF PipesOnce
  <2>1. QED
    BY <1>4 DEF PipesOnce
<1>6. ASSUME NEW d \in Call PROVE InPipe(d)' <=> InPipe(d) \/ d = c
  <2>1. InPipe(d)' => InPipe(d) \/ d = c
    BY <1>4 DEF InPipe
  <2>2. InPipe(d) => InPipe(d)'
    <3> SUFFICES ASSUME NEW q \in {Main, GL}, NEW i \in 1 .. Len(pipe[q]), pipe[q][i] = d
                 PROVE  \E j \in 1 .. Len(pipe'[q]) : pipe'[q][j] = d
      BY DEF InPipe
    <3>1. i \in 1 .. Len(pipe'[q]) /\ pipe'[q][i] = d
      BY <1>1, <1>2
    <3>2. QED
      BY <3>1
  <2>3. InPipe(c)'
    <3>1. Len(pipe[p]) + 1 \in 1 .. Len(pipe'[p])
      BY <1>1, <1>2
    <3>2. QED
      BY <1>2, <3>1 DEF InPipe
  <2>4. QED
    BY <2>1, <2>2, <2>3
<1>7. QED
  BY <1>3, <1>5, <1>6

\* A read takes the first message, and no other of that call is left.
LEMMA Taken ==
  ASSUME TypeOK, PipesOnce, NEW p \in {Main, GL}, pipe[p] # <<>>,
         pipe' = [pipe EXCEPT ![p] = Tail(@)]
  PROVE  /\ pipe' \in [{Main, GL} -> Seq(Call)]
         /\ \A q \in {Main, GL} : Len(pipe'[q]) <= PipeSize
         /\ PipesOnce'
         /\ Head(pipe[p]) \in Call /\ InPipe(Head(pipe[p]))
         /\ Len(pipe'[p]) = Len(pipe[p]) - 1
         /\ \A d \in Call : InPipe(d)' <=> InPipe(d) /\ d # Head(pipe[p])
<1>1. /\ pipe \in [{Main, GL} -> Seq(Call)] /\ pipe[p] \in Seq(Call)
      /\ \A q \in {Main, GL} : pipe[q] \in Seq(Call) /\ Len(pipe[q]) <= PipeSize
      /\ PipeSize \in Nat
  BY ThreadMessagesAssumption DEF TypeOK
<1>2. /\ pipe'[p] = Tail(pipe[p]) /\ pipe'[p] \in Seq(Call)
      /\ Len(pipe[p]) >= 1 /\ Len(pipe'[p]) = Len(pipe[p]) - 1
      /\ \A i \in 1 .. Len(pipe[p]) - 1 : pipe'[p][i] = pipe[p][i + 1]
      /\ \A q \in {Main, GL} \ {p} : pipe'[q] = pipe[q]
      /\ Head(pipe[p]) = pipe[p][1] /\ Head(pipe[p]) \in Call
  BY <1>1
<1>3. /\ pipe' \in [{Main, GL} -> Seq(Call)]
      /\ \A q \in {Main, GL} : Len(pipe'[q]) <= PipeSize
  BY <1>1, <1>2
<1>4. ASSUME NEW q \in {Main, GL}, NEW i \in 1 .. Len(pipe'[q])
      PROVE  \/ q = p /\ i + 1 \in 2 .. Len(pipe[p]) /\ pipe'[q][i] = pipe[p][i + 1]
             \/ q # p /\ i \in 1 .. Len(pipe[q]) /\ pipe'[q][i] = pipe[q][i]
  BY <1>1, <1>2
<1>5. PipesOnce'
  <2> SUFFICES ASSUME NEW q \in {Main, GL}, NEW r \in {Main, GL},
                      NEW i \in 1 .. Len(pipe'[q]), NEW j \in 1 .. Len(pipe'[r]),
                      pipe'[q][i] = pipe'[r][j]
               PROVE  q = r /\ i = j
    BY DEF PipesOnce
  <2>1. QED
    BY <1>4 DEF PipesOnce
<1>6. InPipe(Head(pipe[p]))
  BY <1>1, <1>2 DEF InPipe
<1>7. ASSUME NEW d \in Call PROVE InPipe(d)' <=> InPipe(d) /\ d # Head(pipe[p])
  <2>1. InPipe(d)' => InPipe(d) /\ d # Head(pipe[p])
    <3> SUFFICES ASSUME NEW q \in {Main, GL}, NEW i \in 1 .. Len(pipe'[q]), pipe'[q][i] = d
                 PROVE  InPipe(d) /\ d # pipe[p][1]
      BY <1>2 DEF InPipe
    <3>1. 1 \in 1 .. Len(pipe[p])
      BY <1>1, <1>2
    <3>2. CASE q = p
      <4>1. i + 1 \in 1 .. Len(pipe[p]) /\ i + 1 # 1 /\ pipe[p][i + 1] = d
        BY <1>1, <1>2, <3>2
      <4>2. QED
        BY <3>1, <4>1 DEF InPipe, PipesOnce
    <3>3. CASE q # p
      <4>1. i \in 1 .. Len(pipe[q]) /\ pipe[q][i] = d
        BY <1>2, <3>3
      <4>2. QED
        BY <3>1, <3>3, <4>1 DEF InPipe, PipesOnce
    <3>4. QED
      BY <3>2, <3>3
  <2>2. InPipe(d) /\ d # Head(pipe[p]) => InPipe(d)'
    <3> SUFFICES ASSUME NEW q \in {Main, GL}, NEW i \in 1 .. Len(pipe[q]), pipe[q][i] = d,
                        d # pipe[p][1]
                 PROVE  \E j \in 1 .. Len(pipe'[q]) : pipe'[q][j] = d
      BY <1>2 DEF InPipe
    <3>1. CASE q = p
      <4>1. i - 1 \in 1 .. Len(pipe'[p]) /\ pipe'[p][i - 1] = d
        BY <1>1, <1>2, <3>1
      <4>2. QED
        BY <3>1, <4>1
    <3>2. CASE q # p
      BY <1>2, <3>2
    <3>3. QED
      BY <3>1, <3>2
  <2>3. QED
    BY <2>1, <2>2
<1>8. QED
  BY <1>2, <1>3, <1>5, <1>6, <1>7

-----------------------------------------------------------------------------
(* The five things a step does to the frames of its call.                  *)

\* A caller goes on: the invariant holds if it does for its call.
LEMMA CallerMoves ==
  ASSUME IInv, NEW t \in Thread, NEW f \in Frames, stack[t] # <<>>, Moved(t, f),
         f.call = Top(t).call, f.call \in Call, Top(t).at \in CallerAt, f.at \in CallerAt,
         f.at \in {"lock", "wait", "collect"} => f.call \in SyncCall,
         f.at = "count" => Target[f.call] = GL,
         TypeOK', PipesOnce', InPipe(f.call)' => ~Running(f.call),
         \A d \in Call : d # f.call => Untouched(d),
         DataOf(f.call)', CallerStage(f.at, f.call)', RunnersOf(f.call)'
  PROVE  IInv'
<1>0. /\ TypeOK /\ Stacked /\ Once /\ Stages /\ CallerAt \cap RunnerAt = {}
      /\ {"read", "uncount", "set", "unlock", "run", "result"} \cap CallerAt = {}
  BY DEF IInv, CallerAt, RunnerAt
<1>1. FrameOK(stack'[t], Len(stack[t]))
  <2>1. FrameOK(stack[t], Len(stack[t])) /\ Top(t) = Nth(stack[t], Len(stack[t]))
    BY <1>0, TopStage, TopIsLast
  <2>2. QED
    BY <1>0, <2>1 DEF FrameOK, Moved
<1>2. Stacked'
  BY <1>0, <1>1, MovedStacked
<1>3. Once'
  <2>1. \A d \in Call : InPipe(d)' => ~Running(d)
    BY <1>0 DEF Once, Untouched
  <2>2. QED
    BY <1>0, <2>1, MovedOnce
<1>4. ASSUME NEW d \in Call, d # f.call PROVE StageOf(d)'
  BY <1>0, <1>4, MovedOthers DEF Stages
<1>5. StageOf(f.call)'
  BY <1>0, MovedCaller DEF StageOf
<1>6. QED
  BY <1>2, <1>3, <1>4, <1>5 DEF IInv, Stages

\* A runner goes on: the invariant holds if it does for its call.
LEMMA RunnerMoves ==
  ASSUME IInv, NEW t \in Thread, NEW f \in Frames, stack[t] # <<>>, Moved(t, f),
         f.call = Top(t).call, f.call \in Call, Top(t).at \in RunnerAt, f.at \in RunnerAt,
         f.at \in {"set", "unlock"} => f.call \in SyncCall,
         f.at = "result" => f.call \notin SyncCall, f.at # "uncount",
         f.call \in SyncCall /\ f.at \in {"run", "set", "unlock"} =>
           Top(t).at \in {"uncount", "run", "set", "unlock"},
         TypeOK', UNCHANGED pipe,
         \A d \in Call : d # f.call => Untouched(d),
         DataOf(f.call)', CallersOf(f.call)', RunnerStage(f.at, f.call)'
  PROVE  IInv'
<1>0. /\ TypeOK /\ Stacked /\ Once /\ Stages /\ CallerAt \cap RunnerAt = {}
      /\ PipesOnce /\ "read" \notin RunnerAt /\ Len(stack[t]) \in Nat
      /\ {"lock", "wait", "collect", "count"} \cap RunnerAt = {}
  BY TopIsLast DEF IInv, CallerAt, RunnerAt, Once
<1>1. FrameOK(stack'[t], Len(stack[t]))
  <2>1. FrameOK(stack[t], Len(stack[t])) /\ Top(t) = Nth(stack[t], Len(stack[t]))
    BY <1>0, TopStage, TopIsLast
  <2>2. Len(stack[t]) > 1 => Nth(stack'[t], Len(stack[t]) - 1) = Nth(stack[t], Len(stack[t]) - 1)
    BY <1>0 DEF Moved
  <2>3. QED
    BY <1>0, <2>1, <2>2 DEF FrameOK, Moved
<1>2. Stacked'
  BY <1>0, <1>1, MovedStacked
<1>3. PipesOnce' /\ \A d \in Call : InPipe(d)' <=> InPipe(d)
  BY <1>0, SamePipes
<1>4. Once'
  BY <1>0, <1>3, MovedOnce DEF Once
<1>5. ASSUME NEW d \in Call, d # f.call PROVE StageOf(d)'
  BY <1>0, <1>5, MovedOthers DEF Stages
<1>6. StageOf(f.call)'
  BY <1>0, MovedRunner DEF StageOf
<1>7. QED
  BY <1>2, <1>4, <1>5, <1>6 DEF IInv, Stages

\* The running frame, a caller's, a runner's or a drain loop's, is done.
LEMMA FrameEnds ==
  ASSUME IInv, NEW t \in Thread, stack[t] # <<>>, Popped(t), TypeOK', PipesOnce',
         \A d \in Call : InPipe(d)' => ~Running(d),
         NEW c, c = Top(t).call, \A d \in Call : d # c => Untouched(d),
         c \in Call => StageOf(c)'
  PROVE  IInv'
<1>0. TypeOK /\ Stacked /\ Once /\ Stages
  BY DEF IInv
<1>1. Stacked'
  BY <1>0, PoppedStacked
<1>2. Once'
  BY <1>0, PoppedOnce
<1>3. ASSUME NEW d \in Call, d # c PROVE StageOf(d)'
  BY <1>0, <1>3, PoppedOthers DEF Stages
<1>4. QED
  BY <1>1, <1>2, <1>3 DEF IInv, Stages

\* A frame begins: the invariant holds if it does for its call.
LEMMA FramePushed ==
  ASSUME IInv, NEW t \in Thread, NEW f \in Frames, Pushed(t, f),
         stack[t] # <<>> => Top(t).at \notin CallerAt \cup {"uncount", "set", "unlock"},
         FrameOK(stack'[t], Len(stack[t]) + 1),
         f.at \in CallerAt => ~Called(f.call),
         f.at \in RunnerAt => ~Running(f.call) /\ ~InPipe(f.call)',
         TypeOK', PipesOnce', \A d \in Call : InPipe(d)' => InPipe(d),
         \A d \in Call : d # f.call => Untouched(d),
         f.call \in Call => StageOf(f.call)'
  PROVE  IInv'
<1>0. TypeOK /\ Stacked /\ Once /\ Stages
  BY DEF IInv
<1>1. Stacked'
  BY <1>0, PushedStacked
<1>2. Once'
  BY <1>0, PushedOnce
<1>3. ASSUME NEW d \in Call, d # f.call PROVE StageOf(d)'
  BY <1>0, <1>3, PushedOthers DEF Stages
<1>4. QED
  BY <1>1, <1>2, <1>3 DEF IInv, Stages

\* A new frame is the only one of its kind for its call.
LEMMA PushedRunner ==
  ASSUME TypeOK, NEW t \in Thread, NEW f \in Frames, Pushed(t, f), f.call \in Call,
         ~Running(f.call), RunnerStage(f.at, f.call)'
  PROVE  RunnersOf(f.call)'
<1>1. ASSUME NEW u \in Thread, NEW d \in Depths(u)', Runs(stack'[u], d, f.call)
      PROVE  Nth(stack'[u], d) = f
  BY <1>1, PushedFrames DEF Runs, Running
<1>2. QED
  BY <1>1 DEF RunnersOf

\* The same for a caller's frame.
LEMMA PushedCaller ==
  ASSUME TypeOK, NEW t \in Thread, NEW f \in Frames, Pushed(t, f), f.call \in Call,
         ~Called(f.call), CallerStage(f.at, f.call)'
  PROVE  CallersOf(f.call)'
<1>1. ASSUME NEW u \in Thread, NEW d \in Depths(u)', Calls(stack'[u], d, f.call)
      PROVE  Nth(stack'[u], d) = f
  BY <1>1, PushedFrames DEF Calls, Called
<1>2. QED
  BY <1>1 DEF CallersOf

\* The runner of a call goes on as it was while the caller moves or leaves.
LEMMA RunnersKept ==
  ASSUME IInv, NEW c \in Call, Called(c), Called(c)' => Called(c),
         callback'[c] = callback[c], crashed => crashed',
         c \in SyncCall => syncData'[c] = syncData[c] /\ outcome'[c] = outcome[c],
         \A u \in Thread : \A d \in Depths(u)' : Runs(stack'[u], d, c) =>
           d \in Depths(u) /\ Nth(stack'[u], d) = Nth(stack[u], d)
  PROVE  RunnersOf(c)'
<1> SUFFICES ASSUME NEW u \in Thread, NEW d \in Depths(u)', Runs(stack'[u], d, c)
             PROVE  RunnerStage(Nth(stack[u], d).at, c)'
  BY DEF RunnersOf
<1>1. d \in Depths(u) /\ Nth(stack'[u], d) = Nth(stack[u], d) /\ Runs(stack[u], d, c)
  BY DEF Runs
<1>2. RunnerStage(Nth(stack[u], d).at, c)
  BY <1>1 DEF IInv, Stages, StageOf, RunnersOf
<1>3. QED
  BY <1>1, <1>2 DEF RunnerStage, Unanswered, Stored

-----------------------------------------------------------------------------
(* The steps of a caller.                                                  *)

\* A call on its own target becomes the one runner of the call.
LEMMA CallInlineStep ==
  ASSUME IInv, NEW t \in Thread, NEW c \in Call, CallInline(t, c)
  PROVE  IInv'
<1> DEFINE f == Frame("inline", c)
<1>0. TypeOK /\ Stacked /\ Once /\ Stages /\ PipesOnce
  BY DEF IInv, Once
<1>1. /\ outcome[c] = "none" /\ Push(t, f)
      /\ callback' = [callback EXCEPT ![c] = "running"]
      /\ outcome' = [outcome EXCEPT ![c] = "pending"]
      /\ UNCHANGED <<pipe, events, syncData, crashed>>
      /\ stack[t] # <<>> => Top(t).at \in {"run", "result", "inline", "inlineResult"}
  BY DEF CallInline, Makes, TopIs
<1>2. ~Active(c) /\ ~Called(c)
  BY <1>0, <1>1 DEF Stages, StageOf, DataOf
<1>3. f \in Frames /\ f.call = c /\ f.at = "inline"
  BY DEF Frame, Frames, Location, RunnerAt
<1> HIDE DEF f
<1>4. Pushed(t, f)
  BY <1>0, <1>1, <1>3, PushLemma
<1>5. TypeOK'
  BY <1>0, <1>1, <1>4 DEF TypeOK, Pushed
<1>6. FrameOK(stack'[t], Len(stack[t]) + 1)
  BY <1>3, <1>4 DEF Pushed, FrameOK, CallerAt
<1>7. /\ PipesOnce' /\ \A d \in Call : InPipe(d)' <=> InPipe(d)
  BY <1>0, <1>1, SamePipes
<1>8. \A d \in Call : d # c => Untouched(d)
  BY <1>0, <1>1, <1>7 DEF Untouched, TypeOK
<1>9. StageOf(c)'
  <2>1. ~Called(c)' /\ Running(c)' /\ ~InPipe(c)'
    BY <1>0, <1>2, <1>3, <1>4, <1>7, PushedFrames DEF Active, CallerAt, RunnerAt
  <2>2. outcome'[c] = "pending" /\ callback'[c] = "running"
    BY <1>0, <1>1 DEF TypeOK
  <2>3. DataOf(c)'
    BY <2>1, <2>2 DEF DataOf
  <2>4. RunnerStage("inline", c)'
    BY <2>1, <2>2 DEF RunnerStage
  <2>5. RunnersOf(c)'
    BY <1>0, <1>2, <1>3, <1>4, <2>4, PushedRunner DEF Active
  <2>6. QED
    BY <2>1, <2>3, <2>5, NoFrames DEF StageOf
<1>10. QED
  BY <1>1, <1>2, <1>3, <1>4, <1>5, <1>6, <1>7, <1>8, <1>9, FramePushed DEF Active, CallerAt

\* A call for another thread becomes the one caller of the call.
LEMMA CallRemoteStep ==
  ASSUME IInv, NEW t \in Thread, NEW c \in Call, CallRemote(t, c)
  PROVE  IInv'
<1> DEFINE f == Frame(IF c \in SyncCall THEN "lock" ELSE "post", c)
<1>0. TypeOK /\ Stacked /\ Once /\ Stages /\ PipesOnce
  BY DEF IInv, Once
<1>1. /\ outcome[c] = "none" /\ Push(t, f) /\ Target[c] \notin {t, New}
      /\ syncData' = IF c \in SyncCall
                     THEN [syncData EXCEPT ![c] = [NoData EXCEPT !.live = TRUE]]
                     ELSE syncData
      /\ outcome' = [outcome EXCEPT ![c] = "pending"]
      /\ UNCHANGED <<pipe, events, callback, crashed>>
      /\ stack[t] # <<>> => Top(t).at \in {"run", "result", "inline", "inlineResult"}
  BY DEF CallRemote, Makes, TopIs
<1>2. ~Active(c) /\ ~Called(c) /\ callback[c] = "none"
  BY <1>0, <1>1 DEF Stages, StageOf, DataOf
<1>3. f \in Frames /\ f.call = c /\ f.at = IF c \in SyncCall THEN "lock" ELSE "post"
  BY DEF Frame, Frames, Location, CallerAt
<1> HIDE DEF f
<1>4. Pushed(t, f)
  BY <1>0, <1>1, <1>3, PushLemma
<1>5. TypeOK'
  <2>1. syncData' \in [SyncCall -> [live : BOOLEAN, lock : BOOLEAN,
                                    result : BOOLEAN, error : BOOLEAN]]
    BY <1>0, <1>1 DEF TypeOK, NoData
  <2>2. QED
    BY <1>0, <1>1, <1>4, <2>1 DEF TypeOK, Pushed
<1>6. FrameOK(stack'[t], Len(stack[t]) + 1)
  <2>1. Target[c] \in {Main, GL}
    BY <1>1, ThreadMessagesAssumption
  <2>2. QED
    BY <1>3, <1>4, <2>1 DEF Pushed, FrameOK, CallerAt
<1>7. /\ PipesOnce' /\ \A d \in Call : InPipe(d)' <=> InPipe(d)
  BY <1>0, <1>1, SamePipes
<1>8. \A d \in Call : d # c => Untouched(d)
  BY <1>0, <1>1, <1>7 DEF Untouched, TypeOK
<1>9. StageOf(c)'
  <2>1. ~Running(c)' /\ ~InPipe(c)'
    BY <1>0, <1>2, <1>3, <1>4, <1>7, PushedFrames DEF Active, RunnerAt
  <2>2. /\ outcome'[c] = "pending" /\ callback'[c] = "none"
        /\ c \in SyncCall => syncData'[c].live /\ ~syncData'[c].error
    BY <1>0, <1>1, <1>2 DEF TypeOK, NoData
  <2>3. DataOf(c)'
    BY <2>1, <2>2 DEF DataOf
  <2>4. CallerStage(f.at, c)'
    BY <1>3, <2>1, <2>2 DEF CallerStage, Active
  <2>5. CallersOf(c)'
    BY <1>0, <1>2, <1>3, <1>4, <2>4, PushedCaller
  <2>6. QED
    BY <2>1, <2>3, <2>5, NoFrames DEF StageOf
<1>10. QED
  BY <1>1, <1>2, <1>3, <1>4, <1>5, <1>6, <1>7, <1>8, <1>9, FramePushed
     DEF Active, CallerAt, RunnerAt

\* The new thread becomes the one runner of the call.
LEMMA CallNewThreadStep ==
  ASSUME IInv, NEW t \in Thread, NEW c \in Call, NEW n \in Other, CallNewThread(t, c, n)
  PROVE  IInv'
<1> DEFINE f == Frame("run", c)
<1>0. TypeOK /\ Stacked /\ Once /\ Stages /\ PipesOnce /\ n \in Thread
  BY DEF IInv, Once, Thread
<1>1. /\ outcome[c] = "none" /\ stack[n] = <<>> /\ c \notin SyncCall
      /\ stack' = [stack EXCEPT ![n] = <<f>>]
      /\ callback' = [callback EXCEPT ![c] = "running"]
      /\ outcome' = [outcome EXCEPT ![c] = "sent"]
      /\ UNCHANGED <<pipe, events, syncData, crashed>>
  BY ThreadMessagesAssumption DEF CallNewThread, Makes
<1>2. ~Active(c) /\ ~Called(c)
  BY <1>0, <1>1 DEF Stages, StageOf, DataOf
<1>3. f \in Frames /\ f.call = c /\ f.at = "run"
  BY DEF Frame, Frames, Location, RunnerAt
<1> HIDE DEF f
<1>4. Pushed(n, f)
  <2>1. Push(n, f)
    BY <1>0, <1>1, <1>3 DEF Push, TypeOK
  <2>2. QED
    BY <1>0, <1>3, <2>1, PushLemma
<1>5. TypeOK'
  BY <1>0, <1>1, <1>4 DEF TypeOK, Pushed
<1>6. FrameOK(stack'[n], Len(stack[n]) + 1)
  BY <1>1, <1>3, <1>4 DEF Pushed, FrameOK, CallerAt
<1>7. /\ PipesOnce' /\ \A d \in Call : InPipe(d)' <=> InPipe(d)
  BY <1>0, <1>1, SamePipes
<1>8. \A d \in Call : d # c => Untouched(d)
  BY <1>0, <1>1, <1>7 DEF Untouched, TypeOK
<1>9. StageOf(c)'
  <2>1. ~Called(c)' /\ ~InPipe(c)'
    BY <1>0, <1>2, <1>3, <1>4, <1>7, PushedFrames DEF Active, CallerAt
  <2>2. outcome'[c] = "sent" /\ callback'[c] = "running"
    BY <1>0, <1>1 DEF TypeOK
  <2>3. DataOf(c)'
    BY <2>1, <2>2 DEF DataOf
  <2>4. RunnerStage("run", c)'
    BY <1>1, <2>1, <2>2 DEF RunnerStage, Unanswered
  <2>5. RunnersOf(c)'
    BY <1>0, <1>2, <1>3, <1>4, <2>4, PushedRunner DEF Active
  <2>6. QED
    BY <2>1, <2>3, <2>5, NoFrames DEF StageOf
<1>10. QED
  BY <1>0, <1>1, <1>2, <1>3, <1>4, <1>5, <1>6, <1>7, <1>8, <1>9, FramePushed
     DEF Active, CallerAt

\* The caller holds the lock before it writes its message.
LEMMA LockStep ==
  ASSUME IInv, NEW t \in Thread, NEW c, c = Top(t).call, Lock(t)
  PROVE  IInv'
<1> DEFINE f == Frame("post", c)
<1>0. TypeOK /\ Once /\ Stages /\ PipesOnce
  BY DEF IInv, Once
<1>1. /\ stack[t] # <<>> /\ Top(t).at = "lock" /\ MoveTo(t, "post")
      /\ syncData' = [syncData EXCEPT ![c].lock = TRUE]
      /\ UNCHANGED <<pipe, events, callback, outcome, crashed>>
  BY DEF Lock, TopIs
<1>2. /\ c \in SyncCall /\ c \in Call /\ Called(c) /\ CallerStage("lock", c)
      /\ Top(t).at \in CallerAt
  BY <1>1, TopStage, TopIsLast DEF IInv, FrameOK, CallerAt
<1>3. f \in Frames /\ f.call = c /\ f.at = "post" /\ Moved(t, f)
  BY <1>0, <1>1, <1>2, MoveLemma DEF Frame, Frames, Location, CallerAt
<1> HIDE DEF f
<1>4. TypeOK'
  BY <1>0, <1>1, <1>2, <1>3 DEF TypeOK, Moved
<1>5. /\ PipesOnce' /\ \A d \in Call : InPipe(d)' <=> InPipe(d)
  BY <1>0, <1>1, SamePipes
<1>6. \A d \in Call : d # c => Untouched(d)
  BY <1>0, <1>1, <1>5 DEF Untouched, TypeOK
<1>7. ~InPipe(c)' /\ ~Running(c) /\ ~Running(c)'
  BY <1>0, <1>1, <1>2, <1>3, <1>5, MovedFrames DEF CallerStage, Active, CallerAt, RunnerAt
<1>8. /\ outcome'[c] = "pending" /\ callback'[c] = "none"
      /\ syncData'[c].live /\ syncData'[c].lock /\ ~syncData'[c].error
  BY <1>0, <1>1, <1>2 DEF CallerStage, TypeOK
<1>9. DataOf(c)' /\ CallerStage("post", c)'
  BY <1>7, <1>8 DEF DataOf, CallerStage, Active
<1>10. QED
  BY <1>1, <1>2, <1>3, <1>4, <1>5, <1>6, <1>7, <1>9, NoFrames, CallerMoves DEF CallerAt

\* What is left of a call once its message is written, and counted: a Sync caller
\* waits, for an Async one the call is over.
LEMMA AfterPostStep ==
  ASSUME IInv, NEW t \in Thread, stack[t] # <<>>, NEW c \in Call, c = Top(t).call,
         Top(t).at \in {"post", "count"}, AfterPost(t, c),
         UNCHANGED <<syncData, callback, crashed>>, events' \in Int,
         pipe' \in [{Main, GL} -> Seq(Call)],
         \A p \in {Main, GL} : Len(pipe'[p]) <= PipeSize,
         PipesOnce', \A d \in Call : InPipe(d)' <=> InPipe(d) \/ (d = c /\ Top(t).at = "post")
  PROVE  IInv'
<1>0. TypeOK /\ Once /\ Stages /\ CallerAt \cap RunnerAt = {} /\ Top(t).at \in CallerAt
  BY DEF IInv, CallerAt, RunnerAt
<1>1. Called(c) /\ CallerStage(Top(t).at, c) /\ StageOf(c)
  BY <1>0, TopStage DEF Stages
<1>2. Top(t).at = "post" => ~Active(c)
  BY <1>1 DEF CallerStage
<1>3. \A d \in Call : InPipe(d)' => ~Running(d)
  BY <1>0, <1>2 DEF Once, Active
<1>4. CASE c \in SyncCall
  <2> DEFINE f == Frame("wait", c)
  <2>1. MoveTo(t, "wait") /\ UNCHANGED outcome
    BY <1>4 DEF AfterPost
  <2>2. f \in Frames /\ f.call = c /\ f.at = "wait" /\ Moved(t, f)
    BY <1>0, <2>1, MoveLemma DEF Frame, Frames, Location, CallerAt
  <2> HIDE DEF f
  <2>3. f.at \in CallerAt
    BY <2>2 DEF CallerAt
  <2>4. TypeOK'
    BY <1>0, <2>1, <2>2 DEF TypeOK, Moved
  <2>5. \A d \in Call : d # c => Untouched(d)
    BY <2>1 DEF Untouched
  <2>6. CallerStage("wait", c)'
    BY <1>0, <1>1, <1>4, <2>1 DEF CallerStage, Stored
  <2>7. DataOf(c)'
    BY <1>0, <1>1, <1>2, <1>3, <1>4, <2>1, <2>2, <2>3, MovedFrames
       DEF DataOf, StageOf, CallerStage, Active, Unanswered
  <2>8. RunnersOf(c)'
    <3>1. /\ \A u \in Thread : Depths(u)' = Depths(u)
          /\ \A u \in Thread : \A d \in Depths(u) :
               Nth(stack'[u], d) = IF u = t /\ d = Len(stack[t]) THEN f ELSE Nth(stack[u], d)
      BY <1>0, <2>2, <2>3, MovedFrames
    <3>2. \A u \in Thread : \A d \in Depths(u)' : Runs(stack'[u], d, c) =>
            d \in Depths(u) /\ Nth(stack'[u], d) = Nth(stack[u], d)
      BY <1>0, <2>3, <3>1 DEF Runs
    <3>3. QED
      BY <1>1, <2>1, <3>2, RunnersKept
  <2>9. QED
    BY <1>0, <1>3, <1>4, <2>2, <2>3, <2>4, <2>5, <2>6, <2>7, <2>8, CallerMoves
<1>5. CASE c \notin SyncCall
  <2>1. Pop(t) /\ outcome' = [outcome EXCEPT ![c] = "sent"]
    BY <1>5 DEF AfterPost
  <2>2. Popped(t)
    BY <1>0, <2>1, PopLemma
  <2>3. TypeOK'
    BY <1>0, <2>1, <2>2 DEF TypeOK, Popped
  <2>4. \A d \in Call : d # c => Untouched(d)
    BY <1>0, <2>1 DEF Untouched, TypeOK
  <2>5. outcome'[c] = "sent" /\ ~Called(c)'
    BY <1>0, <2>1, <2>2, PoppedFrames DEF TypeOK
  <2>6. DataOf(c)'
    BY <1>1, <1>5, <2>5 DEF DataOf, StageOf, CallerStage, Unanswered
  <2>7. RunnersOf(c)'
    <3>1. /\ \A u \in Thread \ {t} : Depths(u)' = Depths(u)
          /\ Depths(t)' = Depths(t) \ {Len(stack[t])}
          /\ \A u \in Thread : \A d \in Depths(u)' : Nth(stack'[u], d) = Nth(stack[u], d)
      BY <1>0, <2>2, PoppedFrames
    <3>2. QED
      BY <1>1, <1>5, <3>1, RunnersKept
  <2>8. StageOf(c)'
    BY <2>5, <2>6, <2>7, NoFrames DEF StageOf
  <2>9. QED
    BY <1>3, <2>2, <2>3, <2>4, <2>8, FrameEnds
<1>6. QED
  BY <1>4, <1>5

\* A caller writes its message, the only one of its call.
LEMMA PostStep ==
  ASSUME IInv, NEW t \in Thread, NEW c, c = Top(t).call, Post(t)
  PROVE  IInv'
<1> DEFINE f == Frame("count", c)
<1>0. TypeOK /\ Once /\ Stages /\ PipesOnce /\ CallerAt \cap RunnerAt = {}
  BY DEF IInv, Once, CallerAt, RunnerAt
<1>1. /\ stack[t] # <<>> /\ Top(t).at = "post" /\ Top(t).at \in CallerAt
      /\ Len(pipe[Target[c]]) < PipeSize
      /\ pipe' = [pipe EXCEPT ![Target[c]] = Append(@, c)]
      /\ UNCHANGED <<events, syncData, callback, crashed>>
  BY DEF Post, TopIs, CallerAt
<1>2. /\ c \in Call /\ Called(c) /\ CallerStage("post", c)
      /\ Target[c] \in {Main, GL} /\ StageOf(c)
  BY <1>0, <1>1, TopStage, TopIsLast DEF FrameOK, Stages
<1>3. ~InPipe(c) /\ ~Running(c)
  BY <1>2 DEF CallerStage, Active
<1>4. /\ pipe' \in [{Main, GL} -> Seq(Call)]
      /\ \A q \in {Main, GL} : Len(pipe'[q]) <= PipeSize
      /\ PipesOnce'
      /\ \A d \in Call : InPipe(d)' <=> InPipe(d) \/ d = c
  BY <1>0, <1>1, <1>2, <1>3, Written
<1>5. CASE Target[c] = GL
  <2>1. MoveTo(t, "count") /\ UNCHANGED outcome
    BY <1>5 DEF Post
  <2>2. f \in Frames /\ f.call = c /\ f.at = "count" /\ Moved(t, f)
    BY <1>0, <1>1, <1>2, <2>1, MoveLemma DEF Frame, Frames, Location, CallerAt
  <2> HIDE DEF f
  <2>3. f.at \in CallerAt
    BY <2>2 DEF CallerAt
  <2>4. TypeOK'
    BY <1>0, <1>1, <1>4, <2>1, <2>2 DEF TypeOK, Moved
  <2>5. \A d \in Call : d # c => Untouched(d)
    BY <1>1, <1>4, <2>1 DEF Untouched
  <2>6. CallerStage("count", c)' /\ DataOf(c)'
    BY <1>0, <1>1, <1>2, <2>1 DEF CallerStage, DataOf, Unanswered
  <2>7. RunnersOf(c)'
    BY <1>0, <1>1, <1>2, <1>3, <2>2, <2>3, MovedFrames, NoFrames
  <2>8. QED
    BY <1>1, <1>2, <1>3, <1>4, <1>5, <2>2, <2>3, <2>4, <2>5, <2>6, <2>7, CallerMoves
<1>6. CASE Target[c] # GL
  <2>1. AfterPost(t, c) /\ events' \in Int
    BY <1>0, <1>1, <1>6 DEF Post, TypeOK
  <2>2. QED
    BY <1>1, <1>2, <1>4, <2>1, AfterPostStep
<1>7. QED
  BY <1>5, <1>6

\* A writer counts its message.
LEMMA CountStep ==
  ASSUME IInv, NEW t \in Thread, NEW c, c = Top(t).call, Count(t)
  PROVE  IInv'
<1>0. TypeOK /\ PipesOnce
  BY DEF IInv, Once
<1>1. /\ stack[t] # <<>> /\ Top(t).at = "count" /\ AfterPost(t, c) /\ events' \in Int
      /\ UNCHANGED <<pipe, syncData, callback, crashed>>
  BY <1>0 DEF Count, TopIs, TypeOK
<1>2. c \in Call
  BY <1>1, TopStage
<1>3. PipesOnce' /\ \A d \in Call : InPipe(d)' <=> InPipe(d)
  BY <1>0, <1>1, SamePipes
<1>4. QED
  BY <1>0, <1>1, <1>2, <1>3, AfterPostStep DEF TypeOK

\* The pipe is full: the message is lost, and the lock stays taken.
LEMMA OverrunStep ==
  ASSUME IInv, NEW t \in Thread, NEW c, c = Top(t).call, Overrun(t)
  PROVE  IInv'
<1> DEFINE f == Frame("wait", c)
<1>0. TypeOK /\ Once /\ Stages /\ PipesOnce /\ CallerAt \cap RunnerAt = {}
  BY DEF IInv, Once, CallerAt, RunnerAt
<1>1. /\ stack[t] # <<>> /\ Top(t).at = "post" /\ Top(t).at \in CallerAt
      /\ outcome' = [outcome EXCEPT ![c] = "lost"]
      /\ UNCHANGED <<pipe, events, syncData, callback, crashed>>
  BY DEF Overrun, TopIs, CallerAt
<1>2. c \in Call /\ Called(c) /\ CallerStage("post", c) /\ StageOf(c)
  BY <1>0, <1>1, TopStage DEF Stages
<1>3. PipesOnce' /\ \A d \in Call : InPipe(d)' <=> InPipe(d)
  BY <1>0, <1>1, SamePipes
<1>4. ~InPipe(c)' /\ ~Running(c)
  BY <1>2, <1>3 DEF CallerStage, Active
<1>5. outcome'[c] = "lost" /\ \A d \in Call : d # c => Untouched(d)
  BY <1>0, <1>1, <1>2, <1>3 DEF Untouched, TypeOK
<1>6. CASE c \in SyncCall
  <2>1. MoveTo(t, "wait")
    BY <1>6 DEF Overrun
  <2>2. f \in Frames /\ f.call = c /\ f.at = "wait" /\ Moved(t, f)
    BY <1>0, <1>1, <1>2, <2>1, MoveLemma DEF Frame, Frames, Location, CallerAt
  <2> HIDE DEF f
  <2>3. f.at \in CallerAt
    BY <2>2 DEF CallerAt
  <2>4. TypeOK'
    BY <1>0, <1>1, <2>2 DEF TypeOK, Moved
  <2>5. ~Running(c)'
    BY <1>0, <1>1, <1>2, <1>4, <2>2, <2>3, MovedFrames
  <2>6. CallerStage("wait", c)' /\ DataOf(c)'
    BY <1>1, <1>2, <1>4, <1>5, <1>6, <2>5 DEF CallerStage, DataOf, Active
  <2>7. QED
    BY <1>1, <1>2, <1>3, <1>4, <1>5, <1>6, <2>2, <2>3, <2>4, <2>5, <2>6, NoFrames, CallerMoves
<1>7. CASE c \notin SyncCall
  <2>1. Popped(t)
    BY <1>0, <1>1, <1>7, PopLemma DEF Overrun
  <2>2. TypeOK'
    BY <1>0, <1>1, <2>1 DEF TypeOK, Popped
  <2>3. ~Running(c)' /\ ~Called(c)'
    BY <1>0, <1>1, <1>2, <1>4, <2>1, PoppedFrames
  <2>4. StageOf(c)'
    BY <1>2, <1>4, <1>5, <1>7, <2>3, NoFrames DEF StageOf, DataOf
  <2>5. \A d \in Call : InPipe(d)' => ~Running(d)
    BY <1>0, <1>3 DEF Once
  <2>6. QED
    BY <1>1, <1>2, <1>3, <1>5, <2>1, <2>2, <2>4, <2>5, FrameEnds
<1>8. QED
  BY <1>6, <1>7

\* The lock is free again only when the answer is stored and the runner is gone.
LEMMA WaitStep ==
  ASSUME IInv, NEW t \in Thread, NEW c, c = Top(t).call, Wait(t)
  PROVE  IInv'
<1> DEFINE f == Frame("collect", c)
<1>0. TypeOK /\ Once /\ Stages /\ PipesOnce /\ CallerAt \cap RunnerAt = {}
  BY DEF IInv, Once, CallerAt, RunnerAt
<1>1. /\ stack[t] # <<>> /\ Top(t).at = "wait" /\ Top(t).at \in CallerAt
      /\ ~syncData[c].lock /\ MoveTo(t, "collect")
      /\ syncData' = [syncData EXCEPT ![c].lock = TRUE]
      /\ UNCHANGED <<pipe, events, callback, outcome, crashed>>
  BY DEF Wait, TopIs, CallerAt
<1>2. c \in SyncCall /\ c \in Call /\ Called(c) /\ CallerStage("wait", c) /\ StageOf(c)
  BY <1>0, <1>1, TopStage, TopIsLast DEF IInv, FrameOK, Stages
<1>3. Stored(c) /\ outcome[c] = "pending"
  BY <1>1, <1>2 DEF CallerStage, StageOf, DataOf
\* Whoever runs the call, or has its message, has not released the lock.
<1>4. ~InPipe(c) /\ ~Running(c)
  <2>1. ~InPipe(c)
    BY <1>1, <1>2 DEF StageOf, DataOf, Unanswered
  <2>2. ASSUME NEW u \in Thread, NEW d \in Depths(u), Runs(stack[u], d, c) PROVE FALSE
    <3>1. RunnerStage(Nth(stack[u], d).at, c) /\ FrameOK(stack[u], d)
      BY <1>2, <2>2 DEF StageOf, RunnersOf, IInv, Stacked, StackOK, Depths
    <3>2. Nth(stack[u], d).at # "result"
      BY <1>2, <2>2, <3>1 DEF FrameOK, Runs
    <3>3. Nth(stack[u], d).at \in RunnerAt
      BY <2>2 DEF Runs
    <3>4. QED
      BY <1>1, <1>2, <3>1, <3>2, <3>3 DEF RunnerStage, RunnerAt, Unanswered
  <2>3. QED
    BY <2>1, <2>2 DEF Running
<1>5. f \in Frames /\ f.call = c /\ f.at = "collect" /\ Moved(t, f)
  BY <1>0, <1>1, <1>2, MoveLemma DEF Frame, Frames, Location, CallerAt
<1> HIDE DEF f
<1>6. TypeOK' /\ f.at \in CallerAt
  BY <1>0, <1>1, <1>2, <1>5 DEF TypeOK, Moved, CallerAt
<1>7. /\ PipesOnce' /\ \A d \in Call : InPipe(d)' <=> InPipe(d)
  BY <1>0, <1>1, SamePipes
<1>8. \A d \in Call : d # c => Untouched(d)
  BY <1>0, <1>1, <1>7 DEF Untouched, TypeOK
<1>9. ~InPipe(c)' /\ ~Running(c)'
  BY <1>0, <1>1, <1>2, <1>4, <1>5, <1>6, <1>7, MovedFrames
<1>10. syncData'[c].live /\ Stored(c)' /\ outcome'[c] = "pending"
  BY <1>0, <1>1, <1>2, <1>3 DEF TypeOK, Stored, CallerStage
<1>11. CallerStage("collect", c)' /\ DataOf(c)'
  BY <1>9, <1>10 DEF CallerStage, DataOf, Active
<1>12. QED
  BY <1>1, <1>2, <1>4, <1>5, <1>6, <1>7, <1>8, <1>9, <1>11, NoFrames, CallerMoves

\* A caller takes an answer that is stored, of a call nobody runs any more.
LEMMA CollectStep ==
  ASSUME IInv, NEW t \in Thread, NEW c, c = Top(t).call, Collect(t)
  PROVE  IInv'
<1>0. TypeOK /\ Once /\ Stages /\ PipesOnce
  BY DEF IInv, Once
<1>1. /\ stack[t] # <<>> /\ Top(t).at = "collect" /\ Top(t).at \in CallerAt /\ Pop(t)
      /\ outcome' = [outcome EXCEPT ![c] = IF syncData[c].error THEN "raised" ELSE "returned"]
      /\ syncData' = [syncData EXCEPT ![c].live = FALSE]
      /\ UNCHANGED <<pipe, events, callback, crashed>>
  BY DEF Collect, TopIs, CallerAt
<1>2. c \in SyncCall /\ c \in Call /\ CallerStage("collect", c)
  BY <1>0, <1>1, TopStage, TopIsLast DEF FrameOK
<1>3. Popped(t)
  BY <1>0, <1>1, PopLemma
<1>4. TypeOK' /\ outcome'[c] \in {"raised", "returned"}
  BY <1>0, <1>1, <1>2, <1>3 DEF TypeOK, Popped
<1>5. /\ PipesOnce' /\ \A d \in Call : InPipe(d)' <=> InPipe(d)
  BY <1>0, <1>1, SamePipes
<1>6. \A d \in Call : d # c => Untouched(d)
  BY <1>0, <1>1, <1>5 DEF Untouched, TypeOK
<1>7. ~InPipe(c)' /\ ~Running(c)' /\ ~Called(c)'
  BY <1>0, <1>1, <1>2, <1>3, <1>5, PoppedFrames DEF CallerStage, Active
<1>8. StageOf(c)'
  BY <1>2, <1>4, <1>7, NoFrames DEF StageOf, DataOf, Active
<1>9. \A d \in Call : InPipe(d)' => ~Running(d)
  BY <1>0, <1>5 DEF Once
<1>10. QED
  BY <1>1, <1>3, <1>4, <1>5, <1>6, <1>8, <1>9, FrameEnds

-----------------------------------------------------------------------------
(* The steps of a runner.                                                  *)

\* While its call runs, a caller is between the write and the answer; the lock
\* keeps it there until the answer is stored.
LEMMA CallersKept ==
  ASSUME IInv, NEW c \in Call, Active(c),
         c \in SyncCall =>
           /\ outcome'[c] = outcome[c] /\ syncData'[c].live = syncData[c].live
           /\ syncData'[c].lock \/ Stored(c)',
         \A u \in Thread : \A d \in Depths(u)' : Calls(stack'[u], d, c) =>
           d \in Depths(u) /\ Nth(stack'[u], d) = Nth(stack[u], d)
  PROVE  CallersOf(c)'
<1> SUFFICES ASSUME NEW u \in Thread, NEW d \in Depths(u)', Calls(stack'[u], d, c)
             PROVE  CallerStage(Nth(stack[u], d).at, c)'
  BY DEF CallersOf
<1>1. d \in Depths(u) /\ Nth(stack'[u], d) = Nth(stack[u], d) /\ Calls(stack[u], d, c)
  BY DEF Calls
<1>2. CallerStage(Nth(stack[u], d).at, c)
  BY <1>1 DEF IInv, Stages, StageOf, CallersOf
<1>3. Nth(stack[u], d).at \notin {"lock", "post", "collect"}
  BY <1>2 DEF CallerStage
<1>4. QED
  BY <1>1, <1>2, <1>3 DEF CallerStage

\* The same for a step that moves the runner's frame.
LEMMA CallersStay ==
  ASSUME IInv, NEW t \in Thread, NEW f \in Frames, stack[t] # <<>>, Moved(t, f),
         f.call = Top(t).call, f.call \in Call, Top(t).at \in RunnerAt, f.at \in RunnerAt,
         f.call \in SyncCall =>
           /\ outcome'[f.call] = outcome[f.call]
           /\ syncData'[f.call].live = syncData[f.call].live
           /\ syncData'[f.call].lock \/ Stored(f.call)'
  PROVE  /\ CallersOf(f.call)' /\ Active(f.call) /\ Running(f.call)'
         /\ Called(f.call)' <=> Called(f.call)
<1>0. TypeOK /\ CallerAt \cap RunnerAt = {}
  BY DEF IInv, CallerAt, RunnerAt
<1>1. /\ \A u \in Thread : Depths(u)' = Depths(u)
      /\ \A u \in Thread : \A d \in Depths(u) :
           Nth(stack'[u], d) = IF u = t /\ d = Len(stack[t]) THEN f ELSE Nth(stack[u], d)
      /\ Running(f.call)' <=> Running(f.call)
      /\ Called(f.call)' <=> Called(f.call)
  BY <1>0, MovedFrames
<1>2. Running(f.call)
  BY TopStage
<1>3. \A u \in Thread : \A d \in Depths(u)' : Calls(stack'[u], d, f.call) =>
        d \in Depths(u) /\ Nth(stack'[u], d) = Nth(stack[u], d)
  BY <1>0, <1>1 DEF Calls
<1>4. QED
  BY <1>1, <1>2, <1>3, CallersKept DEF Active

\* A drain loop is a frame of no call.
LEMMA StartLoopStep ==
  ASSUME IInv, NEW t \in Thread, StartLoop(t)
  PROVE  IInv'
<1>0. TypeOK /\ Stacked /\ Once /\ Stages /\ PipesOnce
  BY DEF IInv, Once
<1>1. PICK p \in {Main, GL} : Push(t, Frame("read", p))
  BY DEF StartLoop
<1>2. stack[t] = <<>> /\ UNCHANGED <<pipe, events, syncData, callback, outcome, crashed>>
  BY DEF StartLoop
<1> DEFINE f == Frame("read", p)
<1>3. /\ f \in Frames /\ f.call \notin Call /\ f.at = "read"
      /\ f.at \notin CallerAt \cup RunnerAt
  BY ThreadMessagesAssumption DEF Frame, Frames, Location, Thread, CallerAt, RunnerAt
<1>4. Pushed(t, f)
  BY <1>0, <1>1, <1>3, PushLemma
<1> HIDE DEF f
<1>5. TypeOK'
  BY <1>0, <1>2, <1>4 DEF TypeOK, Pushed
<1>6. FrameOK(stack'[t], Len(stack[t]) + 1)
  BY <1>3, <1>4 DEF Pushed, FrameOK
<1>7. /\ PipesOnce' /\ \A d \in Call : InPipe(d)' <=> InPipe(d)
  BY <1>0, <1>2, SamePipes
<1>8. \A d \in Call : d # f.call => Untouched(d)
  BY <1>2, <1>7 DEF Untouched
<1>9. QED
  BY <1>2, <1>3, <1>4, <1>5, <1>6, <1>7, <1>8, FramePushed

\* A message leaves the pipe for the stack of its runner.
LEMMA ReadStep ==
  ASSUME IInv, NEW t \in Thread, NEW p, p = Top(t).call, Read(t)
  PROVE  IInv'
<1>0. /\ TypeOK /\ Stacked /\ Once /\ Stages /\ PipesOnce /\ CallerAt \cap RunnerAt = {}
      /\ {"read", "uncount", "run"} \cap CallerAt = {} /\ {"uncount", "run"} \subseteq RunnerAt
      /\ "read" \notin RunnerAt
  BY DEF IInv, Once, CallerAt, RunnerAt
<1>1. /\ stack[t] # <<>> /\ Top(t).at = "read" /\ Len(stack[t]) \in Nat
      /\ Top(t) = Nth(stack[t], Len(stack[t]))
      /\ UNCHANGED <<events, syncData, outcome, crashed>>
  BY <1>0, TopIsLast DEF Read, TopIs
<1>2. p \in {Main, GL} /\ p \notin Call
  BY <1>0, <1>1, TopStage, TopIsLast DEF Frames
<1>3. CASE pipe[p] = <<>>
  <2>1. Pop(t) /\ UNCHANGED <<pipe, callback>>
    BY <1>3 DEF Read
  <2>2. Popped(t)
    BY <1>0, <1>1, <2>1, PopLemma
  <2>3. TypeOK'
    BY <1>0, <1>1, <2>1, <2>2 DEF TypeOK, Popped
  <2>4. PipesOnce' /\ \A d \in Call : InPipe(d)' <=> InPipe(d)
    BY <1>0, <2>1, SamePipes
  <2>5. \A d \in Call : Untouched(d) /\ (InPipe(d)' => ~Running(d))
    BY <1>0, <1>1, <2>1, <2>4 DEF Untouched, Once
  <2>6. QED
    BY <1>1, <1>2, <2>2, <2>3, <2>4, <2>5, FrameEnds
<1>4. CASE pipe[p] # <<>>
  <2> DEFINE c == Head(pipe[p])
  <2>1. PICK d : d = c
    OBVIOUS
  <2> HIDE DEF c
  <2> DEFINE f == Frame(IF p = GL THEN "uncount" ELSE "run", d)
  <2>2. /\ pipe' = [pipe EXCEPT ![p] = Tail(@)] /\ Push(t, f)
        /\ callback' = IF p = GL THEN callback ELSE [callback EXCEPT ![d] = "running"]
    BY <1>4, <2>1 DEF Read, c
  <2>3. /\ pipe' \in [{Main, GL} -> Seq(Call)]
        /\ \A q \in {Main, GL} : Len(pipe'[q]) <= PipeSize
        /\ PipesOnce' /\ d \in Call /\ InPipe(d)
        /\ \A e \in Call : InPipe(e)' <=> InPipe(e) /\ e # d
    BY <1>0, <1>2, <1>4, <2>1, <2>2, Taken DEF c
  <2>4. f \in Frames /\ f.call = d /\ f.at = IF p = GL THEN "uncount" ELSE "run"
    BY <2>3 DEF Frame, Frames, Location, RunnerAt
  <2> HIDE DEF f
  <2>5. Pushed(t, f)
    BY <1>0, <2>2, <2>4, PushLemma
  <2>6. TypeOK'
    BY <1>0, <1>1, <2>2, <2>3, <2>5 DEF TypeOK, Pushed
  <2>7. FrameOK(stack'[t], Len(stack[t]) + 1)
    <3>1. /\ Len(stack[t]) \in Depths(t)
          /\ Nth(stack'[t], Len(stack[t])) = Nth(stack[t], Len(stack[t]))
      BY <1>1, <2>5, TopIsLast, <1>0 DEF Pushed
    <3>2. Len(stack[t]) >= 1
      BY <3>1, <1>1 DEF Depths
    <3>3. QED
      BY <1>0, <1>1, <2>3, <2>4, <2>5, <3>1, <3>2 DEF Pushed, FrameOK
  <2>8. \A e \in Call : e # d => Untouched(e)
    BY <1>0, <1>1, <2>2, <2>3 DEF Untouched, TypeOK
  <2>9. StageOf(d) /\ ~Running(d) /\ callback[d] = "none" /\ Unanswered(d) /\ outcome[d] # "none"
    BY <1>0, <2>3 DEF Stages, StageOf, DataOf, Once, Active
  <2>10. StageOf(d)'
    <3>1. /\ \A u \in Thread \ {t} : Depths(u)' = Depths(u)
          /\ Depths(t)' = Depths(t) \cup {Len(stack[t]) + 1}
          /\ \A u \in Thread : \A e \in Depths(u)' :
               Nth(stack'[u], e) = IF u = t /\ e = Len(stack[t]) + 1 THEN f ELSE Nth(stack[u], e)
      BY <1>0, <2>4, <2>5, PushedFrames
    <3>2. \A u \in Thread : \A e \in Depths(u)' : Calls(stack'[u], e, d) =>
            e \in Depths(u) /\ Nth(stack'[u], e) = Nth(stack[u], e)
      BY <1>0, <2>4, <3>1 DEF Calls
    <3>3. CallersOf(d)'
      BY <1>1, <2>3, <2>9, <3>2, CallersKept DEF Active, Unanswered
    <3>4. callback'[d] = IF p = GL THEN "none" ELSE "running"
      BY <1>0, <2>2, <2>3, <2>9 DEF TypeOK
    <3>5. Unanswered(d)'
      BY <1>1, <2>9 DEF Unanswered
    <3>6. RunnerStage(f.at, d)'
      BY <2>4, <3>4, <3>5 DEF RunnerStage
    <3>7. RunnersOf(d)'
      BY <1>0, <2>3, <2>4, <2>5, <2>9, <3>6, PushedRunner
    <3>8. DataOf(d)'
      BY <1>1, <2>3, <2>9 DEF DataOf, Unanswered
    <3>9. QED
      BY <3>3, <3>7, <3>8 DEF StageOf
  <2>11. QED
    BY <1>0, <1>1, <2>3, <2>4, <2>5, <2>6, <2>7, <2>8, <2>9, <2>10, FramePushed
<1>5. QED
  BY <1>3, <1>4

\* A reader of the OpenGL pipe starts the callback of its message.
LEMMA UncountStep ==
  ASSUME IInv, NEW t \in Thread, NEW c, c = Top(t).call, Uncount(t)
  PROVE  IInv'
<1> DEFINE f == Frame("run", c)
<1>0. TypeOK /\ Once /\ Stages /\ PipesOnce
  BY DEF IInv, Once
<1>1. /\ stack[t] # <<>> /\ Top(t).at = "uncount" /\ Top(t).at \in RunnerAt
      /\ MoveTo(t, "run") /\ events' = events - 1
      /\ callback' = [callback EXCEPT ![c] = "running"]
      /\ UNCHANGED <<pipe, syncData, outcome, crashed>>
  BY DEF Uncount, TopIs, RunnerAt
<1>2. c \in Call /\ Running(c) /\ RunnerStage("uncount", c) /\ StageOf(c)
  BY <1>0, <1>1, TopStage DEF Stages
<1>3. f \in Frames /\ f.call = c /\ f.at = "run" /\ f.at \in RunnerAt /\ Moved(t, f)
  BY <1>0, <1>1, <1>2, MoveLemma DEF Frame, Frames, Location, RunnerAt
<1> HIDE DEF f
<1>4. TypeOK'
  <2>1. events' \in Int
    BY <1>0, <1>1 DEF TypeOK
  <2>2. callback' \in [Call -> {"none", "running", "ok", "threw"}]
    BY <1>0, <1>1 DEF TypeOK
  <2>3. QED
    BY <1>0, <1>1, <1>3, <2>1, <2>2 DEF TypeOK, Moved
<1>5. \A d \in Call : InPipe(d)' <=> InPipe(d)
  BY <1>1, SamePipes
<1>6. ~InPipe(c)' /\ \A d \in Call : d # c => Untouched(d)
  BY <1>0, <1>1, <1>2, <1>5 DEF Untouched, TypeOK, Once
<1>7. callback'[c] = "running" /\ Unanswered(c)'
  BY <1>0, <1>1, <1>2 DEF TypeOK, RunnerStage, Unanswered
<1>8. CallersOf(c)'
  BY <1>1, <1>2, <1>3, <1>7, CallersStay DEF Unanswered
<1>9. RunnerStage("run", c)' /\ DataOf(c)'
  BY <1>1, <1>2, <1>6, <1>7 DEF RunnerStage, DataOf, StageOf, Active, Unanswered
<1>10. QED
  BY <1>1, <1>2, <1>3, <1>4, <1>6, <1>8, <1>9, RunnerMoves

\* A callback returns.
LEMMA FinishStep ==
  ASSUME IInv, NEW t \in Thread, NEW c, c = Top(t).call, Finish(t)
  PROVE  IInv'
<1> DEFINE f == Frame(IF c \in SyncCall THEN "set" ELSE "result", c)
<1>0. TypeOK /\ Once /\ Stages /\ PipesOnce
  BY DEF IInv, Once
<1>1. /\ stack[t] # <<>> /\ Top(t).at = "run" /\ Top(t).at \in RunnerAt
      /\ MoveTo(t, IF c \in SyncCall THEN "set" ELSE "result")
      /\ callback' = [callback EXCEPT ![c] = "ok"]
      /\ UNCHANGED <<pipe, events, syncData, outcome, crashed>>
  BY DEF Finish, TopIs, RunnerAt
<1>2. c \in Call /\ Running(c) /\ RunnerStage("run", c) /\ StageOf(c)
  BY <1>0, <1>1, TopStage DEF Stages
<1>3. /\ f \in Frames /\ f.call = c /\ f.at \in RunnerAt /\ Moved(t, f)
      /\ f.at = IF c \in SyncCall THEN "set" ELSE "result"
  BY <1>0, <1>1, <1>2, MoveLemma DEF Frame, Frames, Location, RunnerAt
<1> HIDE DEF f
<1>4. TypeOK'
  BY <1>0, <1>1, <1>3 DEF TypeOK, Moved
<1>5. \A d \in Call : InPipe(d)' <=> InPipe(d)
  BY <1>1, SamePipes
<1>6. ~InPipe(c)' /\ \A d \in Call : d # c => Untouched(d)
  BY <1>0, <1>1, <1>2, <1>5 DEF Untouched, TypeOK, Once
<1>7. callback'[c] = "ok" /\ Unanswered(c)'
  BY <1>0, <1>1, <1>2 DEF TypeOK, RunnerStage, Unanswered
<1>8. CallersOf(c)'
  BY <1>1, <1>2, <1>3, <1>7, CallersStay DEF Unanswered
<1>9. RunnerStage(f.at, c)' /\ DataOf(c)'
  BY <1>1, <1>2, <1>3, <1>6, <1>7 DEF RunnerStage, DataOf, StageOf, Active, Unanswered
<1>10. QED
  BY <1>1, <1>2, <1>3, <1>4, <1>6, <1>8, <1>9, RunnerMoves

\* A callback throws: a Sync call stores the error, an Async one ends the process.
LEMMA ThrowStep ==
  ASSUME IInv, NEW t \in Thread, NEW c, c = Top(t).call, Throw(t)
  PROVE  IInv'
<1>0. TypeOK /\ Once /\ Stages /\ PipesOnce
  BY DEF IInv, Once
<1>1. /\ stack[t] # <<>> /\ Top(t).at \in {"run", "result"} /\ Top(t).at \in RunnerAt
      /\ callback' = IF Top(t).at = "run" THEN [callback EXCEPT ![c] = "threw"] ELSE callback
      /\ UNCHANGED <<pipe, events, syncData, outcome>>
      /\ IF c \in SyncCall THEN MoveTo(t, "set") /\ UNCHANGED crashed
                           ELSE UNCHANGED stack /\ crashed' = TRUE
  BY DEF Throw, TopIs, RunnerAt
<1>2. /\ c \in Call /\ Running(c) /\ RunnerStage(Top(t).at, c) /\ StageOf(c)
      /\ Top(t).at = "result" => c \notin SyncCall
  BY <1>0, <1>1, TopStage, TopIsLast DEF Stages, FrameOK
<1>3. \A d \in Call : InPipe(d)' <=> InPipe(d)
  BY <1>1, SamePipes
<1>4. ~InPipe(c)' /\ \A d \in Call : d # c => Untouched(d)
  BY <1>0, <1>1, <1>2, <1>3 DEF Untouched, TypeOK, Once
<1>5. crashed' \in BOOLEAN /\ callback' \in [Call -> {"none", "running", "ok", "threw"}]
  BY <1>0, <1>1 DEF TypeOK
<1>6. outcome[c] # "none" /\ ~(c \in SyncCall /\ outcome[c] \in {"lost", "returned", "raised"})
  BY <1>2 DEF StageOf, DataOf, Active
<1>7. DataOf(c)'
  BY <1>1, <1>4, <1>6 DEF DataOf
<1>8. CASE c \in SyncCall
  <2> DEFINE f == Frame("set", c)
  <2>1. f \in Frames /\ f.call = c /\ f.at = "set" /\ f.at \in RunnerAt /\ Moved(t, f)
    BY <1>0, <1>1, <1>2, <1>8, MoveLemma DEF Frame, Frames, Location, RunnerAt
  <2> HIDE DEF f
  <2>2. TypeOK'
    BY <1>0, <1>1, <1>5, <2>1 DEF TypeOK, Moved
  <2>3. callback'[c] = "threw" /\ Unanswered(c)' /\ Top(t).at = "run"
    BY <1>0, <1>1, <1>2, <1>8 DEF TypeOK, RunnerStage, Unanswered
  <2>4. CallersOf(c)'
    BY <1>1, <1>2, <2>1, <2>3, CallersStay DEF Unanswered
  <2>5. RunnerStage("set", c)'
    BY <2>3 DEF RunnerStage
  <2>6. QED
    BY <1>1, <1>2, <1>4, <1>7, <1>8, <2>1, <2>2, <2>3, <2>4, <2>5, RunnerMoves
<1>9. CASE c \notin SyncCall
\* The frame stays where it is: the process is gone.
  <2> DEFINE f == Top(t)
  <2>1. stack' = stack /\ crashed'
    BY <1>1, <1>9
  <2>2. PICK g : g = f
    OBVIOUS
  <2>3. g \in Frames /\ g.call = c /\ g.at \in {"run", "result"} /\ g.at \in RunnerAt
    BY <1>0, <1>1, <2>2, TopIsLast
  <2>4. Moved(t, g)
    BY <1>0, <1>1, <2>1, <2>2, TopIsLast DEF Moved, Others, TypeOK, Depths
  <2>5. TypeOK'
    BY <1>0, <1>1, <1>5, <2>1 DEF TypeOK
  <2>6. CallersOf(c)'
    BY <1>1, <1>2, <1>9, <2>2, <2>3, <2>4, CallersStay
  <2>7. RunnerStage(g.at, c)'
    BY <1>9, <2>1, <2>3 DEF RunnerStage, Unanswered
  <2>8. QED
    BY <1>1, <1>2, <1>4, <1>7, <1>9, <2>2, <2>3, <2>4, <2>5, <2>6, <2>7, RunnerMoves
<1>10. QED
  BY <1>8, <1>9

\* The runner stores the answer while the caller waits for it.
LEMMA SetStep ==
  ASSUME IInv, NEW t \in Thread, NEW c, c = Top(t).call, Set(t)
  PROVE  IInv'
<1> DEFINE f == Frame("unlock", c)
<1>0. TypeOK /\ Once /\ Stages /\ PipesOnce
  BY DEF IInv, Once
<1>1. /\ stack[t] # <<>> /\ Top(t).at = "set" /\ Top(t).at \in RunnerAt /\ MoveTo(t, "unlock")
      /\ syncData' = IF callback[c] = "threw" THEN [syncData EXCEPT ![c].error = TRUE]
                                             ELSE [syncData EXCEPT ![c].result = TRUE]
      /\ UNCHANGED <<pipe, events, callback, outcome, crashed>>
  BY DEF Set, TopIs, RunnerAt
<1>2. c \in Call /\ c \in SyncCall /\ Running(c) /\ RunnerStage("set", c) /\ StageOf(c)
  BY <1>0, <1>1, TopStage, TopIsLast DEF Stages, FrameOK
<1>3. f \in Frames /\ f.call = c /\ f.at = "unlock" /\ f.at \in RunnerAt /\ Moved(t, f)
  BY <1>0, <1>1, <1>2, MoveLemma DEF Frame, Frames, Location, RunnerAt
<1> HIDE DEF f
<1>4. syncData' \in [SyncCall -> [live : BOOLEAN, lock : BOOLEAN,
                                  result : BOOLEAN, error : BOOLEAN]]
  BY <1>0, <1>1 DEF TypeOK
<1>5. TypeOK'
  BY <1>0, <1>1, <1>3, <1>4 DEF TypeOK, Moved
<1>6. \A d \in Call : InPipe(d)' <=> InPipe(d)
  BY <1>1, SamePipes
<1>7. ~InPipe(c)' /\ \A d \in Call : d # c => Untouched(d)
  BY <1>0, <1>1, <1>2, <1>6 DEF Untouched, TypeOK, Once
<1>8. /\ outcome'[c] = "pending" /\ outcome'[c] = outcome[c]
      /\ syncData'[c].live = syncData[c].live /\ syncData'[c].live /\ syncData'[c].lock
      /\ Stored(c)'
  BY <1>0, <1>1, <1>2 DEF TypeOK, RunnerStage, Unanswered, Stored
<1>9. CallersOf(c)'
  BY <1>1, <1>2, <1>3, <1>8, CallersStay
<1>10. RunnerStage("unlock", c)' /\ DataOf(c)'
  BY <1>7, <1>8 DEF RunnerStage, DataOf
<1>11. QED
  BY <1>1, <1>2, <1>3, <1>5, <1>7, <1>9, <1>10, RunnerMoves

\* AtomicUnlock pops the runner's frame, and after an error the drain loop's below it.
LEMMA UnlockPops ==
  ASSUME TypeOK, NEW t \in Thread, stack[t] # <<>>, Len(stack[t]) > 1, Unlock(t)
  PROVE  \E n \in {Len(stack[t]) - 1, Len(stack[t]) - 2} :
           /\ stack' \in [Thread -> Seq(Frames)] /\ Others(t) /\ Len(stack'[t]) = n
           /\ \A d \in 1 .. n : Nth(stack'[t], d) = Nth(stack[t], d)
<1> DEFINE m == Len(stack[t])
<1>1. stack \in [Thread -> Seq(Frames)] /\ stack[t] \in Seq(Frames) /\ m \in Nat /\ m > 1
  BY DEF TypeOK
<1> HIDE DEF m
<1>2. CASE callback[Top(t).call] # "threw"
  <2>1. Popped(t)
    BY <1>2, PopLemma DEF Unlock, Pop
  <2>2. QED
    BY <2>1 DEF Popped, m
<1>3. CASE callback[Top(t).call] = "threw"
  <2>1. stack' = [stack EXCEPT ![t] = Tail(Tail(stack[t]))]
    BY <1>3 DEF Unlock
  <2>2. /\ Tail(stack[t]) \in Seq(Frames) /\ Len(Tail(stack[t])) = m - 1
        /\ \A d \in 1 .. m - 1 : Nth(Tail(stack[t]), d) = Nth(stack[t], d)
    BY <1>1, PopSeq DEF m
  <2>3. PICK s \in Seq(Frames) : s = Tail(stack[t])
    BY <2>2
  <2>4. Len(s) = m - 1 /\ s # <<>>
    <3>1. Len(s) = m - 1 /\ Len(s) > 0
      BY <1>1, <2>2, <2>3
    <3>2. s # <<>>
      <4>1. Len(s) # 0
        BY <3>1
      <4>2. QED
        BY <4>1
    <3>3. QED
      BY <3>1, <3>2
  <2>5. /\ Tail(s) \in Seq(Frames) /\ Len(Tail(s)) = m - 2
        /\ \A d \in 1 .. m - 2 : Nth(Tail(s), d) = Nth(s, d)
    <3>1. /\ Tail(s) \in Seq(Frames) /\ Len(Tail(s)) = Len(s) - 1
          /\ \A d \in 1 .. Len(s) - 1 : Nth(Tail(s), d) = Nth(s, d)
      BY <2>3, <2>4, PopSeq
    <3>2. Len(s) - 1 = m - 2
      BY <1>1, <2>4
    <3>3. QED
      BY <3>1, <3>2
  <2>6. stack'[t] = Tail(s) /\ stack' \in [Thread -> Seq(Frames)] /\ Others(t)
    BY <1>1, <2>1, <2>3, <2>5 DEF Others
  <2>7. \A d \in 1 .. m - 2 : Nth(stack'[t], d) = Nth(stack[t], d)
    BY <1>1, <2>2, <2>3, <2>5, <2>6
  <2>8. QED
    BY <2>5, <2>6, <2>7 DEF m
<1>4. QED
  BY <1>2, <1>3

\* AtomicUnlock ends the runner's frame; after an error the drain loop below ends too.
LEMMA UnlockStep ==
  ASSUME IInv, NEW t \in Thread, NEW c, c = Top(t).call, Unlock(t)
  PROVE  IInv'
<1> DEFINE m == Len(stack[t])
<1>0. TypeOK /\ Stacked /\ Once /\ Stages /\ PipesOnce
  BY DEF IInv, Once
<1>1. /\ stack[t] # <<>> /\ Top(t).at = "unlock" /\ Top(t).at \in RunnerAt
      /\ Top(t).at \notin CallerAt /\ "read" \notin CallerAt \cup RunnerAt
      /\ syncData' = [syncData EXCEPT ![c].lock = FALSE]
      /\ UNCHANGED <<pipe, events, callback, outcome, crashed>>
  BY DEF Unlock, TopIs, RunnerAt, CallerAt
<1>2. c \in Call /\ c \in SyncCall /\ Running(c) /\ RunnerStage("unlock", c) /\ StageOf(c)
  BY <1>0, <1>1, TopStage, TopIsLast DEF Stages, FrameOK
<1>3. /\ m \in Nat /\ m > 1 /\ m \in Depths(t) /\ Nth(stack[t], m) = Top(t)
      /\ Nth(stack[t], m - 1).at = "read"
  BY <1>0, <1>1, TopIsLast, TopStage DEF FrameOK
<1> HIDE DEF m
<1>4. PICK n \in {m - 1, m - 2} :
        /\ stack' \in [Thread -> Seq(Frames)] /\ Others(t) /\ Len(stack'[t]) = n
        /\ \A d \in 1 .. n : Nth(stack'[t], d) = Nth(stack[t], d)
  BY <1>0, <1>1, <1>3, UnlockPops DEF m
<1>5. n \in Nat /\ n < m /\ n >= m - 2
  BY <1>3
<1>6. \A u \in Thread : \A d \in Depths(u)' :
        d \in Depths(u) /\ Nth(stack'[u], d) = Nth(stack[u], d)
  BY <1>3, <1>4, <1>5 DEF Depths, Others, m
<1>7. \A u \in Thread : \A d \in Depths(u) :
        \/ d \in Depths(u)'
        \/ u = t /\ d \in {m, m - 1}
  BY <1>3, <1>4, <1>5 DEF Depths, Others, m
<1>8. m \notin Depths(t)'
  BY <1>3, <1>4, <1>5 DEF Depths
<1>9. ASSUME NEW e \in Call
      PROVE  (Called(e)' <=> Called(e)) /\ (Running(e)' <=> Running(e) /\ e # c)
  <2>1. Called(e)' => Called(e)
    BY <1>6 DEF Called, Calls
  <2>2. Called(e) => Called(e)'
    BY <1>1, <1>3, <1>6, <1>7 DEF Called, Calls
  <2>3. Running(e)' => Running(e)
    BY <1>6 DEF Running, Runs
  <2>4. Running(e) /\ e # c => Running(e)'
    BY <1>1, <1>3, <1>6, <1>7 DEF Running, Runs
  <2>5. ASSUME Running(c)' PROVE FALSE
    <3>1. Runs(stack[t], m, c)
      BY <1>1, <1>3 DEF Runs
    <3>2. QED
      BY <1>0, <1>2, <1>3, <1>6, <1>8, <2>5, <3>1 DEF Running, Runs, Once
  <2>6. QED
    BY <2>1, <2>2, <2>3, <2>4, <2>5
<1>10. TypeOK'
  <2>1. syncData' \in [SyncCall -> [live : BOOLEAN, lock : BOOLEAN,
                                    result : BOOLEAN, error : BOOLEAN]]
    BY <1>0, <1>1 DEF TypeOK
  <2>2. QED
    BY <1>0, <1>1, <1>4, <2>1 DEF TypeOK
<1>11. Stacked'
  <2>1. ASSUME NEW d \in 1 .. n PROVE FrameOK(stack'[t], d)
    <3>1. Nth(stack'[t], d) = Nth(stack[t], d) /\ FrameOK(stack[t], d) /\ d # m
      BY <1>0, <1>3, <1>4, <1>5 DEF Stacked, StackOK, m
    <3>2. d > 1 => Nth(stack'[t], d - 1) = Nth(stack[t], d - 1)
      BY <1>3, <1>4, <1>5
    <3>3. QED
      BY <1>4, <3>1, <3>2 DEF FrameOK, m
  <2>2. StackOK(stack'[t])
    BY <1>4, <2>1 DEF StackOK
  <2>3. QED
    BY <1>0, <1>4, <2>2 DEF Stacked, Others
<1>12. PipesOnce' /\ \A d \in Call : InPipe(d)' <=> InPipe(d)
  BY <1>0, <1>1, SamePipes
<1>13. Once'
  BY <1>0, <1>6, <1>9, <1>12 DEF Once, Calls, Runs
<1>14. ASSUME NEW d \in Call, d # c PROVE StageOf(d)'
  <2>1. Untouched(d)
    BY <1>0, <1>1, <1>12, <1>14 DEF Untouched, TypeOK
  <2>2. Called(d)' <=> Called(d)
    BY <1>9
  <2>3. Running(d)' <=> Running(d)
    BY <1>9, <1>14
  <2>4. QED
    BY <1>0, <1>6, <2>1, <2>2, <2>3, StageKept DEF Untouched, Stages
<1>15. StageOf(c)'
  <2>1. /\ outcome'[c] = "pending" /\ outcome'[c] = outcome[c]
        /\ syncData'[c].live = syncData[c].live /\ Stored(c)'
    BY <1>0, <1>1, <1>2 DEF TypeOK, RunnerStage, Stored
  <2>2. CallersOf(c)'
    BY <1>2, <1>6, <2>1, CallersKept DEF Active
  <2>3. ~Running(c)' /\ ~InPipe(c)'
    BY <1>0, <1>2, <1>9, <1>12 DEF Once
  <2>4. DataOf(c)'
    BY <2>1, <2>3 DEF DataOf
  <2>5. QED
    BY <1>2, <2>2, <2>3, <2>4, NoFrames DEF StageOf
<1>16. QED
  BY <1>10, <1>11, <1>13, <1>14, <1>15 DEF IInv, Stages

\* The resultCallback ends an Async call.
LEMMA ResultStep ==
  ASSUME IInv, NEW t \in Thread, NEW c, c = Top(t).call, Result(t)
  PROVE  IInv'
<1>0. TypeOK /\ Once /\ Stages /\ PipesOnce
  BY DEF IInv, Once
<1>1. /\ stack[t] # <<>> /\ Top(t).at = "result" /\ Top(t).at \in RunnerAt /\ Pop(t)
      /\ Top(t).at \notin CallerAt
      /\ UNCHANGED <<pipe, events, syncData, callback, outcome, crashed>>
  BY DEF Result, TopIs, RunnerAt, CallerAt
<1>2. c \in Call /\ c \notin SyncCall /\ Running(c) /\ StageOf(c)
  BY <1>0, <1>1, TopStage, TopIsLast DEF Stages, FrameOK
<1>3. Popped(t)
  BY <1>0, <1>1, PopLemma
<1>4. TypeOK'
  BY <1>0, <1>1, <1>3 DEF TypeOK, Popped
<1>5. PipesOnce' /\ \A d \in Call : InPipe(d)' <=> InPipe(d)
  BY <1>0, <1>1, SamePipes
<1>6. \A d \in Call : Untouched(d) /\ (InPipe(d)' => ~Running(d))
  BY <1>0, <1>1, <1>5 DEF Untouched, Once
<1>7. /\ \A u \in Thread \ {t} : Depths(u)' = Depths(u)
      /\ Depths(t)' = Depths(t) \ {Len(stack[t])}
      /\ \A u \in Thread : \A d \in Depths(u)' : Nth(stack'[u], d) = Nth(stack[u], d)
      /\ ~Running(c)' /\ (Called(c)' <=> Called(c))
  BY <1>0, <1>1, <1>2, <1>3, PoppedFrames
<1>8. CallersOf(c)'
  BY <1>2, <1>7, CallersKept DEF Active
<1>9. StageOf(c)'
  BY <1>1, <1>2, <1>6, <1>7, <1>8, NoFrames DEF StageOf, DataOf, Active
<1>10. QED
  BY <1>1, <1>3, <1>4, <1>5, <1>6, <1>9, FrameEnds

\* The callback of a call made on its own target ends.
LEMMA FinishInlineStep ==
  ASSUME IInv, NEW t \in Thread, NEW c, c = Top(t).call, FinishInline(t)
  PROVE  IInv'
<1> DEFINE f == Frame("inlineResult", c)
<1>0. TypeOK /\ Once /\ Stages /\ PipesOnce /\ CallerAt \cap RunnerAt = {}
  BY DEF IInv, Once, CallerAt, RunnerAt
<1>1. PICK end \in {"ok", "threw"} : callback' = [callback EXCEPT ![c] = end]
  BY DEF FinishInline
<1>2. /\ stack[t] # <<>> /\ Top(t).at = "inline" /\ Top(t).at \in RunnerAt
      /\ MoveTo(t, "inlineResult")
      /\ UNCHANGED <<pipe, events, syncData, outcome, crashed>>
  BY DEF FinishInline, TopIs, RunnerAt
<1>3. c \in Call /\ Running(c) /\ RunnerStage("inline", c) /\ StageOf(c)
  BY <1>0, <1>2, TopStage DEF Stages
<1>4. f \in Frames /\ f.call = c /\ f.at = "inlineResult" /\ f.at \in RunnerAt /\ Moved(t, f)
  BY <1>0, <1>2, <1>3, MoveLemma DEF Frame, Frames, Location, RunnerAt
<1> HIDE DEF f
<1>5. TypeOK'
  BY <1>0, <1>1, <1>2, <1>4 DEF TypeOK, Moved
<1>6. \A d \in Call : InPipe(d)' <=> InPipe(d)
  BY <1>2, SamePipes
<1>7. ~InPipe(c)' /\ \A d \in Call : d # c => Untouched(d)
  BY <1>0, <1>1, <1>2, <1>3, <1>6 DEF Untouched, TypeOK, Once
<1>8. ~Called(c)'
  BY <1>0, <1>2, <1>3, <1>4, MovedFrames DEF RunnerStage
<1>9. callback'[c] \in {"ok", "threw"} /\ outcome'[c] = "pending"
  BY <1>0, <1>1, <1>2, <1>3 DEF TypeOK, RunnerStage
<1>10. RunnerStage("inlineResult", c)' /\ DataOf(c)'
  BY <1>7, <1>8, <1>9 DEF RunnerStage, DataOf
<1>11. QED
  BY <1>2, <1>3, <1>4, <1>5, <1>7, <1>8, <1>10, NoFrames, RunnerMoves

\* A call made on its own target returns.
LEMMA ReturnInlineStep ==
  ASSUME IInv, NEW t \in Thread, NEW c, c = Top(t).call, ReturnInline(t)
  PROVE  IInv'
<1>0. TypeOK /\ Once /\ Stages /\ PipesOnce
  BY DEF IInv, Once
<1>1. /\ stack[t] # <<>> /\ Top(t).at = "inlineResult" /\ Top(t).at \in RunnerAt /\ Pop(t)
      /\ Top(t).at \notin CallerAt
      /\ outcome' = [outcome EXCEPT ![c] = IF callback[c] = "threw" THEN "raised"
                       ELSE IF c \in SyncCall THEN "returned" ELSE "sent"]
      /\ UNCHANGED <<pipe, events, syncData, callback, crashed>>
  BY DEF ReturnInline, TopIs, RunnerAt, CallerAt
<1>2. c \in Call /\ Running(c) /\ RunnerStage("inlineResult", c)
  BY <1>0, <1>1, TopStage
<1>3. Popped(t)
  BY <1>0, <1>1, PopLemma
<1>4. TypeOK' /\ outcome'[c] \in {"raised", "returned", "sent"}
  BY <1>0, <1>1, <1>2, <1>3 DEF TypeOK, Popped
<1>5. PipesOnce' /\ \A d \in Call : InPipe(d)' <=> InPipe(d)
  BY <1>0, <1>1, SamePipes
<1>6. /\ \A d \in Call : d # c => Untouched(d)
      /\ \A d \in Call : InPipe(d)' => ~Running(d)
  BY <1>0, <1>1, <1>5 DEF Untouched, Once, TypeOK
<1>7. ~InPipe(c)' /\ ~Running(c)' /\ ~Called(c)'
  BY <1>0, <1>1, <1>2, <1>3, <1>6, PoppedFrames DEF RunnerStage
<1>8. StageOf(c)'
  BY <1>2, <1>4, <1>7, NoFrames DEF StageOf, DataOf, Active
<1>9. QED
  BY <1>1, <1>3, <1>4, <1>5, <1>6, <1>8, FrameEnds

-----------------------------------------------------------------------------
(* The invariant.                                                          *)

\* No call is made yet.
LEMMA InitIInv == Init => IInv
<1> SUFFICES ASSUME Init PROVE IInv
  OBVIOUS
<1>1. \A t \in Thread : stack[t] = <<>> /\ Len(stack[t]) = 0 /\ Depths(t) = {}
  BY DEF Init, Depths
<1>2. \A p \in {Main, GL} : pipe[p] = <<>> /\ Len(pipe[p]) = 0
  BY DEF Init
<1>3. TypeOK
  <2>1. \A p \in {Main, GL} : Len(pipe[p]) <= PipeSize
    BY <1>2, ThreadMessagesAssumption
  <2>2. pipe \in [{Main, GL} -> Seq(Call)] /\ stack \in [Thread -> Seq(Frames)]
    <3>1. <<>> \in Seq(Call) /\ <<>> \in Seq(Frames)
      OBVIOUS
    <3>2. QED
      BY <3>1 DEF Init
  <2>3. syncData \in [SyncCall -> [live : BOOLEAN, lock : BOOLEAN,
                                  result : BOOLEAN, error : BOOLEAN]]
    BY DEF Init, NoData
  <2>4. /\ callback \in [Call -> {"none", "running", "ok", "threw"}]
        /\ outcome \in [Call -> {"none", "pending", "sent", "lost", "returned", "raised"}]
    BY DEF Init
  <2>5. events \in Int
    BY DEF Init
  <2>6. crashed \in BOOLEAN
    BY Zenon DEF Init
  <2>7. QED
    BY <2>1, <2>2, <2>3, <2>4, <2>5, <2>6 DEF TypeOK
<1>4. Stacked /\ Once /\ \A c \in Call : ~Active(c) /\ ~Called(c)
  BY <1>1, <1>2 DEF Stacked, StackOK, Once, PipesOnce, Active, Called, Running, InPipe
<1>5. Stages
  BY <1>1, <1>4 DEF Init, Stages, StageOf, DataOf, CallersOf, RunnersOf, Active
<1>6. QED
  BY <1>3, <1>4, <1>5 DEF IInv

\* The invariant speaks of the variables only.
LEMMA StutterIInv ==
  ASSUME IInv, UNCHANGED vars
  PROVE  IInv'
<1>0. TypeOK /\ Stacked /\ Once /\ Stages
  BY DEF IInv
<1>1. \A t \in Thread : stack'[t] = stack[t] /\ Depths(t)' = Depths(t)
  BY DEF vars, Depths
<1>2. TypeOK'
  BY <1>0 DEF vars, TypeOK
<1>3. Stacked'
  BY <1>0, <1>1 DEF Stacked
<1>4. PipesOnce' /\ \A c \in Call : InPipe(c)' <=> InPipe(c)
  BY <1>0, SamePipes DEF vars, Once
<1>5. \A c \in Call : (Called(c)' <=> Called(c)) /\ (Running(c)' <=> Running(c))
  BY <1>1 DEF Called, Running
<1>6. Once'
  BY <1>0, <1>1, <1>4, <1>5 DEF Once
<1>7. Stages'
  BY <1>0, <1>1, <1>4, <1>5, StageKept DEF vars, Stages
<1>8. QED
  BY <1>2, <1>3, <1>6, <1>7 DEF IInv

\* Every step keeps the invariant.
LEMMA NextIInv ==
  ASSUME IInv, [Next]_vars
  PROVE  IInv'
<1>1. CASE UNCHANGED vars
  BY <1>1, StutterIInv
<1>2. CASE Rest
  BY <1>2, StutterIInv DEF Rest
<1>3. ASSUME NEW t \in Thread, Begin(t) PROVE IInv'
  BY <1>3, CallInlineStep, CallRemoteStep, CallNewThreadStep DEF Begin
<1>4. ASSUME NEW t \in Thread, Step(t) PROVE IInv'
  <2>1. PICK c : c = Top(t).call
    OBVIOUS
  <2>2. CASE Lock(t) \/ Post(t) \/ Overrun(t) \/ Count(t) \/ Wait(t) \/ Collect(t)
    BY <2>1, <2>2, LockStep, PostStep, OverrunStep, CountStep, WaitStep, CollectStep
  <2>3. CASE StartLoop(t) \/ Read(t) \/ Uncount(t) \/ Finish(t) \/ Throw(t)
    BY <2>1, <2>3, StartLoopStep, ReadStep, UncountStep, FinishStep, ThrowStep
  <2>4. CASE Set(t) \/ Unlock(t) \/ Result(t) \/ FinishInline(t) \/ ReturnInline(t)
    BY <2>1, <2>4, SetStep, UnlockStep, ResultStep, FinishInlineStep, ReturnInlineStep
  <2>5. QED
    BY <1>4, <2>2, <2>3, <2>4 DEF Step
<1>5. QED
  BY <1>1, <1>2, <1>3, <1>4 DEF Next

\* In every state each call is at one stage, told alike by its frames, its message and
\* its ThreadSyncData: one caller, one runner, one message, one stored answer.
THEOREM Invariance == Spec => []IInv
<1>1. IInv /\ [Next]_vars => IInv'
  BY NextIInv
<1>2. QED
  BY InitIInv, <1>1, PTL DEF Spec

\* From the write of a Sync message to the AtomicUnlock of its runner the
\* ThreadSyncData is allocated and locked, and no pipe holds more than it can.
THEOREM HandshakeKept == Spec => []Handshake
<1>1. ASSUME IInv, NEW c \in SyncCall, InFlight(c)
      PROVE  syncData[c].live /\ syncData[c].lock
  <2>0. TypeOK /\ c \in Call /\ StageOf(c) /\ {"uncount", "run", "set", "unlock"} \subseteq RunnerAt
    BY <1>1, ThreadMessagesAssumption DEF IInv, Stages, RunnerAt
  <2>1. CASE \E p \in {Main, GL} : \E i \in DOMAIN pipe[p] : pipe[p][i] = c
    <3>1. \A p \in {Main, GL} : DOMAIN pipe[p] = 1 .. Len(pipe[p])
      BY <2>0 DEF TypeOK
    <3>2. InPipe(c)
      BY <2>1, <3>1 DEF InPipe
    <3>3. QED
      BY <2>0, <3>2 DEF StageOf, DataOf, Unanswered
  <2>2. ASSUME NEW t \in Thread, NEW at \in {"uncount", "run", "set", "unlock"},
               Frame(at, c) \in FramesOf(t)
        PROVE  syncData[c].live /\ syncData[c].lock
    <3>1. stack[t] \in Seq(Frames)
      BY <2>0 DEF TypeOK
    <3>2. PICK i \in 1 .. Len(stack[t]) : stack[t][i] = Frame(at, c)
      BY <2>2, <3>1 DEF FramesOf
    <3>3. Len(stack[t]) + 1 - i \in Depths(t) /\ Len(stack[t]) + 1 - (Len(stack[t]) + 1 - i) = i
      BY <3>1 DEF Depths
    <3>4. PICK d \in Depths(t) : d = Len(stack[t]) + 1 - i /\ Nth(stack[t], d) = Frame(at, c)
      BY <3>2, <3>3 DEF Nth
    <3>5. Nth(stack[t], d).at = at /\ Runs(stack[t], d, c)
      BY <2>0, <3>4 DEF Runs, Frame
    <3>6. RunnerStage(at, c)
      BY <2>0, <3>5 DEF StageOf, RunnersOf
    <3>7. QED
      BY <2>2, <3>6 DEF RunnerStage, Unanswered
  <2>3. QED
    BY <1>1, <2>1, <2>2 DEF InFlight
<1>2. IInv => Handshake
  BY <1>1 DEF IInv, Handshake, AnswerPending
<1>3. QED
  BY <1>2, Invariance, PTL

-----------------------------------------------------------------------------
(* The counter of the OpenGL pipe.                                         *)

AtTop(at) == {t \in Thread : TopIs(t, at)}

\* The cardinalities in EventsExact are numbers: one thread moves at a time.
Counted == EventsExact /\ IsFiniteSet(AtTop("uncount")) /\ IsFiniteSet(AtTop("count"))

\* By how much t has yet to correct the counter.
Owes(t) == IF TopIs(t, "uncount") THEN 1 ELSE IF TopIs(t, "count") THEN -1 ELSE 0

\* The threads at a place, when one thread moves: one more, one less, or the same.
LEMMA OneTop ==
  ASSUME NEW at, NEW t \in Thread, Others(t), IsFiniteSet(AtTop(at))
  PROVE  /\ IsFiniteSet(AtTop(at)') /\ Cardinality(AtTop(at)) \in Nat
         /\ Cardinality(AtTop(at)') = Cardinality(AtTop(at))
              + (IF TopIs(t, at)' THEN 1 ELSE 0) - (IF TopIs(t, at) THEN 1 ELSE 0)
<1>1. \A u \in Thread \ {t} : TopIs(u, at)' <=> TopIs(u, at)
  BY DEF Others, TopIs, Top
<1>2. Cardinality(AtTop(at)) \in Nat
  BY FS_CardinalityType
<1>3. CASE TopIs(t, at)' <=> TopIs(t, at)
  <2>1. AtTop(at)' = AtTop(at)
    BY <1>1, <1>3 DEF AtTop
  <2>2. QED
    BY <1>2, <1>3, <2>1
<1>4. CASE TopIs(t, at)' /\ ~TopIs(t, at)
  <2>1. AtTop(at)' = AtTop(at) \cup {t} /\ t \notin AtTop(at)
    BY <1>1, <1>4 DEF AtTop
  <2>2. QED
    BY <1>2, <1>4, <2>1, FS_AddElement
<1>5. CASE ~TopIs(t, at)' /\ TopIs(t, at)
  <2>1. AtTop(at)' = AtTop(at) \ {t} /\ t \in AtTop(at)
    BY <1>1, <1>5 DEF AtTop
  <2>2. QED
    BY <1>2, <1>5, <2>1, FS_RemoveElement
<1>6. QED
  BY <1>3, <1>4, <1>5

\* One thread moves, and what it adds to the counter is what it owed it, or what
\* it now owes.
LEMMA CountedStep ==
  ASSUME TypeOK, TypeOK', Counted, NEW t \in Thread, Others(t),
         events' - Len(pipe'[GL]) - Owes(t)' = events - Len(pipe[GL]) - Owes(t)
  PROVE  Counted'
<1>1. /\ events \in Int /\ events' \in Int
      /\ Len(pipe[GL]) \in Nat /\ Len(pipe'[GL]) \in Nat
  BY DEF TypeOK
<1>2. /\ IsFiniteSet(AtTop("uncount")') /\ Cardinality(AtTop("uncount")) \in Nat
      /\ Cardinality(AtTop("uncount")') = Cardinality(AtTop("uncount"))
           + (IF TopIs(t, "uncount")' THEN 1 ELSE 0) - (IF TopIs(t, "uncount") THEN 1 ELSE 0)
  BY OneTop DEF Counted
<1>3. /\ IsFiniteSet(AtTop("count")') /\ Cardinality(AtTop("count")) \in Nat
      /\ Cardinality(AtTop("count")') = Cardinality(AtTop("count"))
           + (IF TopIs(t, "count")' THEN 1 ELSE 0) - (IF TopIs(t, "count") THEN 1 ELSE 0)
  BY OneTop DEF Counted
<1>4. /\ Owes(t) = (IF TopIs(t, "uncount") THEN 1 ELSE 0) - (IF TopIs(t, "count") THEN 1 ELSE 0)
      /\ Owes(t)' = (IF TopIs(t, "uncount")' THEN 1 ELSE 0)
                      - (IF TopIs(t, "count")' THEN 1 ELSE 0)
  BY DEF TopIs, Owes
<1>5. events = Len(pipe[GL]) + Cardinality(AtTop("uncount")) - Cardinality(AtTop("count"))
  BY DEF Counted, EventsExact, AtTop
<1>6. events' = Len(pipe'[GL]) + Cardinality(AtTop("uncount")') - Cardinality(AtTop("count")')
  <2>1. PICK u, c, v, d \in {0, 1} :
          /\ u = (IF TopIs(t, "uncount") THEN 1 ELSE 0)
          /\ c = (IF TopIs(t, "count") THEN 1 ELSE 0)
          /\ v = (IF TopIs(t, "uncount")' THEN 1 ELSE 0)
          /\ d = (IF TopIs(t, "count")' THEN 1 ELSE 0)
    OBVIOUS
  <2>2. events' - Len(pipe'[GL]) - (v - d) = events - Len(pipe[GL]) - (u - c)
    BY <1>4, <2>1
  <2>3. /\ Cardinality(AtTop("uncount")') = Cardinality(AtTop("uncount")) + v - u
        /\ Cardinality(AtTop("count")') = Cardinality(AtTop("count")) + d - c
    BY <1>2, <1>3, <2>1
  <2>4. PICK e, l, a, b \in Int :
          /\ e = events /\ l = Len(pipe[GL])
          /\ a = Cardinality(AtTop("uncount")) /\ b = Cardinality(AtTop("count"))
    BY <1>1, <1>2, <1>3
  <2>5. PICK m, n \in Int : m = events' /\ n = Len(pipe'[GL])
    BY <1>1
  <2>6. m - n - (v - d) = e - l - (u - c) /\ e = l + a - b
    BY <1>5, <2>2, <2>4, <2>5
  <2>7. m = n + (a + v - u) - (b + d - c)
    BY <2>1, <2>6
  <2>8. QED
    BY <2>3, <2>4, <2>5, <2>7
<1>7. EventsExact'
  BY <1>6 DEF EventsExact, AtTop
<1>8. QED
  BY <1>2, <1>3, <1>7 DEF Counted

\* What a thread owes the counter is told by its running frame.
LEMMA OwesAfterPush ==
  ASSUME TypeOK, NEW t \in Thread, NEW f \in Frames, Pushed(t, f)
  PROVE  Owes(t)' = IF f.at = "uncount" THEN 1 ELSE IF f.at = "count" THEN -1 ELSE 0
<1>1. /\ stack'[t] \in Seq(Frames) /\ Len(stack[t]) \in Nat
      /\ Len(stack'[t]) = Len(stack[t]) + 1 /\ Nth(stack'[t], Len(stack'[t])) = f
  BY DEF Pushed, TypeOK
<1>2. stack'[t] # <<>>
  <2>1. Len(stack'[t]) # 0
    BY <1>1
  <2>2. QED
    BY <2>1
<1>3. Head(stack'[t]) = f
  BY <1>1, <1>2, PopSeq
<1>4. QED
  BY <1>2, <1>3 DEF Owes, TopIs, Top

\* The same for a frame that moves.
LEMMA OwesAfterMove ==
  ASSUME NEW t \in Thread, NEW f \in Frames, Moved(t, f)
  PROVE  Owes(t)' = IF f.at = "uncount" THEN 1 ELSE IF f.at = "count" THEN -1 ELSE 0
<1>1. /\ stack'[t] \in Seq(Frames) /\ Len(stack'[t]) > 0
      /\ Nth(stack'[t], Len(stack'[t])) = f
  BY DEF Moved
<1>2. stack'[t] # <<>>
  <2>1. Len(stack'[t]) # 0
    BY <1>1
  <2>2. QED
    BY <2>1
<1>3. Head(stack'[t]) = f
  BY <1>1, <1>2, PopSeq
<1>4. QED
  BY <1>2, <1>3 DEF Owes, TopIs, Top

\* A frame that comes to light was not about to correct the counter.
LEMMA OwesAfterPop ==
  ASSUME TypeOK, Stacked, NEW t \in Thread, stack' \in [Thread -> Seq(Frames)],
         Len(stack'[t]) < Len(stack[t]),
         \A d \in 1 .. Len(stack'[t]) : Nth(stack'[t], d) = Nth(stack[t], d)
  PROVE  Owes(t)' = 0
<1>1. stack'[t] \in Seq(Frames) /\ Len(stack[t]) \in Nat /\ Len(stack'[t]) \in Nat
  BY DEF TypeOK
<1>2. CASE stack'[t] = <<>>
  BY <1>2 DEF Owes, TopIs
<1>3. CASE stack'[t] # <<>>
  <2>1. Len(stack'[t]) > 0 /\ Head(stack'[t]) = Nth(stack'[t], Len(stack'[t]))
    BY <1>1, <1>3, PopSeq
  <2>2. Head(stack'[t]) = Nth(stack[t], Len(stack'[t])) /\ FrameOK(stack[t], Len(stack'[t]))
    BY <1>1, <2>1 DEF Stacked, StackOK
  <2>3. Head(stack'[t]).at \notin CallerAt \cup {"uncount"}
    BY <1>1, <2>2 DEF FrameOK
  <2>4. Head(stack'[t]).at \notin {"count", "uncount"}
    BY <2>3 DEF CallerAt
  <2>5. QED
    BY <2>4 DEF Owes, TopIs, Top
<1>4. QED
  BY <1>2, <1>3

\* A call that begins leaves the counter alone.
LEMMA BeginCounted ==
  ASSUME IInv, IInv', Counted, NEW t \in Thread, Begin(t)
  PROVE  Counted'
<1>0. TypeOK /\ TypeOK' /\ {"inline", "lock", "post", "run"} \subseteq Location
  BY DEF IInv, Location, CallerAt, RunnerAt
<1>1. PICK c \in Call :
        CallInline(t, c) \/ CallRemote(t, c) \/ \E n \in Other : CallNewThread(t, c, n)
  BY DEF Begin
<1>2. Makes(t, c) /\ UNCHANGED <<pipe, events>>
  BY <1>1 DEF CallInline, CallRemote, CallNewThread
<1>3. CASE CallInline(t, c) \/ CallRemote(t, c)
  <2>1. PICK at \in {"inline", "lock", "post"} : Push(t, Frame(at, c))
    BY <1>3 DEF CallInline, CallRemote
  <2> DEFINE f == Frame(at, c)
  <2>2. f \in Frames /\ f.at = at
    BY <1>0 DEF Frame, Frames
  <2> HIDE DEF f
  <2>3. Pushed(t, f)
    BY <1>0, <2>1, <2>2, PushLemma DEF f
  <2>4. Owes(t)' = 0
    BY <1>0, <2>1, <2>2, <2>3, OwesAfterPush
  <2>5. Owes(t) = 0
    BY <1>2 DEF Makes, Owes, TopIs
  <2>6. QED
    BY <1>0, <1>2, <2>3, <2>4, <2>5, CountedStep DEF Pushed
<1>4. ASSUME NEW n \in Other, CallNewThread(t, c, n) PROVE Counted'
  <2> DEFINE f == Frame("run", c)
  <2>1. f \in Frames /\ f.at = "run" /\ n \in Thread
    BY <1>0 DEF Frame, Frames, Thread
  <2>2. stack[n] = <<>> /\ stack' = [stack EXCEPT ![n] = <<f>>]
    BY <1>4 DEF CallNewThread
  <2> HIDE DEF f
  <2>3. Push(n, f)
    BY <1>0, <2>1, <2>2 DEF Push, TypeOK
  <2>4. Pushed(n, f)
    BY <1>0, <2>1, <2>3, PushLemma
  <2>5. Owes(n)' = 0
    BY <1>0, <2>1, <2>4, OwesAfterPush
  <2>6. Owes(n) = 0
    BY <2>2 DEF Owes, TopIs
  <2>7. QED
    BY <1>0, <1>2, <2>1, <2>4, <2>5, <2>6, CountedStep DEF Pushed
<1>5. QED
  BY <1>1, <1>3, <1>4

\* Steps that leave the pipe of the OpenGL thread and its counter alone.
LEMMA QuietCounted ==
  ASSUME IInv, IInv', Counted, NEW t \in Thread,
         \/ Lock(t) \/ Wait(t) \/ Collect(t) \/ Overrun(t) \/ Finish(t) \/ Throw(t)
         \/ Set(t) \/ Result(t) \/ FinishInline(t) \/ ReturnInline(t) \/ Unlock(t)
  PROVE  Counted'
<1>0. /\ TypeOK /\ TypeOK' /\ Stacked
      /\ {"post", "wait", "collect", "result", "set", "unlock", "inlineResult"} \subseteq Location
  BY DEF IInv, Location, CallerAt, RunnerAt
<1>1. /\ stack[t] # <<>> /\ Top(t).at \notin {"count", "uncount"} /\ UNCHANGED <<pipe, events>>
      /\ Top(t).at # "read"
  BY DEF Lock, Wait, Collect, Overrun, Finish, Throw, Set, Result, FinishInline, ReturnInline,
         Unlock, TopIs
<1>2. Owes(t) = 0
  BY <1>1 DEF Owes, TopIs
<1>3. Others(t) /\ Owes(t)' = 0
  <2>1. ASSUME NEW at \in {"post", "wait", "collect", "result", "set", "unlock", "inlineResult"},
               MoveTo(t, at)
        PROVE  Others(t) /\ Owes(t)' = 0
    <3> DEFINE f == Frame(at, Top(t).call)
    <3>1. Moved(t, f)
      BY <1>0, <1>1, <2>1, MoveLemma
    <3>2. f \in Frames /\ f.at = at
      BY <1>0, <1>1, TopIsLast DEF Frame, Frames
    <3> HIDE DEF f
    <3>3. QED
      BY <2>1, <3>1, <3>2, OwesAfterMove DEF Moved
  <2>2. ASSUME Pop(t) PROVE Others(t) /\ Owes(t)' = 0
    <3>1. Popped(t) /\ Len(stack[t]) \in Nat
      BY <1>0, <1>1, <2>2, PopLemma, TopIsLast
    <3>2. QED
      BY <1>0, <3>1, OwesAfterPop DEF Popped
  <2>3. ASSUME UNCHANGED stack PROVE Others(t) /\ Owes(t)' = 0
    BY <1>2, <2>3 DEF Others, Owes, TopIs, Top
  <2>4. ASSUME Unlock(t) PROVE Others(t) /\ Owes(t)' = 0
    <3>1. Top(t).at = "unlock" /\ Len(stack[t]) \in Nat /\ Len(stack[t]) > 1
      BY <1>0, <1>1, <2>4, TopIsLast, TopStage DEF Unlock, TopIs, FrameOK
    <3>2. PICK n \in {Len(stack[t]) - 1, Len(stack[t]) - 2} :
            /\ stack' \in [Thread -> Seq(Frames)] /\ Others(t) /\ Len(stack'[t]) = n
            /\ \A d \in 1 .. n : Nth(stack'[t], d) = Nth(stack[t], d)
      BY <1>0, <1>1, <2>4, <3>1, UnlockPops
    <3>3. QED
      BY <1>0, <3>1, <3>2, OwesAfterPop
  <2>5. CASE Lock(t) \/ Wait(t) \/ FinishInline(t) \/ Set(t)
    BY <2>1, <2>5 DEF Lock, Wait, FinishInline, Set
  <2>6. CASE Collect(t) \/ Result(t) \/ ReturnInline(t)
    BY <2>2, <2>6 DEF Collect, Result, ReturnInline
  <2>7. CASE Overrun(t)
    BY <2>1, <2>2, <2>7 DEF Overrun
  <2>8. CASE Finish(t)
    BY <2>1, <2>8 DEF Finish
  <2>9. CASE Throw(t)
    BY <2>1, <2>3, <2>9 DEF Throw
  <2>10. QED
    BY <2>4, <2>5, <2>6, <2>7, <2>8, <2>9
<1>4. QED
  BY <1>0, <1>1, <1>2, <1>3, CountedStep

\* What an asynchronous call leaves, or a synchronous one's wait, owes nothing.
LEMMA AfterPostOwes ==
  ASSUME TypeOK, Stacked, NEW t \in Thread, stack[t] # <<>>, NEW c, c = Top(t).call,
         AfterPost(t, c)
  PROVE  Others(t) /\ Owes(t)' = 0
<1>1. CASE c \in SyncCall
  <2> DEFINE f == Frame("wait", c)
  <2>1. Moved(t, f)
    BY <1>1, MoveLemma DEF AfterPost, Location, CallerAt
  <2>2. f \in Frames /\ f.at = "wait"
    BY TopIsLast DEF Frame, Frames, Location, CallerAt
  <2> HIDE DEF f
  <2>3. QED
    BY <2>1, <2>2, OwesAfterMove DEF Moved
<1>2. CASE c \notin SyncCall
  <2>1. Popped(t) /\ Len(stack[t]) \in Nat
    BY <1>2, PopLemma, TopIsLast DEF AfterPost
  <2>2. QED
    BY <2>1, OwesAfterPop DEF Popped
<1>3. QED
  BY <1>1, <1>2

\* A writer of the OpenGL pipe owes an increment from its write to Count.
LEMMA PostCounted ==
  ASSUME IInv, IInv', Counted, NEW t \in Thread, Post(t) \/ Count(t)
  PROVE  Counted'
<1>0. TypeOK /\ TypeOK' /\ Stacked /\ "count" \in Location
  BY DEF IInv, Location, CallerAt
<1>1. PICK c : c = Top(t).call
  OBVIOUS
<1>2. CASE Post(t)
  <2>0. events' = events /\ Owes(t) = 0
    BY <1>2 DEF Post, TopIs, Owes
  <2>1. /\ stack[t] # <<>> /\ Top(t).at = "post"
        /\ pipe' = [pipe EXCEPT ![Target[c]] = Append(@, c)]
    BY <1>1, <1>2 DEF Post, TopIs
  <2>2. c \in Call /\ Target[c] \in {Main, GL}
    BY <1>0, <1>1, <2>1, TopStage, TopIsLast DEF FrameOK, CallerAt
  <2>3. pipe \in [{Main, GL} -> Seq(Call)] /\ pipe[GL] \in Seq(Call)
    BY <1>0 DEF TypeOK
  <2>4. CASE Target[c] = GL
    <3> DEFINE f == Frame("count", c)
    <3>1. Moved(t, f)
      BY <1>0, <1>1, <1>2, <2>1, <2>4, MoveLemma DEF Post
    <3>2. f \in Frames /\ f.at = "count"
      BY <1>0, <2>2 DEF Frame, Frames
    <3> HIDE DEF f
    <3>3. Owes(t)' = -1 /\ Others(t)
      BY <3>1, <3>2, OwesAfterMove DEF Moved
    <3>4. Len(pipe'[GL]) = Len(pipe[GL]) + 1 /\ Len(pipe[GL]) \in Nat /\ events \in Int
      BY <1>0, <2>1, <2>2, <2>3, <2>4 DEF TypeOK
    <3>5. events' - Len(pipe'[GL]) - Owes(t)' = events - Len(pipe[GL]) - Owes(t)
      BY <2>0, <3>3, <3>4
    <3>6. QED
      BY <1>0, <3>3, <3>5, CountedStep
  <2>5. CASE Target[c] # GL
    <3>1. AfterPost(t, c)
      BY <1>1, <1>2, <2>5 DEF Post
    <3>2. Others(t) /\ Owes(t)' = 0
      BY <1>0, <1>1, <2>1, <3>1, AfterPostOwes
    <3>3. pipe'[GL] = pipe[GL]
      BY <2>1, <2>2, <2>3, <2>5
    <3>4. QED
      BY <1>0, <2>0, <3>2, <3>3, CountedStep
  <2>6. QED
    BY <2>4, <2>5
<1>3. CASE Count(t)
  <2>1. /\ stack[t] # <<>> /\ events' = events + 1 /\ Owes(t) = -1 /\ AfterPost(t, c)
        /\ UNCHANGED pipe
    BY <1>1, <1>3 DEF Count, TopIs, Owes
  <2>2. Others(t) /\ Owes(t)' = 0
    BY <1>0, <1>1, <2>1, AfterPostOwes
  <2>3. events \in Int /\ Len(pipe[GL]) \in Nat
    BY <1>0 DEF TypeOK
  <2>4. events' - Len(pipe'[GL]) - Owes(t)' = events - Len(pipe[GL]) - Owes(t)
    BY <2>1, <2>2, <2>3
  <2>5. QED
    BY <1>0, <2>2, <2>4, CountedStep
<1>4. QED
  BY <1>2, <1>3

\* A reader of the OpenGL pipe owes a decrement from its read to Uncount.
LEMMA LoopCounted ==
  ASSUME IInv, IInv', Counted, NEW t \in Thread, StartLoop(t) \/ Read(t) \/ Uncount(t)
  PROVE  Counted'
<1>0. /\ TypeOK /\ TypeOK' /\ Stacked /\ {"read", "uncount", "run"} \subseteq Location
      /\ PipesOnce /\ events \in Int /\ Len(pipe[GL]) \in Nat /\ Main # GL
  BY ThreadMessagesAssumption DEF IInv, Location, RunnerAt, Once, TypeOK
<1>1. CASE StartLoop(t)
  <2>1. PICK p \in {Main, GL} : Push(t, Frame("read", p))
    BY <1>1 DEF StartLoop
  <2> DEFINE f == Frame("read", p)
  <2>2. f \in Frames /\ f.at = "read"
    BY <1>0 DEF Frame, Frames
  <2> HIDE DEF f
  <2>3. Pushed(t, f)
    BY <1>0, <2>1, <2>2, PushLemma DEF f
  <2>4. Owes(t)' = 0
    BY <1>0, <2>2, <2>3, OwesAfterPush
  <2>5. Owes(t) = 0 /\ UNCHANGED <<pipe, events>>
    BY <1>1 DEF StartLoop, Owes, TopIs
  <2>6. QED
    BY <1>0, <2>3, <2>4, <2>5, CountedStep DEF Pushed
<1>2. CASE Read(t)
  <2>1. PICK p : p = Top(t).call
    OBVIOUS
  <2>2. stack[t] # <<>> /\ Top(t).at = "read" /\ Owes(t) = 0 /\ UNCHANGED events
    BY <1>2 DEF Read, TopIs, Owes
  <2>3. p \in {Main, GL}
    BY <1>0, <2>1, <2>2, TopStage, TopIsLast DEF Frames
  <2>4. CASE pipe[p] = <<>>
    <3>1. Pop(t) /\ UNCHANGED pipe
      BY <1>2, <2>1, <2>4 DEF Read
    <3>2. Popped(t) /\ Len(stack[t]) \in Nat
      BY <1>0, <2>2, <3>1, PopLemma, TopIsLast
    <3>3. Others(t) /\ Owes(t)' = 0
      BY <1>0, <3>2, OwesAfterPop DEF Popped
    <3>4. QED
      BY <1>0, <2>2, <3>1, <3>3, CountedStep
  <2>5. CASE pipe[p] # <<>>
    <3>1. PICK c : c = Head(pipe[p])
      OBVIOUS
    <3> DEFINE f == Frame(IF p = GL THEN "uncount" ELSE "run", c)
    <3>2. Push(t, f) /\ pipe' = [pipe EXCEPT ![p] = Tail(@)]
      BY <1>2, <2>1, <2>5, <3>1 DEF Read
    <3>3. c \in Call /\ Len(pipe'[p]) = Len(pipe[p]) - 1
      BY <1>0, <2>3, <2>5, <3>1, <3>2, Taken
    <3>4. f \in Frames /\ f.at = IF p = GL THEN "uncount" ELSE "run"
      BY <1>0, <3>3 DEF Frame, Frames
    <3> HIDE DEF f
    <3>5. Pushed(t, f)
      BY <1>0, <3>2, <3>4, PushLemma
    <3>6. Owes(t)' = IF p = GL THEN 1 ELSE 0
      BY <1>0, <3>4, <3>5, OwesAfterPush
    <3>7. p # GL => pipe'[GL] = pipe[GL]
      BY <1>0, <2>3, <3>2 DEF TypeOK
    <3>8. events' - Len(pipe'[GL]) - Owes(t)' = events - Len(pipe[GL]) - Owes(t)
      <4>1. CASE p = GL
        <5>1. Len(pipe'[GL]) = Len(pipe[GL]) - 1
          BY <3>3, <4>1
        <5>2. Owes(t)' = 1 /\ Owes(t) = 0 /\ events' = events
          BY <2>2, <3>6, <4>1
        <5>3. QED
          BY <1>0, <5>1, <5>2
      <4>2. CASE p # GL
        BY <1>0, <2>2, <3>6, <3>7, <4>2
      <4>3. QED
        BY <4>1, <4>2
    <3>9. QED
      BY <1>0, <3>5, <3>8, CountedStep DEF Pushed
  <2>6. QED
    BY <2>4, <2>5
<1>3. CASE Uncount(t)
  <2> DEFINE f == Frame("run", Top(t).call)
  <2>1. /\ stack[t] # <<>> /\ Owes(t) = 1 /\ events' = events - 1 /\ UNCHANGED pipe
        /\ MoveTo(t, "run")
    BY <1>3 DEF Uncount, TopIs, Owes
  <2>2. f \in Frames /\ f.at = "run" /\ Moved(t, f)
    BY <1>0, <2>1, MoveLemma, TopIsLast DEF Frame, Frames
  <2> HIDE DEF f
  <2>3. PICK g \in Frames : g = f /\ g.at = "run" /\ Moved(t, g)
    BY <2>2
  <2>4. Owes(t)' = 0
    BY <2>3, OwesAfterMove
  <2>5. events' - Len(pipe'[GL]) - Owes(t)' = events - Len(pipe[GL]) - Owes(t)
    BY <1>0, <2>1, <2>4
  <2>6. QED
    BY <1>0, <2>2, <2>5, CountedStep DEF Moved
<1>4. QED
  BY <1>1, <1>2, <1>3

\* openglThreadMessagePipeEvents counts the messages in the OpenGL pipe, up to
\* writers that have not incremented it yet and readers that have not decremented
\* it yet.
THEOREM EventsCounted == Spec => []EventsExact
<1>1. Init => Counted
  <2> SUFFICES ASSUME Init PROVE Counted
    OBVIOUS
  <2>1. AtTop("uncount") = {} /\ AtTop("count") = {}
    BY DEF Init, AtTop, TopIs
  <2>2. events = 0 /\ Len(pipe[GL]) = 0
    BY DEF Init
  <2>3. EventsExact
    <3>1. Cardinality(AtTop("uncount")) = 0 /\ Cardinality(AtTop("count")) = 0
      BY <2>1, FS_EmptySet
    <3>2. events = Len(pipe[GL]) + Cardinality(AtTop("uncount")) - Cardinality(AtTop("count"))
      BY <2>2, <3>1
    <3>3. QED
      BY <3>2 DEF EventsExact, AtTop
  <2>4. QED
    BY <2>1, <2>3, FS_EmptySet DEF Counted
<1>2. IInv /\ IInv' /\ Counted /\ [Next]_vars => Counted'
  <2> SUFFICES ASSUME IInv, IInv', Counted, [Next]_vars PROVE Counted'
    OBVIOUS
  <2>1. ASSUME UNCHANGED vars PROVE Counted'
    BY <2>1 DEF Counted, EventsExact, AtTop, TopIs, Top, vars
  <2>2. CASE Rest
    BY <2>1, <2>2 DEF Rest
  <2>3. ASSUME NEW t \in Thread, Step(t) PROVE Counted'
    BY <2>3, QuietCounted, PostCounted, LoopCounted DEF Step
  <2>4. QED
    BY <2>1, <2>2, <2>3, BeginCounted DEF Next
<1>3. Counted => EventsExact
  BY DEF Counted
<1>4. QED
  BY <1>1, <1>2, <1>3, Invariance, PTL DEF Spec

-----------------------------------------------------------------------------
(* Refinement of RemoteCall.                                               *)

\* How far the promise sees call c.
Progress(c) ==
  IF c \in SyncCall /\ outcome[c] \in {"returned", "raised"} THEN outcome[c]
  ELSE IF callback[c] = "none" THEN "asked"
  ELSE IF callback[c] = "ok" THEN "ran"
  ELSE callback[c]

Promised == [c \in Call |-> Progress(c)]

\* One call's progress changes, and the others' do not.
Advances(c, from, to) ==
  /\ Progress(c) = from /\ Progress(c)' = to
  /\ \A d \in Call \ {c} : Progress(d)' = Progress(d)

Advance ==
  \E c \in Call :
    \/ Advances(c, "asked", "running")
    \/ Advances(c, "running", "ran")
    \/ Advances(c, "running", "threw")
    \/ c \in SyncCall /\ Advances(c, "ran", "returned")
    \/ c \in SyncCall /\ Advances(c, "threw", "raised")

Stays == \A c \in Call : Progress(c)' = Progress(c)

\* A call that advances is a move of the promise, none that does a stutter.
LEMMA AdvanceLemma ==
  /\ Stays => Promised' = Promised
  /\ \A c \in Call : \A from, to :
       Advances(c, from, to) =>
         Promised[c] = from /\ Promised' = [Promised EXCEPT ![c] = to]
BY DEF Stays, Promised, Advances

\* The callback of c starts.
LEMMA StartsAdvance ==
  ASSUME TypeOK, NEW c \in Call, callback[c] = "none",
         callback' = [callback EXCEPT ![c] = "running"],
         c \in SyncCall => {outcome[c], outcome'[c]} \cap {"returned", "raised"} = {},
         \A d \in Call \ {c} : outcome'[d] = outcome[d]
  PROVE  Advance
<1>1. callback'[c] = "running" /\ \A d \in Call \ {c} : callback'[d] = callback[d]
  BY DEF TypeOK
<1>2. Advances(c, "asked", "running")
  BY <1>1 DEF Advances, Progress
<1>3. QED
  BY <1>2 DEF Advance

\* The callback of c ends.
LEMMA EndsAdvance ==
  ASSUME TypeOK, NEW c \in Call, callback[c] = "running", NEW end \in {"ok", "threw"},
         callback' = [callback EXCEPT ![c] = end], UNCHANGED outcome,
         outcome[c] \notin {"returned", "raised"} \/ c \notin SyncCall
  PROVE  Advance
<1>1. callback'[c] = end /\ \A d \in Call \ {c} : callback'[d] = callback[d]
  BY DEF TypeOK
<1>2. Advances(c, "running", IF end = "ok" THEN "ran" ELSE "threw")
  BY <1>1 DEF Advances, Progress
<1>3. QED
  BY <1>2 DEF Advance

\* The caller of c gets its answer, or goes on without one.
LEMMA AnswerAdvances ==
  ASSUME TypeOK, NEW c \in Call, outcome[c] \notin {"returned", "raised"}, UNCHANGED callback,
         NEW to, outcome' = [outcome EXCEPT ![c] = to],
         c \in SyncCall => \/ callback[c] = "ok" /\ to = "returned"
                           \/ callback[c] = "threw" /\ to = "raised"
                           \/ to \in {"none", "pending", "sent", "lost"}
  PROVE  Advance \/ Stays
<1>1. outcome'[c] = to /\ \A d \in Call \ {c} : outcome'[d] = outcome[d]
  BY DEF TypeOK
<1>2. \A d \in Call \ {c} : Progress(d)' = Progress(d)
  BY <1>1 DEF Progress
<1>3. CASE c \notin SyncCall \/ to \in {"none", "pending", "sent", "lost"}
  <2>1. Progress(c)' = Progress(c)
    BY <1>1, <1>3 DEF Progress
  <2>2. QED
    BY <1>2, <2>1 DEF Stays
<1>4. CASE c \in SyncCall /\ callback[c] = "ok" /\ to = "returned"
  <2>1. Advances(c, "ran", "returned")
    BY <1>1, <1>2, <1>4 DEF Advances, Progress
  <2>2. QED
    BY <1>4, <2>1 DEF Advance
<1>5. CASE c \in SyncCall /\ callback[c] = "threw" /\ to = "raised"
  <2>1. Advances(c, "threw", "raised")
    BY <1>1, <1>2, <1>5 DEF Advances, Progress
  <2>2. QED
    BY <1>5, <2>1 DEF Advance
<1>6. QED
  BY <1>3, <1>4, <1>5

\* A step that ends no callback and answers no caller keeps the promise as it is.
LEMMA KeepsStay ==
  ASSUME UNCHANGED <<callback, outcome>>
  PROVE  Stays
BY DEF Stays, Progress

\* A call begins: on its own target, or on a new thread, its callback does too.
LEMMA BeginAdvances ==
  ASSUME IInv, NEW t \in Thread, Begin(t)
  PROVE  Advance \/ Stays
<1>0. TypeOK /\ Stages
  BY DEF IInv
<1>1. PICK c \in Call :
        CallInline(t, c) \/ CallRemote(t, c) \/ \E n \in Other : CallNewThread(t, c, n)
  BY DEF Begin
<1>2. outcome[c] = "none" /\ callback[c] = "none"
  BY <1>0, <1>1 DEF CallInline, CallRemote, CallNewThread, Makes, Stages, StageOf, DataOf
<1>3. CASE CallRemote(t, c)
  BY <1>0, <1>2, <1>3, AnswerAdvances DEF CallRemote
<1>4. CASE CallInline(t, c) \/ \E n \in Other : CallNewThread(t, c, n)
  <2>1. /\ callback' = [callback EXCEPT ![c] = "running"]
        /\ \E to \in {"pending", "sent"} : outcome' = [outcome EXCEPT ![c] = to]
    BY <1>4 DEF CallInline, CallNewThread
  <2>2. /\ outcome'[c] \notin {"returned", "raised"}
        /\ \A d \in Call \ {c} : outcome'[d] = outcome[d]
    BY <1>0, <2>1 DEF TypeOK
  <2>3. QED
    BY <1>0, <1>2, <2>1, <2>2, StartsAdvance
<1>5. QED
  BY <1>1, <1>3, <1>4

\* What a caller does: only its answer is told to the promise.
LEMMA CallerAdvances ==
  ASSUME IInv, NEW t \in Thread,
         \/ Lock(t) \/ Post(t) \/ Overrun(t) \/ Count(t) \/ Wait(t) \/ Collect(t)
  PROVE  Advance \/ Stays
<1>0. TypeOK
  BY DEF IInv
<1>1. PICK c : c = Top(t).call
  OBVIOUS
<1>2. stack[t] # <<>> /\ Top(t).at \in CallerAt /\ Top(t).at # "read"
  BY DEF Lock, Post, Overrun, Count, Wait, Collect, TopIs, CallerAt
<1>3. c \in Call /\ CallerStage(Top(t).at, c) /\ SyncCall \subseteq Call
  BY <1>1, <1>2, TopStage, ThreadMessagesAssumption
<1>4. CASE Lock(t) \/ Wait(t)
  BY <1>4, KeepsStay DEF Lock, Wait
<1>5. CASE Overrun(t)
  <2>1. Top(t).at = "post" /\ outcome' = [outcome EXCEPT ![c] = "lost"] /\ UNCHANGED callback
    BY <1>1, <1>5 DEF Overrun, TopIs
  <2>2. outcome[c] = "pending"
    BY <1>3, <2>1 DEF CallerStage
  <2>3. QED
    BY <1>0, <1>3, <2>1, <2>2, AnswerAdvances
<1>6. CASE Post(t) \/ Count(t)
  <2>1. UNCHANGED callback /\ (UNCHANGED outcome \/ AfterPost(t, c))
    BY <1>1, <1>6 DEF Post, Count
  <2>2. CASE UNCHANGED outcome
    BY <2>1, <2>2, KeepsStay
  <2>3. CASE c \notin SyncCall /\ outcome' = [outcome EXCEPT ![c] = "sent"]
\* What an asynchronous call returned is not part of the promise.
    <3>1. outcome' \in [Call -> {"none", "pending", "sent", "lost", "returned", "raised"}]
      BY <1>0, <2>3 DEF TypeOK
    <3>2. \A d \in Call : d # c => outcome'[d] = outcome[d]
      BY <1>0, <2>3 DEF TypeOK
    <3>3. QED
      BY <2>1, <2>3, <3>2 DEF Stays, Progress
  <2>4. QED
    BY <2>1, <2>2, <2>3 DEF AfterPost
<1>7. CASE Collect(t)
  <2>1. /\ Top(t).at = "collect" /\ UNCHANGED callback
        /\ outcome' = [outcome EXCEPT ![c] = IF syncData[c].error THEN "raised" ELSE "returned"]
    BY <1>1, <1>7 DEF Collect, TopIs
  <2>2. Stored(c) /\ outcome[c] = "pending"
    BY <1>3, <2>1 DEF CallerStage
  <2>3. PICK to : to = IF syncData[c].error THEN "raised" ELSE "returned"
    OBVIOUS
  <2>4. \/ callback[c] = "ok" /\ to = "returned"
        \/ callback[c] = "threw" /\ to = "raised"
    BY <2>2, <2>3 DEF Stored
  <2>5. outcome' = [outcome EXCEPT ![c] = to]
    BY <2>1, <2>3
  <2>6. QED
    BY <1>0, <1>3, <2>1, <2>2, <2>4, <2>5, AnswerAdvances
<1>8. QED
  BY <1>4, <1>5, <1>6, <1>7

\* What a runner does: its callback starts and ends.
LEMMA RunnerAdvances ==
  ASSUME IInv, NEW t \in Thread,
         \/ StartLoop(t) \/ Read(t) \/ Uncount(t) \/ Finish(t) \/ Throw(t)
         \/ Set(t) \/ Unlock(t) \/ Result(t) \/ FinishInline(t) \/ ReturnInline(t)
  PROVE  Advance \/ Stays
<1>0. /\ TypeOK /\ Once /\ PipesOnce /\ Stages
      /\ {"uncount", "run", "result", "inline", "inlineResult"} \subseteq RunnerAt
  BY DEF IInv, Once, RunnerAt
<1>1. PICK c : c = Top(t).call
  OBVIOUS
<1>2. CASE StartLoop(t) \/ Set(t) \/ Unlock(t) \/ Result(t)
  BY <1>2, KeepsStay DEF StartLoop, Set, Unlock, Result
<1>3. CASE Read(t)
  <2>1. stack[t] # <<>> /\ Top(t).at = "read" /\ UNCHANGED outcome
    BY <1>3 DEF Read, TopIs
  <2>2. c \in {Main, GL}
    BY <1>0, <1>1, <2>1, TopStage, TopIsLast DEF Frames
  <2>3. CASE UNCHANGED callback
    BY <2>1, <2>3, KeepsStay
  <2>4. CASE pipe[c] # <<>> /\ c # GL
    <3>1. PICK d : d = Head(pipe[c])
      OBVIOUS
    <3>2. pipe' = [pipe EXCEPT ![c] = Tail(@)] /\ callback' = [callback EXCEPT ![d] = "running"]
      BY <1>1, <1>3, <2>4, <3>1 DEF Read
    <3>3. d \in Call /\ InPipe(d)
      BY <1>0, <2>2, <2>4, <3>1, <3>2, Taken
    <3>4. callback[d] = "none" /\ Unanswered(d)
      BY <1>0, <3>3 DEF Stages, StageOf, DataOf
    <3>5. QED
      BY <1>0, <2>1, <3>2, <3>3, <3>4, StartsAdvance DEF Unanswered
  <2>5. QED
    BY <1>1, <1>3, <2>3, <2>4 DEF Read
<1>4. ASSUME Top(t).at \in {"uncount", "run", "result", "inline", "inlineResult"}, stack[t] # <<>>
      PROVE  c \in Call /\ RunnerStage(Top(t).at, c)
  BY <1>0, <1>1, <1>4, TopStage
<1>5. CASE Uncount(t)
  <2>1. /\ stack[t] # <<>> /\ Top(t).at = "uncount" /\ UNCHANGED outcome
        /\ callback' = [callback EXCEPT ![c] = "running"]
    BY <1>1, <1>5 DEF Uncount, TopIs
  <2>2. c \in Call /\ callback[c] = "none" /\ Unanswered(c)
    BY <1>4, <2>1 DEF RunnerStage
  <2>3. QED
    BY <1>0, <2>1, <2>2, StartsAdvance DEF Unanswered
<1>6. CASE Finish(t) \/ Throw(t)
  <2>1. UNCHANGED outcome /\ stack[t] # <<>> /\ ~crashed
    BY <1>6 DEF Finish, Throw, TopIs
  <2>2. CASE UNCHANGED callback
    BY <2>1, <2>2, KeepsStay
  <2>3. CASE /\ Top(t).at = "run"
             /\ \E end \in {"ok", "threw"} : callback' = [callback EXCEPT ![c] = end]
    <3>1. c \in Call /\ callback[c] = "running" /\ Unanswered(c)
      BY <1>4, <2>1, <2>3 DEF RunnerStage
    <3>2. outcome[c] \notin {"returned", "raised"} \/ c \notin SyncCall
      BY <3>1 DEF Unanswered
    <3>3. QED
      BY <1>0, <2>1, <2>3, <3>1, <3>2, EndsAdvance
  <2>4. QED
    BY <1>1, <1>6, <2>2, <2>3 DEF Finish, Throw, TopIs
<1>7. CASE FinishInline(t)
  <2>1. /\ stack[t] # <<>> /\ Top(t).at = "inline" /\ UNCHANGED outcome
        /\ \E end \in {"ok", "threw"} : callback' = [callback EXCEPT ![c] = end]
    BY <1>1, <1>7 DEF FinishInline, TopIs
  <2>2. c \in Call /\ callback[c] = "running" /\ outcome[c] = "pending"
    BY <1>4, <2>1 DEF RunnerStage
  <2>3. QED
    BY <1>0, <2>1, <2>2, EndsAdvance
<1>8. CASE ReturnInline(t)
  <2>1. PICK to : to = IF callback[c] = "threw" THEN "raised"
                       ELSE IF c \in SyncCall THEN "returned" ELSE "sent"
    OBVIOUS
  <2>2. /\ stack[t] # <<>> /\ Top(t).at = "inlineResult" /\ UNCHANGED callback
        /\ outcome' = [outcome EXCEPT ![c] = to]
    BY <1>1, <1>8, <2>1 DEF ReturnInline, TopIs
  <2>3. c \in Call /\ callback[c] \in {"ok", "threw"} /\ outcome[c] = "pending"
    BY <1>4, <2>2 DEF RunnerStage
  <2>4. QED
    BY <1>0, <2>1, <2>2, <2>3, AnswerAdvances
<1>9. QED
  BY <1>2, <1>3, <1>5, <1>6, <1>7, <1>8

\* Pipes, counter and locks keep the promise of a remote call: each callback runs
\* once, and a Sync caller is answered by its own callback.
THEOREM Refinement == Spec => Refines
<1>0. ThreadMessagesAssumption
  BY ThreadMessagesAssumption
<1>1. Init => Promise!Init
  BY DEF Init, Promise!Init
<1>2. IInv /\ [Next]_vars => [Promise!Next]_Promised
  <2> SUFFICES ASSUME IInv, [Next]_vars PROVE [Promise!Next]_Promised
    OBVIOUS
  <2>1. Advance \/ Stays
    <3>1. CASE UNCHANGED vars
      BY <3>1, KeepsStay DEF vars
    <3>2. CASE Rest
      BY <3>2, KeepsStay DEF Rest, vars
    <3>3. ASSUME NEW t \in Thread, Step(t) PROVE Advance \/ Stays
      BY <3>3, CallerAdvances, RunnerAdvances DEF Step
    <3>4. QED
      BY <3>1, <3>2, <3>3, BeginAdvances DEF Next
  <2>2. CASE Stays
    BY <2>2, AdvanceLemma
  <2>3. CASE Advance
    <3>1. PICK c \in Call :
            \/ Advances(c, "asked", "running")
            \/ Advances(c, "running", "ran")
            \/ Advances(c, "running", "threw")
            \/ c \in SyncCall /\ Advances(c, "ran", "returned")
            \/ c \in SyncCall /\ Advances(c, "threw", "raised")
      BY <2>3 DEF Advance
    <3>2. ASSUME NEW from, NEW to, Advances(c, from, to) PROVE Promise!Move(c, from, to)
      <4>1. Promised[c] = from /\ Promised' = [Promised EXCEPT ![c] = to]
        BY <3>2, AdvanceLemma
      <4>2. QED
        BY <4>1 DEF Promise!Move, Promised, Progress
    <3>3. Promise!Next
      BY <3>1, <3>2 DEF Promise!Next, Promise!Start, Promise!Finish, Promise!Throw,
                        Promise!Return, Promise!Raise
    <3>4. QED
      BY <3>3
  <2>4. QED
    BY <2>1, <2>2, <2>3
<1>3. QED
  BY Invariance, <1>1, <1>2, PTL DEF Spec, Refines, Promise!Spec, Promised, Progress

=============================================================================
