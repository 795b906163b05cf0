--------------------------- MODULE ThreadMessages ---------------------------
(***************************************************************************)
(* Calls between threads on Android (core/uSystem.mm): the main thread and *)
(* the OpenGL thread each drain a non-blocking pipe of ThreadMessages; any *)
(* thread may ask either of them to run a callback, waiting for its result *)
(* (Sync) or not (Async), and may start a new thread (NewThreadAsync).     *)
(*                                                                         *)
(* A thread is a stack of frames: calls it is making, callbacks it is      *)
(* running, and the drain loop of threadMessagePipeCallback.  What the     *)
(* callbacks compute is abstracted to whether they throw and which calls   *)
(* they make in turn.                                                      *)
(***************************************************************************)
EXTENDS Integers, Sequences, FiniteSets

CONSTANTS
  Main, GL,    \* the two threads that own a pipe
  Other,       \* every other thread
  New,         \* target of NewThreadAsync
  Call,        \* the calls of a run
  SyncCall,    \* the Sync ones; the rest are Async
  Target,      \* Target[c]: Main, GL or New
  Parent,      \* Parent[c]: the thread that makes c, or the call whose callback does
  Throws,      \* calls whose callback may throw
  Pumper,      \* threads that run OpenGLThreadMessageLooper
  PipeSize     \* bound: messages a pipe holds before a write fails

Thread == {Main, GL} \cup Other

ASSUME ThreadMessagesAssumption ==
  /\ Main # GL /\ {Main, GL} \cap Other = {} /\ New \notin Thread
  /\ SyncCall \subseteq Call /\ Throws \subseteq Call /\ Pumper \subseteq Thread
  /\ Call \cap (Thread \cup {New}) = {}
  /\ Target \in [Call -> {Main, GL, New}]
  /\ Parent \in [Call -> Thread \cup Call]
  /\ \A c \in SyncCall : Target[c] # New
  /\ PipeSize \in Nat \ {0}

VARIABLES
  pipe,      \* pipe[Main], pipe[GL]: messages written and not yet read
  events,    \* openglThreadMessagePipeEvents
  stack,     \* stack[t]: frames of thread t, the running one first
  syncData,  \* the ThreadSyncData of each synchronous call
  callback,  \* how far the callback of each call has come
  outcome,   \* what each call returned to its caller
  crashed    \* an exception left a callback that nobody waits for

vars == <<pipe, events, stack, syncData, callback, outcome, crashed>>

(* Caller of c: "lock" first AtomicLock, "post" write, "count" increment    *)
(* of events, "wait" second AtomicLock, "collect" read the result and free. *)
(* Runner of c: "uncount" decrement of events, "run" the callback, "set"    *)
(* store result or error, "unlock", "result" the resultCallback; "inline"   *)
(* and "inlineResult" for a call made on its own target; "read" drain loop. *)
CallerAt == {"lock", "post", "count", "wait", "collect"}
RunnerAt == {"uncount", "run", "set", "unlock", "result", "inline", "inlineResult"}
Location == CallerAt \cup RunnerAt \cup {"read"}

Frames == [at : Location, call : Call \cup {Main, GL}]
Frame(at, c) == [at |-> at, call |-> c]
Top(t) == Head(stack[t])
TopIs(t, at) == stack[t] # <<>> /\ Top(t).at = at
Push(t, f) == stack' = [stack EXCEPT ![t] = <<f>> \o @]
Pop(t) == stack' = [stack EXCEPT ![t] = Tail(@)]
MoveTo(t, at) == stack' = [stack EXCEPT ![t] = <<Frame(at, Head(@).call)>> \o Tail(@)]

NoData == [live |-> FALSE, lock |-> FALSE, result |-> FALSE, error |-> FALSE]

Init ==
  /\ pipe = [p \in {Main, GL} |-> <<>>]
  /\ events = 0
  /\ stack = [t \in Thread |-> <<>>]
  /\ syncData = [c \in SyncCall |-> NoData]
  /\ callback = [c \in Call |-> "none"]
  /\ outcome = [c \in Call |-> "none"]
  /\ crashed = FALSE

-----------------------------------------------------------------------------
(* Making a call.                                                          *)

\* t may make c now: from its own code, or from the callback that makes it.
Makes(t, c) ==
  /\ ~crashed
  /\ outcome[c] = "none"
  /\ \/ stack[t] = <<>> /\ Parent[c] = t
     \/ /\ \E at \in {"run", "result", "inline", "inlineResult"} : TopIs(t, at)
        /\ Parent[c] = Top(t).call

\* CurrentThreadId() is the target: the callback runs on the caller's stack.
CallInline(t, c) ==
  /\ Makes(t, c)
  /\ t = Target[c]
  /\ Push(t, Frame("inline", c))
  /\ callback' = [callback EXCEPT ![c] = "running"]
  /\ outcome' = [outcome EXCEPT ![c] = "pending"]
  /\ UNCHANGED <<pipe, events, syncData, crashed>>

\* Allocates and fills the message, and for a Sync call its ThreadSyncData.
CallRemote(t, c) ==
  /\ Makes(t, c)
  /\ Target[c] \notin {t, New}
  /\ Push(t, Frame(IF c \in SyncCall THEN "lock" ELSE "post", c))
  /\ syncData' = IF c \in SyncCall
                 THEN [syncData EXCEPT ![c] = [NoData EXCEPT !.live = TRUE]]
                 ELSE syncData
  /\ outcome' = [outcome EXCEPT ![c] = "pending"]
  /\ UNCHANGED <<pipe, events, callback, crashed>>

\* NewThreadAsync: the new thread n starts in NewThreadRun.
CallNewThread(t, c, n) ==
  /\ Makes(t, c)
  /\ Target[c] = New
  /\ n \in Other \ {t} /\ stack[n] = <<>> /\ \A d \in Call : Parent[d] # n
  /\ stack' = [stack EXCEPT ![n] = <<Frame("run", c)>>]
  /\ callback' = [callback EXCEPT ![c] = "running"]
  /\ outcome' = [outcome EXCEPT ![c] = "sent"]
  /\ UNCHANGED <<pipe, events, syncData, crashed>>

\* The message is posted before the lock the answer releases is taken.
LockSkipped(t) ==
  /\ ~crashed /\ TopIs(t, "lock")
  /\ MoveTo(t, "post")
  /\ UNCHANGED <<pipe, events, syncData, callback, outcome, crashed>>

Lock(t) ==
  /\ ~crashed /\ TopIs(t, "lock")
  /\ syncData' = [syncData EXCEPT ![Top(t).call].lock = TRUE]
  /\ MoveTo(t, "post")
  /\ UNCHANGED <<pipe, events, callback, outcome, crashed>>

\* An asynchronous call is over once its message is written, and counted.
AfterPost(t, c) ==
  IF c \in SyncCall
  THEN MoveTo(t, "wait") /\ UNCHANGED outcome
  ELSE Pop(t) /\ outcome' = [outcome EXCEPT ![c] = "sent"]

\* A capacity test that lets one message too many in.
PostOffByOne(t) ==
  /\ ~crashed /\ TopIs(t, "post")
  /\ LET c == Top(t).call
         p == Target[c]
     IN /\ Len(pipe[p]) <= PipeSize
        /\ pipe' = [pipe EXCEPT ![p] = Append(@, c)]
        /\ IF p = GL THEN MoveTo(t, "count") /\ UNCHANGED outcome ELSE AfterPost(t, c)
  /\ UNCHANGED <<events, syncData, callback, crashed>>

\* postMainThreadMessage, postOpenGLThreadMessage: write to the pipe.
Post(t) ==
  /\ ~crashed /\ TopIs(t, "post")
  /\ LET c == Top(t).call
         p == Target[c]
     IN /\ Len(pipe[p]) < PipeSize
        /\ pipe' = [pipe EXCEPT ![p] = Append(@, c)]
        /\ IF p = GL THEN MoveTo(t, "count") /\ UNCHANGED outcome ELSE AfterPost(t, c)
  /\ UNCHANGED <<events, syncData, callback, crashed>>

\* The write fails: "message buffer overrun" is logged and the caller goes on,
\* a Sync caller to wait for an answer that cannot come.
Overrun(t) ==
  /\ ~crashed /\ TopIs(t, "post")
  /\ LET c == Top(t).call
     IN /\ Len(pipe[Target[c]]) = PipeSize
        /\ IF c \in SyncCall
           THEN MoveTo(t, "wait")
           ELSE Pop(t)
        /\ outcome' = [outcome EXCEPT ![c] = "lost"]
  /\ UNCHANGED <<pipe, events, syncData, callback, crashed>>

\* The counter is not incremented: the OpenGL thread never looks at its pipe.
CountForgotten(t) ==
  /\ ~crashed /\ TopIs(t, "count")
  /\ AfterPost(t, Top(t).call)
  /\ UNCHANGED <<events, pipe, syncData, callback, crashed>>

Count(t) ==
  /\ ~crashed /\ TopIs(t, "count")
  /\ events' = events + 1
  /\ AfterPost(t, Top(t).call)
  /\ UNCHANGED <<pipe, syncData, callback, crashed>>

\* Second AtomicLock: returns once the runner has unlocked.
Wait(t) ==
  /\ ~crashed /\ TopIs(t, "wait")
  /\ ~syncData[Top(t).call].lock
  /\ syncData' = [syncData EXCEPT ![Top(t).call].lock = TRUE]
  /\ MoveTo(t, "collect")
  /\ UNCHANGED <<pipe, events, callback, outcome, crashed>>

\* Rethrows the error or returns the result, and frees message and syncData.
Collect(t) ==
  /\ ~crashed /\ TopIs(t, "collect")
  /\ LET c == Top(t).call
     IN /\ outcome' = [outcome EXCEPT ![c] = IF syncData[c].error THEN "raised" ELSE "returned"]
        /\ syncData' = [syncData EXCEPT ![c].live = FALSE]
  /\ Pop(t)
  /\ UNCHANGED <<pipe, events, callback, crashed>>

-----------------------------------------------------------------------------
(* Running callbacks.                                                      *)

\* ALooper calls threadMessagePipeCallback while the main pipe is readable;
\* OpenGLThreadMessageLooper calls it when the counter is not zero.
StartLoop(t) ==
  /\ ~crashed /\ stack[t] = <<>>
  /\ \/ t = Main /\ pipe[Main] # <<>> /\ Push(t, Frame("read", Main))
     \/ t \in Pumper /\ events # 0 /\ Push(t, Frame("read", GL))
  /\ UNCHANGED <<pipe, events, syncData, callback, outcome, crashed>>

\* One read() of the loop: a message, or none and the loop ends.
Read(t) ==
  /\ ~crashed /\ TopIs(t, "read")
  /\ LET p == Top(t).call
     IN IF pipe[p] = <<>>
        THEN Pop(t) /\ UNCHANGED <<pipe, callback>>
        ELSE LET c == Head(pipe[p])
             IN /\ pipe' = [pipe EXCEPT ![p] = Tail(@)]
                /\ Push(t, Frame(IF p = GL THEN "uncount" ELSE "run", c))
                /\ callback' = IF p = GL THEN callback
                               ELSE [callback EXCEPT ![c] = "running"]
  /\ UNCHANGED <<events, syncData, outcome, crashed>>

Uncount(t) ==
  /\ ~crashed /\ TopIs(t, "uncount")
  /\ events' = events - 1
  /\ MoveTo(t, "run")
  /\ callback' = [callback EXCEPT ![Top(t).call] = "running"]
  /\ UNCHANGED <<pipe, syncData, outcome, crashed>>

\* The callback of c, with its resultCallback, has made the calls it makes.
MadeAll(c) == \A d \in Call : Parent[d] = c => outcome[d] # "none"

\* runCallback returns: the result is for the waiting caller or resultCallback.
Finish(t) ==
  /\ ~crashed /\ TopIs(t, "run")
  /\ Top(t).call \in SyncCall => MadeAll(Top(t).call)
  /\ callback' = [callback EXCEPT ![Top(t).call] = "ok"]
  /\ MoveTo(t, IF Top(t).call \in SyncCall THEN "set" ELSE "result")
  /\ UNCHANGED <<pipe, events, syncData, outcome, crashed>>

\* runCallback throws: a Sync call passes the error on.  An Async one rethrows,
\* as it does for its resultCallback, out of the loop, where nothing catches it.
Throw(t) ==
  /\ ~crashed
  /\ \E at \in {"run", "result"} : TopIs(t, at)
  /\ Top(t).call \in Throws
  /\ callback' = IF Top(t).at = "run" THEN [callback EXCEPT ![Top(t).call] = "threw"]
                                      ELSE callback
  /\ IF Top(t).call \in SyncCall
     THEN MoveTo(t, "set") /\ UNCHANGED crashed
     ELSE UNCHANGED stack /\ crashed' = TRUE
  /\ UNCHANGED <<pipe, events, syncData, outcome>>

\* The lock is released before the result is stored.
SetAfterUnlock(t) ==
  /\ ~crashed /\ TopIs(t, "set")
  /\ syncData' = [syncData EXCEPT ![Top(t).call].lock = FALSE]
  /\ MoveTo(t, "unlock")
  /\ UNCHANGED <<pipe, events, callback, outcome, crashed>>

\* AtomicSetPtr of errorData or resultData.
Set(t) ==
  /\ ~crashed /\ TopIs(t, "set")
  /\ LET c == Top(t).call
     IN syncData' = IF callback[c] = "threw"
                    THEN [syncData EXCEPT ![c].error = TRUE]
                    ELSE [syncData EXCEPT ![c].result = TRUE]
  /\ MoveTo(t, "unlock")
  /\ UNCHANGED <<pipe, events, callback, outcome, crashed>>

\* The error path forgets the lock.
UnlockOnlyOnSuccess(t) ==
  /\ ~crashed /\ TopIs(t, "unlock")
  /\ LET c == Top(t).call
     IN /\ syncData' = [syncData EXCEPT ![c].lock = (callback[c] = "threw")]
        /\ stack' = [stack EXCEPT ![t] =
                       IF callback[c] = "threw" THEN Tail(Tail(@)) ELSE Tail(@)]
  /\ UNCHANGED <<pipe, events, callback, outcome, crashed>>

\* AtomicUnlock of syncLock; after an error the loop returns at once and leaves
\* the rest of the pipe to its next call.
Unlock(t) ==
  /\ ~crashed /\ TopIs(t, "unlock")
  /\ LET c == Top(t).call
     IN /\ syncData' = [syncData EXCEPT ![c].lock = FALSE]
        /\ stack' = [stack EXCEPT ![t] =
                       IF callback[c] = "threw" THEN Tail(Tail(@)) ELSE Tail(@)]
  /\ UNCHANGED <<pipe, events, callback, outcome, crashed>>

\* resultCallback of an Async call, then the next message or the thread's end.
Result(t) ==
  /\ ~crashed /\ TopIs(t, "result") /\ MadeAll(Top(t).call)
  /\ Pop(t)
  /\ UNCHANGED <<pipe, events, syncData, callback, outcome, crashed>>

\* A call made on its own target is a call of the callback.
FinishInline(t) ==
  /\ ~crashed /\ TopIs(t, "inline")
  /\ LET c == Top(t).call
     IN \E end \in {"ok"} \cup (IF c \in Throws THEN {"threw"} ELSE {}) :
          callback' = [callback EXCEPT ![c] = end]
  /\ MoveTo(t, "inlineResult")
  /\ UNCHANGED <<pipe, events, syncData, outcome, crashed>>

\* resultCallback of an Async call; an exception goes straight to the caller.
ReturnInline(t) ==
  /\ ~crashed /\ TopIs(t, "inlineResult")
  /\ LET c == Top(t).call
     IN /\ callback[c] = "ok" => MadeAll(c)
        /\ outcome' = [outcome EXCEPT ![c] =
             IF callback[c] = "threw" THEN "raised"
             ELSE IF c \in SyncCall THEN "returned" ELSE "sent"]
  /\ Pop(t)
  /\ UNCHANGED <<pipe, events, syncData, callback, crashed>>

-----------------------------------------------------------------------------

Step(t) ==
  \/ Lock(t) \/ Post(t) \/ Overrun(t) \/ Count(t) \/ Wait(t) \/ Collect(t)
  \/ StartLoop(t) \/ Read(t) \/ Uncount(t) \/ Finish(t) \/ Throw(t)
  \/ Set(t) \/ Unlock(t) \/ Result(t) \/ FinishInline(t) \/ ReturnInline(t)

Begin(t) ==
  \E c \in Call :
    \/ CallInline(t, c)
    \/ CallRemote(t, c)
    \/ \E n \in Other : CallNewThread(t, c, n)

\* The calls the threads make of their own are made, and nothing is left to run;
\* or the process is gone.
AtRest ==
  \/ crashed
  \/ /\ \A c \in Call : Parent[c] \in Thread => outcome[c] # "none"
     /\ \A t \in Thread : stack[t] = <<>>
     /\ \A p \in {Main, GL} : pipe[p] = <<>>

Rest == AtRest /\ UNCHANGED vars

Next == Rest \/ \E t \in Thread : Begin(t) \/ Step(t)

Spec == Init /\ [][Next]_vars

\* Threads that have something to do run: the main looper, a render thread that
\* draws frames, and threads inside a call or a callback.
FairSpec == Spec /\ \A t \in Thread : WF_vars(Begin(t) \/ Step(t))

-----------------------------------------------------------------------------

\* The types of the pipes, stacks and answers.
TypeOK ==
  /\ pipe \in [{Main, GL} -> Seq(Call)]
  /\ \A p \in {Main, GL} : Len(pipe[p]) <= PipeSize
  /\ events \in Int
  /\ stack \in [Thread -> Seq(Frames)]
  /\ syncData \in [SyncCall -> [live : BOOLEAN, lock : BOOLEAN,
                                result : BOOLEAN, error : BOOLEAN]]
  /\ callback \in [Call -> {"none", "running", "ok", "threw"}]
  /\ outcome \in [Call -> {"none", "pending", "sent", "lost", "returned", "raised"}]
  /\ crashed \in BOOLEAN

FramesOf(t) == {stack[t][i] : i \in DOMAIN stack[t]}

\* c is on its way to its callback, in it, or between it and the answer.
InFlight(c) ==
  \/ \E p \in {Main, GL} : \E i \in DOMAIN pipe[p] : pipe[p][i] = c
  \/ \E t \in Thread, at \in {"uncount", "run", "set", "unlock"} : Frame(at, c) \in FramesOf(t)

\* From the write of a Sync message to the AtomicUnlock of its runner the
\* ThreadSyncData is allocated and locked: the runner never stores an answer
\* into freed memory, and the caller never reads one before it is stored.
AnswerPending ==
  \A c \in SyncCall : InFlight(c) => syncData[c].live /\ syncData[c].lock

\* openglThreadMessagePipeEvents counts the messages in the OpenGL pipe, up to
\* writers that have not incremented it yet and readers that have not
\* decremented it yet; so it is not zero for good while a message waits.
EventsExact ==
  events = Len(pipe[GL]) + Cardinality({t \in Thread : TopIs(t, "uncount")})
                         - Cardinality({t \in Thread : TopIs(t, "count")})

\* Pipes, counter and locks keep the promise of a remote call: each callback
\* runs once, and a Sync caller is answered by its own callback.
Promise == INSTANCE RemoteCall WITH
  state <- [c \in Call |->
    IF c \in SyncCall /\ outcome[c] \in {"returned", "raised"} THEN outcome[c]
    ELSE IF callback[c] = "none" THEN "asked"
    ELSE IF callback[c] = "ok" THEN "ran"
    ELSE callback[c]]

Refines == Promise!Spec

\* Every message a pipe accepted has its callback run, and every Sync caller
\* whose message was accepted gets its answer, unless the process dies: there is a
\* time when no call is open.
Answered ==
  LET Open == {c \in Call : /\ outcome[c] \notin {"none", "lost"}
                            /\ IF c \in SyncCall THEN outcome[c] \notin {"returned", "raised"}
                               ELSE callback[c] \notin {"ok", "threw"}}
  IN Open # {} ~> crashed \/ Open = {}

\* A full pipe drops the message it cannot hold.  Only when that was a Sync one,
\* whose caller then waits for ever, can another call be left without an answer.
LossContained == [](\A c \in SyncCall : outcome[c] # "lost") => Answered

\* The handshake of a Sync call is safe, and pipes never hold more than they can.
Handshake == TypeOK /\ AnswerPending
=============================================================================
