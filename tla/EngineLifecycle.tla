--------------------------- MODULE EngineLifecycle ---------------------------
(***************************************************************************)
(* The life of a JappsyEngine context on Android: JappsyView.java and the  *)
(* native methods of JappsyEngine (libJappsyEngine-jni.cpp).               *)
(*                                                                         *)
(* The OpenGL thread of GLSurfaceView creates, draws and stops contexts;   *)
(* the main thread pauses and resumes the view, handles touches and runs   *)
(* what other threads post to it; a thread of its own shuts a stopped      *)
(* engine down and has the main thread delete it.  GLSurfaceView is        *)
(* external: onPause returns when the OpenGL thread has parked between two *)
(* frames, onResume when it has left its parking place.                    *)
(***************************************************************************)
EXTENDS Naturals, FiniteSets

CONSTANTS Context, NoContext   \* handles, and the handle 0

ASSUME ContextAssumption == NoContext \notin Context

VARIABLES
  m_context,  \* JappsyView.m_context
  m_created,  \* JappsyView.m_created
  life,       \* memory of each context: "unborn", "alive", "deleted"
  running, stopping, engine, \* its fields
  threadId,   \* OpenGLThreadId is set
  gate,       \* OpenGLThreadLock
  audio,      \* the audio player: does it play, did calls of two threads cross
  pauseReq, parked, \* GLSurfaceView: pause requested; OpenGL thread parked
  gl,         \* OpenGL thread: location, its handle, is it in onSurfaceCreated
  main,       \* main thread: location and its handle
  shut        \* the shutdown thread of each context

vars == <<m_context, m_created, life, running, stopping, engine, threadId, gate,
          audio, pauseReq, parked, gl, main, shut>>
contextVars == <<life, running, stopping, engine>>
viewVars == <<m_context, m_created>>
surfaceVars == <<pauseReq, parked, audio>>

Init ==
  /\ m_context = NoContext /\ m_created = FALSE
  /\ life = [c \in Context |-> "unborn"]
  /\ running = [c \in Context |-> FALSE] /\ stopping = [c \in Context |-> FALSE]
  /\ engine = [c \in Context |-> FALSE]
  /\ threadId = FALSE /\ gate = FALSE
  /\ audio = [plays |-> TRUE, crossed |-> FALSE]
  /\ pauseReq = FALSE /\ parked = FALSE
  /\ gl = [at |-> "idle", handle |-> NoContext, creating |-> FALSE]
  /\ main = [at |-> "idle", handle |-> NoContext]
  /\ shut = [c \in Context |-> "none"]

GL(from, to) == gl.at = from /\ gl' = [gl EXCEPT !.at = to]
GLFinish(from) == gl.at = from /\ gl' = [gl EXCEPT !.at = "idle", !.handle = NoContext]
MainGo(from, to) == main.at = from /\ main' = [main EXCEPT !.at = to]

\* pauseAudioPlayer, resumeAudioPlayer.  History: the other thread was about to
\* call them too, or stops the context they are called for.
Switching == {"pauseAudio", "resumeAudio"}
SwitchTo(plays, crossing) ==
  audio' = [plays |-> plays, crossed |-> audio.crossed \/ crossing]

-----------------------------------------------------------------------------
(* The OpenGL thread draws.                                                *)

DrawFrame ==
  /\ gl.at = "idle" /\ ~parked /\ ~pauseReq
  /\ gl' = [gl EXCEPT !.at = "gate", !.handle = m_context]
  /\ UNCHANGED <<viewVars, contextVars, threadId, gate, surfaceVars, main, shut>>

\* onSurfaceChanged: onUpdate makes the tests of onFrame and calls the engine.
SurfaceChanged ==
  /\ gl.at = "idle" /\ ~parked /\ ~pauseReq
  /\ gl' = [gl EXCEPT !.at = "test", !.handle = m_context]
  /\ UNCHANGED <<viewVars, contextVars, threadId, gate, surfaceVars, main, shut>>

\* AtomicLockTry and, at once, AtomicUnlock: the looper runs outside the lock.
TestGate ==
  /\ GL("gate", IF gate THEN "test" ELSE "loop")
  /\ UNCHANGED <<viewVars, contextVars, threadId, gate, surfaceVars, main, shut>>

\* OpenGLThreadMessageLooper: a message may ask the main thread, or it is over.
RunMessages ==
  /\ GL("loop", "test") \/ GL("loop", "loopCalls")
  /\ UNCHANGED <<viewVars, contextVars, threadId, gate, surfaceVars, main, shut>>

\* onFrame: nothing to render without a context that runs.
TestRunning ==
  /\ LET c == gl.handle
     IN IF c # NoContext /\ ~stopping[c] /\ running[c] /\ engine[c]
        THEN GL("test", "render")
        ELSE GLFinish("test")
  /\ UNCHANGED <<viewVars, contextVars, threadId, gate, surfaceVars, main, shut>>

\* onRender may ask the main thread too.
Render ==
  /\ GLFinish("render") \/ GL("render", "renderCalls")
  /\ UNCHANGED <<viewVars, contextVars, threadId, gate, surfaceVars, main, shut>>

Park ==
  /\ gl.at = "idle" /\ parked # pauseReq
  /\ parked' = pauseReq
  /\ UNCHANGED <<viewVars, contextVars, threadId, gate, pauseReq, audio, gl, main, shut>>

-----------------------------------------------------------------------------
(* The OpenGL thread stops a context and creates another.                  *)

\* destroyContext, when the surface or the EGL context goes.
DestroyContext ==
  /\ gl.at = "idle" /\ m_context # NoContext
  /\ gl' = [at |-> "stop", handle |-> m_context, creating |-> FALSE]
  /\ UNCHANGED <<viewVars, contextVars, threadId, gate, surfaceVars, main, shut>>

\* A view that forgets that it has a context.
SurfaceForgets ==
  /\ gl.at = "idle" /\ ~parked /\ ~pauseReq
  /\ \E c \in Context : life[c] = "unborn"
  /\ gl' = [at |-> "create", handle |-> m_context, creating |-> TRUE]
  /\ UNCHANGED <<viewVars, contextVars, threadId, gate, surfaceVars, main, shut>>

SurfaceCreated ==
  /\ gl.at = "idle" /\ ~parked /\ ~pauseReq
  /\ \E c \in Context : life[c] = "unborn"
  /\ gl' = [at |-> IF m_created THEN "stop" ELSE "create",
            handle |-> m_context, creating |-> TRUE]
  /\ UNCHANGED <<viewVars, contextVars, threadId, gate, surfaceVars, main, shut>>

\* A stop that forgets the audio.
StopSilently ==
  /\ gl.at = "stop"
  /\ IF gl.handle = NoContext
     THEN GL("stop", "clear") /\ UNCHANGED running
     ELSE /\ GL("stop", "cas")
          /\ running' = [running EXCEPT ![gl.handle] = @ /\ stopping[gl.handle]]
  /\ UNCHANGED <<viewVars, life, stopping, engine, threadId, gate, surfaceVars, main, shut>>

\* onStop on the handle of the view: nothing for 0, else onPause first.
StopPause ==
  /\ gl.at = "stop"
  /\ IF gl.handle = NoContext
     THEN GL("stop", "clear") /\ UNCHANGED running
     ELSE LET pauses == running[gl.handle] /\ ~stopping[gl.handle]
          IN /\ GL("stop", IF pauses THEN "pauseAudio" ELSE "cas")
             /\ running' = [running EXCEPT ![gl.handle] = @ /\ ~pauses]
  /\ UNCHANGED <<viewVars, life, stopping, engine, threadId, gate, surfaceVars, main, shut>>

StopPauseAudio ==
  /\ GL("pauseAudio", "cas")
  /\ SwitchTo(FALSE, main.at \in Switching)
  /\ UNCHANGED <<viewVars, contextVars, threadId, gate, pauseReq, parked, main, shut>>

\* Whoever sets stopping starts the shutdown thread, NewThreadAsync.
StopRequest ==
  /\ gl.at = "cas"
  /\ IF stopping[gl.handle]
     THEN GL("cas", "clear") /\ UNCHANGED <<stopping, shut>>
     ELSE /\ GL("cas", "threadId")
          /\ stopping' = [stopping EXCEPT ![gl.handle] = TRUE]
          /\ shut' = [shut EXCEPT ![gl.handle] = "shutdown"]
  /\ UNCHANGED <<viewVars, life, running, engine, threadId, gate, surfaceVars, main>>

ReleaseThreadId ==
  /\ GL("threadId", "clear")
  /\ threadId' = FALSE
  /\ UNCHANGED <<viewVars, contextVars, gate, surfaceVars, main, shut>>

\* The view keeps the handle of the context it has stopped.
ClearForgotten ==
  /\ IF gl.creating THEN GL("clear", "create") ELSE GLFinish("clear")
  /\ UNCHANGED <<viewVars, contextVars, threadId, gate, surfaceVars, main, shut>>

\* m_context = 0, in Java, after the native onStop has returned.
ClearContext ==
  /\ IF gl.creating THEN GL("clear", "create") ELSE GLFinish("clear")
  /\ m_context' = NoContext
  /\ UNCHANGED <<m_created, contextVars, threadId, gate, surfaceVars, main, shut>>

CreateContext(c) ==
  /\ gl.at = "create" /\ life[c] = "unborn"
  /\ life' = [life EXCEPT ![c] = "alive"]
  /\ m_context' = c
  /\ gl' = [gl EXCEPT !.at = "start", !.handle = c]
  /\ UNCHANGED <<m_created, running, stopping, engine, threadId, gate, surfaceVars,
                 main, shut>>

\* onStart: initOpenGLThreadId, then OMView creates the engine and sets it.
Start ==
  /\ GL("start", "lock")
  /\ threadId' = TRUE
  /\ engine' = [engine EXCEPT ![gl.handle] = TRUE]
  /\ m_created' = TRUE
  /\ UNCHANGED <<m_context, life, running, stopping, gate, surfaceVars, main, shut>>

\* JappsyView.onResume, called by the renderer in the OpenGL thread itself.
ResumeLock ==
  /\ GL("lock", "superResume") /\ ~gate
  /\ gate' = TRUE
  /\ UNCHANGED <<viewVars, contextVars, threadId, surfaceVars, main, shut>>

ResumeSurface ==
  /\ GL("superResume", "unlock")
  /\ pauseReq' = FALSE
  /\ UNCHANGED <<viewVars, contextVars, threadId, gate, parked, audio, main, shut>>

ResumeUnlock ==
  /\ GL("unlock", "resume")
  /\ gate' = FALSE
  /\ UNCHANGED <<viewVars, contextVars, threadId, surfaceVars, main, shut>>

\* Its native onResume: the context, and then the audio.
ResumeContext ==
  /\ gl.at = "resume"
  /\ IF running[gl.handle] \/ stopping[gl.handle] THEN GLFinish("resume")
                                                  ELSE GL("resume", "resumeAudio")
  /\ running' = [running EXCEPT ![gl.handle] = @ \/ ~stopping[gl.handle]]
  /\ UNCHANGED <<viewVars, life, stopping, engine, threadId, gate, surfaceVars, main, shut>>

ResumeAudio ==
  /\ GLFinish("resumeAudio")
  /\ SwitchTo(TRUE, main.at \in Switching)
  /\ UNCHANGED <<viewVars, contextVars, threadId, gate, pauseReq, parked, main, shut>>

-----------------------------------------------------------------------------
(* The main thread.                                                        *)

mainOthers == <<viewVars, life, stopping, engine, threadId, parked, gl, shut>>

\* JappsyView.onPause, and onTouchEvent, with the handle the view has now.
BeginPause ==
  /\ main.at = "idle"
  /\ main' = [at |-> "pauseTest", handle |-> m_context]
  /\ UNCHANGED <<mainOthers, running, gate, pauseReq, audio>>

BeginTouch ==
  /\ main.at = "idle" /\ m_context # NoContext
  /\ main' = [at |-> "touch", handle |-> m_context]
  /\ UNCHANGED <<mainOthers, running, gate, pauseReq, audio>>

\* onTouch delivers the event to an engine that runs.
Touch ==
  /\ MainGo("touch", "idle")
  /\ UNCHANGED <<mainOthers, running, gate, pauseReq, audio>>

\* The native onPause: stopping is tested, then running is cleared.
PauseTest ==
  /\ LET c == main.handle
     IN MainGo("pauseTest", IF c # NoContext /\ ~stopping[c] THEN "pauseCas" ELSE "pauseLock")
  /\ UNCHANGED <<mainOthers, running, gate, pauseReq, audio>>

\* Who clears running pauses the audio.
PauseContext ==
  /\ main.at = "pauseCas"
  /\ MainGo("pauseCas", IF running[main.handle] THEN "pauseAudio" ELSE "pauseLock")
  /\ running' = [running EXCEPT ![main.handle] = FALSE]
  /\ UNCHANGED <<mainOthers, gate, pauseReq, audio>>

SwitchAudio ==
  /\ LET crossing == gl.at \in Switching \cup {"cas"} \/ stopping[main.handle]
     IN \/ MainGo("pauseAudio", "pauseLock") /\ SwitchTo(FALSE, crossing)
        \/ MainGo("resumeAudio", "idle") /\ SwitchTo(TRUE, crossing)
  /\ UNCHANGED <<mainOthers, running, gate, pauseReq>>

BeginResume ==
  /\ MainGo("idle", "resumeLock")
  /\ UNCHANGED <<mainOthers, running, gate, pauseReq, audio>>

\* surfaceCreated, surfaceChanged, surfaceDestroyed, onDetachedFromWindow.
BeginSurface ==
  /\ MainGo("idle", "surfaceLock")
  /\ UNCHANGED <<mainOthers, running, gate, pauseReq, audio>>

\* lockGLThread.
LockGate ==
  /\ \/ MainGo("pauseLock", "superPause")
     \/ MainGo("surfaceLock", "waitSurface")
     \/ MainGo("resumeLock", "superResume")
  /\ ~gate /\ gate' = TRUE
  /\ UNCHANGED <<mainOthers, running, pauseReq, audio>>

\* super.onPause, super.onResume: the request, and the wait for the other thread.
RequestSurface ==
  /\ \/ MainGo("superPause", "waitParked") /\ pauseReq' = TRUE
     \/ MainGo("superResume", "waitUnparked") /\ pauseReq' = FALSE
  /\ UNCHANGED <<mainOthers, running, gate, audio>>

\* unlockGLThread, when the OpenGL thread has parked, gone on, or come between two
\* frames for the other overrides; onResume then reads the view's handle.
UnlockGate ==
  /\ gate' = FALSE
  /\ \/ MainGo("waitParked", "idle") /\ parked
     \/ MainGo("waitSurface", "idle") /\ gl.at = "idle"
     \/ /\ main.at = "waitUnparked" /\ ~parked
        /\ main' = [at |-> "resumeTest", handle |-> m_context]
  /\ UNCHANGED <<mainOthers, running, pauseReq, audio>>

\* The native onResume.
ResumeTest ==
  /\ LET c == main.handle
     IN MainGo("resumeTest", IF c # NoContext /\ ~stopping[c] THEN "resumeCas" ELSE "idle")
  /\ UNCHANGED <<mainOthers, running, gate, pauseReq, audio>>

ResumeRunning ==
  /\ main.at = "resumeCas"
  /\ MainGo("resumeCas", IF running[main.handle] THEN "idle" ELSE "resumeAudio")
  /\ running' = [running EXCEPT ![main.handle] = TRUE]
  /\ UNCHANGED <<mainOthers, gate, pauseReq, audio>>

\* The looper of the main thread runs a callback the OpenGL thread waits for.
AnswerCall ==
  /\ main.at = "idle"
  /\ GL("loopCalls", "loop") \/ GL("renderCalls", "render")
  /\ UNCHANGED <<viewVars, contextVars, threadId, gate, surfaceVars, main, shut>>

\* onShutdown deletes engine and context.
DeleteContext(c) ==
  /\ main.at = "idle" /\ shut[c] = "posted"
  /\ life' = [life EXCEPT ![c] = "deleted"]
  /\ shut' = [shut EXCEPT ![c] = "done"]
  /\ UNCHANGED <<viewVars, running, stopping, engine, threadId, gate, surfaceVars,
                 gl, main>>

-----------------------------------------------------------------------------
(* onShutdownRequest, in the thread NewThreadAsync started.                 *)

\* An exception of engine->shutdown() ends the thread.
ShutdownUncaught(c) ==
  /\ shut[c] = "shutdown"
  /\ \E end \in {"post", "done"} : shut' = [shut EXCEPT ![c] = end]
  /\ UNCHANGED <<viewVars, contextVars, threadId, gate, surfaceVars, gl, main>>

\* engine->shutdown(), which is Loader::release, has returned or thrown.  It polls, and
\* need never come here.
Shutdown(c) ==
  /\ shut[c] = "shutdown"
  /\ shut' = [shut EXCEPT ![c] = "post"]
  /\ UNCHANGED <<viewVars, contextVars, threadId, gate, surfaceVars, gl, main>>

\* The thread id is released where the engine is, not where it was stopped.
PostAndRelease(c) ==
  /\ shut[c] = "post"
  /\ shut' = [shut EXCEPT ![c] = "posted"]
  /\ threadId' = FALSE
  /\ UNCHANGED <<viewVars, contextVars, gate, surfaceVars, gl, main>>

\* MainThreadAsync(onShutdown).
PostShutdown(c) ==
  /\ shut[c] = "post"
  /\ shut' = [shut EXCEPT ![c] = "posted"]
  /\ UNCHANGED <<viewVars, contextVars, threadId, gate, surfaceVars, gl, main>>

-----------------------------------------------------------------------------

GLStep ==
  \/ TestGate \/ RunMessages \/ TestRunning \/ Render \/ Park
  \/ StopPause \/ StopPauseAudio \/ StopRequest \/ ReleaseThreadId \/ ClearContext
  \/ (\E c \in Context : CreateContext(c))
  \/ Start \/ ResumeLock \/ ResumeSurface \/ ResumeUnlock \/ ResumeContext
  \/ ResumeAudio

MainStep ==
  \/ Touch \/ PauseTest \/ PauseContext \/ SwitchAudio \/ LockGate \/ RequestSurface
  \/ UnlockGate \/ ResumeTest \/ ResumeRunning

System == DrawFrame \/ SurfaceChanged \/ DestroyContext \/ SurfaceCreated
User == BeginPause \/ BeginTouch \/ BeginResume \/ BeginSurface

Next ==
  \/ GLStep \/ MainStep \/ System \/ User \/ AnswerCall
  \/ \E c \in Context : Shutdown(c) \/ PostShutdown(c) \/ DeleteContext(c)

Spec == Init /\ [][Next]_vars

\* Threads run; nobody draws, pauses, resumes or touches for ever.  The looper of
\* the main thread serves messages in their order, and lockGLThread polls a lock
\* that is free again and again.  Shutdown has no fairness: Loader::release may wait
\* for ever (ReleaseEnds in Loader says when).
FairSpec ==
  /\ Spec
  /\ SF_vars(GLStep) /\ SF_vars(MainStep) /\ SF_vars(AnswerCall)
  /\ \A c \in Context : WF_vars(PostShutdown(c)) /\ SF_vars(DeleteContext(c))

-----------------------------------------------------------------------------

Drawing == {"gate", "loop", "loopCalls", "test", "render", "renderCalls"}
Stopping == {"stop", "pauseAudio", "cas", "threadId", "clear"}
Creating == {"create", "start", "lock", "superResume", "unlock", "resume", "resumeAudio"}

MainLocation ==
  {"idle", "touch", "pauseTest", "pauseCas", "pauseAudio", "pauseLock", "superPause",
   "waitParked", "surfaceLock", "waitSurface", "resumeLock", "superResume",
   "waitUnparked", "resumeTest", "resumeCas", "resumeAudio"}

\* The types; the native lock is held by one thread, which is inside onPause or
\* onResume.
TypeOK ==
  /\ m_context \in Context \cup {NoContext} /\ m_created \in BOOLEAN
  /\ life \in [Context -> {"unborn", "alive", "deleted"}]
  /\ running \in [Context -> BOOLEAN] /\ stopping \in [Context -> BOOLEAN]
  /\ engine \in [Context -> BOOLEAN]
  /\ threadId \in BOOLEAN /\ gate \in BOOLEAN
  /\ audio \in [plays : BOOLEAN, crossed : BOOLEAN]
  /\ pauseReq \in BOOLEAN /\ parked \in BOOLEAN
  /\ gl \in [at : {"idle"} \cup Drawing \cup Stopping \cup Creating,
             handle : Context \cup {NoContext}, creating : BOOLEAN]
  /\ main \in [at : MainLocation, handle : Context \cup {NoContext}]
  /\ shut \in [Context -> {"none", "shutdown", "post", "posted", "done"}]
  /\ gate <=> \/ gl.at \in {"superResume", "unlock"}
              \/ main.at \in {"superPause", "waitParked", "waitSurface", "superResume",
                              "waitUnparked"}

\* The OpenGL thread never draws, stops or resumes a context the main thread has
\* deleted: the two hand it over through the shutdown thread.
GLUsesLive ==
  gl.at \in Drawing \cup {"stop", "cas", "start", "resume"} /\ gl.handle # NoContext =>
    life[gl.handle] = "alive"

\* No context is forgotten: one that nobody has begun to stop is the view's.
NoneLost ==
  \A c \in Context : life[c] = "alive" /\ ~stopping[c] => m_context = c

\* While there is a context to draw, calls to the OpenGL thread find it, however
\* the end of the previous context overlaps with the new one.
ThreadIdKept ==
  m_context # NoContext /\ gl.at \in {"idle"} \cup Drawing => threadId

\* The main thread waits in one of the overrides for the OpenGL thread to park; that one
\* waits for the main thread to run a callback.
CallStandoff == main.at \in {"waitParked", "waitSurface"} /\ gl.at \in {"loopCalls", "renderCalls"}

\* The main thread waits there with the native lock; the OpenGL thread, inside
\* onSurfaceCreated, calls JappsyView.onResume and waits for that lock.
GateStandoff == main.at \in {"waitParked", "waitSurface"} /\ gl.at = "lock"

\* The view's handle dangles only while onStop has not come back, so that is how
\* long a touch or a pause of the main thread may find a deleted context.
StaleInWindow ==
  \A c \in Context :
    m_context = c /\ life[c] = "deleted" => gl.at \in {"threadId", "clear"} /\ gl.handle = c

\* Sound plays while a context runs and only then, although two threads pause,
\* resume and stop.  The exceptions are named by crossed: both switch the player
\* at once, or the main thread does for a context that is stopped meanwhile.
AudioFollows ==
  m_created /\ gl.at \in {"idle"} \cup Drawing /\ main.at \notin Switching /\ ~audio.crossed =>
    (audio.plays <=> \E c \in Context : running[c] /\ ~stopping[c])

\* A context that is stopped is deleted in the end, even if engine->shutdown()
\* throws, unless the two threads wait for each other, or engine->shutdown() never
\* comes back: the loader waits for a sound, for a request that was dropped or for an
\* answer that is lost.
StoppedDeleted ==
  \A c \in Context :
    stopping[c] ~> \/ life[c] = "deleted"
                   \/ CallStandoff \/ GateStandoff
                   \/ [](shut[c] = "shutdown")

\* JappsyView.java's "ANTI-DEADLOCK OVERRIDES": while the main thread waits in
\* GLSurfaceView, the OpenGL thread is not in a callback that needs the main thread,
\* nor does it want the lock of the overrides itself.
NoStandoff == ~CallStandoff /\ ~GateStandoff

\* The view's handle leads to each context that has not been stopped, and to a deleted
\* one for no longer than it takes onStop to return; the native lock has its holder.
Handles == TypeOK /\ NoneLost /\ StaleInWindow
=============================================================================
