----------------------- MODULE EngineLifecycle_proofs -----------------------
(***************************************************************************)
(* Proofs about the life of the engine's contexts, for every set of        *)
(* contexts: the invariant IInv is inductive, and it implies the safety    *)
(* invariants of EngineLifecycle.                                          *)
(***************************************************************************)
EXTENDS EngineLifecycle, TLAPS

\* What the main thread does with a context, not with the view.
WithContext == {"touch", "pauseCas", "pauseAudio", "resumeCas", "resumeAudio"}

\* The native lock is held by one of the two threads at a time.
GateHolder ==
  ~(/\ gl.at \in {"superResume", "unlock"}
    /\ main.at \in {"superPause", "waitParked", "waitSurface", "superResume",
         "waitUnparked"})

\* The OpenGL thread works on the view's context: nobody else sets m_context.
ViewHandle ==
  /\ gl.at \in (Drawing \cup Stopping \cup Creating) \ {"create"} => gl.handle = m_context
  /\ gl.at = "create" => m_context = NoContext
  /\ gl.at \in {"pauseAudio", "cas", "threadId"} \cup (Creating \ {"create"}) =>
       m_context # NoContext
  /\ ~m_created => m_context = NoContext \/ gl.at = "start"
  /\ gl.at \in Stopping \cup (Creating \ {"create", "start"}) => m_created

\* Where a context is between its creation and its deletion: stopping starts the
\* shutdown thread, and only what that posted deletes the context.
Stages ==
  \A c \in Context :
    /\ life[c] = "unborn" => ~running[c] /\ ~stopping[c]
    /\ stopping[c] <=> shut[c] # "none"
    /\ life[c] = "deleted" <=> shut[c] = "done"

\* The view has an alive context that nobody stops, or is about to forget it.
ViewAlive ==
  m_context # NoContext =>
    /\ gl.at \notin {"threadId", "clear"} =>
         life[m_context] = "alive" /\ ~stopping[m_context]
    /\ gl.at \in {"threadId", "clear"} => stopping[m_context]

\* The main thread has the handle of a context that was born, which may be gone.
MainHandle ==
  /\ main.handle # NoContext => life[main.handle] # "unborn"
  /\ main.at \in WithContext => main.handle # NoContext

\* Calls to the OpenGL thread find it from the start of a context to its stop.
ThreadIdSet ==
  m_context # NoContext /\ gl.at \notin {"start", "clear"} => threadId

\* The view's context runs.
Runs ==
  m_context # NoContext /\ running[m_context] /\ ~stopping[m_context]

\* What the audio player does at every step of the two threads: between two of
\* their switches it follows the context; the thread that is about to switch it has
\* just changed running, and nobody else has since, or crossed tells.
AudioExact ==
  ~audio.crossed =>
    /\ main.at \notin Switching =>
         /\ m_created /\ gl.at \in {"idle", "stop"} \cup Drawing => (audio.plays <=> Runs)
         /\ gl.at \in {"cas", "threadId", "clear"} => ~audio.plays
         /\ gl.at \in Creating \ {"resumeAudio"} => (Runs => audio.plays)
         /\ gl.at = "resumeAudio" => Runs
    /\ /\ main.at \in Switching /\ gl.at \notin Switching \cup {"cas"}
       /\ ~stopping[main.handle]
       => (main.at = "resumeAudio" <=> running[main.handle])

\* How the threads hand a context over to each other.
Handover == ViewHandle /\ Stages /\ ViewAlive /\ NoneLost /\ MainHandle /\ ThreadIdSet

\* Inductive: what is true of the handles depends on where both threads are.
IInv == TypeOK /\ GateHolder /\ Handover /\ AudioExact

-----------------------------------------------------------------------------
\* No context is born, and the threads are idle.
LEMMA InitIInv == Init => IInv
<1> SUFFICES ASSUME Init PROVE IInv
  OBVIOUS
<1>1. TypeOK
  BY DEF Init, TypeOK, MainLocation
<1>2. GateHolder /\ ViewHandle /\ Stages /\ ViewAlive /\ NoneLost
  BY DEF Init, GateHolder, ViewHandle, Stages, ViewAlive, NoneLost, Drawing, Stopping,
     Creating
<1>3. MainHandle /\ ThreadIdSet /\ AudioExact
  BY DEF Init, MainHandle, ThreadIdSet, AudioExact, WithContext, Switching, Drawing,
     Creating
<1>4. QED
  BY <1>1, <1>2, <1>3 DEF IInv, Handover

\* Each step keeps the types, and the native lock its one holder.
LEMMA TypeStep == IInv /\ [Next]_vars => TypeOK' /\ GateHolder'
<1> SUFFICES ASSUME IInv, [Next]_vars PROVE TypeOK' /\ GateHolder'
  OBVIOUS
<1>0. TypeOK /\ GateHolder /\ ViewHandle /\ MainHandle
  BY DEF IInv, Handover
<1> USE <1>0, ContextAssumption DEF TypeOK, MainLocation, GateHolder, ViewHandle,
      MainHandle, Drawing, Stopping, Creating, WithContext, Switching, contextVars,
      viewVars, surfaceVars
<1>1. CASE DrawFrame
  BY <1>1 DEF DrawFrame
<1>2. CASE SurfaceChanged
  BY <1>2 DEF SurfaceChanged
<1>3. CASE TestGate
  BY <1>3 DEF TestGate, GL
<1>4. CASE RunMessages
  BY <1>4 DEF RunMessages, GL
<1>5. CASE TestRunning
  <2>1. gl.at = "test" /\ UNCHANGED <<viewVars, contextVars, threadId, gate, surfaceVars,
                                      main, shut>>
    BY <1>5 DEF TestRunning, GL, GLFinish
  <2>2. \/ gl' = [gl EXCEPT !.at = "render"]
        \/ gl' = [gl EXCEPT !.at = "idle", !.handle = NoContext]
    BY <1>5 DEF TestRunning, GL, GLFinish
  <2>3. CASE gl' = [gl EXCEPT !.at = "render"]
    BY <2>1, <2>3
  <2>4. CASE gl' = [gl EXCEPT !.at = "idle", !.handle = NoContext]
    <3>1. gl' = [at |-> "idle", handle |-> NoContext, creating |-> gl.creating]
      BY <2>4
    <3>2. QED
      BY <2>1, <3>1
  <2>5. QED
    BY <2>2, <2>3, <2>4
<1>6. CASE Render
  <2>1. gl.at = "render" /\ UNCHANGED <<viewVars, contextVars, threadId, gate,
                                        surfaceVars, main, shut>>
    BY <1>6 DEF Render, GL, GLFinish
  <2>2. \/ gl' = [gl EXCEPT !.at = "renderCalls"]
        \/ gl' = [gl EXCEPT !.at = "idle", !.handle = NoContext]
    BY <1>6 DEF Render, GL, GLFinish
  <2>3. CASE gl' = [gl EXCEPT !.at = "renderCalls"]
    BY <2>1, <2>3
  <2>4. CASE gl' = [gl EXCEPT !.at = "idle", !.handle = NoContext]
    <3>1. gl' = [at |-> "idle", handle |-> NoContext, creating |-> gl.creating]
      BY <2>4
    <3>2. QED
      BY <2>1, <3>1
  <2>5. QED
    BY <2>2, <2>3, <2>4
<1>7. CASE Park
  BY <1>7 DEF Park
<1>8. CASE DestroyContext
  BY <1>8 DEF DestroyContext
<1>9. CASE SurfaceCreated
  BY <1>9 DEF SurfaceCreated
<1>10. CASE StopPause
  BY <1>10 DEF StopPause, GL
<1>11. CASE StopPauseAudio
  BY <1>11 DEF StopPauseAudio, GL, SwitchTo
<1>12. CASE StopRequest
  <2>1. gl.at = "cas" /\ UNCHANGED <<viewVars, life, running, engine, threadId, gate,
                                     surfaceVars, main>>
    BY <1>12 DEF StopRequest, GL, GLFinish
  <2>2. \/ gl' = [gl EXCEPT !.at = "clear"] /\ UNCHANGED <<stopping, shut>>
        \/ gl' = [gl EXCEPT !.at = "threadId"]
           /\ stopping' = [stopping EXCEPT ![gl.handle] = TRUE]
           /\ shut' = [shut EXCEPT ![gl.handle] = "shutdown"]
    BY <1>12 DEF StopRequest, GL, GLFinish
  <2>3. CASE gl' = [gl EXCEPT !.at = "clear"] /\ UNCHANGED <<stopping, shut>>
    BY <2>1, <2>3
  <2>4. CASE gl' = [gl EXCEPT !.at = "threadId"]
           /\ stopping' = [stopping EXCEPT ![gl.handle] = TRUE]
           /\ shut' = [shut EXCEPT ![gl.handle] = "shutdown"]
    BY <2>1, <2>4
  <2>5. QED
    BY <2>2, <2>3, <2>4
<1>13. CASE ReleaseThreadId
  BY <1>13 DEF ReleaseThreadId, GL
<1>14. CASE ClearContext
  <2>1. gl.at = "clear" /\ UNCHANGED <<m_created, contextVars, threadId, gate,
                                       surfaceVars, main, shut>>
    BY <1>14 DEF ClearContext, GL, GLFinish
  <2>2. \/ gl' = [gl EXCEPT !.at = "create"] /\ m_context' = NoContext
        \/ gl' = [gl EXCEPT !.at = "idle", !.handle = NoContext] /\ m_context' = NoContext
    BY <1>14 DEF ClearContext, GL, GLFinish
  <2>3. CASE gl' = [gl EXCEPT !.at = "create"] /\ m_context' = NoContext
    BY <2>1, <2>3
  <2>4. CASE gl' = [gl EXCEPT !.at = "idle", !.handle = NoContext] /\ m_context' = NoContext
    BY <2>1, <2>4
  <2>5. QED
    BY <2>2, <2>3, <2>4
<1>15. ASSUME NEW c \in Context, CreateContext(c) PROVE TypeOK' /\ GateHolder'
  BY <1>15 DEF CreateContext
<1>16. CASE Start
  BY <1>16 DEF Start, GL
<1>17. CASE ResumeLock
  BY <1>17 DEF ResumeLock, GL
<1>18. CASE ResumeSurface
  BY <1>18 DEF ResumeSurface, GL
<1>19. CASE ResumeUnlock
  BY <1>19 DEF ResumeUnlock, GL
<1>20. CASE ResumeContext
  <2>1. /\ gl.at = "resume"
        /\ UNCHANGED <<viewVars, life, stopping, engine, threadId, gate, surfaceVars,
                       main, shut>>
        /\ running' = [running EXCEPT ![gl.handle] = @ \/ ~stopping[gl.handle]]
    BY <1>20 DEF ResumeContext, GL, GLFinish
  <2>2. \/ (gl' = [gl EXCEPT !.at = "resumeAudio"] /\ ~stopping[gl.handle])
        \/ /\ gl' = [gl EXCEPT !.at = "idle", !.handle = NoContext]
           /\ running[gl.handle] \/ stopping[gl.handle]
    BY <1>20 DEF ResumeContext, GL, GLFinish
  <2>3. CASE (gl' = [gl EXCEPT !.at = "resumeAudio"] /\ ~stopping[gl.handle])
    BY <2>1, <2>3
  <2>4. CASE /\ gl' = [gl EXCEPT !.at = "idle", !.handle = NoContext]
             /\ running[gl.handle] \/ stopping[gl.handle]
    BY <2>1, <2>4
  <2>5. QED
    BY <2>2, <2>3, <2>4
<1>21. CASE ResumeAudio
  BY <1>21 DEF ResumeAudio, GLFinish, SwitchTo
<1>22. CASE BeginPause
  BY <1>22 DEF BeginPause, mainOthers
<1>23. CASE BeginTouch
  BY <1>23 DEF BeginTouch, mainOthers
<1>24. CASE Touch
  BY <1>24 DEF Touch, MainGo, mainOthers
<1>25. CASE PauseTest
  BY <1>25 DEF PauseTest, MainGo, mainOthers
<1>26. CASE PauseContext
  BY <1>26 DEF PauseContext, MainGo, mainOthers
<1>27. CASE SwitchAudio
  <2>1. stopping[main.handle] \in BOOLEAN
    BY <1>27 DEF SwitchAudio, MainGo
  <2>2. \E plays, crossed \in BOOLEAN : audio' = [plays |-> plays, crossed |-> crossed]
    BY <1>27, <2>1 DEF SwitchAudio, SwitchTo
  <2>3. /\ UNCHANGED <<mainOthers, running, gate, pauseReq>>
        /\ \/ main.at = "pauseAudio" /\ main' = [main EXCEPT !.at = "pauseLock"]
           \/ main.at = "resumeAudio" /\ main' = [main EXCEPT !.at = "idle"]
    BY <1>27 DEF SwitchAudio, MainGo
  <2>4. QED
    BY <2>2, <2>3 DEF mainOthers
<1>28. CASE BeginResume
  BY <1>28 DEF BeginResume, MainGo, mainOthers
<1>29. CASE BeginSurface
  BY <1>29 DEF BeginSurface, MainGo, mainOthers
<1>30. CASE LockGate
  BY <1>30 DEF LockGate, MainGo, mainOthers
<1>31. CASE RequestSurface
  <2>1. \/ /\ main.at = "superPause" /\ main' = [main EXCEPT !.at = "waitParked"]
           /\ pauseReq' = TRUE
        \/ /\ main.at = "superResume" /\ main' = [main EXCEPT !.at = "waitUnparked"]
           /\ pauseReq' = FALSE
    BY <1>31 DEF RequestSurface, MainGo
  <2>2. UNCHANGED <<mainOthers, running, gate, audio>>
    BY <1>31 DEF RequestSurface
  <2>3. CASE main.at = "superPause" /\ main' = [main EXCEPT !.at = "waitParked"]
             /\ pauseReq' = TRUE
    BY <2>2, <2>3 DEF mainOthers
  <2>4. CASE main.at = "superResume" /\ main' = [main EXCEPT !.at = "waitUnparked"]
             /\ pauseReq' = FALSE
    <3>1. main' = [at |-> "waitUnparked", handle |-> main.handle]
      BY <2>4
    <3>2. gate = TRUE /\ gl.at \notin {"superResume", "unlock"}
      BY <2>4
    <3>3. /\ main'.at = "waitUnparked" /\ main'.handle = main.handle
          /\ gate' = TRUE /\ gl' = gl
      BY <2>2, <3>1, <3>2 DEF mainOthers
    <3>4. main' \in [at : {"waitUnparked"}, handle : Context \cup {NoContext}]
      BY <3>1
    <3>5. QED
      BY <2>2, <2>4, <3>2, <3>3, <3>4 DEF mainOthers
  <2>5. QED
    BY <2>1, <2>3, <2>4
<1>32. CASE UnlockGate
  <2>1. main'.at \in {"idle", "resumeTest"} /\ main'.handle \in Context \cup {NoContext}
    BY <1>32 DEF UnlockGate, MainGo
  <2>2. /\ main.at \in {"waitParked", "waitSurface", "waitUnparked"} /\ gate' = FALSE
        /\ UNCHANGED <<mainOthers, running, pauseReq, audio>>
    BY <1>32 DEF UnlockGate, MainGo
  <2>3. main' \in [at : {"idle", "resumeTest"}, handle : Context \cup {NoContext}]
    BY <1>32 DEF UnlockGate, MainGo
  <2>4. gl' = gl /\ gl.at \notin {"superResume", "unlock"}
    BY <2>2 DEF mainOthers
  <2>5. main'.at \notin {"superPause", "waitParked", "waitSurface", "superResume",
          "waitUnparked"}
    BY <2>1
  <2>6. UNCHANGED <<m_context, m_created, life, stopping, engine, threadId, parked, gl,
                    shut,
                    running, pauseReq, audio>>
    BY <2>2 DEF mainOthers
  <2>7. GateHolder' /\ gate' \in BOOLEAN
    BY <2>2, <2>4
  <2>8. main' \in [at : MainLocation, handle : Context \cup {NoContext}]
    BY <2>3
  <2>9. QED
    BY <2>2, <2>4, <2>5, <2>6, <2>7, <2>8
<1>33. CASE ResumeTest
  BY <1>33 DEF ResumeTest, MainGo, mainOthers
<1>34. CASE ResumeRunning
  BY <1>34 DEF ResumeRunning, MainGo, mainOthers
<1>35. CASE AnswerCall
  BY <1>35 DEF AnswerCall, GL
<1>36. ASSUME NEW c \in Context, DeleteContext(c) PROVE TypeOK' /\ GateHolder'
  BY <1>36 DEF DeleteContext
<1>37. ASSUME NEW c \in Context, Shutdown(c) PROVE TypeOK' /\ GateHolder'
  BY <1>37 DEF Shutdown
<1>38. ASSUME NEW c \in Context, PostShutdown(c) PROVE TypeOK' /\ GateHolder'
  BY <1>38 DEF PostShutdown
<1>39. CASE UNCHANGED vars
  BY <1>39 DEF vars
<1>40. QED
  BY <1>1, <1>2, <1>3, <1>4, <1>5, <1>6, <1>7, <1>8, <1>9, <1>10, <1>11, <1>12, <1>13,
     <1>14, <1>15, <1>16, <1>17, <1>18, <1>19, <1>20, <1>21, <1>22, <1>23, <1>24, <1>25,
     <1>26, <1>27, <1>28, <1>29, <1>30, <1>31, <1>32, <1>33, <1>34, <1>35, <1>36, <1>37,
     <1>38, <1>39 DEF Next, GLStep, MainStep, System, User

\* Each step keeps the contexts in order.
LEMMA HandoverStep == IInv /\ [Next]_vars => Handover'
<1> SUFFICES ASSUME IInv, [Next]_vars PROVE Handover'
  OBVIOUS
<1>0. TypeOK /\ Handover
  BY DEF IInv
<1> USE <1>0, ContextAssumption DEF TypeOK, MainLocation, Handover, ViewHandle, Stages,
      ViewAlive, NoneLost, MainHandle, ThreadIdSet, Drawing, Stopping, Creating,
      WithContext, contextVars, viewVars, surfaceVars
<1>1. CASE DrawFrame
  BY <1>1 DEF DrawFrame
<1>2. CASE SurfaceChanged
  BY <1>2 DEF SurfaceChanged
<1>3. CASE TestGate
  BY <1>3 DEF TestGate, GL
<1>4. CASE RunMessages
  BY <1>4 DEF RunMessages, GL
<1>5. CASE TestRunning
  <2>1. gl.at = "test" /\ UNCHANGED <<viewVars, contextVars, threadId, gate, surfaceVars,
                                      main, shut>>
    BY <1>5 DEF TestRunning, GL, GLFinish
  <2>2. \/ gl' = [gl EXCEPT !.at = "render"]
        \/ gl' = [gl EXCEPT !.at = "idle", !.handle = NoContext]
    BY <1>5 DEF TestRunning, GL, GLFinish
  <2>3. CASE gl' = [gl EXCEPT !.at = "render"]
    BY <2>1, <2>3
  <2>4. CASE gl' = [gl EXCEPT !.at = "idle", !.handle = NoContext]
    BY <2>1, <2>4
  <2>5. QED
    BY <2>2, <2>3, <2>4
<1>6. CASE Render
  <2>1. gl.at = "render" /\ UNCHANGED <<viewVars, contextVars, threadId, gate,
                                        surfaceVars, main, shut>>
    BY <1>6 DEF Render, GL, GLFinish
  <2>2. \/ gl' = [gl EXCEPT !.at = "renderCalls"]
        \/ gl' = [gl EXCEPT !.at = "idle", !.handle = NoContext]
    BY <1>6 DEF Render, GL, GLFinish
  <2>3. CASE gl' = [gl EXCEPT !.at = "renderCalls"]
    BY <2>1, <2>3
  <2>4. CASE gl' = [gl EXCEPT !.at = "idle", !.handle = NoContext]
    BY <2>1, <2>4
  <2>5. QED
    BY <2>2, <2>3, <2>4
<1>7. CASE Park
  BY <1>7 DEF Park
<1>8. CASE DestroyContext
  BY <1>8 DEF DestroyContext
<1>9. CASE SurfaceCreated
  BY <1>9 DEF SurfaceCreated
<1>10. CASE StopPause
  BY <1>10 DEF StopPause, GL
<1>11. CASE StopPauseAudio
  BY <1>11 DEF StopPauseAudio, GL, SwitchTo
<1>12. CASE StopRequest
  BY <1>12 DEF StopRequest, GL
<1>13. CASE ReleaseThreadId
  BY <1>13 DEF ReleaseThreadId, GL
<1>14. CASE ClearContext
  <2>1. gl.at = "clear" /\ UNCHANGED <<m_created, contextVars, threadId, gate,
                                       surfaceVars, main, shut>>
    BY <1>14 DEF ClearContext, GL, GLFinish
  <2>2. \/ gl' = [gl EXCEPT !.at = "create"] /\ m_context' = NoContext
        \/ gl' = [gl EXCEPT !.at = "idle", !.handle = NoContext] /\ m_context' = NoContext
    BY <1>14 DEF ClearContext, GL, GLFinish
  <2>3. CASE gl' = [gl EXCEPT !.at = "create"] /\ m_context' = NoContext
    BY <2>1, <2>3
  <2>4. CASE gl' = [gl EXCEPT !.at = "idle", !.handle = NoContext] /\ m_context' = NoContext
    BY <2>1, <2>4
  <2>5. QED
    BY <2>2, <2>3, <2>4
<1>15. ASSUME NEW c \in Context, CreateContext(c) PROVE Handover'
  BY <1>15 DEF CreateContext
<1>16. CASE Start
  BY <1>16 DEF Start, GL
<1>17. CASE ResumeLock
  BY <1>17 DEF ResumeLock, GL
<1>18. CASE ResumeSurface
  BY <1>18 DEF ResumeSurface, GL
<1>19. CASE ResumeUnlock
  BY <1>19 DEF ResumeUnlock, GL
<1>20. CASE ResumeContext
  <2>1. /\ gl.at = "resume"
        /\ UNCHANGED <<viewVars, life, stopping, engine, threadId, gate, surfaceVars,
                       main, shut>>
        /\ running' = [running EXCEPT ![gl.handle] = @ \/ ~stopping[gl.handle]]
    BY <1>20 DEF ResumeContext, GL, GLFinish
  <2>2. \/ (gl' = [gl EXCEPT !.at = "resumeAudio"] /\ ~stopping[gl.handle])
        \/ /\ gl' = [gl EXCEPT !.at = "idle", !.handle = NoContext]
           /\ running[gl.handle] \/ stopping[gl.handle]
    BY <1>20 DEF ResumeContext, GL, GLFinish
  <2>3. CASE (gl' = [gl EXCEPT !.at = "resumeAudio"] /\ ~stopping[gl.handle])
    BY <2>1, <2>3
  <2>4. CASE /\ gl' = [gl EXCEPT !.at = "idle", !.handle = NoContext]
             /\ running[gl.handle] \/ stopping[gl.handle]
    BY <2>1, <2>4
  <2>5. QED
    BY <2>2, <2>3, <2>4
<1>21. CASE ResumeAudio
  BY <1>21 DEF ResumeAudio, GLFinish, SwitchTo
<1>22. CASE BeginPause
  BY <1>22 DEF BeginPause, mainOthers
<1>23. CASE BeginTouch
  BY <1>23 DEF BeginTouch, mainOthers
<1>24. CASE Touch
  BY <1>24 DEF Touch, MainGo, mainOthers
<1>25. CASE PauseTest
  BY <1>25 DEF PauseTest, MainGo, mainOthers
<1>26. CASE PauseContext
  BY <1>26 DEF PauseContext, MainGo, mainOthers
<1>27. CASE SwitchAudio
  BY <1>27 DEF SwitchAudio, MainGo, SwitchTo, mainOthers
<1>28. CASE BeginResume
  BY <1>28 DEF BeginResume, MainGo, mainOthers
<1>29. CASE BeginSurface
  BY <1>29 DEF BeginSurface, MainGo, mainOthers
<1>30. CASE LockGate
  BY <1>30 DEF LockGate, MainGo, mainOthers
<1>31. CASE RequestSurface
  BY <1>31 DEF RequestSurface, MainGo, mainOthers
<1>32. CASE UnlockGate
  BY <1>32 DEF UnlockGate, MainGo, mainOthers
<1>33. CASE ResumeTest
  BY <1>33 DEF ResumeTest, MainGo, mainOthers
<1>34. CASE ResumeRunning
  BY <1>34 DEF ResumeRunning, MainGo, mainOthers
<1>35. CASE AnswerCall
  BY <1>35 DEF AnswerCall, GL
<1>36. ASSUME NEW c \in Context, DeleteContext(c) PROVE Handover'
  BY <1>36 DEF DeleteContext
<1>37. ASSUME NEW c \in Context, Shutdown(c) PROVE Handover'
  BY <1>37 DEF Shutdown
<1>38. ASSUME NEW c \in Context, PostShutdown(c) PROVE Handover'
  BY <1>38 DEF PostShutdown
<1>39. CASE UNCHANGED vars
  BY <1>39 DEF vars
<1>40. QED
  BY <1>1, <1>2, <1>3, <1>4, <1>5, <1>6, <1>7, <1>8, <1>9, <1>10, <1>11, <1>12, <1>13,
     <1>14, <1>15, <1>16, <1>17, <1>18, <1>19, <1>20, <1>21, <1>22, <1>23, <1>24, <1>25,
     <1>26, <1>27, <1>28, <1>29, <1>30, <1>31, <1>32, <1>33, <1>34, <1>35, <1>36, <1>37,
     <1>38, <1>39 DEF Next, GLStep, MainStep, System, User

\* Each step keeps the audio player in step with the context.
LEMMA AudioStep == IInv /\ [Next]_vars => AudioExact'
<1> SUFFICES ASSUME IInv, [Next]_vars PROVE AudioExact'
  OBVIOUS
<1>0. TypeOK /\ Handover /\ AudioExact
  BY DEF IInv
<1> USE <1>0, ContextAssumption DEF TypeOK, MainLocation, Handover, ViewHandle, Stages,
      ViewAlive, NoneLost, MainHandle, AudioExact, Runs, Drawing, Stopping, Creating,
      WithContext, Switching, contextVars, viewVars, surfaceVars
<1>1. CASE DrawFrame
  BY <1>1 DEF DrawFrame
<1>2. CASE SurfaceChanged
  BY <1>2 DEF SurfaceChanged
<1>3. CASE TestGate
  BY <1>3 DEF TestGate, GL
<1>4. CASE RunMessages
  BY <1>4 DEF RunMessages, GL
<1>5. CASE TestRunning
  <2>1. gl.at = "test" /\ UNCHANGED <<viewVars, contextVars, threadId, gate, surfaceVars,
                                      main, shut>>
    BY <1>5 DEF TestRunning, GL, GLFinish
  <2>2. \/ gl' = [gl EXCEPT !.at = "render"]
        \/ gl' = [gl EXCEPT !.at = "idle", !.handle = NoContext]
    BY <1>5 DEF TestRunning, GL, GLFinish
  <2>3. CASE gl' = [gl EXCEPT !.at = "render"]
    BY <2>1, <2>3
  <2>4. CASE gl' = [gl EXCEPT !.at = "idle", !.handle = NoContext]
    BY <2>1, <2>4
  <2>5. QED
    BY <2>2, <2>3, <2>4
<1>6. CASE Render
  <2>1. gl.at = "render" /\ UNCHANGED <<viewVars, contextVars, threadId, gate,
                                        surfaceVars, main, shut>>
    BY <1>6 DEF Render, GL, GLFinish
  <2>2. \/ gl' = [gl EXCEPT !.at = "renderCalls"]
        \/ gl' = [gl EXCEPT !.at = "idle", !.handle = NoContext]
    BY <1>6 DEF Render, GL, GLFinish
  <2>3. CASE gl' = [gl EXCEPT !.at = "renderCalls"]
    BY <2>1, <2>3
  <2>4. CASE gl' = [gl EXCEPT !.at = "idle", !.handle = NoContext]
    BY <2>1, <2>4
  <2>5. QED
    BY <2>2, <2>3, <2>4
<1>7. CASE Park
  BY <1>7 DEF Park
<1>8. CASE DestroyContext
  BY <1>8 DEF DestroyContext
<1>9. CASE SurfaceCreated
  BY <1>9 DEF SurfaceCreated
<1>10. CASE StopPause
  BY <1>10 DEF StopPause, GL
<1>11. CASE StopPauseAudio
  BY <1>11 DEF StopPauseAudio, GL, SwitchTo
<1>12. CASE StopRequest
  BY <1>12 DEF StopRequest, GL
<1>13. CASE ReleaseThreadId
  BY <1>13 DEF ReleaseThreadId, GL
<1>14. CASE ClearContext
  <2>1. gl.at = "clear" /\ UNCHANGED <<m_created, contextVars, threadId, gate,
                                       surfaceVars, main, shut>>
    BY <1>14 DEF ClearContext, GL, GLFinish
  <2>2. \/ gl' = [gl EXCEPT !.at = "create"] /\ m_context' = NoContext
        \/ gl' = [gl EXCEPT !.at = "idle", !.handle = NoContext] /\ m_context' = NoContext
    BY <1>14 DEF ClearContext, GL, GLFinish
  <2>3. CASE gl' = [gl EXCEPT !.at = "create"] /\ m_context' = NoContext
    BY <2>1, <2>3
  <2>4. CASE gl' = [gl EXCEPT !.at = "idle", !.handle = NoContext] /\ m_context' = NoContext
    BY <2>1, <2>4
  <2>5. QED
    BY <2>2, <2>3, <2>4
<1>15. ASSUME NEW c \in Context, CreateContext(c) PROVE AudioExact'
  BY <1>15 DEF CreateContext
<1>16. CASE Start
  BY <1>16 DEF Start, GL
<1>17. CASE ResumeLock
  BY <1>17 DEF ResumeLock, GL
<1>18. CASE ResumeSurface
  BY <1>18 DEF ResumeSurface, GL
<1>19. CASE ResumeUnlock
  BY <1>19 DEF ResumeUnlock, GL
<1>20. CASE ResumeContext
  <2>1. /\ gl.at = "resume"
        /\ UNCHANGED <<viewVars, life, stopping, engine, threadId, gate, surfaceVars,
                       main, shut>>
        /\ running' = [running EXCEPT ![gl.handle] = @ \/ ~stopping[gl.handle]]
    BY <1>20 DEF ResumeContext, GL, GLFinish
  <2>2. \/ (gl' = [gl EXCEPT !.at = "resumeAudio"] /\ ~stopping[gl.handle])
        \/ /\ gl' = [gl EXCEPT !.at = "idle", !.handle = NoContext]
           /\ running[gl.handle] \/ stopping[gl.handle]
    BY <1>20 DEF ResumeContext, GL, GLFinish
  <2>3. CASE (gl' = [gl EXCEPT !.at = "resumeAudio"] /\ ~stopping[gl.handle])
    BY <2>1, <2>3
  <2>4. CASE /\ gl' = [gl EXCEPT !.at = "idle", !.handle = NoContext]
             /\ running[gl.handle] \/ stopping[gl.handle]
    BY <2>1, <2>4
  <2>5. QED
    BY <2>2, <2>3, <2>4
<1>21. CASE ResumeAudio
  BY <1>21 DEF ResumeAudio, GLFinish, SwitchTo
<1>22. CASE BeginPause
  BY <1>22 DEF BeginPause, mainOthers
<1>23. CASE BeginTouch
  BY <1>23 DEF BeginTouch, mainOthers
<1>24. CASE Touch
  BY <1>24 DEF Touch, MainGo, mainOthers
<1>25. CASE PauseTest
  BY <1>25 DEF PauseTest, MainGo, mainOthers
<1>26. CASE PauseContext
  BY <1>26 DEF PauseContext, MainGo, mainOthers
<1>27. CASE SwitchAudio
  BY <1>27 DEF SwitchAudio, MainGo, SwitchTo, mainOthers
<1>28. CASE BeginResume
  BY <1>28 DEF BeginResume, MainGo, mainOthers
<1>29. CASE BeginSurface
  BY <1>29 DEF BeginSurface, MainGo, mainOthers
<1>30. CASE LockGate
  BY <1>30 DEF LockGate, MainGo, mainOthers
<1>31. CASE RequestSurface
  BY <1>31 DEF RequestSurface, MainGo, mainOthers
<1>32. CASE UnlockGate
  BY <1>32 DEF UnlockGate, MainGo, mainOthers
<1>33. CASE ResumeTest
  BY <1>33 DEF ResumeTest, MainGo, mainOthers
<1>34. CASE ResumeRunning
  BY <1>34 DEF ResumeRunning, MainGo, mainOthers
<1>35. CASE AnswerCall
  BY <1>35 DEF AnswerCall, GL
<1>36. ASSUME NEW c \in Context, DeleteContext(c) PROVE AudioExact'
  BY <1>36 DEF DeleteContext
<1>37. ASSUME NEW c \in Context, Shutdown(c) PROVE AudioExact'
  BY <1>37 DEF Shutdown
<1>38. ASSUME NEW c \in Context, PostShutdown(c) PROVE AudioExact'
  BY <1>38 DEF PostShutdown
<1>39. CASE UNCHANGED vars
  BY <1>39 DEF vars
<1>40. QED
  BY <1>1, <1>2, <1>3, <1>4, <1>5, <1>6, <1>7, <1>8, <1>9, <1>10, <1>11, <1>12, <1>13,
     <1>14, <1>15, <1>16, <1>17, <1>18, <1>19, <1>20, <1>21, <1>22, <1>23, <1>24, <1>25,
     <1>26, <1>27, <1>28, <1>29, <1>30, <1>31, <1>32, <1>33, <1>34, <1>35, <1>36, <1>37,
     <1>38, <1>39 DEF Next, GLStep, MainStep, System, User

-----------------------------------------------------------------------------

\* The contexts are handed over between the main and the OpenGL thread in order, and
\* the audio player follows them, in every state of every run.
THEOREM Invariance == Spec => []IInv
<1>1. IInv /\ [Next]_vars => IInv'
  BY TypeStep, HandoverStep, AudioStep DEF IInv
<1>2. QED
  BY InitIInv, <1>1, PTL DEF Spec

\* The view's handle leads to each context that has not been stopped, and to a deleted
\* one for no longer than it takes onStop to return; the native lock has its holder.
THEOREM HandlesKept == Spec => []Handles
<1>1. IInv => Handles
  <2> SUFFICES ASSUME IInv PROVE Handles
    OBVIOUS
  <2>1. TypeOK /\ NoneLost
    BY DEF IInv, Handover
  <2>2. ASSUME NEW c \in Context, m_context = c, life[c] = "deleted"
        PROVE  gl.at \in {"threadId", "clear"} /\ gl.handle = c
    BY ContextAssumption, <2>2 DEF IInv, Handover, ViewAlive, ViewHandle, Stopping
  <2>3. QED
    BY <2>1, <2>2 DEF Handles, StaleInWindow
<1>2. QED
  BY Invariance, <1>1, PTL

\* The OpenGL thread never draws, stops or resumes a context that is deleted.
THEOREM OnlyLiveUsed == Spec => []GLUsesLive
<1>1. IInv => GLUsesLive
  BY DEF IInv, Handover, GLUsesLive, TypeOK, ViewAlive, ViewHandle, Drawing, Stopping,
     Creating
<1>2. QED
  BY Invariance, <1>1, PTL

\* While there is a context to draw, calls to the OpenGL thread find it.
THEOREM ThreadFound == Spec => []ThreadIdKept
<1>1. IInv => ThreadIdKept
  BY DEF IInv, Handover, ThreadIdKept, ThreadIdSet, Drawing
<1>2. QED
  BY Invariance, <1>1, PTL

\* Sound plays while a context runs and only then, unless two threads switched the
\* player at once.
THEOREM AudioKept == Spec => []AudioFollows
<1>1. IInv => AudioFollows
  BY ContextAssumption DEF IInv, Handover, AudioFollows, AudioExact, Runs, NoneLost,
     Stages, TypeOK
<1>2. QED
  BY Invariance, <1>1, PTL
=============================================================================
