------------------------------- MODULE Loader -------------------------------
(***************************************************************************)
(* The resource loader (net/uLoader.cpp) on Android, with the life of an   *)
(* HTTP request it starts (net/uHTTPClient.mm).                            *)
(*                                                                         *)
(* Files pushed by load() wait in list; a short-lived update thread pops   *)
(* them and starts their requests.  The answers reach the OpenGL thread    *)
(* through its message pipe, where they are handled without the loader's   *)
(* lock, touching only the atomic counters of status.  release(), called   *)
(* by the shutdown thread, waits until the counters say nothing is left,   *)
(* draining the OpenGL pipe itself meanwhile.                              *)
(*                                                                         *)
(* The CObject lock is the atomic lock ObjectLock implements; what runs    *)
(* under it and touches nothing that others use without it is one step.    *)
(***************************************************************************)
EXTENDS Integers, Sequences, FiniteSets

CONSTANTS
  File,       \* the resources of a run; each is loaded at most once
  Unknown,    \* files with an extension update() does not know
  Audio,      \* files whose sound the main thread creates (mp3, ogg)
  Faulty,     \* files whose request may not start for lack of memory
  Forgiven,   \* files whose own onError accepts a fatal error
  Updater,    \* update threads
  NoFile,
  LoadSpeed,  \* loadSpeed: 1 in debug, 5 in release builds
  MaxRetry,   \* bound: failures of one file before it loads
  ReadyThrows,\* onReady may throw
  MayRelease  \* release() is called in this run

(* The threads that answer messages of the OpenGL pipe.                    *)
GL == "gl"
Rel == "rel"
Main == "main"
Nobody == "nobody"
Handler == {GL, Rel}

ASSUME LoaderAssumption ==
  /\ Unknown \cup Audio \cup Faulty \cup Forgiven \subseteq File
  /\ IsFiniteSet(File)
  /\ NoFile \notin File \cup Updater /\ File \cap Updater = {}
  /\ Updater \cap {GL, Rel, Main, Nobody} = {}
  /\ LoadSpeed \in Nat \ {0} /\ MaxRetry \in Nat
  /\ ReadyThrows \in BOOLEAN /\ MayRelease \in BOOLEAN

VARIABLES
  owner,     \* thread that holds the loader's lock
  updating,  \* the updating flag
  shutdown,  \* the shutdown flag
  list,      \* files waiting for a request
  status,    \* LoaderStatus: update, count, total, left, error
  where,     \* what has become of each file
  retry,     \* File::retry
  upc, todo, \* control state of update threads, and their local count
  pipe,      \* OpenGL message pipe: files answered, updaters that are ready
  hpc, job,  \* control state of the threads that answer messages, and the file
  mpc,       \* main thread inside load()
  rpc,       \* the shutdown thread inside release()
  told,      \* callbacks made: "status", "ready", "fatal", "retry"
  covers     \* history: the files that had been started, and those that still
             \* waited in list, when an updater last decided to call onReady

vars == <<owner, updating, shutdown, list, status, where, retry, upc, todo,
          pipe, hpc, job, mpc, rpc, told, covers>>
updaterVars == <<upc, todo>>
handlerVars == <<hpc, job>>

(* "out": not loaded yet; "asked": an HTTP thread or its repeat sleeps or   *)
(* waits for the server; "answered": its result is in the pipe.            *)
Stage == {"out", "listed", "asked", "answered", "handled", "done", "failed", "dropped"}

Init ==
  /\ owner = Nobody /\ updating = FALSE /\ shutdown = FALSE
  /\ list = <<>>
  /\ status = [update |-> FALSE, count |-> 0, total |-> 0, left |-> 0, error |-> 0]
  /\ where = [f \in File |-> "out"]
  /\ retry = [f \in File |-> 0]
  /\ upc = [u \in Updater |-> "none"] /\ todo = [u \in Updater |-> 0]
  /\ pipe = <<>>
  /\ hpc = [h \in Handler |-> "idle"] /\ job = [h \in Handler |-> NoFile]
  /\ mpc = "idle"
  /\ rpc = "none"
  /\ told = {} /\ covers = [u \in Updater |-> [started |-> {}, waiting |-> {}]]

Upd(u, l) == upc' = [upc EXCEPT ![u] = l]
Place(f, s) == where' = [where EXCEPT ![f] = s]
Add(field, n) == status' = [status EXCEPT ![field] = @ + n]

\* The threads NewThreadAsync may start.  One that ends as it starts another lends
\* it its name.
Free(self) == IF self \in Updater THEN {self} ELSE {u \in Updater : upc[u] = "none"}

-----------------------------------------------------------------------------

\* checkUpdate without the test of the updating flag.
CheckUpdateAlways(self) ==
  /\ updating' = (updating \/ ~shutdown)
  /\ IF ~shutdown
     THEN \E u \in Free(self) : Upd(u, "sleep")
     ELSE upc' = [u \in Updater |-> IF u = self THEN "none" ELSE upc[u]]

\* checkUpdate, under the lock, by a thread that leaves update() or run() then:
\* unless one does already, a new thread sleeps and runs update().
CheckUpdate(self) ==
  /\ updating' = (updating \/ ~shutdown)
  /\ IF ~shutdown /\ ~updating
     THEN \E u \in Free(self) : Upd(u, "sleep")
     ELSE upc' = [u \in Updater |-> IF u = self THEN "none" ELSE upc[u]]

-----------------------------------------------------------------------------
(* load(path) and query(path) on the main thread, until the loader is gone. *)

BeginLoad ==
  /\ mpc = "idle" /\ rpc # "done"
  /\ \E f \in File : where[f] = "out"
  /\ mpc' = "lock"
  /\ UNCHANGED <<owner, updating, shutdown, list, status, where, retry, updaterVars,
                 pipe, handlerVars, rpc, told, covers>>

\* A query for a file that still waits in list joins it and starts nothing.
JoinQuery ==
  /\ mpc = "lock" /\ owner = Nobody /\ list # <<>>
  /\ mpc' = "idle"
  /\ UNCHANGED <<owner, updating, shutdown, list, status, where, retry, updaterVars,
                 pipe, handlerVars, rpc, told, covers>>

\* Under the lock: push the file and count it.
PushFile(f) ==
  /\ mpc = "lock" /\ owner = Nobody /\ where[f] = "out"
  /\ list' = Append(list, f)
  /\ Add("total", 1)
  /\ Place(f, "listed")
  /\ mpc' = "run"
  /\ UNCHANGED <<owner, updating, shutdown, retry, updaterVars, pipe, handlerVars,
                 rpc, told, covers>>

\* run() after the push, a lock section of its own.
RunAfterLoad ==
  /\ mpc = "run" /\ owner = Nobody
  /\ CheckUpdate(Main)
  /\ mpc' = "idle"
  /\ UNCHANGED <<owner, shutdown, list, status, where, retry, todo, pipe, handlerVars,
                 rpc, told, covers>>

-----------------------------------------------------------------------------
(* update(): one step per access to what the OpenGL thread also touches.   *)

\* The flag is not cleared, so no other thread is ever started.
EnterKeepsUpdating(u) ==
  /\ upc[u] = "sleep" /\ owner = Nobody
  /\ IF shutdown THEN Upd(u, "none") /\ UNCHANGED owner
                 ELSE Upd(u, "error") /\ owner' = u
  /\ UNCHANGED <<updating, shutdown, list, status, where, retry, todo, pipe, handlerVars,
                 mpc, rpc, told, covers>>

\* The end of the 15 ms: update() begins, or ends if the loader is shut down.
EnterUpdate(u) ==
  /\ upc[u] = "sleep" /\ owner = Nobody
  /\ updating' = FALSE
  /\ IF shutdown THEN Upd(u, "none") /\ UNCHANGED owner
                 ELSE Upd(u, "error") /\ owner' = u
  /\ UNCHANGED <<shutdown, list, status, where, retry, todo, pipe, handlerVars,
                 mpc, rpc, told, covers>>

\* How many files to start: none while errors are outstanding.
CountFiles(u) ==
  /\ upc[u] = "error"
  /\ LET n == IF status.error > 0 THEN 0
              ELSE IF Len(list) > LoadSpeed THEN LoadSpeed ELSE Len(list)
     IN todo' = [todo EXCEPT ![u] = IF n = 0 THEN -1 ELSE n]
  /\ Upd(u, "speed")
  /\ UNCHANGED <<owner, updating, shutdown, list, status, where, retry, pipe,
                 handlerVars, mpc, rpc, told, covers>>

\* Enough requests are in flight: start none, and report nothing.
LimitSpeed(u) ==
  /\ upc[u] = "speed"
  /\ IF status.left >= LoadSpeed
     THEN todo' = [todo EXCEPT ![u] = 0] /\ Upd(u, "pop")
     ELSE UNCHANGED todo /\ Upd(u, "status")
  /\ UNCHANGED <<owner, updating, shutdown, list, status, where, retry, pipe,
                 handlerVars, mpc, rpc, told, covers>>

ReportStatus(u) ==
  /\ upc[u] = "status"
  /\ IF status.update
     THEN told' = told \cup {"status"} /\ Upd(u, "clear")
     ELSE UNCHANGED told /\ Upd(u, "pop")
  /\ UNCHANGED <<owner, updating, shutdown, list, status, where, retry, todo, pipe,
                 handlerVars, mpc, rpc, covers>>

ClearUpdate(u) ==
  /\ upc[u] = "clear"
  /\ status' = [status EXCEPT !.update = FALSE]
  /\ Upd(u, "pop")
  /\ UNCHANGED <<owner, updating, shutdown, list, where, retry, todo, pipe,
                 handlerVars, mpc, rpc, told, covers>>

\* list.pop() takes the last file.  Its request starts, or it is counted as
\* loaded because nothing handles its type, or starting it throws: then left
\* stays incremented for ever.
PopFile(u) ==
  /\ upc[u] = "pop" /\ todo[u] > 0
  /\ LET f == list[Len(list)]
     IN /\ list' = SubSeq(list, 1, Len(list) - 1)
        /\ \/ /\ f \in Unknown
              /\ status' = [status EXCEPT !.update = TRUE, !.count = @ + 1]
              /\ Place(f, "done")
           \/ /\ f \notin Unknown
              /\ status' = [status EXCEPT !.update = TRUE, !.left = @ + 1]
              /\ Place(f, "asked")
           \/ /\ f \in Faulty
              /\ status' = [status EXCEPT !.update = TRUE, !.left = @ + 1, !.error = @ + 1]
              /\ Place(f, "dropped")
  /\ todo' = [todo EXCEPT ![u] = @ - 1]
  /\ UNCHANGED <<owner, updating, shutdown, retry, upc, pipe, handlerVars, mpc,
                 rpc, told, covers>>

\* The end of update() without the test of left.
TestLeftForgotten(u) ==
  /\ upc[u] = "pop" /\ todo[u] <= 0
  /\ IF todo[u] = 0 THEN CheckUpdate(u) /\ owner' = Nobody
     ELSE Upd(u, "lasterr") /\ UNCHANGED <<owner, updating>>
  /\ UNCHANGED <<shutdown, list, status, where, retry, todo, pipe, handlerVars,
                 mpc, rpc, told, covers>>

\* Requests in flight or files started just now: come back in 15 ms.
TestLeft(u) ==
  /\ upc[u] = "pop" /\ todo[u] <= 0
  /\ IF status.left > 0 \/ todo[u] = 0
     THEN CheckUpdate(u) /\ owner' = Nobody
     ELSE Upd(u, "lasterr") /\ UNCHANGED <<owner, updating>>
  /\ UNCHANGED <<shutdown, list, status, where, retry, todo, pipe, handlerVars,
                 mpc, rpc, told, covers>>

\* Nothing is left: onFatal under the lock, or on to onReady without it.
TestError(u) ==
  /\ upc[u] = "lasterr"
  /\ owner' = Nobody
  /\ IF status.error > 0
     THEN told' = told \cup {"fatal"} /\ Upd(u, "none") /\ UNCHANGED covers
     ELSE /\ Upd(u, "post")
          /\ covers' = [covers EXCEPT ![u] = [
               started |-> {f \in File : where[f] \notin {"out", "listed"}},
               waiting |-> {f \in File : where[f] = "listed"}]]
          /\ UNCHANGED told
  /\ UNCHANGED <<updating, shutdown, list, status, where, retry, todo, pipe,
                 handlerVars, mpc, rpc>>

\* OpenGLThreadSync(onready): the updater waits for its answer.
PostReady(u) ==
  /\ upc[u] = "post"
  /\ pipe' = Append(pipe, u)
  /\ Upd(u, "wait")
  /\ UNCHANGED <<owner, updating, shutdown, list, status, where, retry, todo,
                 handlerVars, mpc, rpc, told, covers>>

\* onReady threw in the OpenGL thread: onFatal, under the lock.
CatchReady(u) ==
  /\ upc[u] = "catch" /\ owner = Nobody
  /\ told' = told \cup {"fatal"}
  /\ Upd(u, "none")
  /\ UNCHANGED <<owner, updating, shutdown, list, status, where, retry, todo, pipe,
                 handlerVars, mpc, rpc, covers>>

-----------------------------------------------------------------------------
(* HttpRequest in a thread of its own, then the answer in the OpenGL pipe.  *)

Respond(f) ==
  /\ where[f] = "asked"
  /\ Place(f, "answered")
  /\ pipe' = Append(pipe, f)
  /\ UNCHANGED <<owner, updating, shutdown, list, status, retry, updaterVars,
                 handlerVars, mpc, rpc, told, covers>>

-----------------------------------------------------------------------------
(* A thread h that drains the OpenGL pipe: the OpenGL thread, or release(). *)
(* It handles an answer without the loader's lock.                          *)

At(h, l) == hpc[h] = l
To(h, l) == hpc' = [hpc EXCEPT ![h] = l] /\ UNCHANGED job
Leave(h) == hpc' = [hpc EXCEPT ![h] = "idle"] /\ job' = [job EXCEPT ![h] = NoFile]

\* What no handler writes.
lockedVars == <<owner, updating, shutdown, list, todo, mpc, rpc, covers>>

TakeMessage(h) ==
  /\ At(h, "idle") /\ pipe # <<>>
  /\ h = Rel => rpc = "drain"
  /\ pipe' = Tail(pipe)
  /\ job' = [job EXCEPT ![h] = Head(pipe)]
  /\ IF Head(pipe) \in File
     THEN hpc' = [hpc EXCEPT ![h] = "check"] /\ Place(Head(pipe), "handled")
     ELSE hpc' = [hpc EXCEPT ![h] = "ready"] /\ UNCHANGED where
  /\ UNCHANGED <<lockedVars, status, retry, upc, told>>

\* onText, onData: nothing after shutdown; else the resource is built, in the
\* main thread if it is a sound, or that fails.
BuildResource(h) ==
  /\ At(h, "check")
  /\ \/ shutdown /\ To(h, "fail")
     \/ ~shutdown /\ To(h, IF job[h] \in Audio THEN "sound" ELSE "count")
     \/ ~shutdown /\ retry[job[h]] < MaxRetry /\ To(h, "fail")
  /\ UNCHANGED <<lockedVars, status, where, retry, upc, pipe, told>>

\* MainThreadSync(onCreateSoundCallback): the main thread is not in load().
CreateSound(h) ==
  /\ At(h, "sound") /\ mpc = "idle"
  /\ To(h, "count")
  /\ UNCHANGED <<lockedVars, status, where, retry, upc, pipe, told>>

\* onLoad, one atomic counter at a time.
CountLoaded(h) ==
  /\ At(h, "count")
  /\ Add("count", 1)
  /\ To(h, "left")
  /\ UNCHANGED <<lockedVars, where, retry, upc, pipe, told>>

LeaveLoaded(h) ==
  /\ At(h, "left")
  /\ Add("left", -1)
  /\ To(h, IF retry[job[h]] # 0 THEN "suberr" ELSE "update")
  /\ UNCHANGED <<lockedVars, where, retry, upc, pipe, told>>

\* One error is taken back, however often the file was retried.
SubtractOne(h) ==
  /\ At(h, "suberr")
  /\ Add("error", -1)
  /\ told' = IF status.error = 1 THEN told \cup {"retry"} ELSE told
  /\ To(h, "update")
  /\ UNCHANGED <<lockedVars, where, retry, upc, pipe>>

\* The errors of this file are over; onRetry if they were the only ones.
SubtractErrors(h) ==
  /\ At(h, "suberr")
  /\ Add("error", - retry[job[h]])
  /\ told' = IF status.error = retry[job[h]] THEN told \cup {"retry"} ELSE told
  /\ To(h, "update")
  /\ UNCHANGED <<lockedVars, where, retry, upc, pipe>>

MarkUpdate(h) ==
  /\ At(h, "update")
  /\ status' = [status EXCEPT !.update = TRUE]
  /\ To(h, "file")
  /\ UNCHANGED <<lockedVars, where, retry, upc, pipe, told>>

\* onFile, and onhttp_release frees the file.
TellFile(h) ==
  /\ At(h, "file")
  /\ Place(job[h], "done")
  /\ Leave(h)
  /\ UNCHANGED <<lockedVars, status, retry, upc, pipe, told>>

\* onError.
CountError(h) ==
  /\ At(h, "fail")
  /\ Add("error", 1)
  /\ retry' = [retry EXCEPT ![job[h]] = @ + 1]
  /\ To(h, "retry")
  /\ UNCHANGED <<lockedVars, where, upc, pipe, told>>

\* After a shutdown the file is dropped without onFatal.
RetryForgets(h) ==
  /\ At(h, "retry")
  /\ Leave(h)
  /\ IF shutdown THEN UNCHANGED where ELSE Place(job[h], "asked")
  /\ UNCHANGED <<lockedVars, status, retry, upc, pipe, told>>

\* onRetry: the request is repeated until it succeeds, unless the loader is
\* shut down.
Retry(h) ==
  /\ At(h, "retry")
  /\ IF shutdown
     THEN To(h, "fatal") /\ UNCHANGED where
     ELSE Leave(h) /\ Place(job[h], "asked")
  /\ UNCHANGED <<lockedVars, status, retry, upc, pipe, told>>

\* A file that failed for good stays in left.
FatalKeepsLeft(h) ==
  /\ At(h, "fatal")
  /\ UNCHANGED status
  /\ IF job[h] \in Forgiven
     THEN Leave(h) /\ Place(job[h], "failed")
     ELSE To(h, "faterr") /\ UNCHANGED where
  /\ UNCHANGED <<lockedVars, retry, upc, pipe, told>>

\* onFatal: a file whose own onError returns true leaves no error behind.
Fatal(h) ==
  /\ At(h, "fatal")
  /\ Add("left", -1)
  /\ IF job[h] \in Forgiven
     THEN Leave(h) /\ Place(job[h], "failed")
     ELSE To(h, "faterr") /\ UNCHANGED where
  /\ UNCHANGED <<lockedVars, retry, upc, pipe, told>>

CountFatal(h) ==
  /\ At(h, "faterr")
  /\ Add("error", 1)
  /\ Place(job[h], "failed")
  /\ Leave(h)
  /\ UNCHANGED <<lockedVars, retry, upc, pipe, told>>

\* onReady runs to its end, or throws to the updater that waits for it.
RunReady(h) ==
  /\ At(h, "ready")
  /\ \/ told' = told \cup {"ready"} /\ Upd(job[h], "none")
     \/ ReadyThrows /\ Upd(job[h], "catch") /\ UNCHANGED told
  /\ Leave(h)
  /\ UNCHANGED <<lockedVars, status, where, retry, pipe>>

-----------------------------------------------------------------------------
(* release(), by the thread that shuts the engine down.                     *)

releaseOthers == <<list, status, where, retry, updaterVars, pipe, handlerVars,
                   mpc, told, covers>>

BeginRelease ==
  /\ MayRelease /\ rpc = "none" /\ owner = Nobody
  /\ owner' = Rel /\ shutdown' = TRUE
  /\ rpc' = "spin"
  /\ UNCHANGED <<updating, releaseOthers>>

\* AtomicLockTry(&updating): taken, or the lock is left for usleep(1).
Spin ==
  /\ rpc = "spin"
  /\ IF updating THEN owner' = Nobody /\ rpc' = "again" /\ UNCHANGED updating
                 ELSE updating' = TRUE /\ rpc' = "test" /\ UNCHANGED owner
  /\ UNCHANGED <<shutdown, releaseOthers>>

SpinAgain ==
  /\ rpc = "again" /\ owner = Nobody
  /\ owner' = Rel /\ rpc' = "spin"
  /\ UNCHANGED <<updating, shutdown, releaseOthers>>

\* Requests in flight are not waited for.
WaitNothing ==
  /\ rpc = "test"
  /\ rpc' = "done" /\ updating' = FALSE /\ owner' = Nobody
  /\ UNCHANGED <<shutdown, releaseOthers>>

\* Requests in flight are waited for, with the lock held; else the loader may go.
WaitLeft ==
  /\ rpc = "test"
  /\ IF status.left > 0
     THEN rpc' = "drain" /\ UNCHANGED <<owner, updating>>
     ELSE rpc' = "done" /\ updating' = FALSE /\ owner' = Nobody
  /\ UNCHANGED <<shutdown, releaseOthers>>

\* OpenGLThreadMessageLooper found the pipe empty.
Drained ==
  /\ rpc = "drain" /\ At(Rel, "idle") /\ pipe = <<>>
  /\ rpc' = "test"
  /\ UNCHANGED <<owner, updating, shutdown, releaseOthers>>

-----------------------------------------------------------------------------

PushAny == \E f \in File : PushFile(f)

Load == BeginLoad \/ JoinQuery \/ PushAny \/ RunAfterLoad

Update(u) ==
  \/ EnterUpdate(u) \/ CountFiles(u) \/ LimitSpeed(u) \/ ReportStatus(u)
  \/ ClearUpdate(u) \/ PopFile(u) \/ TestLeft(u) \/ TestError(u)
  \/ PostReady(u) \/ CatchReady(u)

Handle(h) ==
  \/ TakeMessage(h) \/ BuildResource(h) \/ CreateSound(h) \/ CountLoaded(h)
  \/ LeaveLoaded(h) \/ SubtractErrors(h) \/ MarkUpdate(h) \/ TellFile(h)
  \/ CountError(h) \/ Retry(h) \/ Fatal(h) \/ CountFatal(h) \/ RunReady(h)

Release == BeginRelease \/ Spin \/ SpinAgain \/ WaitLeft \/ Drained

Next ==
  \/ Load \/ Release
  \/ \E u \in Updater : Update(u)
  \/ \E f \in File : Respond(f)
  \/ \E h \in Handler : Handle(h)

Spec == Init /\ [][Next]_vars

\* Every thread runs; a request is answered or times out.  Threads that poll the
\* loader's lock get it if it is free again and again: nobody holds it for longer
\* than a pass of update(), except release(), which sleeps between two tries.  The
\* main thread serves its messages in order, so a sound gets its turn.
FairSpec ==
  /\ Spec
  /\ SF_vars(JoinQuery \/ PushAny \/ RunAfterLoad)
  /\ SF_vars(Spin \/ SpinAgain \/ WaitLeft \/ Drained)
  /\ \A u \in Updater : SF_vars(Update(u))
  /\ \A f \in File : WF_vars(Respond(f))
  /\ \A h \in Handler : SF_vars(Handle(h))

-----------------------------------------------------------------------------

\* The types of the loader's state; none of its counters is ever negative.
TypeOK ==
  /\ owner \in Updater \cup {Rel, Nobody}
  /\ updating \in BOOLEAN /\ shutdown \in BOOLEAN
  /\ list \in Seq(File)
  /\ status \in [update : BOOLEAN, count : Nat, total : Nat, left : Nat, error : Nat]
  /\ where \in [File -> Stage]
  /\ retry \in [File -> 0 .. MaxRetry + 1]
  /\ upc \in [Updater -> {"none", "sleep", "error", "speed", "status", "clear", "pop",
                         "lasterr", "post", "wait", "catch"}]
  /\ todo \in [Updater -> -1 .. LoadSpeed]
  /\ pipe \in Seq(File \cup Updater)
  /\ hpc \in [Handler -> {"idle", "check", "sound", "count", "left", "suberr", "update",
                         "file", "fail", "retry", "fatal", "faterr", "ready"}]
  /\ job \in [Handler -> File \cup Updater \cup {NoFile}]
  /\ mpc \in {"idle", "lock", "run"}
  /\ rpc \in {"none", "spin", "again", "test", "drain", "done"}
  /\ told \subseteq {"status", "ready", "fatal", "retry"}
  /\ covers \in [Updater -> [started : SUBSET File, waiting : SUBSET File]]

Handling(f, locations) == \E h \in Handler : job[h] = f /\ hpc[h] \in locations

\* Requested, and not yet counted out of left.
InFlight(f) ==
  \/ where[f] \in {"asked", "answered", "dropped"}
  \/ Handling(f, {"check", "sound", "count", "left", "fail", "retry", "fatal"})

\* No file is lost or counted twice, by retries, failures or handlers that
\* interleave with update(): left counts the requests in flight, and those that
\* could not start; count those loaded, total all that were ever pushed.
Conservation ==
  /\ status.left = Cardinality({f \in File : InFlight(f)})
  /\ status.count = Cardinality({f \in File :
       where[f] = "done" \/ Handling(f, {"left", "suberr", "update", "file"})})
  /\ status.total = Cardinality({f \in File : where[f] # "out"})

\* The errors file f stands for: its failures until it loads, one more if it
\* fails for good, one if its request could not start.
ErrorsOf(f) ==
  CASE where[f] = "done" \/ Handling(f, {"update", "file"}) -> 0
    [] where[f] = "dropped"                                 -> 1
    [] where[f] = "failed" /\ f \notin Forgiven             -> retry[f] + 1
    [] OTHER                                                -> retry[f]

\* The outstanding errors of all files, those of a file numbered.
Errors == {e \in File \X (1 .. MaxRetry + 2) : e[2] <= ErrorsOf(e[1])}

\* error counts the outstanding errors: it falls to 0, and onRetry is called, exactly
\* when no file has failed that has not loaded since.
ErrorBalance == status.error = Cardinality(Errors)

\* The updating flag: one thread at a time is on its way to update(), or
\* release() holds the flag so that none can be.
OneUpdater ==
  Cardinality({u \in Updater : upc[u] = "sleep"}) +
    (IF rpc \in {"test", "drain"} THEN 1 ELSE 0) = (IF updating THEN 1 ELSE 0)

ReadyRuns(u) == \E h \in Handler : At(h, "ready") /\ job[h] = u

\* Whenever onReady runs, every file whose request had been started when it was
\* decided is done with, onFile included, although update() sees counters only:
\* the messages of the OpenGL pipe are served in their order.  While release()
\* drains the pipe beside the OpenGL thread they are not.
ReadyAfterStarted ==
  \A u \in Updater : ReadyRuns(u) /\ ~shutdown =>
    \A f \in covers[u].started : where[f] \in {"done", "failed"}

\* Once release() has ended, no request can come back to the loader, no thread is
\* on its way to update(), and a handler still inside it is past its last use of
\* left.
ReleasedQuiet ==
  rpc = "done" =>
    /\ owner \notin Updater
    /\ \A u \in Updater : upc[u] \in {"none", "post", "wait", "catch"}
    /\ \A f \in File : ~InFlight(f)

\* release() holds the loader's lock until nothing is left, a sound waits for the
\* main thread to create it, and the main thread waits in load() for the lock.
SoundStandoff ==
  /\ rpc \in {"test", "drain"} /\ mpc \in {"lock", "run"}
  /\ \E h \in Handler : At(h, "sound")

\* A file whose request was started is loaded, or has failed after a shutdown,
\* unless sound, load() and release() stand off.
StartedEnds ==
  \A f \in File : where[f] = "asked" ~> where[f] \in {"done", "failed"} \/ SoundStandoff

\* release() comes to its end, unless they stand off, or a request that could not
\* start keeps left above 0.
ReleaseEnds ==
  rpc = "spin" ~> \/ rpc = "done"
                  \/ SoundStandoff
                  \/ \E f \in File : where[f] = "dropped"

\* Every file that is pushed is loaded, unless the loader is shut down or a request
\* fails, or could not start, meanwhile.
PushedLoads ==
  \A f \in File :
    where[f] = "listed" ~> \/ where[f] = "done" \/ shutdown
                          \/ \E g \in File : retry[g] > 0 \/ where[g] = "dropped"

\* Loading ends in a call of onReady or onFatal, whatever requests fail, unless the
\* loader is shut down or a request that could not start keeps left above 0.
LoadingTold ==
  status.total > 0 ~> \/ told \cap {"ready", "fatal"} # {} \/ shutdown
                      \/ \E f \in File : where[f] = "dropped"

\* onFatal: "on a fatal error of loading", so some file failed for good (or
\* onReady threw).
FatalTruly ==
  "fatal" \in told => ReadyThrows \/ \E f \in File : where[f] \in {"failed", "dropped"}

\* onReady: "after the loading of all resources", those pushed before update()
\* decided to call it.
ReadyTruly ==
  \A u \in Updater : ReadyRuns(u) =>
    \A f \in covers[u].started \cup covers[u].waiting : where[f] \in {"done", "failed"}

\* What uLoader.h says of the two callbacks that tell the end of the loading.
ToldTruly == FatalTruly /\ ReadyTruly

\* The four counters by which update() and release() decide are exact at any moment.
Counters == TypeOK /\ Conservation /\ ErrorBalance

\* Whatever load() was given comes to its end, and the application is told.
LoadingEnds == PushedLoads /\ LoadingTold
=============================================================================
