# Jappsy: a verification project in TLA+

Jappsy is a small game engine for iOS and Android written in C++ and
Objective-C++, with a thin Java shell on Android. This directory holds TLA+
models of its core on Android, the TLC runs that check them, and
TLAPS proofs. Paths below are relative to the repository;
`INC` stands for `src/common/include`, `JNI` for
`src/platform/Android/libJappsyEngine/src/main/jni/libJappsyEngine-jni.cpp` and
`VIEW` for `.../libJappsyEngine/src/main/java/com/jappsy/JappsyView.java`.

## 1. Inventory

| Component | State | Operations | Correct when | Status |
|---|---|---|---|---|
| Object lock, `INC/data/uObject` | `m_lock`, `m_thread`, `m_lockCount` | `lock`, `lockTry`, `unlock` | one owner, exact depth, nobody left out | modelled, proved |
| Thread messages, `INC/core/uSystem.mm` | two pipes, an event counter, one `ThreadSyncData` per Sync call | `MainThreadSync/Async`, `OpenGLThreadSync/Async`, `NewThreadAsync`, the drain loop | each callback once, each caller gets its own answer, no use of a freed block | modelled, proved |
| Loader, `INC/net/uLoader` | list of files, five counters, flags `updating` and `shutdown` | `load`, `query`, `update`, the HTTP callbacks, `release` | counters exact, every file settled and told, `release` ends and ends last | modelled, safety proved; JSON list left out |
| HTTP client, `INC/net/uHTTPClient.mm` | one block per request: cached stream, answer, retries | request, retry, cancel, last resort, release | each request is accepted or fails once, and is then released; it ends | asynchronous requests modelled, safety proved |
| Cache, `INC/core/uCache.mm` | one file per path with the server's date, disk lock | get, add | never half a file, a date that is its content's, the lock given back | get and add modelled and proved, with the HTTP client |
| Engine lifecycle, `JNI` and `VIEW` | handle, `running`, `stopping`, thread id, gate, audio player | create, draw, surface changes, pause, resume, stop, delete | no deleted context is used, none is leaked, sound follows the context, threads do not block each other | modelled, safety proved; volume left out |
| Audio, `INC/sound` | up to 16 players, sounds, pause flags, a lock each | play, pause, stop, volume, delete, take a player over, callback at the end | sound and player agree, pause and resume restore what played | modelled, safety proved; loading left out |
| GL sounds, `INC/opengl/uGLSound.cpp` | music and effects lists | play, fade, end | no ended sound in the lists | planned |
| Touch, `INC/event`, `INC/opengl/uGLTouchScreen.cpp` | pointers, recorded points, areas entered | down, move, up, cancel, timeout | pointers are fingers, areas entered are left, touches are told | modelled for constant lists of areas, safety proved |
| JSON, `INC/data/uJSON.cpp` | a text, a tree, a table of callbacks | check, parse, call | one grammar, nothing leaked, callbacks in pairs | readers modelled, their scanners proved |
| Vector, String, Stream, `INC/data` | buffers | push, pop, remove | bounds, order | planned |
| URI, ciphers, checksums | none | normalise, encode | against a definition | URI planned |
| Memory pool, `INC/core/uMemory` | page lists | alloc, free | | never compiled (`MM_VIRTUAL` is 0) |
| Files, images, GL rendering, iOS and Windows shells, example game, vendored jpeg, png, zlib | | | | not modelled: I/O, codecs, drawing, other platforms, third party |

How the parts interact. Threads: the *main* thread (Java UI, `ALooper`), the
*OpenGL* thread of `GLSurfaceView`, and threads made by `NewThreadAsync`: one for
each HTTP request, one for each pass of the loader, one for each engine that is
shut down. They talk through the two message pipes. The loader is driven by its
update threads; its requests answer in the OpenGL thread, where resources are
built; sounds go on to the main thread. Shutting the engine down calls
`Loader::release` in a thread of its own and then has the main thread delete the
engine. Most objects use the object lock; the loader's counters do not. Every thread
may use sounds; the main thread pauses and resumes them with the context; OpenSL ES
calls back in threads of its own. Touches stay in the main thread.

What is hard to test here: interleavings of handlers without a lock with a pass
of `update()` that holds it; a handshake made of one lock taken twice; a drain
loop that two threads run and that returns early on errors; three threads that
wait for one another in shutdown; deletion of a context while three threads hold
its handle; a cache file rewritten in place while others read it, or while the
process dies; players that are taken from one sound by another under three
kinds of locks; ends of touches that never arrive; three copies of one grammar with
their own error paths. PROJECT.json lists each hazard at its line.

## 2. Modules

| Module | Models |
|---|---|
| `ReentrantLock` | abstract: what `CObject::lock` promises |
| `ObjectLock` | the three operations, one action per atomic instruction; refines `ReentrantLock` |
| `ObjectLock_proofs` | theorems about `ObjectLock` |
| `RemoteCall` | abstract: what a Sync or Async call promises |
| `ThreadMessages` | pipes, counter, handshake, nested calls; refines `RemoteCall` |
| `Loader` | the loader and the requests it starts |
| `RequestContract` | abstract: what `HTTPClient::Request` promises its caller |
| `HTTPRequests` | requests, the cache file they share, the server, the death of the process; refines `RequestContract` |
| `EngineLifecycle` | contexts between three kinds of threads, and the audio player |
| `OpenSLAudio` | sounds, players, context and their locks |
| `TouchScreen` | motion events, pointers, tracked areas, gestures |
| `JSONText` | how the three readers go over spaces, comments, numbers and strings |
| `JSON` | the three readers as operators on texts |
| `..._proofs` | theorems about `ThreadMessages`, `Loader`, `HTTPRequests`, `EngineLifecycle`, `OpenSLAudio`, `TouchScreen` and `JSONText`, each in a module of its own |
| `MC...` | instances for TLC |

### ObjectLock
`pc[t]` says between which two instructions a thread is, `op[t]` which operation it
is in. `held[t]` is the caller's account: `lock` calls that returned minus `unlock`
calls begun. Callers unlock only what they hold (`Call`); `threadUnlock` itself does not
look at the owner. `AtomicLock` on `m_lock` is one step that waits. A step of
`CheckOwner` stands for both compare-exchanges: the second is true only for the
calling thread, so nobody can come between.

### ThreadMessages
`stack[t]` is a thread's call stack, so that callbacks can make calls, Sync
callbacks wait inside callbacks, and calls on the caller's own thread run in place.
`pipe` holds messages; `events` is `openglThreadMessagePipeEvents`, incremented
and decremented apart from the pipe as in the code. `syncData[c]` is the
block of a Sync call; it is `live` from allocation to the caller's `memFree`.
Callbacks either return or throw (`Throws`). The calls of a run are a tree
(`Parent`, `Target`), taken in `MCThreadMessages` from what the engine does while it
loads. An exception out of an Async callback ends the process (`crashed`).
Running out of memory is left out. The new thread's id (`NewThreadRun`) has no
effect on messages.

### Loader
One action per access to data that two threads use without a common lock: the
counters `left`, `count`, `error`, the flag `update`; a longer stretch is one
action when all it touches is under the loader's lock. `owner` is that lock,
justified by `ObjectLock`. `where[f]` follows a file: in the list, asked, answered in
the OpenGL pipe, being handled, done. The pipe is a sequence, as `ThreadMessages` shows
it may be; a message is taken by the OpenGL thread or by `release()`, which calls
`OpenGLThreadMessageLooper` while it waits. `CheckUpdate` starts the next
update thread under the flag `updating`. The 15 ms sleeps and the pauses of retries
are arbitrary delays. Extensions matter only as unknown, as sound, or neither. `covers`
is history: what a pass of `update()` had started, and what still waited, when it
decided to call `onReady`. The errors a file stands for (`ErrorsOf`) are numbered, so that
`ErrorBalance` compares `error` with the size of a set.

### EngineLifecycle
`gl` and `main` are the places of the two threads inside the Java and native methods,
with the handle each has read. `life[c]` says whether the context's memory is valid.
`shut[c]` is the thread `onStop` starts. `parked` and `pauseReq` model
`GLSurfaceView`, which is not in the repository: `onPause` waits until the
OpenGL thread has parked between frames, `onResume` until it has left. `gate` is
`OpenGLThreadLock`. `BeginSurface` is the overrides of `surfaceCreated`, `surfaceDestroyed`
and `surfaceChanged`, which take the same lock; `SurfaceChanged` is `onUpdate`. `audio` says whether
the audio player plays and, as history, whether calls of two threads crossed.

### OpenSLAudio
`soundLock` and `playerLock` are the `CObject` locks (justified by `ObjectLock`), `mixLock`
the lock of `uMixer.cpp`. A step ends where the code next waits for a lock, so `call[t]` has
one place per lock, and `event[p]` is the place of a player's callback. `getFreePlayer` visits
the players in any order, one lock at a time; the age of a player only decides
which stopped or playing one it chooses, so `TakePlayer` takes any. `OPENSL_CHANNELS` is
`Cardinality(Player)`. OpenSL may refuse a player's object (`refused`), may tell of the end of a
sound late (`HeadAtEnd`), and is otherwise external. Deleting a sound is a call like the others;
nobody uses a sound once deleted, but for its last player, whose `stop` may still reset it: its destructor
has taken its lock for good, so such a reset may pass or wait for ever (`SoundFree`). `SetSound` is refused
before it touches the old sound, or late, when it resets it.

### HTTPRequests and RequestContract
A request goes from its thread (load the cached file, ask, save) through the OpenGL
pipe to its handler, and on refusal to a thread that sleeps and asks again. `file` is the cached
file: a version of the resource, whether all of it is there, its date, and which mishap befell
it. `SaveOpen` truncates it, `SaveWrite` and `SaveDate` follow, all with the cache's lock;
`Load` tests whether that lock is free and reads in the same step. `Verdicts` are the answers of
`Loader`'s handlers: a text is refused when its version is in `Bad`; a sound opens the file by
its path and accepts whatever is there. An exception without a message passes for an answer without
contents, which is saved (`DownloadNothing`). `Publish` is the server; `Die` ends the process
at any step and starts a new one with the same disk. `Lose` is the full pipe of
`ThreadMessages`. Time is counted in versions.

### TouchScreen
`fingers` is the glass, `pointers` the list of `motionEvent`; both differ when `onTouch` drops
an event because the context does not run. Places are points of a line; `Inside[a]` is an area.
`trackingList` and `trackingLast` are the two vectors of `recordTrack`, which walks over `Areas` in
their order (`walk`, a recursive function; `Repeated` for several pointers that move), with `handled` for what the handlers answer. `gesture` and `told` are the history
of what really happened. `analyze` is `Outcomes`: which kind of gesture it makes of the points is
left open, and whether it makes a click, a gesture or nothing is not.

### JSON
A text is a sequence of classes of characters, a reader an operator from position to position
with a verdict; `More` and `Wrong` are the error codes `UNEXPECTEDEND` and `SYNTAX`. The scanners of
`JSONText` share that form; their loops are recursive functions of the position, so that they can be
proved about, and what the copies of them do differently is a parameter (`taken`, `step`). `Next`
appends a character as long as some reader could accept more, so TLC visits every text up to
the bound once. `JsonParse` also returns the nodes it made, those it destroyed (a bag, as
a sequence) and those the tree owns; `JsonCall` the log of callbacks, with the one that throws
(`boom`) and the kinds that have a callback (`heard`). The grammar of `Grammar` and `NumbersAsDocumented`
is written from the regular expression in the comments (`uJSON.cpp:61`) and the shape of JSON, apart from
the readers. Strings have bytes of UTF-8 and single hexadecimal digits, so a text may end inside of either;
of the digits "0" and "9" are there, of the hexadecimal letters "D" and "d", enough for surrogates.

## 3. Runs

| Run | Bounds | Properties |
|---|---|---|
| `lock` | 3 threads, depth 2 | `MutualExclusion`; `IInv`, the inductive invariant with the types; `Refines` the reentrant lock; `Progress`: `unlock` and `lockTry` return, waiting threads do not shut each other out |
| `messages` | 8 calls, 5 threads, 2 drain the OpenGL pipe, pipes of 2 messages | `Handshake`: answers go to a live and locked block; `EventsExact`: the counter of messages; `Refines` the remote call; `LossContained`: each call is answered if no Sync message was lost |
| `loader` | 3 files (one unknown, one forgiven sound), 2 retries, 2 requests at a time, `onReady` may throw, release at any time | `Counters` exact; `OneUpdater`; `ReadyAfterStarted`: `onReady` after all that was started; `ReleasedQuiet` |
| `loader_live` | 2 files (a sound, one that may not start), 1 retry, 1 request at a time | `StartedEnds`, `LoadingEnds`: files are settled and loading is told; `ReleaseEnds` |
| `engine` | 2 contexts | `GLUsesLive`; `Handles`: none leaked, none dangling but while `onStop` returns; `ThreadIdKept`; `AudioFollows`: sound plays while a context runs, and only then; `StoppedDeleted` |
| `audio` | 3 sounds, 2 players, 2 threads | `OneOwner`, `NoOrphan`, `HeardOrMarked`: a sound and its player agree; `Background`: silent, and back as before; `Locks`: given back, and one place only where threads can wait for each other |
| `requests` | a text without a limit of retries and a sound with 1, 2 versions, the first one bad, 1 death | `DiskIntact`, `ConfirmedIsCurrent`, `KeepsContract` (refinement); `RequestEnds`; `GoodLoads`: retries come to the last version |
| `touch` | 2 fingers, 2 overlapping areas, 4 places, 1 end that is lost | `PointersFollow` the fingers; `TracksAreas`; `ShortTouchTold` |
| `json` | texts of up to 7 to 18 characters over ten alphabets, numbers of at most 3, any callback throws | `Grammar`, `SameLanguage` of the three readers, `NodesOwned`, `EndsPaired`, `ToldAsBuilt`, `Boundaries` |
| `loader_told`, `engine_standoff`, `json_numbers` | as small as the behaviour allows | violated: disagreements of code and documentation, section 5 |

Each property has a mutant in PROJECT.json, an operator beside the one it
changes, whose comment names the bug, that breaks it.

Why the bounds suffice. Three threads let one hold the object while two compete;
depth 2 tells the last unlock from the others. The tree of calls has each kind of
call in each direction, a Sync inside a Sync, and an Async that answers from a
third thread; a fourth writer adds no new pair of actions. Pipes of two
messages hold one behind another, and three writers overrun the OpenGL one, Sync or Async. Files do not
interact but through counters and their order, so a third file only adds
"some other"; two retries tell one from all. Each handler is one of two, as in
the code. Updaters (3 in `loader`, 2 in `loader_live`): one sleeps or runs, the others wait for
`onReady`. Two contexts overlap by one shutdown; a context once deleted plays no
further part. Three sounds on two players make a sound lose its player while
another one has none; two threads and two callbacks meet at each pair of locks. Two
requests share the file in each pair of places; with two versions one is old and bad and the
other new and good; after one death the process starts with what the first left. Two fingers
tell the first pointer from the others, two areas overlap, one is left while the other
is entered. Ten characters hold a container in a container with an error behind it, a
number with all its parts, two characters of UTF-8; the texts that begin inside an escape are long enough
for four digits and a second escape behind them. In `loader` updaters are symmetric, in
`audio` sounds, players and threads. CHECK_DEADLOCK is off where the system comes to
rest (all loaded, released; no context left; requests over; a text complete) or where
waiting for ever is part of what is studied (a lost Sync message, a stand-off); in `audio`, `Locks` checks it.

Fairness. ObjectLock: a thread inside an operation goes on (weak), and one polling
the spin lock is not unlucky for ever (strong); `AtomicLock` is a loop with `usleep`
and holders keep it for a few instructions. ThreadMessages: every thread that can
move does (weak). Loader: threads run; those that poll the loader's lock, and the
thread that drains a pipe for others, get their turn (strong), because holders
release it after a pass and `release()` sleeps between tries; requests are answered
or time out. EngineLifecycle: threads go on; the user owes nothing, so drawing,
pausing, stopping have no fairness. Neither has the return of `engine->shutdown()`: it is
`Loader::release()`, which may wait for ever, as `ReleaseEnds` shows, and `StoppedDeleted` names that
beside the two stand-offs as its exception. HTTPRequests: each request's threads get
their turn (strong: they wait for the cache's lock among others), and the server answers again
and again (strong, as an answer may be no connection); publishing, shutdown and death have no
fairness. `RequestEnds` and `LossContained` ask for a time when none is left open, which is the same as that
each one ends, since each begins once, or once more after a death. `retry` without a limit ends only by an answer the handler accepts, so `GoodLoads`
speaks of the time after the last version.

## 4. Proofs

Each component has its theorems in a module of its own, for every value of the constants
that the named assumption of the model allows. All but `JSONText_proofs` have the same shape: an inductive
invariant `IInv` (checked by TLC on the instance of the component's run, and on others,
before it was proved), one lemma per action, `Invariance` (`Spec => []IInv`), and from it the
properties the runs check.

| Module | Theorems | Assumption |
|---|---|---|
| `ObjectLock_proofs` | `TypeCorrect`; `Exclusion`: `[]MutualExclusion`; `Refinement`: `Refines` | `NoThread` is no thread, `MaxDepth` is positive |
| `ThreadMessages_proofs` | `HandshakeKept`; `EventsCounted`: `[]EventsExact`; `Refinement`: `Refines` | any tree of calls, pipes of any positive size; the assumption names who calls whom |
| `Loader_proofs` | `CountersExact`; `OneUpdaterKept`; `ReadyComesAfter`; `ReleasedIsQuiet` | finitely many files, any updaters; threads, files and updaters are distinct |
| `HTTPRequests_proofs` | `DiskKept`; `ConfirmedCurrent`; `ContractKept`: `KeepsContract` | any requests, versions, deaths; the retries of a request are -1 or a number |
| `EngineLifecycle_proofs` | `HandlesKept`; `OnlyLiveUsed`; `ThreadFound`; `AudioKept` | `NoContext` is no context |
| `OpenSLAudio_proofs` | `OneOwnerKept`; `NoOrphanKept`; `HeardKept`; `BackgroundKept`; `LocksGivenBack`; `LocksKept`: `[]Locks` | threads of the application are not those in which OpenSL calls back; there is a player |
| `TouchScreen_proofs` | `PointersKept`; `AreasKept`: `[]TracksAreas`; `ShortTouchesTold`: `ShortTouchTold` | any list of areas and any fingers; places are integers |
| `JSONText_proofs` | `ScannersKept`, `CommentsEnd`: what `Boundaries` says of scanners and comments, for every text | no character of a text is its terminator, any size of the buffer for numbers |

### ObjectLock
Mutual exclusion is not inductive: a step of `CheckOwner` must know that the owner
field is empty only when nobody has a level. `IInv` adds `SpinLockExact` (at most one
thread between `spinLock` and `spinUnlock`, and `m_lock` says so), `Program` (an
operation visits its own locations) and `Ownership` (`m_lockCount` is the number
of `Levels` of the one thread that has any, and that one is `m_thread`). The refinement
maps the owner to `m_thread` while `m_lockCount > 0`: lock takes effect at the increment,
unlock at the decrement.

### ThreadMessages
That the block of a Sync call is live when it is written to depends on where its
caller is, and on nobody else answering. `IInv` therefore follows each call through the
stacks and pipes: `Stacked` says what a frame may work on and on which frame it lies (what a
throwing Sync callback unwinds is the loop that read its message), `Once` that a call has one
caller's frame, one message or one runner's frame, in one place each, and `Stages` what block,
outcome and callback are at each of these places. Frames are counted from the bottom, so that
a push or a pop leaves the others where they are. `EventsExact` then needs that a step moves one
thread between the sets that `events` makes up for. The refinement maps a call to its
stage in `RemoteCall`; a step that touches no stage is a stutter.

### Loader
`update()` and `release()` decide by counters which handlers change without a lock, so the
counters must be exact between any two of their instructions. `IInv` has the stop of each
file (`Stops`: what has become of it, or the step of its handler), and `Tally`, the counters as
functions of the stops: each step moves one file from one stop to another, and `Balance`
shows that they follow if the step changes them by what the two stops stand for. `Handled` and
`Piped` say that a file has one handler or one message; `Waiting` that `list` has each
file once, and enough of them for `update()` to pop; `Retried` why `retry` stays within its bound and that a
file is repeated only before a shutdown; `Locking` and `Flagged` who has the lock
and the flag `updating`. `Covered` is what makes the counters tell the truth later on: once an updater
has read `left == 0`, every file that was started stays counted out until it
calls `onReady`, though others are pushed and started meanwhile. `ReadyAfterStarted` then
follows from the one handler that the OpenGL thread is, `ReleasedQuiet` from the same fact at the
end of `release()`.

### HTTPRequests
`DiskIntact` speaks of the file alone and is not inductive: `Disk` says who
writes it and that he has the lock, `RequestOK` that what a request has read, or is about
to write, is whole and dated no later than the server modified it (`Dated`, unless a mishap is
on record). `ConfirmedCurrent` is an action property: the step that takes a 304 compares dates, and by
`Dated` equal dates mean the same version. `ContractKept` proves the initial state and each
step to be one of `RequestContract` or a stutter.

### EngineLifecycle
Whether a handle is valid depends on the places of the two threads that hold it.
`Handover` says for every place whose handle it is, in which stage of its life the context is
(`Stages`), that the view's context is alive but where the OpenGL thread is about to
forget it (`ViewAlive`), and `NoneLost`; `GateHolder` that the gate has one holder; `AudioExact` what the player does
at each pair of places, as long as no two calls crossed.

### OpenSLAudio
`Owners` ties each lock to the places of the calls and callbacks that have it; `Alive` and
`Listed` say what is deleted and what is in the list of players. `OneOwner` is inductive only
with `Owned`: a sound on its way to another player has left its last one. `Flags`, `Heard`
and `Follows` allow flags, player and context to differ only while a call in progress, which has the lock,
explains it; `NoOrphan`, `HeardOrMarked` and `Background` are what remains when none is.
`Locks` says that nobody waits for ever but in `ResetWait`, in terms of the locks each place asks
for (`GoesOn`, `CallsBack`). The argument of `OnlyResetsWait` is the order of the locks: without a
reset that waits, nobody has a player; so nobody waits for one, and who has a sound goes on; so
nobody waits for a sound. It needs `Robbed` besides `IInv`: a player that is stolen has a sound.

### TouchScreen
`HandsInv` is about the list of pointers: the first pointer, which every handler reads, is where the
first finger is whose start arrived, because both lists keep their order when one of their elements is
removed (`RemoveAtSrc`). `ScreenInv` is about the touch: `Tracks` that no area is in the vectors twice
and what each was told adds up to its last place, `Quiet` that nothing of a touch outlives it, its
timeout and its cancellation neither, `Recorded` that one recorded point means that the finger has not
moved and that the timeout is what the finger did. `ShortTouchTold` is what `onTouchEnd` makes of them.

`recordTrack` is defined by recursion along the list of areas. Library theorems about induction take an
operator as a parameter and cannot be used here; the module proves induction for sets (`SetInduction`,
from the well-foundedness of <) and that a recursive function exists (`RecursionExists`), and with them
that `recordTrack` keeps the vectors in step for a list of any length (`WalkExists`), and leaves
all areas when the touch ends (`RecordTrackLeaves`).

### JSONText
A loop of a scanner stops with a verdict or goes on from a later position. `LoopExists` shows that the
recursive function of such a loop is one, `LoopStays` by induction from the end of the text
(`Backwards`) that its verdicts stay in the text, if the loop only goes on from characters it has seen
not to be the terminator (`Steady`). For each of `Beyond`, `Opening` and `String` it remains to show
where its body goes on. That a block comment ends at the right place (`EndsRight`) follows by the same
induction; a "*" takes its successor with it, so it says how far behind its start a comment must
end. These are theorems about the operators, as `JSON` reaches recursive ones and can hold none.

### Left to TLC
* Liveness: `Progress`, `LossContained`, `StartedEnds`, `LoadingEnds`, `ReleaseEnds`, `StoppedDeleted`,
  `RequestEnds`, `GoodLoads`. The prover has no rule for the strong fairness they need.
* `JSON`: the readers themselves (`Grammar`, `SameLanguage`, `NodesOwned`, `EndsPaired`, `ToldAsBuilt`, and
  the types in `Boundaries`) are mutually recursive operators, which no prover here can unfold.
* The three violated properties, which no theorem can state.

## 5. Where code and documentation disagree

`loader_told` (`ToldTruly`): what `uLoader.h` says of the two callbacks that end the loading.

* `onLoad` decrements `left` before it takes
  a file's retries back from `error`. A pass of `update()` in between finds
  `left == 0` and `error > 0`, calls `onfatal` and schedules nothing; all has loaded,
  and `onready` never comes. `uLoader.h:109` documents `onfatal` for fatal errors.
* While errors are outstanding `update()` forces
  `count` to -1, its mark for an empty list. If the retry succeeds before the
  tests at the end, `onready` is called with files still in the list, and nobody will start
  them. `uLoader.h:107` documents `onready` for after all resources. For this
  reason `PushedLoads` excepts runs with failures.

`engine_standoff` (`NoStandoff`): what the "ANTI-DEADLOCK OVERRIDES" (`VIEW:310`) are for.

* The gate in `onFrame` is tried and
  freed at once, before the looper runs, and `onRender` is outside it. A callback that
  waits for the main thread and `onPause`, which waits for the OpenGL thread, can
  block each other.
* `onSurfaceCreated` calls the view's `onResume`
  in the OpenGL thread, which waits for the gate the main thread holds in `onPause`.

Each of these two properties is a conjunction (`FatalTruly`, `ReadyTruly`; `CallStandoff`,
`GateStandoff`); a run shows the shortest trace, and each conjunct is violated by itself in
the same instance.

`json_numbers` (`NumbersAsDocumented`): the regular expression in the comments of the three scanners
of numbers (`uJSON.cpp:61`, `976`, `2783`).

* After "-" no digit need follow: `{"":-}` is accepted, and so are -.5 and -e1. `Grammar`, which holds
  `JsonCheck` to the same expression, excepts such texts (`BareMinus`).

Seen while modelling, without a document to hold them to, and exempted by name in
the properties where they matter: `release()` holds the loader's lock while it waits
for a sound that needs the main thread, which may wait for that lock in `load()`
(`SoundStandoff`); a request that throws while it starts leaves `left` above 0
(`where[f] = "dropped"`); `release()` does not wait for an updater inside
`OpenGLThreadSync(onready)` (`ReleasedQuiet` lists where it may be);
with `release()` draining beside the OpenGL thread, messages overtake each other
(`ReadyAfterStarted` speaks of the time before).

* Engine: a pause during the creation of a context can leave the audio playing, and an
  `onStop` between the two tests of `onResume` too (`crossed`). `isMixerPlaying` returns nothing
  when there is no context; `setMixerVolume` posts a context that may be deleted by then.
* Audio: `stop()` of a player locks player, then sound, and every other call sound, then player
  (`ResetWait`). A sound played in the background on a stopped player is marked, but `resume`
  starts only paused ones. `OpenSLSound::pause` does not look whether the player is
  still its own. A deleted sound stays in `player->sound`, and a later `stop` of that player locks and
  resets it. The callback of an old sound that
  comes late stops the new one (and tells it so).
* Requests: a file torn by the death of the process keeps the local clock's date; a 304 confirms
  it, and a request without a limit of retries asks for ever until the server has a newer
  version (`GoodLoads`). Answers without a date are dated by the local clock. Bad answers are
  saved before the handler refuses them, also with `cache == false`. A download that breaks off with an
  exception without a message is saved as an empty file with the local clock's date. The loader's requests
  (`retry == -1`) never get to the last resort. A sound opens the cached file by its path,
  not under the cache's lock. `Expires` is used as a modification date.
* Touch: after the end of a touch is lost its pointer stays, and `getPointer(0)` is no finger.
  `ACTION_CANCEL`, which ends all touches, removes one pointer.
* JSON: a comment before the root is accepted by `JsonCall` alone, as the others read its last
  character again. `/***/` is not ended by its `*/`, and a block comment may end with the text.
  `\u` with
  b to f is an error in `JsonCall`, and a surrogate pair in `JsonParse` and `JsonCall` (the test
  at `uJSON.cpp:1280` looks at `ch` in place of `utf16_2`). A key is destroyed twice when its object fails
  behind the value. A start callback that throws leaves the table of callbacks it has installed.
* GL sounds, read and not modelled: `update()` walks the list of effects while the last step of a
  fade deletes them; a sound made anew leaves its old effect dangling.

## 6. Not modelled

* Third-party code (jpeg, png, zlib, the bulk of the repository's lines), the example game, and
  the shells of iOS and Windows.
* Drawing and codecs: no state between calls but matrices and buffers.
* The memory pool: `MM_VIRTUAL` is 0 in every build.
* Synchronous requests, sockets and headers; the HTTP client of iOS; out-of-memory exits, among
  them those of the cache that leave its lock taken (`uCache.mm:360`), and
  `load(NULL)`, which leaves the loader's (`uLoader.cpp:323`).
* Loading of sounds, and the start and end of OpenSL itself.
* `trackEvent` and `clickEvent` while events arrive, which the example game calls from the
  OpenGL thread; mouse handlers and multi-touch, which nobody calls.
* JSON: the wide copies of each reader, accessors, cloning, encoding.
* `Loader`: the JSON list of files and path helpers.

## 7. Plan

Done: the modules above, and the proofs about all of them but the readers of `JSON`
(their scanners are proved).

1. `GLSound`'s lists; deletion of the loader as a state, for the updater and handler
   that `ReleasedQuiet` lists.
2. Pure algorithms over bounded inputs: `URI` path normalisation, `Vector` growth and removal.
