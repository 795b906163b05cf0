---------------------------- MODULE HTTPRequests ----------------------------
(***************************************************************************)
(* Requests for one resource and the file the cache keeps of it:           *)
(* HTTPClient::Request and what it starts (uHTTPClient.mm, Android), with  *)
(* Cache::getData and addData (uCache.mm), the HTTP client in Java, and    *)
(* the handlers of the loader that decide over an answer (uLoader.cpp).    *)
(*                                                                         *)
(* A thread of its own loads the cached file, asks the server for what is  *)
(* newer, and saves the answer; the OpenGL thread offers the stream to its *)
(* handler, and on refusal lets another thread sleep and try again.  The   *)
(* cache rewrites its file in place, and the process may die at any time.  *)
(*                                                                         *)
(* Time is counted in versions of the resource: version v was modified at  *)
(* v, and a file written while the server has v is dated v by the clock.   *)
(***************************************************************************)
EXTENDS Integers

CONSTANTS
  Request,     \* requests for the same resource
  Sound,       \* those whose handler opens the cached file by its path
  Retry,       \* Retry[r]: retries of request r, -1 for no limit
  Bad,         \* versions the handlers refuse
  MaxVersion, MaxDeaths, \* bounds: versions of the resource, deaths of the process
  NoRequest, NoStream

ASSUME RequestAssumption ==
  /\ Sound \subseteq Request /\ NoRequest \notin Request
  /\ Retry \in [Request -> Nat \cup {-1}]
  /\ MaxVersion \in Nat \ {0} /\ MaxDeaths \in Nat /\ Bad \subseteq 1..MaxVersion

VARIABLES
  server,   \* the version the server has
  file,     \* the cached file, or NoStream
  lock,     \* m_DiskCacheLock: who saves, or NoRequest
  shutdown, \* Loader::shutdown
  req,      \* location, cacheStream, answer of each request
  retry,    \* HTTPRequest::retry
  deaths

vars == <<server, file, lock, shutdown, req, retry, deaths>>
diskVars == <<file, lock>>
worldVars == <<server, shutdown, deaths>>

\* Contents with their modification date; version 0 is an empty stream.  mishap tells
\* what befell them: they have no date of the server's, or the process died while it
\* saved them.
Stream == [version : 0..MaxVersion, whole : BOOLEAN, date : 1..MaxVersion,
           mishap : {"none", "undated", "died"}]

\* stored: the answer has a source path, that of the file it was saved to.
Fresh == [at |-> "idle", cached |-> NoStream, answer |-> NoStream,
          confirmed |-> FALSE, stored |-> FALSE]

Init ==
  /\ server = 1 /\ file = NoStream /\ lock = NoRequest
  /\ shutdown = FALSE /\ deaths = 0
  /\ req = [r \in Request |-> Fresh]
  /\ retry = Retry

Go(r, from, to) == req[r].at = from /\ req' = [req EXCEPT ![r].at = to]

-----------------------------------------------------------------------------
(* The request's thread: HttpRequest.                                      *)

Start(r) ==
  /\ Go(r, "idle", "load")
  /\ UNCHANGED <<diskVars, worldVars, retry>>

\* The file is read without the cache's lock.
LoadUnlocked(r) ==
  /\ req[r].at = "load"
  /\ \E s \in {file, NoStream} : req' = [req EXCEPT ![r] = [@ EXCEPT !.at = "ask", !.cached = s]]
  /\ UNCHANGED <<diskVars, worldVars, retry>>

\* A cached file is as good as an answer.
LoadTrusted(r) ==
  /\ req[r].at = "load" /\ lock = NoRequest
  /\ \E s \in {file, NoStream} :
       req' = [req EXCEPT ![r] = [@ EXCEPT !.at = IF s = NoStream THEN "ask" ELSE "answered",
                                             !.cached = s, !.confirmed = s # NoStream]]
  /\ UNCHANGED <<diskVars, worldVars, retry>>

\* HttpLoadCache, which is getData under the lock.  NULL without a file, when
\* reading fails, or for a request that does not want the cache.
Load(r) ==
  /\ req[r].at = "load" /\ lock = NoRequest
  /\ \E s \in {file, NoStream} : req' = [req EXCEPT ![r] = [@ EXCEPT !.at = "ask", !.cached = s]]
  /\ UNCHANGED <<diskVars, worldVars, retry>>

\* No connection, a status of its own, or contents that break off with a message.
Unreachable(r) ==
  /\ Go(r, "ask", "answered")
  /\ UNCHANGED <<diskVars, worldVars, retry>>

\* 304 to an If-Modified-Since with the date of the cached file.
NotModified(r) ==
  /\ req[r].at = "ask" /\ req[r].cached # NoStream /\ server <= req[r].cached.date
  /\ req' = [req EXCEPT ![r] = [@ EXCEPT !.at = "answered", !.confirmed = TRUE]]
  /\ UNCHANGED <<diskVars, worldVars, retry>>

\* 200 with the contents and their date; contents without one fare like those whose
\* date cannot be set, in SaveDate.
Download(r) ==
  /\ req[r].at = "ask" /\ (req[r].cached # NoStream => server > req[r].cached.date)
  /\ req' = [req EXCEPT ![r] = [@ EXCEPT !.at = "save", !.answer =
       [version |-> server, whole |-> TRUE, date |-> server, mishap |-> "none"]]]
  /\ UNCHANGED <<diskVars, worldVars, retry>>

\* An exception without a message ends the contents: to HttpRequest it is a status 200
\* with no date and nothing in it.
DownloadNothing(r) ==
  /\ req[r].at = "ask" /\ (req[r].cached # NoStream => server > req[r].cached.date)
  /\ req' = [req EXCEPT ![r] = [@ EXCEPT !.at = "save", !.answer =
       [version |-> 0, whole |-> TRUE, date |-> server, mishap |-> "undated"]]]
  /\ UNCHANGED <<diskVars, worldVars, retry>>

\* addData: O_CREAT and O_TRUNC under the lock, or nothing if that fails.
SaveOpen(r) ==
  /\ lock = NoRequest
  /\ \/ /\ Go(r, "save", "write")
        /\ lock' = r
        /\ file' = [version |-> 0, whole |-> FALSE, date |-> server, mishap |-> "none"]
     \/ Go(r, "save", "answered") /\ UNCHANGED diskVars
  /\ UNCHANGED <<worldVars, retry>>

\* A file that could not be written is left as it is.
SaveWriteKeeps(r) ==
  /\ \/ /\ Go(r, "write", "date") /\ UNCHANGED lock
        /\ file' = [req[r].answer EXCEPT !.date = server, !.mishap = "none"]
     \/ Go(r, "write", "answered") /\ lock' = NoRequest /\ UNCHANGED file
  /\ UNCHANGED <<worldVars, retry>>

\* fio_writeFully, or else unlink.
SaveWrite(r) ==
  /\ \/ /\ Go(r, "write", "date") /\ UNCHANGED lock
        /\ file' = [req[r].answer EXCEPT !.date = server, !.mishap = "none"]
     \/ Go(r, "write", "answered") /\ file' = NoStream /\ lock' = NoRequest
  /\ UNCHANGED <<worldVars, retry>>

\* The date is set first and lost by the write.
SaveDateLost(r) ==
  /\ req[r].at = "date"
  /\ file' = [file EXCEPT !.mishap = req[r].answer.mishap]
  /\ lock' = NoRequest
  /\ req' = [req EXCEPT ![r] = [@ EXCEPT !.at = "answered", !.stored = TRUE]]
  /\ UNCHANGED <<worldVars, retry>>

\* fio_setModification, passed over if there is no date or it fails; close and unlock.
SaveDate(r) ==
  /\ req[r].at = "date"
  /\ \/ /\ req[r].answer.mishap = "none"
        /\ file' = [file EXCEPT !.date = req[r].answer.date]
     \/ file' = [file EXCEPT !.mishap = "undated"]
  /\ lock' = NoRequest
  /\ req' = [req EXCEPT ![r] = [@ EXCEPT !.at = "answered", !.stored = TRUE]]
  /\ UNCHANGED <<worldVars, retry>>

-----------------------------------------------------------------------------
(* The OpenGL thread: HttpRequestResultSync, and the loader's handlers.    *)

\* OpenGLThreadAsync drops the message when its pipe is full; nobody sees the request
\* again.
Lose(r) ==
  /\ req[r].at = "answered"
  /\ req' = [req EXCEPT ![r] = [Fresh EXCEPT !.at = "lost"]]
  /\ UNCHANGED <<diskVars, worldVars, retry>>

\* onText and onData: nothing during a shutdown; a sound opens the file that is
\* there now; torn or empty contents may or may not pass for what they should be.
Verdicts(r, stream) ==
  IF shutdown THEN {FALSE}
  ELSE IF r \in Sound THEN {FALSE, file # NoStream}
  ELSE IF stream.whole /\ stream.version > 0 THEN {stream.version \notin Bad}
  ELSE BOOLEAN

Offered(r) == IF req[r].confirmed THEN req[r].cached ELSE req[r].answer

\* The stream the server confirmed or sent; a cached one is freed once offered.
Offer(r) ==
  /\ req[r].at = "answered"
  /\ \E ok \in IF Offered(r) = NoStream \/ (r \in Sound /\ ~req[r].confirmed /\ ~req[r].stored)
               THEN {FALSE} ELSE Verdicts(r, Offered(r)) :
       req' = [req EXCEPT ![r] = [Fresh EXCEPT
         !.at = IF ok THEN "accepted" ELSE "refused",
         !.cached = IF ok \/ req[r].confirmed THEN NoStream ELSE req[r].cached]]
  /\ UNCHANGED <<diskVars, worldVars, retry>>

\* The caller's wish to stop is not asked for.
TryAgainAlways(r) ==
  /\ req[r].at = "refused" /\ retry[r] # 0
  /\ req' = [req EXCEPT ![r] = [Fresh EXCEPT !.at = "sleep"]]
  /\ retry' = [retry EXCEPT ![r] = IF @ > 0 THEN @ - 1 ELSE @]
  /\ UNCHANGED <<diskVars, worldVars>>

\* onretry agrees: HttpRequestRepeat will sleep, and then ask again.
TryAgain(r) ==
  /\ req[r].at = "refused" /\ retry[r] # 0 /\ ~shutdown
  /\ req' = [req EXCEPT ![r] = [Fresh EXCEPT !.at = "sleep"]]
  /\ retry' = [retry EXCEPT ![r] = IF @ > 0 THEN @ - 1 ELSE @]
  /\ UNCHANGED <<diskVars, worldVars>>

\* onretry disagrees: "Shutdown".
GiveUp(r) ==
  /\ retry[r] # 0 /\ shutdown
  /\ req[r].at = "refused"
  /\ req' = [req EXCEPT ![r] = [Fresh EXCEPT !.at = "failed"]]
  /\ UNCHANGED <<diskVars, worldVars, retry>>

\* The old file is offered while there are retries left.
LastResortEarly(r) ==
  /\ req[r].at = "refused"
  /\ \E ok \in IF req[r].cached = NoStream THEN {FALSE} ELSE Verdicts(r, req[r].cached) :
       req' = [req EXCEPT ![r] = [Fresh EXCEPT !.at = IF ok THEN "accepted" ELSE "failed"]]
  /\ UNCHANGED <<diskVars, worldVars, retry>>

\* No retry left: the old file, if the server has not confirmed it, or onfatal.
LastResort(r) ==
  /\ req[r].at = "refused" /\ retry[r] = 0
  /\ \E ok \in IF req[r].cached = NoStream THEN {FALSE} ELSE Verdicts(r, req[r].cached) :
       req' = [req EXCEPT ![r] = [Fresh EXCEPT !.at = IF ok THEN "accepted" ELSE "failed"]]
  /\ UNCHANGED <<diskVars, worldVars, retry>>

\* onrelease, and the request is deleted.
Release(r) ==
  /\ Go(r, "accepted", "released") \/ Go(r, "failed", "released")
  /\ UNCHANGED <<diskVars, worldVars, retry>>

\* HttpRequestRepeat has slept.
Repeat(r) ==
  /\ Go(r, "sleep", "load")
  /\ UNCHANGED <<diskVars, worldVars, retry>>

-----------------------------------------------------------------------------
(* Around them.                                                            *)

Publish ==
  /\ server < MaxVersion /\ server' = server + 1
  /\ UNCHANGED <<diskVars, shutdown, req, retry, deaths>>

\* Loader::release.
Shutdown ==
  /\ ~shutdown /\ shutdown' = TRUE
  /\ UNCHANGED <<diskVars, server, req, retry, deaths>>

\* The process is killed, and started again with the file it has left.
Die ==
  /\ deaths < MaxDeaths /\ deaths' = deaths + 1
  /\ file' = IF lock = NoRequest THEN file ELSE [file EXCEPT !.mishap = "died"]
  /\ lock' = NoRequest /\ shutdown' = FALSE
  /\ req' = [r \in Request |-> Fresh] /\ retry' = Retry
  /\ UNCHANGED server

Step(r) ==
  \/ Load(r) \/ Unreachable(r) \/ NotModified(r) \/ Download(r) \/ DownloadNothing(r)
  \/ SaveOpen(r) \/ SaveWrite(r) \/ SaveDate(r)
  \/ Offer(r) \/ TryAgain(r) \/ GiveUp(r) \/ LastResort(r) \/ Release(r) \/ Repeat(r)

Next ==
  \/ \E r \in Request : Start(r) \/ Step(r) \/ Lose(r)
  \/ Publish \/ Shutdown \/ Die

Spec == Init /\ [][Next]_vars

\* Threads run, the disk lock is polled until it is had, and a server that is
\* asked again and again answers.
Fairness ==
  \A r \in Request : SF_vars(Step(r)) /\ SF_vars(NotModified(r) \/ Download(r))

FairSpec == Spec /\ Fairness

-----------------------------------------------------------------------------

Running == {"load", "ask", "save", "write", "date", "answered", "refused", "sleep"}
Ended == {"accepted", "failed", "released"}

Exchange == [at : {"idle", "lost"} \cup Running \cup Ended,
             cached : Stream \cup {NoStream}, answer : Stream \cup {NoStream},
             confirmed : BOOLEAN, stored : BOOLEAN]

\* The types, with the lock held by who is between creating and closing the file.
TypeOK ==
  /\ server \in 1..MaxVersion /\ file \in Stream \cup {NoStream}
  /\ shutdown \in BOOLEAN /\ deaths \in 0..MaxDeaths
  /\ req \in [Request -> Exchange]
  /\ retry \in [Request -> Nat \cup {-1}]
  /\ lock \in Request \cup {NoRequest}
  /\ \A r \in Request : req[r].at \in {"write", "date"} <=> lock = r

Intact(stream) == stream.whole \/ stream.mishap = "died"

\* The cache is rewritten in place, and yet nobody is left with a half-written
\* file, on the disk or read from it, unless the process died while it wrote.
TornOnlyByDeath ==
  /\ file # NoStream /\ lock = NoRequest => Intact(file)
  /\ \A r \in Request : req[r].cached # NoStream => Intact(req[r].cached)

\* What the server confirms with 304 is the version it has, however requests and
\* publications cross: a file is never dated later than its contents, unless its
\* date could not be set.
ConfirmedIsCurrent ==
  [][\A r \in Request :
       req'[r].confirmed /\ ~req[r].confirmed /\ req[r].cached.mishap = "none" =>
         req[r].cached.version = server]_vars

Outcome(r) ==
  CASE req[r].at = "idle" -> "none"
    [] req[r].at \in Ended -> req[r].at
    [] OTHER -> "open"

Contract == INSTANCE RequestContract WITH outcome <- [r \in Request |-> Outcome(r)]

\* Requests keep what HTTPClient::Request promises: accepted or failed, once, the
\* latter only without retries or in a shutdown, and then released.
KeepsContract == Contract!Spec

\* Requests with a limit, and after Loader::release all requests, come to their end,
\* whatever server, disk and handlers do, unless their messages are lost: there is
\* a time when none of them is running.
RequestEnds ==
  LET MustEnd == {r \in Request : req[r].at \in Running /\ (Retry[r] >= 0 \/ shutdown)}
  IN MustEnd # {} ~> MustEnd = {}

\* Once a good version is published a request ends, even if a bad one was saved
\* before it was refused.  The exceptions are files whose date is not the
\* server's: the server confirms them, bad, empty or torn, until it has another.
GoodLoads ==
  \A r \in Request \ Sound :
    req[r].at \in Running /\ server = MaxVersion /\ MaxVersion \notin Bad ~>
      \/ req[r].at \in Ended \cup {"idle", "lost"}
      \/ file # NoStream /\ file.mishap # "none"

\* The cached file and the lock over it, whoever reads, writes or dies.
DiskIntact == TypeOK /\ TornOnlyByDeath
=============================================================================
