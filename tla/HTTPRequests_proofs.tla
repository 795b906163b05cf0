------------------------- MODULE HTTPRequests_proofs -------------------------
(***************************************************************************)
(* Proofs about the requests for one resource and its cached file, for     *)
(* every number of requests, versions, retries and deaths of the process:  *)
(* what is on the disk or read from it is whole, what the server confirms  *)
(* is current, and requests keep the contract of HTTPClient::Request.      *)
(***************************************************************************)
EXTENDS HTTPRequests, TLAPS

\* A version the server has had, dated no later than it was modified, unless its date
\* could not be set or the process died first.
Dated(s) ==
  /\ s.version <= server
  /\ s.mishap = "none" => s.date <= s.version

\* What a request has read from the file is in order, and what it saves is dated by
\* the server.
RequestOK(q) ==
  /\ q.cached # NoStream => Intact(q.cached) /\ Dated(q.cached)
  /\ q.at \in {"save", "write", "date"} =>
       /\ q.answer \in Stream /\ q.answer.whole /\ q.answer.version <= server
       /\ q.answer.mishap = "none" => q.answer.date = q.answer.version

\* The file is in order unless somebody has the lock; then it gets what he saves.
Disk ==
  /\ file # NoStream => file.version <= server
  /\ file # NoStream /\ lock = NoRequest => Intact(file) /\ Dated(file)
  /\ \A r \in Request : lock = r =>
       /\ file \in Stream /\ file.version <= server
       /\ req[r].at = "date" => file.whole /\ file.version = req[r].answer.version

IInv == TypeOK /\ Disk /\ \A r \in Request : RequestOK(req[r])

-----------------------------------------------------------------------------
(* What a step of one request has to show.                                 *)

\* One request goes on; the others and the server stay as they are.
LEMMA OneRequest ==
  ASSUME TypeOK, NEW r \in Request, NEW q \in Exchange, req' = [req EXCEPT ![r] = q]
  PROVE  /\ req' \in [Request -> Exchange] /\ req'[r] = q
         /\ \A s \in Request : s # r => req'[s] = req[s]
BY DEF TypeOK

\* The request neither has the lock nor takes it.
LEMMA Unlocked ==
  ASSUME IInv, NEW r \in Request, NEW q \in Exchange, req' = [req EXCEPT ![r] = q],
         req[r].at \notin {"write", "date"}, q.at \notin {"write", "date"},
         UNCHANGED <<diskVars, worldVars>>, retry' \in [Request -> Nat \cup {-1}],
         RequestOK(q)
  PROVE  IInv'
<1>0. TypeOK /\ Disk /\ \A s \in Request : RequestOK(req[s])
  BY DEF IInv
<1>1. /\ req' \in [Request -> Exchange] /\ req'[r] = q
      /\ \A s \in Request : s # r => req'[s] = req[s]
  BY <1>0, OneRequest
<1>2. /\ server' = server /\ file' = file /\ lock' = lock
      /\ shutdown' = shutdown /\ deaths' = deaths
  BY DEF diskVars, worldVars
<1>3. lock # r /\ TypeOK'
  BY <1>0, <1>1, <1>2 DEF TypeOK
<1>4. Disk'
  BY <1>0, <1>1, <1>2, <1>3 DEF Disk, Intact, Dated
<1>5. \A s \in Request : RequestOK(req[s])'
  BY <1>0, <1>1, <1>2 DEF RequestOK, Intact, Dated
<1>6. QED
  BY <1>3, <1>4, <1>5 DEF IInv

-----------------------------------------------------------------------------
\* At first there is no file, and no request.
LEMMA InitIInv == Init => IInv
<1> SUFFICES ASSUME Init PROVE IInv
  OBVIOUS
<1>1. Fresh \in Exchange
  BY DEF Fresh, Exchange
<1>2. TypeOK
  <2>1. shutdown \in BOOLEAN
    BY Zenon DEF Init
  <2>2. server \in 1..MaxVersion /\ deaths \in 0..MaxDeaths
    BY RequestAssumption DEF Init
  <2>3. req \in [Request -> Exchange] /\ \A r \in Request : req[r].at = "idle"
    BY <1>1 DEF Init, Fresh
  <2>4. retry \in [Request -> Nat \cup {-1}] /\ lock = NoRequest /\ file = NoStream
    BY RequestAssumption DEF Init
  <2>5. QED
    BY <2>1, <2>2, <2>3, <2>4, RequestAssumption DEF TypeOK
<1>3. Disk /\ \A r \in Request : RequestOK(req[r])
  BY RequestAssumption DEF Init, Disk, RequestOK, Fresh
<1>4. QED
  BY <1>2, <1>3 DEF IInv

\* A step that only moves a request between places where it does not save.
LEMMA MovesOn ==
  ASSUME IInv, NEW r \in Request,
         NEW to \in {"load", "ask", "answered", "refused", "sleep", "lost",
                     "accepted", "failed", "released"},
         req' = [req EXCEPT ![r].at = to], req[r].at \notin {"write", "date"},
         UNCHANGED <<diskVars, worldVars, retry>>
  PROVE  IInv'
<1>1. PICK q : q = [req[r] EXCEPT !.at = to]
  OBVIOUS
<1>2. req[r] \in Exchange /\ RequestOK(req[r]) /\ retry \in [Request -> Nat \cup {-1}]
  BY DEF IInv, TypeOK
<1>3. q \in Exchange /\ q.at = to /\ q.cached = req[r].cached
  BY <1>1, <1>2 DEF Exchange, Running, Ended
<1>4. RequestOK(q)
  BY <1>2, <1>3 DEF RequestOK
<1>5. req' = [req EXCEPT ![r] = q]
  BY <1>1
<1>6. QED
  BY <1>2, <1>3, <1>4, <1>5, Unlocked

\* A step that starts a request over, keeping at most the file it has read.
LEMMA StartsOver ==
  ASSUME IInv, NEW r \in Request,
         NEW to \in {"refused", "sleep", "accepted", "failed"},
         NEW s, s = NoStream \/ s = req[r].cached,
         req' = [req EXCEPT ![r] = [Fresh EXCEPT !.at = to, !.cached = s]],
         req[r].at \notin {"write", "date"},
         UNCHANGED <<diskVars, worldVars>>, retry' \in [Request -> Nat \cup {-1}]
  PROVE  IInv'
<1>1. PICK q : q = [Fresh EXCEPT !.at = to, !.cached = s]
  OBVIOUS
<1>2. req[r] \in Exchange /\ RequestOK(req[r])
  BY DEF IInv, TypeOK
<1>3. q \in Exchange /\ q.at = to /\ q.cached = s
  BY <1>1, <1>2 DEF Exchange, Running, Ended, Fresh
<1>4. RequestOK(q)
  BY <1>2, <1>3 DEF RequestOK
<1>5. req' = [req EXCEPT ![r] = q]
  BY <1>1
<1>6. QED
  BY <1>2, <1>3, <1>4, <1>5, Unlocked

\* What is read under the lock is whole.
LEMMA LoadStep ==
  ASSUME IInv, NEW r \in Request, Load(r)
  PROVE  IInv'
<1>1. PICK s \in {file, NoStream} :
        req' = [req EXCEPT ![r] = [req[r] EXCEPT !.at = "ask", !.cached = s]]
  BY DEF Load
<1>2. PICK q : q = [req[r] EXCEPT !.at = "ask", !.cached = s]
  OBVIOUS
<1>3. /\ req[r] \in Exchange /\ retry \in [Request -> Nat \cup {-1}]
      /\ file \in Stream \cup {NoStream} /\ Disk
  BY DEF IInv, TypeOK
<1>4. /\ req[r].at = "load" /\ lock = NoRequest
      /\ UNCHANGED <<diskVars, worldVars>> /\ retry' = retry
  BY DEF Load
<1>5. q \in Exchange /\ q.at = "ask" /\ q.cached = s
  BY <1>2, <1>3 DEF Exchange, Running
<1>6. RequestOK(q)
  BY <1>1, <1>3, <1>4, <1>5 DEF RequestOK, Disk
<1>7. req' = [req EXCEPT ![r] = q]
  BY <1>1, <1>2
<1>8. QED
  BY <1>3, <1>4, <1>5, <1>6, <1>7, Unlocked

\* A confirmed file stays as it was read.
LEMMA NotModifiedStep ==
  ASSUME IInv, NEW r \in Request, NotModified(r)
  PROVE  IInv'
<1>1. PICK q : q = [req[r] EXCEPT !.at = "answered", !.confirmed = TRUE]
  OBVIOUS
<1>2. req[r] \in Exchange /\ RequestOK(req[r]) /\ retry \in [Request -> Nat \cup {-1}]
  BY DEF IInv, TypeOK
<1>3. /\ req[r].at = "ask" /\ req' = [req EXCEPT ![r] = q]
      /\ UNCHANGED <<diskVars, worldVars>> /\ retry' = retry
  BY <1>1 DEF NotModified
<1>4. q \in Exchange /\ q.at = "answered" /\ q.cached = req[r].cached
  BY <1>1, <1>2 DEF Exchange, Running
<1>5. RequestOK(q)
  BY <1>2, <1>4 DEF RequestOK
<1>6. QED
  BY <1>2, <1>3, <1>4, <1>5, Unlocked

\* What is downloaded has the server's version and date, or it is nothing.
LEMMA DownloadStep ==
  ASSUME IInv, NEW r \in Request, Download(r) \/ DownloadNothing(r)
  PROVE  IInv'
<1>1. PICK m \in {"none", "undated"}, v \in {0, server} :
        /\ m = "none" => v = server
        /\ req' = [req EXCEPT ![r] = [req[r] EXCEPT !.at = "save", !.answer =
                    [version |-> v, whole |-> TRUE, date |-> server, mishap |-> m]]]
  BY DEF Download, DownloadNothing
<1>2. PICK a : a = [version |-> v, whole |-> TRUE, date |-> server, mishap |-> m]
  OBVIOUS
<1>3. PICK q : q = [req[r] EXCEPT !.at = "save", !.answer = a]
  OBVIOUS
<1>4. /\ req[r] \in Exchange /\ RequestOK(req[r]) /\ retry \in [Request -> Nat \cup {-1}]
      /\ server \in 1..MaxVersion
  BY DEF IInv, TypeOK
<1>5. /\ a \in Stream /\ a.whole /\ a.version <= server
      /\ a.mishap = "none" => a.date = a.version
  <2>1. v \in 0..MaxVersion /\ v <= server
    BY <1>1, <1>4, RequestAssumption
  <2>2. /\ a.version = v /\ a.date = server /\ a.mishap = m /\ a.whole
        /\ a \in [version : 0..MaxVersion, whole : BOOLEAN, date : 1..MaxVersion,
                  mishap : {"none", "undated"}]
    BY <1>2, <1>4, <2>1
  <2>3. QED
    BY <1>1, <2>1, <2>2 DEF Stream
<1>6. /\ q \in Exchange /\ q.at = "save" /\ q.cached = req[r].cached /\ q.answer = a
      /\ req' = [req EXCEPT ![r] = q]
  BY <1>1, <1>2, <1>3, <1>4, <1>5 DEF Exchange, Running
<1>7. RequestOK(q)
  BY <1>4, <1>5, <1>6 DEF RequestOK
<1>8. /\ req[r].at = "ask" /\ UNCHANGED <<diskVars, worldVars>> /\ retry' = retry
  BY DEF Download, DownloadNothing
<1>9. QED
  BY <1>4, <1>6, <1>7, <1>8, Unlocked

\* Who saves has the lock: nobody else touches the file until he is done with it.
LEMMA Saves ==
  ASSUME IInv, NEW r \in Request, NEW q \in Exchange, req' = [req EXCEPT ![r] = q],
         lock \in {r, NoRequest}, lock' \in {r, NoRequest},
         lock' = r <=> q.at \in {"write", "date"},
         NEW f \in Stream \cup {NoStream}, file' = f,
         UNCHANGED <<worldVars, retry>>, RequestOK(q),
         f # NoStream => f.version <= server,
         f # NoStream /\ lock' = NoRequest => Intact(f) /\ Dated(f),
         lock' = r => f \in Stream /\ f.version <= server,
         q.at = "date" => f.whole /\ f.version = q.answer.version
  PROVE  IInv'
<1>0. TypeOK /\ Disk /\ \A s \in Request : RequestOK(req[s])
  BY DEF IInv
<1>1. /\ req' \in [Request -> Exchange] /\ req'[r] = q
      /\ \A s \in Request : s # r => req'[s] = req[s]
  BY <1>0, OneRequest
<1>2. /\ server' = server /\ shutdown' = shutdown /\ deaths' = deaths /\ retry' = retry
      /\ r # NoRequest
  BY RequestAssumption DEF worldVars
<1>3. \A s \in Request : s # r => req'[s].at \notin {"write", "date"} /\ lock' # s
  BY <1>0, <1>1, <1>2, RequestAssumption DEF TypeOK
<1>4. TypeOK'
  BY <1>0, <1>1, <1>2, <1>3 DEF TypeOK
<1>5. Disk'
  BY <1>1, <1>2, <1>3 DEF Disk, Intact, Dated
<1>6. \A s \in Request : RequestOK(req[s])'
  BY <1>0, <1>1, <1>2 DEF RequestOK, Intact, Dated
<1>7. QED
  BY <1>4, <1>5, <1>6 DEF IInv

\* The file is truncated under the lock, or not opened at all.
LEMMA SaveOpenStep ==
  ASSUME IInv, NEW r \in Request, SaveOpen(r)
  PROVE  IInv'
<1>0. TypeOK /\ Disk /\ RequestOK(req[r])
  BY DEF IInv
<1>1. /\ req[r].at = "save" /\ req[r] \in Exchange /\ lock = NoRequest
      /\ UNCHANGED <<worldVars, retry>> /\ server \in 1..MaxVersion
  BY <1>0 DEF SaveOpen, Go, TypeOK
<1>2. CASE Go(r, "save", "answered") /\ UNCHANGED diskVars
  BY <1>1, <1>2, MovesOn DEF Go
<1>3. CASE /\ Go(r, "save", "write") /\ lock' = r
           /\ file' = [version |-> 0, whole |-> FALSE, date |-> server, mishap |-> "none"]
  <2>1. PICK q : q = [req[r] EXCEPT !.at = "write"]
    OBVIOUS
  <2>2. PICK f : f = [version |-> 0, whole |-> FALSE, date |-> server, mishap |-> "none"]
    OBVIOUS
  <2>3. /\ q \in Exchange /\ q.at = "write" /\ q.cached = req[r].cached
        /\ q.answer = req[r].answer
    BY <1>1, <2>1 DEF Exchange, Running
  <2>4. f \in Stream /\ f.version <= server
    BY <1>1, <2>2, RequestAssumption DEF Stream
  <2>5. req' = [req EXCEPT ![r] = q] /\ file' = f
    BY <1>3, <2>1, <2>2 DEF Go
  <2>6. RequestOK(q)
    BY <1>0, <1>1, <2>3 DEF RequestOK
  <2>7. r # NoRequest
    BY RequestAssumption
  <2>8. QED
    BY <1>1, <1>3, <2>3, <2>4, <2>5, <2>6, <2>7, Saves
<1>4. QED
  BY <1>2, <1>3 DEF SaveOpen

\* The file is whole after the write, or removed.
LEMMA SaveWriteStep ==
  ASSUME IInv, NEW r \in Request, SaveWrite(r)
  PROVE  IInv'
<1>0. TypeOK /\ Disk /\ RequestOK(req[r]) /\ r # NoRequest
  BY RequestAssumption DEF IInv
<1>1. /\ req[r].at = "write" /\ req[r] \in Exchange /\ lock = r
      /\ UNCHANGED <<worldVars, retry>> /\ server \in 1..MaxVersion
      /\ req[r].answer \in Stream /\ req[r].answer.whole /\ req[r].answer.version <= server
  BY <1>0 DEF SaveWrite, Go, TypeOK, RequestOK
<1>2. CASE /\ Go(r, "write", "date") /\ UNCHANGED lock
           /\ file' = [req[r].answer EXCEPT !.date = server, !.mishap = "none"]
  <2>1. PICK q : q = [req[r] EXCEPT !.at = "date"]
    OBVIOUS
  <2>2. PICK f : f = [req[r].answer EXCEPT !.date = server, !.mishap = "none"]
    OBVIOUS
  <2>3. /\ q \in Exchange /\ q.at = "date" /\ q.cached = req[r].cached
        /\ q.answer = req[r].answer
    BY <1>1, <2>1 DEF Exchange, Running
  <2>4. f \in Stream /\ f.version = req[r].answer.version /\ f.whole
    BY <1>1, <2>2 DEF Stream
  <2>5. req' = [req EXCEPT ![r] = q] /\ file' = f
    BY <1>2, <2>1, <2>2 DEF Go
  <2>6. RequestOK(q)
    BY <1>0, <1>1, <2>3 DEF RequestOK
  <2>7. QED
    BY <1>0, <1>1, <1>2, <2>3, <2>4, <2>5, <2>6, Saves
<1>3. CASE Go(r, "write", "answered") /\ file' = NoStream /\ lock' = NoRequest
  <2>1. PICK q : q = [req[r] EXCEPT !.at = "answered"]
    OBVIOUS
  <2>2. q \in Exchange /\ q.at = "answered" /\ q.cached = req[r].cached
    BY <1>1, <2>1 DEF Exchange, Running
  <2>3. req' = [req EXCEPT ![r] = q]
    BY <1>3, <2>1 DEF Go
  <2>4. RequestOK(q)
    BY <1>0, <2>2 DEF RequestOK
  <2>5. QED
    BY <1>0, <1>1, <1>3, <2>2, <2>3, <2>4, Saves
<1>4. QED
  BY <1>2, <1>3 DEF SaveWrite

\* The lock is given back over a whole file with the server's date, or marked undated.
LEMMA SaveDateStep ==
  ASSUME IInv, NEW r \in Request, SaveDate(r)
  PROVE  IInv'
<1>0. TypeOK /\ Disk /\ RequestOK(req[r]) /\ r # NoRequest
  BY RequestAssumption DEF IInv
<1>1. /\ req[r].at = "date" /\ req[r] \in Exchange /\ lock = r /\ lock' = NoRequest
      /\ UNCHANGED <<worldVars, retry>> /\ server \in 1..MaxVersion
      /\ file \in Stream /\ file.whole /\ file.version = req[r].answer.version
      /\ req[r].answer \in Stream /\ req[r].answer.version <= server
      /\ req[r].answer.mishap = "none" => req[r].answer.date = req[r].answer.version
  BY <1>0 DEF SaveDate, TypeOK, RequestOK, Disk
<1>2. PICK q : q = [req[r] EXCEPT !.at = "answered", !.stored = TRUE]
  OBVIOUS
<1>3. /\ q \in Exchange /\ q.at = "answered" /\ q.cached = req[r].cached
      /\ req' = [req EXCEPT ![r] = q]
  BY <1>1, <1>2 DEF Exchange, Running, SaveDate
<1>4. RequestOK(q)
  BY <1>0, <1>3 DEF RequestOK
<1>6. PICK g : /\ file' = g
               /\ \/ /\ req[r].answer.mishap = "none"
                     /\ g = [file EXCEPT !.date = req[r].answer.date]
                  \/ g = [file EXCEPT !.mishap = "undated"]
  BY DEF SaveDate
<1>7. /\ g \in Stream /\ g.version = req[r].answer.version /\ g.whole
      /\ g.mishap = "none" => g.date = g.version
  BY <1>1, <1>6 DEF Stream
<1>8. Intact(g) /\ Dated(g)
  BY <1>1, <1>7 DEF Intact, Dated, Stream
<1>9. QED
  BY <1>0, <1>1, <1>3, <1>4, <1>6, <1>7, <1>8, Saves DEF Dated

-----------------------------------------------------------------------------
(* The other steps, and the invariant.                                     *)

\* Every step of a request, in its own thread or in the OpenGL thread.
LEMMA RequestStep ==
  ASSUME IInv, NEW r \in Request, Start(r) \/ Step(r) \/ Lose(r)
  PROVE  IInv'
<1>0. retry \in [Request -> Nat \cup {-1}]
  BY DEF IInv, TypeOK
<1>1. CASE Start(r) \/ Unreachable(r) \/ Release(r) \/ Repeat(r)
  BY <1>1, MovesOn DEF Start, Unreachable, Release, Repeat, Go
<1>2. CASE Load(r) \/ NotModified(r) \/ Download(r) \/ DownloadNothing(r)
  BY <1>2, LoadStep, NotModifiedStep, DownloadStep
<1>3. CASE SaveOpen(r) \/ SaveWrite(r) \/ SaveDate(r)
  BY <1>3, SaveOpenStep, SaveWriteStep, SaveDateStep
<1>4. CASE Offer(r)
  <2>1. PICK ok \in BOOLEAN :
          req' = [req EXCEPT ![r] = [Fresh EXCEPT
            !.at = IF ok THEN "accepted" ELSE "refused",
            !.cached = IF ok \/ req[r].confirmed THEN NoStream ELSE req[r].cached]]
    BY <1>4 DEF Offer, Verdicts
  <2>2. PICK to \in {"accepted", "refused"} : to = IF ok THEN "accepted" ELSE "refused"
    OBVIOUS
  <2>3. PICK s : s = IF ok \/ req[r].confirmed THEN NoStream ELSE req[r].cached
    OBVIOUS
  <2>4. req' = [req EXCEPT ![r] = [Fresh EXCEPT !.at = to, !.cached = s]]
    BY <2>1, <2>2, <2>3
  <2>5. req[r].at = "answered" /\ UNCHANGED <<diskVars, worldVars>> /\ retry' = retry
    BY <1>4 DEF Offer
  <2>6. s = NoStream \/ s = req[r].cached
    BY <2>3
  <2>7. QED
    BY <1>0, <2>2, <2>4, <2>5, <2>6, StartsOver
<1>5. ASSUME NEW to \in {"lost", "sleep", "failed", "accepted"},
             req[r].at \in {"answered", "refused"},
             req' = [req EXCEPT ![r] = [Fresh EXCEPT !.at = to]],
             UNCHANGED <<diskVars, worldVars>>, retry' \in [Request -> Nat \cup {-1}]
      PROVE  IInv'
  <2>1. PICK q : q = [Fresh EXCEPT !.at = to]
    OBVIOUS
  <2>2. q \in Exchange /\ q.at = to /\ q.cached = NoStream
    BY <2>1 DEF Exchange, Running, Ended, Fresh
  <2>3. RequestOK(q) /\ req' = [req EXCEPT ![r] = q]
    BY <1>5, <2>1, <2>2 DEF RequestOK
  <2>4. QED
    BY <1>5, <2>2, <2>3, Unlocked
<1>6. CASE TryAgain(r)
  <2>1. retry' \in [Request -> Nat \cup {-1}]
    BY <1>0, <1>6 DEF TryAgain
  <2>2. QED
    BY <1>5, <1>6, <2>1 DEF TryAgain
<1>7. CASE GiveUp(r)
  BY <1>0, <1>5, <1>7 DEF GiveUp
<1>8. CASE LastResort(r)
  <2>1. PICK ok \in BOOLEAN :
          req' = [req EXCEPT ![r] = [Fresh EXCEPT !.at = IF ok THEN "accepted" ELSE "failed"]]
    BY <1>8 DEF LastResort, Verdicts
  <2>2. PICK to \in {"accepted", "failed"} : to = IF ok THEN "accepted" ELSE "failed"
    OBVIOUS
  <2>3. req' = [req EXCEPT ![r] = [Fresh EXCEPT !.at = to]]
    BY <2>1, <2>2
  <2>4. QED
    BY <1>0, <1>5, <1>8, <2>2, <2>3 DEF LastResort
<1>9. CASE Lose(r)
  BY <1>0, <1>5, <1>9 DEF Lose
<1>10. QED
  BY <1>1, <1>2, <1>3, <1>4, <1>6, <1>7, <1>8, <1>9 DEF Step

\* A newer version makes no date too late; a shutdown touches no file.
LEMMA WorldStep ==
  ASSUME IInv, Publish \/ Shutdown
  PROVE  IInv'
<1>0. TypeOK /\ Disk /\ \A s \in Request : RequestOK(req[s])
  BY DEF IInv
<1>1. /\ UNCHANGED <<file, lock, req, retry, deaths>>
      /\ server' \in 1..MaxVersion /\ server <= server' /\ shutdown' \in BOOLEAN
  <2>1. server \in 1..MaxVersion /\ shutdown \in BOOLEAN /\ MaxVersion \in Nat
    BY Zenon, <1>0, RequestAssumption DEF TypeOK
  <2>2. CASE Publish
    BY <2>1, <2>2 DEF Publish, diskVars
  <2>3. CASE Shutdown
    <3>1. shutdown' \in BOOLEAN
      BY Zenon, <2>3 DEF Shutdown
    <3>2. QED
      BY <2>1, <2>3, <3>1 DEF Shutdown, diskVars
  <2>4. QED
    BY <2>2, <2>3
<1>2. TypeOK'
  BY <1>0, <1>1 DEF TypeOK
<1>3. server \in Int /\ server' \in Int
  BY <1>0, <1>1 DEF TypeOK
<1>4. \A s \in Stream : Dated(s) => Dated(s)'
  BY <1>1, <1>3 DEF Dated, Stream
<1>5. file \in Stream \cup {NoStream} /\ \A s \in Request : req[s] \in Exchange
  BY <1>0 DEF TypeOK
<1>6. Disk'
  <2>1. file # NoStream => file.version <= server'
    BY <1>0, <1>1, <1>3, <1>5 DEF Disk, Stream
  <2>2. file # NoStream /\ lock = NoRequest => Intact(file) /\ Dated(file)'
    BY <1>0, <1>1, <1>4, <1>5 DEF Disk, Dated
  <2>3. \A s \in Stream : s.version <= server => s.version <= server'
    BY <1>1, <1>3 DEF Stream
  <2>4. QED
    BY <1>0, <1>1, <2>1, <2>2, <2>3 DEF Disk, Intact, Dated
<1>7. ASSUME NEW r \in Request PROVE RequestOK(req[r])'
  <2>1. RequestOK(req[r]) /\ req'[r] = req[r] /\ req[r].cached \in Stream \cup {NoStream}
    BY <1>0, <1>1, <1>5 DEF Exchange
  <2>2. req[r].cached # NoStream =>
          /\ Intact(req[r].cached) /\ req[r].cached.version <= server'
          /\ req[r].cached.mishap = "none" => req[r].cached.date <= req[r].cached.version
    BY <1>1, <1>3, <2>1 DEF RequestOK, Dated, Stream
  <2>3. req[r].at \in {"save", "write", "date"} =>
          /\ req[r].answer \in Stream /\ req[r].answer.version <= server'
          /\ req[r].answer.mishap = "none" => req[r].answer.date = req[r].answer.version
    BY <1>1, <1>3, <2>1 DEF RequestOK, Stream
  <2>4. QED
    BY <2>1, <2>2, <2>3 DEF RequestOK, Dated, Intact
<1>8. QED
  BY <1>2, <1>6, <1>7 DEF IInv

\* The process dies: what it was saving is torn, and all requests are forgotten.
LEMMA DieStep ==
  ASSUME IInv, Die
  PROVE  IInv'
<1>0. TypeOK /\ Disk /\ Fresh \in Exchange
  BY DEF IInv, Fresh, Exchange
<1>1. /\ server' = server /\ lock' = NoRequest
      /\ file' = IF lock = NoRequest THEN file ELSE [file EXCEPT !.mishap = "died"]
      /\ req' = [r \in Request |-> Fresh] /\ retry' = Retry
  BY DEF Die
<1>2. deaths' \in 0..MaxDeaths
  BY <1>0, RequestAssumption DEF Die, TypeOK
<1>3. shutdown' \in BOOLEAN
  BY Zenon DEF Die
<1>4. CASE lock = NoRequest
  <2>1. file' = file
    BY <1>1, <1>4
  <2>2. TypeOK'
    BY <1>0, <1>1, <1>2, <1>3, <2>1, RequestAssumption DEF TypeOK, Fresh
  <2>3. Disk'
    BY <1>0, <1>1, <1>4, <2>1, RequestAssumption DEF Disk, Intact, Dated
  <2>4. \A r \in Request : RequestOK(req[r])'
    BY <1>1 DEF RequestOK, Fresh
  <2>5. QED
    BY <2>2, <2>3, <2>4 DEF IInv
<1>5. CASE lock # NoRequest
  <2>1. file \in Stream /\ file.version <= server
    BY <1>0, <1>5 DEF TypeOK, Disk
  <2>2. PICK f : f = [file EXCEPT !.mishap = "died"]
    OBVIOUS
  <2>3. file' = f /\ f \in Stream /\ f.version <= server /\ f.mishap = "died"
    BY <1>1, <1>5, <2>1, <2>2 DEF Stream
  <2>4. TypeOK'
    BY <1>0, <1>1, <1>2, <1>3, <2>3, RequestAssumption DEF TypeOK, Fresh
  <2>5. Disk'
    BY <1>1, <2>3, RequestAssumption DEF Disk, Intact, Dated
  <2>6. \A r \in Request : RequestOK(req[r])'
    BY <1>1 DEF RequestOK, Fresh
  <2>7. QED
    BY <2>4, <2>5, <2>6 DEF IInv
<1>6. QED
  BY <1>4, <1>5

\* The file, the lock and the requests stay in order, whoever reads, writes or dies.
THEOREM Invariance == Spec => []IInv
<1>1. IInv /\ [Next]_vars => IInv'
  <2> SUFFICES ASSUME IInv, [Next]_vars PROVE IInv'
    OBVIOUS
  <2>1. CASE UNCHANGED vars
    <3>1. UNCHANGED <<server, file, lock, shutdown, req, retry, deaths>>
      BY <2>1 DEF vars
    <3>2. TypeOK'
      BY <3>1 DEF IInv, TypeOK
    <3>3. Disk'
      BY <3>1 DEF IInv, Disk, Intact, Dated
    <3>4. \A r \in Request : RequestOK(req[r])'
      BY <3>1 DEF IInv, RequestOK, Intact, Dated
    <3>5. QED
      BY <3>2, <3>3, <3>4 DEF IInv
  <2>2. QED
    BY <2>1, RequestStep, WorldStep, DieStep DEF Next
<1>2. QED
  BY InitIInv, <1>1, PTL DEF Spec

\* The cache rewrites its file in place (Cache::addData), and yet nobody is left with a
\* half-written one, unless the process died while it wrote.
THEOREM DiskKept == Spec => []DiskIntact
<1>1. IInv => DiskIntact
  BY DEF IInv, DiskIntact, TornOnlyByDeath, Disk, RequestOK
<1>2. QED
  BY <1>1, Invariance, PTL

-----------------------------------------------------------------------------
(* What the server confirms.                                               *)

\* Only the answer 304 makes a request confirmed.
LEMMA OnlyConfirmed ==
  ASSUME TypeOK, Next, NEW s \in Request, req'[s].confirmed, ~req[s].confirmed
  PROVE  NotModified(s)
<1>0. \A r \in Request : req[r] \in Exchange
  BY DEF TypeOK
<1>1. ASSUME NEW r \in Request, NEW q, req' = [req EXCEPT ![r] = q],
             q.confirmed => req[r].confirmed
      PROVE  FALSE
  BY <1>1 DEF TypeOK
<1>2. CASE Publish \/ Shutdown
  BY <1>2 DEF Publish, Shutdown
<1>3. CASE Die
  BY <1>3 DEF Die, Fresh
<1>4. ASSUME NEW r \in Request, Start(r) \/ Step(r) \/ Lose(r) PROVE NotModified(s)
  <2>1. ASSUME NEW from, NEW to, Go(r, from, to) PROVE FALSE
    <3>1. PICK q : q = [req[r] EXCEPT !.at = to]
      OBVIOUS
    <3>2. q.confirmed = req[r].confirmed
      BY <1>0, <3>1 DEF Exchange
    <3>3. QED
      BY <1>1, <2>1, <3>1, <3>2 DEF Go
  <2>2. CASE \/ Start(r) \/ Unreachable(r) \/ Release(r) \/ Repeat(r)
            \/ SaveOpen(r) \/ SaveWrite(r)
    BY <2>1, <2>2 DEF Start, Unreachable, Release, Repeat, SaveOpen, SaveWrite
  <2>3. CASE Load(r)
    <3>1. PICK c : req' = [req EXCEPT ![r] = [req[r] EXCEPT !.at = "ask", !.cached = c]]
      BY <2>3 DEF Load
    <3>2. PICK q : q = [req[r] EXCEPT !.at = "ask", !.cached = c]
      OBVIOUS
    <3>3. q.confirmed = req[r].confirmed
      BY <1>0, <3>2 DEF Exchange
    <3>4. QED
      BY <1>1, <3>1, <3>2, <3>3
  <2>4. CASE Download(r) \/ DownloadNothing(r)
    <3>1. PICK a : req' = [req EXCEPT ![r] = [req[r] EXCEPT !.at = "save", !.answer = a]]
      BY <2>4 DEF Download, DownloadNothing
    <3>2. PICK q : q = [req[r] EXCEPT !.at = "save", !.answer = a]
      OBVIOUS
    <3>3. q.confirmed = req[r].confirmed
      BY <1>0, <3>2 DEF Exchange
    <3>4. QED
      BY <1>1, <3>1, <3>2, <3>3
  <2>5. CASE SaveDate(r)
    <3>1. PICK q : q = [req[r] EXCEPT !.at = "answered", !.stored = TRUE]
      OBVIOUS
    <3>2. q.confirmed = req[r].confirmed
      BY <1>0, <3>1 DEF Exchange
    <3>3. QED
      BY <1>1, <2>5, <3>1, <3>2 DEF SaveDate
  <2>6. CASE Lose(r) \/ Offer(r) \/ TryAgain(r) \/ GiveUp(r) \/ LastResort(r)
    <3>1. PICK to, c : \/ req' = [req EXCEPT ![r] = [Fresh EXCEPT !.at = to]]
                       \/ req' = [req EXCEPT ![r] = [Fresh EXCEPT !.at = to, !.cached = c]]
      BY <2>6 DEF Lose, Offer, TryAgain, GiveUp, LastResort
    <3>2. CASE req' = [req EXCEPT ![r] = [Fresh EXCEPT !.at = to]]
      BY <1>1, <3>2 DEF Fresh
    <3>3. CASE req' = [req EXCEPT ![r] = [Fresh EXCEPT !.at = to, !.cached = c]]
      BY <1>1, <3>3 DEF Fresh
    <3>4. QED
      BY <3>1, <3>2, <3>3
  <2>7. CASE NotModified(r)
    <3>1. r = s
      BY <2>7 DEF NotModified, TypeOK
    <3>2. QED
      BY <2>7, <3>1
  <2>8. QED
    BY <1>4, <2>2, <2>3, <2>4, <2>5, <2>6, <2>7 DEF Step
<1>5. QED
  BY <1>2, <1>3, <1>4 DEF Next

\* A file is never dated later than its contents, unless its date could not be set:
\* what the server confirms with 304 is the version it has.
THEOREM ConfirmedCurrent == Spec => ConfirmedIsCurrent
<1>1. ASSUME IInv, [Next]_vars, NEW r \in Request,
             req'[r].confirmed, ~req[r].confirmed, req[r].cached.mishap = "none"
      PROVE  req[r].cached.version = server
  <2>1. TypeOK /\ RequestOK(req[r]) /\ req[r] \in Exchange /\ server \in Int
    BY <1>1 DEF IInv, TypeOK
  <2>2. Next
    BY <1>1 DEF vars
  <2>3. NotModified(r)
    BY <1>1, <2>1, <2>2, OnlyConfirmed
  <2>4. req[r].cached \in Stream /\ server <= req[r].cached.date /\ Dated(req[r].cached)
    BY <2>1, <2>3 DEF NotModified, RequestOK, Exchange
  <2>5. QED
    BY <1>1, <2>1, <2>4 DEF Dated, Stream
<1>2. IInv /\ [Next]_vars =>
        [\A r \in Request :
           req'[r].confirmed /\ ~req[r].confirmed /\ req[r].cached.mishap = "none" =>
             req[r].cached.version = server]_vars
  BY <1>1
<1>3. QED
  BY Invariance, <1>2, PTL DEF Spec, ConfirmedIsCurrent

-----------------------------------------------------------------------------
(* Requests keep the contract of HTTPClient::Request.                      *)

\* What the caller knows of a request, by where the request is.
Known(at) ==
  CASE at = "idle" -> "none"
    [] at \in Ended -> at
    [] OTHER -> "open"

Told == [r \in Request |-> Outcome(r)]

Answers == {"accepted", "failed"}

\* What the caller knows of each place.
LEMMA KnownPlaces ==
  /\ Known("idle") = "none" /\ Known("released") = "released"
  /\ Known("accepted") = "accepted" /\ Known("failed") = "failed"
  /\ \A at \in {"load", "ask", "save", "write", "date", "answered", "refused", "sleep", "lost"} :
       Known(at) = "open"
BY DEF Known, Ended

\* A step of one request changes what is known of this one only.
LEMMA Turns ==
  ASSUME TypeOK, NEW r \in Request, NEW q, req' = [req EXCEPT ![r] = q]
  PROVE  Told[r] = Known(req[r].at) /\ Told' = [Told EXCEPT ![r] = Known(q.at)]
<1>1. req'[r] = q /\ \A s \in Request : s # r => req'[s] = req[s]
  BY DEF TypeOK
<1>2. Told = [s \in Request |-> Known(req[s].at)]
  BY DEF Told, Outcome, Known
<1>3. Told' = [s \in Request |-> Known(req'[s].at)]
  BY DEF Told, Outcome, Known
<1>4. QED
  BY <1>1, <1>2, <1>3

\* A step between two places the caller knows the same of shows him nothing.
LEMMA Unseen ==
  ASSUME TypeOK, NEW r \in Request, NEW q, req' = [req EXCEPT ![r] = q],
         Known(q.at) = Known(req[r].at)
  PROVE  Told' = Told
<1>1. Told[r] = Known(req[r].at) /\ Told' = [Told EXCEPT ![r] = Known(q.at)]
  BY Turns
<1>2. QED
  BY <1>1 DEF Told

\* What a step of a request can do to its caller's view.
Hidden == UNCHANGED <<Told, retry, shutdown>>
Turn(r, from, to) ==
  Told[r] = from /\ Told' = [Told EXCEPT ![r] = to] /\ UNCHANGED <<retry, shutdown>>
Retried(r) ==
  /\ Told[r] = "open" /\ retry[r] # 0 /\ UNCHANGED <<Told, shutdown>>
  /\ retry' = [retry EXCEPT ![r] = IF @ > 0 THEN @ - 1 ELSE @]

\* Until the answer is there the caller is shown nothing but the start.
LEMMA ThreadShows ==
  ASSUME TypeOK, NEW r \in Request,
         \/ Load(r) \/ Unreachable(r) \/ NotModified(r) \/ Download(r) \/ DownloadNothing(r)
         \/ Lose(r) \/ Repeat(r) \/ SaveOpen(r) \/ SaveWrite(r) \/ SaveDate(r)
  PROVE  Hidden
<1>0. req[r] \in Exchange
  BY DEF TypeOK
<1>1. UNCHANGED <<retry, shutdown>>
  BY DEF Load, Unreachable, NotModified, Download, DownloadNothing, Lose, Repeat, SaveOpen,
         SaveWrite, SaveDate, worldVars
<1> DEFINE Open == {"load", "ask", "save", "write", "date", "answered", "refused", "sleep", "lost"}
<1>2. ASSUME NEW from \in Open, NEW to \in Open, Go(r, from, to) PROVE Told' = Told
  <2>1. PICK q : q = [req[r] EXCEPT !.at = to]
    OBVIOUS
  <2>2. q.at = to /\ req[r].at = from /\ req' = [req EXCEPT ![r] = q]
    BY <1>0, <1>2, <2>1 DEF Go, Exchange
  <2>3. QED
    BY <2>2, KnownPlaces, Unseen
<1>3. CASE Load(r)
  <2>1. PICK c : req' = [req EXCEPT ![r] = [req[r] EXCEPT !.at = "ask", !.cached = c]]
    BY <1>3 DEF Load
  <2>2. PICK q : q = [req[r] EXCEPT !.at = "ask", !.cached = c]
    OBVIOUS
  <2>3. q.at = "ask" /\ req[r].at = "load" /\ req' = [req EXCEPT ![r] = q]
    BY <1>0, <1>3, <2>1, <2>2 DEF Load, Exchange
  <2>4. QED
    BY <1>1, <2>3, KnownPlaces, Unseen DEF Hidden
<1>4. CASE NotModified(r)
  <2>1. PICK q : q = [req[r] EXCEPT !.at = "answered", !.confirmed = TRUE]
    OBVIOUS
  <2>2. q.at = "answered" /\ req[r].at = "ask" /\ req' = [req EXCEPT ![r] = q]
    BY <1>0, <1>4, <2>1 DEF NotModified, Exchange
  <2>3. QED
    BY <1>1, <2>2, KnownPlaces, Unseen DEF Hidden
<1>5. CASE Download(r) \/ DownloadNothing(r)
  <2>1. PICK a : req' = [req EXCEPT ![r] = [req[r] EXCEPT !.at = "save", !.answer = a]]
    BY <1>5 DEF Download, DownloadNothing
  <2>2. PICK q : q = [req[r] EXCEPT !.at = "save", !.answer = a]
    OBVIOUS
  <2>3. q.at = "save" /\ req[r].at = "ask" /\ req' = [req EXCEPT ![r] = q]
    BY <1>0, <1>5, <2>1, <2>2 DEF Download, DownloadNothing, Exchange
  <2>4. QED
    BY <1>1, <2>3, KnownPlaces, Unseen DEF Hidden
<1>6. CASE SaveDate(r)
  <2>1. PICK q : q = [req[r] EXCEPT !.at = "answered", !.stored = TRUE]
    OBVIOUS
  <2>2. q.at = "answered" /\ req[r].at = "date" /\ req' = [req EXCEPT ![r] = q]
    BY <1>0, <1>6, <2>1 DEF SaveDate, Exchange
  <2>3. QED
    BY <1>1, <2>2, KnownPlaces, Unseen DEF Hidden
<1>7. CASE Unreachable(r) \/ Repeat(r) \/ SaveOpen(r) \/ SaveWrite(r)
  BY <1>1, <1>2, <1>7 DEF Hidden, Unreachable, Repeat, SaveOpen, SaveWrite
<1>8. CASE Lose(r)
  <2>1. PICK q : q = [Fresh EXCEPT !.at = "lost"]
    OBVIOUS
  <2>2. q.at = "lost" /\ req[r].at = "answered" /\ req' = [req EXCEPT ![r] = q]
    BY <1>8, <2>1 DEF Lose, Fresh
  <2>3. QED
    BY <1>1, <2>2, KnownPlaces, Unseen DEF Hidden
<1>9. QED
  BY <1>3, <1>4, <1>5, <1>6, <1>7, <1>8

\* The OpenGL thread shows the caller the end, and what it asks onretry for.
LEMMA HandlersShow ==
  ASSUME TypeOK, NEW r \in Request,
         \/ Start(r) \/ Release(r)
         \/ Offer(r) \/ TryAgain(r) \/ GiveUp(r) \/ LastResort(r)
  PROVE  \/ Hidden \/ Turn(r, "none", "open") \/ Turn(r, "open", "accepted") \/ Retried(r)
         \/ Turn(r, "open", "failed") /\ (retry[r] = 0 \/ shutdown)
         \/ \E a \in Answers : Turn(r, a, "released")
<1>0. req[r] \in Exchange
  BY DEF TypeOK
<1>1. ASSUME NEW from, NEW to, Go(r, from, to)
      PROVE  Told[r] = Known(from) /\ Told' = [Told EXCEPT ![r] = Known(to)]
  <2>1. PICK q : q = [req[r] EXCEPT !.at = to]
    OBVIOUS
  <2>2. q.at = to /\ req[r].at = from /\ req' = [req EXCEPT ![r] = q]
    BY <1>0, <1>1, <2>1 DEF Go, Exchange
  <2>3. QED
    BY <2>2, Turns
<1>2. CASE Start(r)
  BY <1>1, <1>2, KnownPlaces DEF Start, Turn, worldVars
<1>3. CASE Release(r)
  <2>1. UNCHANGED <<retry, shutdown>>
    BY <1>3 DEF Release, worldVars
  <2>2. \E a \in Answers : Go(r, a, "released")
    BY <1>3 DEF Release, Answers
  <2>3. QED
    BY <1>1, <2>1, <2>2, KnownPlaces DEF Turn, Answers
<1>4. ASSUME NEW q, req' = [req EXCEPT ![r] = q], q.at \in {"refused", "sleep"},
             req[r].at \in {"answered", "refused"}
      PROVE  Told' = Told /\ Told[r] = "open"
  <2>1. Known(q.at) = "open" /\ Known(req[r].at) = "open"
    BY <1>4, KnownPlaces
  <2>2. Told' = Told
    BY <1>4, <2>1, Unseen
  <2>3. Told[r] = "open"
    BY <1>4, <2>1, Turns
  <2>4. QED
    BY <2>2, <2>3
<1>5. ASSUME NEW q, req' = [req EXCEPT ![r] = q], q.at \in Answers,
             req[r].at \in {"answered", "refused"}, UNCHANGED <<retry, shutdown>>
      PROVE  Turn(r, "open", q.at)
  <2>1. Known(q.at) = q.at /\ Known(req[r].at) = "open"
    BY <1>5, KnownPlaces DEF Answers
  <2>2. Told[r] = "open" /\ Told' = [Told EXCEPT ![r] = q.at]
    BY <1>5, <2>1, Turns
  <2>3. QED
    BY <1>5, <2>2 DEF Turn
<1>6. ASSUME NEW to, NEW c
      PROVE  [Fresh EXCEPT !.at = to].at = to /\ [Fresh EXCEPT !.at = to, !.cached = c].at = to
  BY DEF Fresh
<1>7. CASE Offer(r)
  <2>1. PICK to \in {"accepted", "refused"} : \E c :
          req' = [req EXCEPT ![r] = [Fresh EXCEPT !.at = to, !.cached = c]]
    BY <1>7 DEF Offer, Verdicts
  <2>2. req[r].at = "answered" /\ UNCHANGED <<retry, shutdown>>
    BY <1>7 DEF Offer, worldVars
  <2>3. PICK c : req' = [req EXCEPT ![r] = [Fresh EXCEPT !.at = to, !.cached = c]]
    BY <2>1
  <2>4. PICK q : req' = [req EXCEPT ![r] = q] /\ q.at = to
    BY <1>6, <2>3
  <2>5. CASE to = "accepted"
    BY <1>5, <2>2, <2>4, <2>5 DEF Answers
  <2>6. CASE to = "refused"
    <3>1. Told' = Told
      BY <1>4, <2>2, <2>4, <2>6
    <3>2. QED
      BY <2>2, <3>1 DEF Hidden
  <2>7. QED
    BY <2>1, <2>5, <2>6
<1>8. CASE TryAgain(r)
  <2>1. PICK q : q = [Fresh EXCEPT !.at = "sleep"]
    OBVIOUS
  <2>2. req' = [req EXCEPT ![r] = q] /\ q.at = "sleep" /\ req[r].at = "refused"
    BY <1>6, <1>8, <2>1 DEF TryAgain
  <2>3. /\ retry[r] # 0 /\ UNCHANGED shutdown
        /\ retry' = [retry EXCEPT ![r] = IF @ > 0 THEN @ - 1 ELSE @]
    BY <1>8 DEF TryAgain, worldVars
  <2>4. Told' = Told /\ Told[r] = "open"
    BY <1>4, <2>2
  <2>5. QED
    BY <2>3, <2>4 DEF Retried
<1>9. CASE GiveUp(r)
  <2>1. PICK q : q = [Fresh EXCEPT !.at = "failed"]
    OBVIOUS
  <2>2. /\ req' = [req EXCEPT ![r] = q] /\ q.at = "failed" /\ req[r].at = "refused"
        /\ shutdown /\ UNCHANGED <<retry, shutdown>>
    BY <1>6, <1>9, <2>1 DEF GiveUp, worldVars
  <2>3. QED
    BY <1>5, <2>2 DEF Answers
<1>10. CASE LastResort(r)
  <2>1. PICK to \in Answers : req' = [req EXCEPT ![r] = [Fresh EXCEPT !.at = to]]
    BY <1>10 DEF LastResort, Verdicts, Answers
  <2>2. PICK q : q = [Fresh EXCEPT !.at = to]
    OBVIOUS
  <2>3. /\ req' = [req EXCEPT ![r] = q] /\ q.at = to /\ req[r].at = "refused"
        /\ retry[r] = 0 /\ UNCHANGED <<retry, shutdown>>
    BY <1>6, <1>10, <2>1, <2>2 DEF LastResort, worldVars
  <2>4. Turn(r, "open", to)
    BY <1>5, <2>3
  <2>5. QED
    BY <2>3, <2>4 DEF Answers
<1>11. QED
  BY <1>2, <1>3, <1>7, <1>8, <1>9, <1>10

\* A request ends once, accepted or else failed, the latter only without retries or in
\* a shutdown, and is then released: HTTPClient::Request implements RequestContract.
THEOREM ContractKept == Spec => KeepsContract
<1>1. Init => Contract!Init
  <2> SUFFICES ASSUME Init PROVE Contract!Init
    OBVIOUS
  <2>1. Told = [r \in Request |-> "none"]
    <3>1. \A r \in Request : req[r].at = "idle"
      BY DEF Init, Fresh
    <3>2. \A r \in Request : Outcome(r) = "none"
      BY <3>1 DEF Outcome, Ended
    <3>3. QED
      BY <3>2 DEF Told
  <2>2. retry = Retry /\ shutdown = FALSE
    BY DEF Init
  <2>3. QED
    BY <2>1, <2>2 DEF Contract!Init, Told
<1>2. IInv /\ [Next]_vars => [Contract!Next]_<<Told, retry, shutdown>>
  <2> SUFFICES ASSUME IInv, [Next]_vars PROVE [Contract!Next]_<<Told, retry, shutdown>>
    OBVIOUS
  <2>1. TypeOK
    BY DEF IInv
  <2>2. CASE Hidden
    BY <2>2 DEF Hidden
  <2>3. ASSUME NEW r \in Request, Start(r) \/ Step(r) \/ Lose(r)
        PROVE  [Contract!Next]_<<Told, retry, shutdown>>
    <3>1. CASE Turn(r, "none", "open")
      BY <3>1 DEF Turn, Contract!Next, Contract!Begin, Told
    <3>2. CASE Turn(r, "open", "accepted")
      BY <3>2 DEF Turn, Contract!Next, Contract!Accept, Told
    <3>3. CASE Retried(r)
      BY <3>3 DEF Retried, Contract!Next, Contract!TryAgain, Told
    <3>4. CASE Turn(r, "open", "failed") /\ (retry[r] = 0 \/ shutdown)
      BY <3>4 DEF Turn, Contract!Next, Contract!Fail, Told
    <3>5. CASE \E a \in Answers : Turn(r, a, "released")
      BY <3>5 DEF Turn, Answers, Contract!Next, Contract!Release, Told
    <3>6. QED
      BY <2>1, <2>2, <2>3, <3>1, <3>2, <3>3, <3>4, <3>5, ThreadShows, HandlersShow DEF Step
  <2>4. CASE Publish
    <3>1. UNCHANGED <<req, retry, shutdown>>
      BY <2>4 DEF Publish
    <3>2. UNCHANGED Told
      BY <3>1 DEF Told, Outcome
    <3>3. QED
      BY <3>1, <3>2
  <2>5. CASE Shutdown
    <3>1. UNCHANGED <<req, retry>> /\ ~shutdown /\ shutdown' = TRUE
      BY <2>5 DEF Shutdown
    <3>2. UNCHANGED Told
      BY <3>1 DEF Told, Outcome
    <3>3. QED
      BY <3>1, <3>2 DEF Contract!Next, Contract!Shutdown, Told
  <2>6. CASE Die
    <3>1. retry' = Retry /\ shutdown' = FALSE /\ req' = [r \in Request |-> Fresh]
      BY <2>6 DEF Die
    <3>2. Told' = [r \in Request |-> "none"]
      <4>1. \A r \in Request : req'[r].at = "idle"
        BY <3>1 DEF Fresh
      <4>2. \A r \in Request : Outcome(r)' = "none"
        BY <4>1 DEF Outcome, Ended
      <4>3. QED
        BY <4>2 DEF Told
    <3>3. QED
      BY <3>1, <3>2 DEF Contract!Next, Contract!Die, Told
  <2>7. CASE UNCHANGED vars
    <3>1. UNCHANGED <<req, retry, shutdown>>
      BY <2>7 DEF vars
    <3>2. UNCHANGED Told
      BY <3>1 DEF Told, Outcome
    <3>3. QED
      BY <3>1, <3>2
  <2>8. QED
    BY <2>3, <2>4, <2>5, <2>6, <2>7 DEF Next
<1>3. QED
  BY Invariance, <1>1, <1>2, PTL DEF Spec, KeepsContract, Contract!Spec, Contract!vars, Told

=============================================================================
