--------------------------- MODULE RequestContract ---------------------------
(***************************************************************************)
(* What HTTPClient::Request promises its caller (uHTTPClient.h): the       *)
(* stream it accepts ends the request; onfatal is called instead once no   *)
(* retry is left or the caller wants none; one of the two, once, and then  *)
(* onrelease.  A process that dies forgets its requests.                   *)
(***************************************************************************)
EXTENDS Integers

CONSTANTS Request, Retry  \* Retry[r]: retries of request r, -1 for no limit

VARIABLES outcome, retry, shutdown

vars == <<outcome, retry, shutdown>>

Init ==
  /\ outcome = [r \in Request |-> "none"]
  /\ retry = Retry
  /\ shutdown = FALSE

Begin(r) ==
  /\ outcome[r] = "none"
  /\ outcome' = [outcome EXCEPT ![r] = "open"]
  /\ UNCHANGED <<retry, shutdown>>

Accept(r) ==
  /\ outcome[r] = "open"
  /\ outcome' = [outcome EXCEPT ![r] = "accepted"]
  /\ UNCHANGED <<retry, shutdown>>

TryAgain(r) ==
  /\ outcome[r] = "open" /\ retry[r] # 0
  /\ retry' = [retry EXCEPT ![r] = IF @ > 0 THEN @ - 1 ELSE @]
  /\ UNCHANGED <<outcome, shutdown>>

Fail(r) ==
  /\ outcome[r] = "open" /\ (retry[r] = 0 \/ shutdown)
  /\ outcome' = [outcome EXCEPT ![r] = "failed"]
  /\ UNCHANGED <<retry, shutdown>>

Release(r) ==
  /\ outcome[r] \in {"accepted", "failed"}
  /\ outcome' = [outcome EXCEPT ![r] = "released"]
  /\ UNCHANGED <<retry, shutdown>>

Shutdown == ~shutdown /\ shutdown' = TRUE /\ UNCHANGED <<outcome, retry>>

Die == outcome' = [r \in Request |-> "none"] /\ retry' = Retry /\ shutdown' = FALSE

Next ==
  \/ \E r \in Request : Begin(r) \/ Accept(r) \/ TryAgain(r) \/ Fail(r) \/ Release(r)
  \/ Shutdown \/ Die

Spec == Init /\ [][Next]_vars
=============================================================================
