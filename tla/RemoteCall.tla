----------------------------- MODULE RemoteCall -----------------------------
(***************************************************************************)
(* What MainThreadSync, OpenGLThreadSync and their Async forms promise,    *)
(* whatever carries the request: the callback of a call runs at most once; *)
(* a synchronous call ends after its own callback has ended, with a value  *)
(* if that callback returned and with an exception if it threw.            *)
(* ThreadMessages refines this module.                                     *)
(***************************************************************************)
CONSTANTS Call,     \* the calls of a run
          SyncCall  \* those whose caller waits for the result

VARIABLE state      \* how far each call has come

Init == state = [c \in Call |-> "asked"]

Move(c, from, to) == state[c] = from /\ state' = [state EXCEPT ![c] = to]

Start(c) == Move(c, "asked", "running")
Finish(c) == Move(c, "running", "ran")
Throw(c) == Move(c, "running", "threw")
Return(c) == c \in SyncCall /\ Move(c, "ran", "returned")
Raise(c) == c \in SyncCall /\ Move(c, "threw", "raised")

Next == \E c \in Call : Start(c) \/ Finish(c) \/ Throw(c) \/ Return(c) \/ Raise(c)

Spec == Init /\ [][Next]_state
=============================================================================
