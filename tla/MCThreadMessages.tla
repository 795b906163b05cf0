-------------------------- MODULE MCThreadMessages --------------------------
(* The calls the engine makes while it loads: the loader's update thread w1 *)
(* waits for onReady on the OpenGL thread, whose callback posts to itself;  *)
(* an HTTP thread w2 posts an answer to the OpenGL thread, which waits for   *)
(* the main thread to create a sound, which runs a call of its own in place; *)
(* w2 also sends the main thread a load, which starts a thread (w3) whose    *)
(* result goes to the OpenGL thread.                                         *)
EXTENDS ThreadMessages

CONSTANTS w1, w2, w3,
          ready, self, answer, sound, load, inplace, request, late

Sync == Call \cap {ready, sound, inplace}

Targets ==
  [c \in Call |-> CASE c \in {ready, self, answer, late} -> GL
                     [] c \in {sound, load, inplace}      -> Main
                     [] c = request                       -> New]

Parents ==
  [c \in Call |-> CASE c = ready              -> w1
                     [] c = self               -> ready
                     [] c \in {answer, load}     -> w2
                     [] c = sound              -> answer
                     [] c = inplace            -> sound
                     [] c = request            -> load
                     [] c = late               -> request]
=============================================================================
