--------------------------- MODULE MCHTTPRequests ---------------------------
(* A text and a sound of the same path; the loader's text has no limit.    *)
EXTENDS HTTPRequests

CONSTANTS text, sound

MCRequest == {text, sound}
MCSound == {sound}
MCRetry == [r \in MCRequest |-> IF r = text THEN -1 ELSE 1]
MCBad == {1}
=============================================================================
