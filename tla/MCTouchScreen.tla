--------------------------- MODULE MCTouchScreen ---------------------------
(* Two overlapping areas on a screen of three places, and a place beyond.   *)
EXTENDS TouchScreen

CONSTANTS a, b

MCAreas == <<a, b>>
MCInside == [x \in {a, b} |-> IF x = a THEN {0, 1} ELSE {1, 2}]
=============================================================================
