---------------------------- MODULE MCOpenSLAudio ----------------------------
EXTENDS OpenSLAudio, TLC

CONSTANTS a, b, c, p1, p2, main, gl

Symmetry == Permutations(Sound) \cup Permutations(Player) \cup Permutations(Thread)
=============================================================================
