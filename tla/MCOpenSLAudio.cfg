SPECIFICATION Spec
CONSTANTS
  a = a
  b = b
  c = c
  p1 = p1
  p2 = p2
  main = main
  gl = gl
  Thread = {main, gl}
  Sound = {a, b, c}
  Player = {p1, p2}
  None = None
SYMMETRY Symmetry
INVARIANTS
  Locks
  OneOwner
  NoOrphan
  HeardOrMarked
  Background
CHECK_DEADLOCK FALSE
