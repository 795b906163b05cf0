SPECIFICATION Spec
CONSTANTS
  a = a
  b = b
  c = c
  u1 = u1
  u2 = u2
  u3 = u3
  File = {a, b}
  Unknown = {}
  Audio = {}
  Faulty = {}
  Forgiven = {}
  Updater = {u1, u2, u3}
  NoFile = NoFile
  LoadSpeed = 2
  MaxRetry = 1
  ReadyThrows = FALSE
  MayRelease = FALSE
INVARIANT ToldTruly
CHECK_DEADLOCK FALSE
