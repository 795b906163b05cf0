SPECIFICATION Spec
CONSTANTS
  a = a
  b = b
  c = c
  u1 = u1
  u2 = u2
  u3 = u3
  File = {a, b, c}
  Unknown = {c}
  Audio = {a}
  Faulty = {}
  Forgiven = {a}
  Updater = {u1, u2, u3}
  NoFile = NoFile
  LoadSpeed = 2
  MaxRetry = 2
  ReadyThrows = TRUE
  MayRelease = TRUE
SYMMETRY Updaters
INVARIANTS
  Counters
  OneUpdater
  ReadyAfterStarted
  ReleasedQuiet
CHECK_DEADLOCK FALSE
