SPECIFICATION FairSpec
CONSTANTS
  a = a
  b = b
  c = c
  u1 = u1
  u2 = u2
  u3 = u3
  File = {a, b}
  Unknown = {}
  Audio = {a}
  Faulty = {b}
  Forgiven = {a}
  Updater = {u1, u2}
  NoFile = NoFile
  LoadSpeed = 1
  MaxRetry = 1
  ReadyThrows = FALSE
  MayRelease = TRUE
PROPERTIES
  ReleaseEnds
  StartedEnds
  LoadingEnds
CHECK_DEADLOCK FALSE
