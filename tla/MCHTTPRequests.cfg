SPECIFICATION FairSpec
CONSTANTS
  text = text
  sound = sound
  Request <- MCRequest
  Sound <- MCSound
  Retry <- MCRetry
  Bad <- MCBad
  MaxVersion = 2
  MaxDeaths = 1
  NoRequest = NoRequest
  NoStream = NoStream
INVARIANTS
  DiskIntact
PROPERTIES
  ConfirmedIsCurrent
  KeepsContract
  RequestEnds
  GoodLoads
CHECK_DEADLOCK FALSE
