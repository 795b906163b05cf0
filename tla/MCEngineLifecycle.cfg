SPECIFICATION FairSpec
CONSTANTS
  Context = {c1, c2}
  NoContext = NoContext
INVARIANTS
  Handles
  GLUsesLive
  ThreadIdKept
  AudioFollows
PROPERTY StoppedDeleted
CHECK_DEADLOCK FALSE
