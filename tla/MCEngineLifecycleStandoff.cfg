SPECIFICATION Spec
CONSTANTS
  Context = {c1, c2}
  NoContext = NoContext
INVARIANT NoStandoff
CHECK_DEADLOCK FALSE
