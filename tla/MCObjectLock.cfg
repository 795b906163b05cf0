SPECIFICATION FairSpec
CONSTANTS
  Thread = {t1, t2, t3}
  NoThread = NoThread
  MaxDepth = 2
INVARIANTS
  MutualExclusion
  IInv
PROPERTIES
  Refines
  Progress
