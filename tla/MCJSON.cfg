SPECIFICATION Spec
CONSTANTS
  Starts <- MCStarts
  Audiences <- MCAudiences
  NumberSize = 3
INVARIANTS
  Boundaries
  Grammar
  SameLanguage
  NodesOwned
  EndsPaired
  ToldAsBuilt
CHECK_DEADLOCK FALSE
