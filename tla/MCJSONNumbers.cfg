SPECIFICATION Spec
CONSTANTS
  Starts <- MCNumber
  Audiences <- MCAudiences
  NumberSize = 3
INVARIANTS
  NumbersAsDocumented
CHECK_DEADLOCK FALSE
