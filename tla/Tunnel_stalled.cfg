SPECIFICATION Spec
CONSTANTS
  Idle = 8
  Check = 2
CHECK_DEADLOCK FALSE
INVARIANTS
  IdleAlwaysCloses
