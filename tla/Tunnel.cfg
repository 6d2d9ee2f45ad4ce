SPECIFICATION FairSpec
CONSTANTS
  Idle = 8
  Check = 2
CHECK_DEADLOCK FALSE
INVARIANTS
  TypeOK
  IdleCloses
  HalfCloseKeepsOther
PROPERTIES
  IdleCloseJustified
  ClosedIsFreed
