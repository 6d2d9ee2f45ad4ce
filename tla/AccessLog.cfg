SPECIFICATION LogFairSpec
CONSTANTS
  Content = {"v1", "v2", "torn", "cut"}
  Valid = {"v1", "v2", "cut"}
  Debounce = 2
  MaxEdits = 3
  LevelOf <- MCLevelOf
CHECK_DEADLOCK FALSE
INVARIANTS
  TypeOK
  SummariesWritten
PROPERTIES
  BurstCoalesced
  Converges
