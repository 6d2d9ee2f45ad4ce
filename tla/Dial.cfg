SPECIFICATION FairSpec
CONSTANTS
  AddrLists <- MCAddrLists
  MaxAddrsPerFamily = 3
  DialBudget = 30
  FallbackDelay = 1
  MinAttemptTimeout = 2
CHECK_DEADLOCK FALSE
INVARIANTS
  TypeOK
  OneWinner
  FailureMeansAllTried
  WithinBudget
PROPERTIES
  NothingLeaks
