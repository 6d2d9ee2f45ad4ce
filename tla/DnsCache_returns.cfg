SPECIFICATION FairSpec
CONSTANTS
  t1 = t1
  t2 = t2
  cl = cl
  x = x
  y = y
  Caller = {t1, t2}
  Key = {x, y}
  Client = {cl}
  NoClient = NoClient
  Tags <- MCTagged
  Flight = {1, 2}
  Slots = {1, 2}
  Nil = Nil
  MaxPerClient = 1
  MaxConcurrent = 1
  MaxEntries = 1
  TTL = 2
  NegativeTTL = 1
  FailureTTL = 1
  LookupTimeout = 1
  Outcomes = {"addrs", "failure"}
  MaxNow = 2
CHECK_DEADLOCK FALSE
PROPERTIES
  CallsReturn
