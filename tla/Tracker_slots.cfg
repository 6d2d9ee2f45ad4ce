SPECIFICATION Spec
CONSTANTS
  a = a
  b = b
  c = c
  lan = lan
  wan = wan
  k1 = k1
  k2 = k2
  k3 = k3
  k4 = k4
  IP = {a, b}
  Network = {lan}
  Obj = {1, 2, 3}
  Nil = Nil
  Conn = {k1, k2, k3, k4}
  ConnLimits = {1, 2}
  TotalLimits = {1, 3}
  ReqRates = {0}
  ReqBursts = {1}
  ReqRate = 0
  ReqBurst = 1
  Unit = 1
  LogRate = 1
  LogBurst = 1
  LogKey = {"get", "put"}
  MaxSuppressedKeys = 1
  MaxClients = 1
  ForgetAfter = 0
  MaxNow = 2
  MaxDropped = 2
  NetOf <- MCNetOf
SYMMETRY MCSymmetry
CHECK_DEADLOCK FALSE
INVARIANTS
  TypeOK
  SlotsExact
  HoldersAttached
  LimitsRespected
  LinesAccounted
