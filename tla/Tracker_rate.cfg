SPECIFICATION Spec
CONSTANTS
  a = a
  b = b
  c = c
  lan = lan
  wan = wan
  k1 = k1
  k2 = k2
  k3 = k3
  k4 = k4
  IP = {a, b}
  Network = {lan, wan}
  Obj = {1, 2, 3, 4}
  Nil = Nil
  Conn = {1, 2}
  ConnLimits = {1}
  TotalLimits = {0}
  ReqRates = {0, 1, 2}
  ReqBursts = {1, 2}
  ReqRate = 2
  ReqBurst = 2
  Unit = 2
  LogRate = 1
  LogBurst = 1
  LogKey = {}
  MaxSuppressedKeys = 1
  MaxClients = 2
  ForgetAfter = 4
  MaxNow = 7
  MaxDropped = 3
  NetOf <- MCNetOf
CHECK_DEADLOCK FALSE
INVARIANTS
  SustainedRate
