SPECIFICATION FairSpec
CONSTANTS
  r1 = r1
  r2 = r2
  d = d
  e = e
  x = x
  y = y
  t1 = t1
  t2 = t2
  t3 = t3
  c1 = c1
  c2 = c2
  Nil = Nil
  Req = {r1, r2}
  Dest = {d}
  Vettings <- MCVettings
  Tr = {t1, t2, t3}
  Conn = {c1, c2}
  MaxPools = 1
  IdleTimeout = 1
INVARIANTS
  TypeOK
  ServedWhereApproved
PROPERTIES
  DroppedDrain
