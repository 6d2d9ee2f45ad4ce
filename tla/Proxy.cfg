SPECIFICATION FairSpec
CONSTANTS
  k1 = k1
  k2 = k2
  k3 = k3
  p = p
  q = q
  old = old
  new = new
  lan = lan
  h = h
  g = g
  x = x
  y = y
  Nil = Nil
  Conn = {k1, k2, k3}
  Client = {p, q}
  ClientOf <- MCClientOf
  Config = {old, new}
  FirstConfig = old
  Subnet = {lan}
  SubnetIn <- MCSubnetIn
  Host = {h, g}
  Addr = {x, y}
  HostOK <- MCHostOK
  AddrOK <- MCAddrOK
  PerClient <- MCPerClient
  Total <- MCTotal
CHECK_DEADLOCK FALSE
INVARIANTS
  TypeOK
  SlotWhileServed
PROPERTIES
  StreamFlows
  IsGate
  SignalEnds
  RequestsAnswered
