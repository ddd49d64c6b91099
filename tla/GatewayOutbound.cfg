SPECIFICATION Spec
CONSTANTS
  i1 = i1
  o1 = o1
  w1 = w1
  w2 = w2
  m1 = m1
  a1 = a1
  Inbound = {}
  Outbound = {o1}
  Workers = {w1, w2}
  Streams = {m1}
  Apps = {a1}
  Threads = {w1, w2, m1, a1}
  DialledTo = {"event", "status", "upgrade"}
  MaxDeliveries = 3
  MaxOps = 2
  Ops = {"dial", "hangup", "close", "stop"}
SYMMETRY Symmetry
INVARIANTS
  TypeOK
  DigitsOnce
  ClosedIsUnlisted
CHECK_DEADLOCK FALSE
