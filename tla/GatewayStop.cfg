SPECIFICATION FairSpec
CONSTANTS
  i1 = i1
  o1 = o1
  w1 = w1
  w2 = w2
  m1 = m1
  a1 = a1
  Inbound = {}
  Outbound = {o1}
  Workers = {w1, w2}
  Streams = {m1}
  Apps = {a1}
  Threads = {w1, w2, m1, a1}
  DialledTo = {"event"}
  MaxDeliveries = 1
  MaxOps = 2
  Ops = {"dial", "stop"}
PROPERTIES
  StopReturns
CHECK_DEADLOCK FALSE
