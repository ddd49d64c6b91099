SPECIFICATION Spec
CONSTANTS
  i1 = i1
  o1 = o1
  w1 = w1
  w2 = w2
  m1 = m1
  a1 = a1
  Inbound = {i1}
  Outbound = {}
  Workers = {w1, w2}
  Streams = {m1}
  Apps = {a1}
  Threads = {w1, w2, m1, a1}
  DialledTo = {}
  MaxDeliveries = 2
  MaxOps = 0
  Ops = {}
INVARIANTS
  RejectionHangsUp
CHECK_DEADLOCK FALSE
