SPECIFICATION Spec
CONSTANTS
  acme = acme
  d1 = d1
  d2 = d2
  d3 = d3
  w1 = w1
  m1 = m1
  m2 = m2
  m3 = m3
  Companies = {acme}
  Calls = {d1, d2, w1}
  From <- Speaks
  Depth = 1
  Deliveries = {d1, d2}
  Windows = {w1}
  Messages = {m1}
  Batches <- Single
  Cap = 2
  MaxFaults = 0
INVARIANTS
  AckedIsHandedOver
CHECK_DEADLOCK FALSE
