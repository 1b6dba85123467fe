SPECIFICATION FairSpec
CONSTANTS
  acme = acme
  d1 = d1
  d2 = d2
  d3 = d3
  w1 = w1
  m1 = m1
  m2 = m2
  m3 = m3
  Companies = {acme}
  Calls = {d1, d2, w1}
  From <- Speaks
  Depth = 1
  Deliveries = {d1, d2}
  Windows = {w1}
  Messages = {m1, m2, m3}
  Batches <- Retried
  Cap = 2
  MaxFaults = 1
INVARIANTS
  TwiceOnlyWhenForgotten
  AckedOrCutShort
PROPERTIES
  DeliveriesAnswered
  WindowsLetGo
CHECK_DEADLOCK FALSE
