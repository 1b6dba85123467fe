SPECIFICATION FairSpec
CONSTANTS
  acme = acme
  globex = globex
  a1 = a1
  a2 = a2
  g1 = g1
  Companies = {acme}
  Calls = {a1, a2}
  From <- SpeaksAcme
  Depth = 1
  FatalTenants = 2
  MaxFaults = 1
PROPERTIES
  RetriedAfterBackoff
CHECK_DEADLOCK FALSE
