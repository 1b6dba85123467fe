SPECIFICATION FairSpec
CONSTANTS
  acme = acme
  globex = globex
  a1 = a1
  a2 = a2
  g1 = g1
  Companies = {acme, globex}
  Calls = {a1, a2, g1}
  From <- Speaks
  Depth = 1
  FatalTenants = 2
  MaxFaults = 2
INVARIANTS
  OneNamePerCompany
  OneDrain
  LiveHasEngine
  StoppedMeansStopped
PROPERTIES
  CompanyServed
  ServeEnds
CHECK_DEADLOCK FALSE
