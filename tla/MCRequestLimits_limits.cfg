CONSTANTS
  a = a
  b = b
  s1 = s1
  s2 = s2
  account = account
  Tenants = {a, b}
  Sessions = {s1, s2}
  Accounts = {account}
  Account <- Shared
  Evolving = {a}
  NoCap = NoCap
  Settings <- Starts
  Interval = 1
  MaxAttempts = 2
  MaxCalls = 2
SPECIFICATION FairSpec
INVARIANTS CapOvershoot
PROPERTIES PacedApart EveryTurnGetsOn
