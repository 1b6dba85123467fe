CONSTANTS
  s1 = s1
  s2 = s2
  t1 = t1
  t2 = t2
  Sessions = {s1, s2}
  Tasks = {t1, t2}
  NoTask = NoTask
  NoMsg = NoMsg
  MailboxDepth = 1
  MaxMsgs <- TwoAndOne
  MaxIdle = 1
  Settings <- BuiltWith
SPECIFICATION FairSpec
INVARIANTS OneTaskPerSession AllAccountedForInOrder RefusalHasATask PassRunsAlone SlotsAccounted
PROPERTIES ImplementsSessionTurns EveryMessageGetsATurn CloseEnds
