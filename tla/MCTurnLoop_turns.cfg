CONSTANTS
  Tools = {"wipe", "click", "look"}
  Pure = {"look"}
  Irreversible = {"wipe"}
  Once = {"click"}
  Grounded = {"wipe"}
  Repairs <- Renamed
  Harnesses <- All
  MaxEmitRetries = 2
  MaxFaults = 1
SPECIFICATION LiveSpec
INVARIANTS IrreversibleIsConfirmed EffectsAreRecorded
PROPERTIES StagedRunsOnce AnswerIsAboutWhatRan EveryTurnReplies
CHECK_DEADLOCK FALSE
