CONSTANTS
  Tools = {"wipe"}
  Pure = {}
  Irreversible = {"wipe"}
  Once = {}
  Grounded = {}
  Repairs <- Renamed
  Harnesses <- OnlyAttended
  MaxEmitRetries = 2
  MaxFaults = 0
SPECIFICATION Spec
INVARIANT ToolExists
CHECK_DEADLOCK FALSE
