CONSTANTS
  Sessions = {s1}
  Evaluators = {symbolic}
  Patches = {}
  Notes = {}
  Bounds <- OneTurnEach
  MaxNotes = 1
SPECIFICATION Spec
INVARIANTS ChainHolds
