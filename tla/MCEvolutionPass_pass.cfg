CONSTANTS
  Sessions = {s1, s2}
  Evaluators = {symbolic}
  Patches = {p1}
  Notes = {n1, n2}
  Bounds <- Shapes
  MaxNotes = 1
SPECIFICATION Spec
SYMMETRY Alike
INVARIANTS ChainHoldsApart TurnsAreKept GradedOnce EvidenceIsCurrent AcceptedIsPublished RejectedIsOut
