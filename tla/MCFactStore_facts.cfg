CONSTANTS
  Scopes = {a}
  Keys = {k1, k2}
  Stem <- OneStem
  Values = {v1, v2}
  MaxRows = 2
  MaxTime = 1
  MaxFaults = 1
  NoRow = NoRow
SYMMETRY Symmetric
VIEW Seen
SPECIFICATION Spec
INVARIANTS OneLiveVersion SupersededHasSuccessor VectorIsOwnApart
PROPERTIES VersionsKeepTheirValue ValuesSurvive
