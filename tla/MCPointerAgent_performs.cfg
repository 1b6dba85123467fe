CONSTANTS
  Conns = {c1, c2}
  Keys = {k1, k2}
  Batches <- Gestures
  MaxConns = 2
  MaxSteps = 2
  Window = 1
  Burst = 1
  Rate = 1
  MaxTime = 1
SYMMETRY Symmetric
SPECIFICATION Spec
INVARIANTS NothingLeftDown RateHeld
PROPERTIES HeldStaysDown
