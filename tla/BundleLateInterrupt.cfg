SPECIFICATION Spec
CONSTANTS
  Publishers = {b1, b2, b3}
  Parts = 3
  None = None
  Torn = Torn
INVARIANT CompleteMeansWhole
CHECK_DEADLOCK FALSE
