SPECIFICATION Spec
CONSTANTS
  Publishers = {b1, b2, b3}
  Parts = 3
  None = None
  Torn = Torn
INVARIANTS MarkedIsWhole PublishedStays NoPartialOutput
CHECK_DEADLOCK FALSE
