SPECIFICATION ReadinessSpec
CONSTANTS
  N = 2
  NoState = NoState
  MaxChanges = 4
INVARIANTS SoundUnlessRaced
