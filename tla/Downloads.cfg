SPECIFICATION FairSpec
CONSTANTS
  Connections = 4
  Attempts = 3
INVARIANTS AcceptedIsTheSource FailsForCause
PROPERTY Ends
