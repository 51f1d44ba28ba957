SPECIFICATION FairSpec
CONSTANTS
  Calls = {c1, c2, r1}
  Rankings = {r1}
  None = None
INVARIANTS OwnAnswer CleanWhenKept OneAtATime
PROPERTIES ImplementsCallServer EveryCallEnds RankingsNotHeldUp NoOrphans
CHECK_DEADLOCK FALSE
