SPECIFICATION FairSpec
CONSTANTS
  Tasks = {"relax", "dos", "phonon", "d3phonon"}
  NQ = 2
INVARIANTS ReachedIsMade MatricesOfTheSave StopFileIsOwn
PROPERTIES ResumingKeepsWork Finishes
CHECK_DEADLOCK FALSE
