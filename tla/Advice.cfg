SPECIFICATION Spec
CONSTANTS
  None = None
  Element <- MCElement
  Tables <- MCTables
  Installed = {1, 2, 3}
  FetchMissing = FALSE
  Partitions <- MCPartitions
  Asked <- MCAsked
INVARIANTS RemedyHelps RemediesEnd ReadyRuns
