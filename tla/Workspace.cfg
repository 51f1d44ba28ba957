SPECIFICATION FairSpec
CONSTANTS
  Structures = {s1, s2}
  Tasks = {scf, dos}
  scf = scf
  dos = dos
  OverrideKeys = {general, magnetic}
  general = general
  magnetic = magnetic
  Specific = {magnetic}
  AppliesTo <- MCAppliesTo
  Requests = {q1, q2}
  MaxRevision = 2
  None = None
  Absent = Absent

INVARIANTS ReviewedIsOfOpenStructure RequestsFit BusyIsInFlight
PROPERTIES SavedIsOnScreen ResultIsFinal ImplementsBundlePipeline SettlesOnceUserStops
