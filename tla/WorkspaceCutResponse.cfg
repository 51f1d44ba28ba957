SPECIFICATION Spec
CONSTANTS
  Structures = {s1}
  Tasks = {scf}
  scf = scf
  dos = dos
  OverrideKeys = {magnetic}
  general = general
  magnetic = magnetic
  Specific = {magnetic}
  AppliesTo <- MCAppliesTo
  Requests = {q1}
  MaxRevision = 2
  None = None
  Absent = Absent
PROPERTY FailingRequestIsNotDueAgain
