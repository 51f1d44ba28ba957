SPECIFICATION FairSpec
CONSTANTS
  None = None
  Hundredth = 10
  Fine = 100
  MinKDistance = 75
  MaxQDivisions = 6
  MaxIrreducibleQ = 6
  Cells <- MCCells
  Requests <- MCRequests
  Cutoff = 100
  Layers <- MCLayers
  BulkVertices <- MCBulkVertices
  MaxVertices = 6
INVARIANTS
  MeshesKeepSymmetry LadderIsWhole RungsDifferByOne
  CoversTheTable NeverRepeats LabelsAreSpecial
PROPERTY PathIsMade
