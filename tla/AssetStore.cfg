SPECIFICATION FairSpec
CONSTANTS
  i3 = i3
  p1 = p1
  p2 = p2
  table = table
  licence = licence
  old = old
  new = new
  text = text
  Installers = {i1, i2, i3}
  Readers = {r1}
  Preparations = {p1, p2}
  Files = {table, licence}
  Prepared <- MCPrepared
  Wanted <- MCWanted
  Bad = Bad
  None = None
INVARIANTS BytesAreVerified StillNeeded
PROPERTIES InstallEnds Heals
