CONSTANTS
  j1 = j1
  Ids <- MCIds
  Paths = {p1}
  Web = {w1}
  Runs = {r1}
  Global = Global
  Free = Free
  None = None
SPECIFICATION JobSpec
INVARIANTS
  ExclusionsOwned
  UnitsAgree
  QueuedIsRunning
PROPERTIES
  ImplementsJobTables
