CONSTANTS
  Jobs = {j1, j2}
  Procs = {p1, p2}
  NoJob = NoJob
  NoProc = NoProc
  MaxFaults = 2
SPECIFICATION BackupsSpec
INVARIANTS
  NoStrayChild
  ReadsOwnChild
  SnapshotKept
  LeftBehind
PROPERTIES
  VerdictSound
CHECK_DEADLOCK FALSE
SYMMETRY Sym
