CONSTANTS
  Jobs = {j1, j2}
  Procs = {p1, p2}
  NoJob = NoJob
  NoProc = NoProc
  MaxFaults = 0
SPECIFICATION BackupsSpec
PROPERTIES
  CrashedMeansCrashed
CHECK_DEADLOCK FALSE
