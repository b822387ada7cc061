\* Every kind of host, three versions, with faults, deaths and reboots.
CONSTANTS
  Kinds = {"windows", "package", "binary"}
  MaxVersion = 3
  MaxTries = 3
  MaxFaults = 5
  MaxCrashes = 3
SPECIFICATION FairUpdSpec
INVARIANTS
  InstalledWhole
  SomeBinaryLeft
  DownExplained
  RolledBack
PROPERTIES
  CatchesUp
CHECK_DEADLOCK FALSE
