CONSTANTS
  Reads = {r1, r2}
  NoRead = NoRead
  Size = 4
  Want = 2
  Layouts <- SomeLayouts
  MaxFaults = 1
  MaxUnderWay = 2
  Entries = 5
  Batch = 2
  Buffer = 2
  MaxDirEntries = 4
  DirFaults = 2
  Sizes = {1, 2}
  Times = {1, 2}
  Aces <- SomeAces
  MaxLost = 1
SPECIFICATION RemoteSpec
INVARIANTS
  DataRight
  ShortExplained
  ReadsGoOn
  SeekLands
  HandlesLeft
  ListingWhole
PROPERTIES
  RequestsAnswered
CHECK_DEADLOCK FALSE
