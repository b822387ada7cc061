\* Two connections of one client, whose names come back.
CONSTANTS
  Conns = {c1, c2}
  NoConn = NoConn
SPECIFICATION FairSpec
INVARIANTS
  SessionServed
PROPERTIES
  DeadLeaves
