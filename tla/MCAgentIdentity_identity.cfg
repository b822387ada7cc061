\* A Windows and a Unix host, and any two events besides enrolment, renewal and reports.
CONSTANTS
  Windows = {w}
  Unix = {u}
  Addrs <- SomeAddrs
  BadAddr <- NoAddr
  MaxCert = 2
  MaxEvents = 2
  Blank = Blank
  Nobody = Nobody
SPECIFICATION IdSpec
INVARIANTS
  PairUsable
  StaysKnown
PROPERTIES
  ReportsOwnTargets
  ConnectionKept
CHECK_DEADLOCK FALSE
