\* The agent's session: Serve and one goroutine of the monitor at a time, under fairness.
CONSTANTS
  Conns = {c1, c2, c3}
  Serve = Serve
  Attempts = {a1}
  Callers = {}
  NoConn = NoConn
SPECIFICATION FairSpec
PROPERTIES
  Reconnects
