\* Serve, a goroutine of the monitor and a call.
CONSTANTS
  Conns = {c1, c2, c3, c4}
  Serve = Serve
  Attempts = {a1}
  Callers = {k1}
  NoConn = NoConn
SYMMETRY ConnSymmetry
SPECIFICATION Spec
INVARIANTS
  ReconnectOwned
