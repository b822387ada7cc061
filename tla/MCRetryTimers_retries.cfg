\* Four calls of the two functions for one job, over any timers that earlier ones left, and one
\* step that fails by itself.
CONSTANTS
  Calls = {c1, c2, c3, c4}
  MaxRetry = 2
  MaxFaults = 1
SPECIFICATION Spec
SYMMETRY CallSymmetry
\* The calls are bounded: the system stops when all are back.
CHECK_DEADLOCK FALSE
INVARIANT SomeRetryLeft
