\* Clocks and pipelines late by up to one tick, every fault.
SPECIFICATION Spec
CONSTANTS
  Requests = {r1, r2}
  Limit = 2
  Window = 4
  MaxSkew = 1
  MaxDelay = 1
  MaxTime = 6
  Idle = Idle
INVARIANTS TypeOK WindowBound RefusalsJustified
SYMMETRY Symmetry
CHECK_DEADLOCK FALSE
