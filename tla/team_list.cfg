\* Three users, a row per page, two answers in flight.
SPECIFICATION Spec
CONSTANTS
  None = None
  MaxUsers = 3
  Selections <- ThreeSelections
  Initial <- All
  PageSize = 1
  Slots = {r1, r2}
  MaxChanges = 2
  Tables <- TwoTables
SYMMETRY Symmetry
INVARIANTS MissesAtMostMoves PrefixWhileStill
CHECK_DEADLOCK FALSE
