\* Two requests at a time of an administrator and an employee, clocks past both
\* TTLs and the end of a token.
SPECIFICATION Spec
CONSTANTS
  a = a  e = e  None = None  Gone = Gone
  Users = {a, e}
  Roles = {"employee", "admin"}
  Initial <- OneAdmin
  Patches <- ThreePatches
  Prunable = {e}
  Requests = {r1, r2}
  RedisFails = TRUE
  TTL = 1
  Lifetime = 1
  MaxAge = 0
  MaxTime = 2
  MaxWrites = 2
SYMMETRY Symmetry
INVARIANTS ProfileFresh TokensEnd StaleOnlyByRace
PROPERTIES OnlyAdminsChange OtherFieldsKept
CHECK_DEADLOCK FALSE
