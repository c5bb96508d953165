\* Two scopes, a writer of each kind after the other, jobs in between, clocks past
\* the TTL.
SPECIFICATION Spec
CONSTANTS
  u1 = u1  u2 = u2  d1 = d1  All = All  None = None  Absent = Absent  Gone = Gone
  Users = {u1, u2}
  Depts = {d1}
  Initial <- OneRow
  Surplus = {u2}
  Kinds = {"by-department"}
  Scopes = {All, d1}
  Readers = {r1}
  Writers = {w1}
  Statuses = {"safe"}
  WriterKinds = {"drain", "fallback", "delete"}
  RedisFails = TRUE
  TTL = 1
  MaxAge = 1
  MaxTime = 3
  MaxWrites = 2
INVARIANTS ServedFresh StaleOnlyByRace
CHECK_DEADLOCK FALSE
