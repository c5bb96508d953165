\* One event, two users of whom one may be pruned, two transactions.
SPECIFICATION Spec
CONSTANTS
  Events = {e1}
  Users = {u1, u2}
  Orgs = {fab, office, unknown}
  Unknown = unknown
  Targets = {{fab, office, unknown}, {fab}}
  Scopes = {}
  Surplus = {u2}
  Ops = {"create", "update", "delete", "topup", "prune", "backfill", "user"}
  Slots = {s1, s2}
  MaxReminders = 0
  None = None
  Idle = Idle
  Absent = Absent
  Gone = Gone
INVARIANTS TypeOK NoOrphans ClosedAtKnown
PROPERTIES HandlersAtomic NothingLost KnownSnapshotsFrozen CloseStays
SYMMETRY Symmetry
CHECK_DEADLOCK FALSE
