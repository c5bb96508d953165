\* One event, two users of whom one may be pruned, managers and admins at once.
SPECIFICATION LiveSpec
CONSTANTS
  Events = {e1}
  Users = {u1, u2}
  Orgs = {fab, unknown}
  Unknown = unknown
  Targets = {{fab, unknown}}
  Scopes = {{fab, unknown}, {fab}}
  Surplus = {u2}
  Ops = {"create", "delete", "prune", "trigger", "report"}
  Slots = {s1, s2}
  MaxReminders = 2
  None = None
  Idle = Idle
  Absent = Absent
  Gone = Gone
INVARIANTS CountsAreTriggers NoOrphans
PROPERTIES HandlersAtomic NothingLost BannerEnds
CHECK_DEADLOCK FALSE
