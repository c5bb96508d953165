\* One pod is shut down while it drains; nothing else fails.
SPECIFICATION Spec
CONSTANTS
  e1 = e1  u1 = u1  None = None
  Events = {e1}
  Users = {u1}
  Pods = {p1}
  Requests = {r1}
  Readers = {}
  Placeholders <- AllPlaced
  Statuses = {"safe"}
  Messages = {}
  MaxReports = 1
  Faults = {"stop"}
INVARIANTS NothingLostOnTermination
