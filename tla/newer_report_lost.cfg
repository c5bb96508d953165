\* One pod, no fault: the user reports again between HGETALL and DEL.
SPECIFICATION Spec
CONSTANTS
  e1 = e1  u1 = u1  None = None
  Events = {e1}
  Users = {u1}
  Pods = {p1}
  Requests = {r1}
  Readers = {}
  Placeholders <- AllPlaced
  Statuses = {"safe", "need_help"}
  Messages = {}
  MaxReports = 2
  Faults = {}
INVARIANT LatestKept
