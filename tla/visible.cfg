\* Two pods drain and fail in every way while two requests of one user submit.
SPECIFICATION Spec
CONSTANTS
  e1 = e1  u1 = u1  None = None
  Events = {e1}
  Users = {u1}
  Pods = {p1, p2}
  Requests = {r1, r2}
  Readers = {}
  Placeholders <- AllPlaced
  Statuses = {"safe"}
  Messages = {}
  MaxReports = 3
  Faults = {"redis", "db"}
SYMMETRY Symmetry
INVARIANTS TypeOK ReportsVisible
PROPERTIES NeverBlankAgain
