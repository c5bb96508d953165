\* Two pods drain, crash, restart and shut down while users submit and read; one
\* of them is not in the event; the replica lags.
SPECIFICATION Spec
CONSTANTS
  e1 = e1  u1 = u1  None = None
  Events = {e1}
  Users = {u1, u2}
  Pods = {p1, p2}
  Requests = {r1}
  Readers = {g1}
  Placeholders <- OneMissing
  Statuses = {"safe"}
  Messages = {}
  MaxReports = 2
  Faults = {"db", "crash", "stop", "lag"}
SYMMETRY SlotSymmetry
INVARIANTS Genuine ReadersSeeReports
PROPERTIES KeepsPromise
