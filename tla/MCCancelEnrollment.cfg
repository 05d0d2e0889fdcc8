SPECIFICATION Spec
CONSTANTS
  None = None
  Enrollments = {e1}
  Polls = {p1, p2}
  Flights = {f1}
  MaxGen = 2
  MaxBusy = 1
  DiskFails = FALSE
PROPERTIES
  CancelRemovesPending
CHECK_DEADLOCK FALSE
