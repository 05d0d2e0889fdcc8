SPECIFICATION FairSpec
CONSTANTS
  None = None
  Enrollments = {e1}
  Polls = {p1, p2}
  Flights = {f1}
  MaxGen = 2
  MaxBusy = 1
  DiskFails = TRUE

  
PROPERTIES
  PendingSettles
  SpentTokenIsNoticed
CHECK_DEADLOCK FALSE
