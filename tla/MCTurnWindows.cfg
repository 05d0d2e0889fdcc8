SPECIFICATION MCFairSpec
CONSTANTS
  w1 = w1
  w2 = w2
  w3 = w3
  r1 = r1
  r2 = r2
  r3 = r3
  t1 = t1
  t2 = t2
  chat1 = chat1
  NoGit = NoGit
  None = None
  Tasks <- MCTasks
  Lease <- MCLease
  Capacity = 2
  MaxQueued = 3
INVARIANTS
  NoConflictingLeases
  NoLostWakeup
  MapsAndSlotsAgree
PROPERTIES
  NoOvertaking
  StopSettles
