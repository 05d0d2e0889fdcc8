SPECIFICATION MCFairSpec
CONSTANTS
  t1 = t1
  t2 = t2
  t3 = t3
  chat1 = chat1
  chat2 = chat2
  NoGit = NoGit
  None = None
  Tasks <- MCTwo
  Threads <- MCOne
  ThreadOf <- MCTwoThreadOf
  Lease <- MCWriters
  Capacity = 1
  MaxQueued = 2
  MaxPost = 2
  Windows = {"run-rejects"}
INVARIANTS
  ExclusiveWorkspace
  LiveTurnIsStoppable
  RowsAgree
PROPERTIES
  KeepsPromise
  PairSettles
