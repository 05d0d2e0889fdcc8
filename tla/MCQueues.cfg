SPECIFICATION MCFairSpec
CONSTANTS
  t1 = t1
  t2 = t2
  o1 = o1
  o2 = o2
  o3 = o3
  w1 = w1
  w2 = w2
  w3 = w3
  r1 = r1
  r2 = r2
  r3 = r3
  NoGit = NoGit
  LoopTasks <- MCLoopTasks
  LoopLease <- MCLoopLease
  LoopCapacity = 3
  LoopQueued = 4
  Commands <- MCCommands
  KeyOf <- MCKeyOf
  None = None
  Turns = {t1, t2}
  Operations = {o1, o2, o3}
  TurnOf <- MCTurnOf
  Serialized = {o1, o2, o3}
INVARIANTS
  AllowedOnce
  ProcessesSerialized
  NoneToAnswerAfterTurn
  LoopComputesDrain
  AnswerIsWhole
  RunsInItsSandbox
PROPERTIES
  OperationsSettle
  EveryQueuedTaskLeaves
  RequestEnds
  CommandsEnd
CHECK_DEADLOCK FALSE
