CONSTANTS
  p1 = p1
  p2 = p2
  loop = loop
  Producers <- MCProducers
  LoopThread = loop
  MaxTasks = 4
SPECIFICATION Spec
INVARIANTS
  RunOnceInOrder
  NextRound
PROPERTIES
  StartReturns
  EveryTaskRuns
  DestructorEnds
  ImplementsTaskQueue
