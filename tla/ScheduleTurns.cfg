SPECIFICATION FairSpec
CONSTANTS
  w1 = w1
  w2 = w2
  t1 = t1
  t2 = t2
  t3 = t3
  AnyThread = AnyThread
  NoTask = NoTask
  Workers <- TwoWorkers
  Tasks <- TwoTasks
  Pins <- OneIsPinned
  IdleEnds <- EitherEnd
  Client <- Disciplined
INVARIANTS
  NoDeadResume
  NoLostTask
PROPERTIES
  ImplementsPool
  EveryTurnComes
CHECK_DEADLOCK FALSE
