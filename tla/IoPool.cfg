SPECIFICATION FairSpec
CONSTANTS
  w1 = w1
  w2 = w2
  t1 = t1
  cyclic = cyclic
  once = once
  AnyThread = AnyThread
  Client = Client
  None = None
  Workers <- TwoWorkers
  Tasks <- OneTask
  Timers <- BothTimers
  Early <- OneCyclic
  Cyclic <- OneCyclic
  Pin <- FirstIsPinned
  Tags <- EitherTag
  TimersAlive = 1
  PipeSize = 1
  QueueSize = 1
INVARIANTS
  CountersAgree
  SomebodyStays
PROPERTIES
  TaskRuns
  StopReturns
CHECK_DEADLOCK FALSE
