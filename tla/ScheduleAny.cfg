SPECIFICATION Spec
CONSTANTS
  w1 = w1
  w2 = w2
  t1 = t1
  t2 = t2
  t3 = t3
  AnyThread = AnyThread
  NoTask = NoTask
  Workers <- TwoWorkers
  Tasks <- ThreeTasks
  Pins <- AnyOnly
  IdleEnds <- EitherEnd
  Client <- NotEager
SYMMETRY SymmetryUnpinned
INVARIANTS
  TypeOK
  ExclusiveRun
  Placement
PROPERTY TerminatedIsFinal
CHECK_DEADLOCK FALSE
