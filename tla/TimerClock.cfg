SPECIFICATION FairSpec

CONSTANTS
  once = once
  later = later
  cyclic = cyclic
  w1 = w1
  w2 = w2
  Timers <- ThreeTimers
  Workers <- TwoWorkers
  Cyclic <- OneCyclic
  m_delay <- Delays
  Hour = 1
  LastTime = 3

INVARIANTS
  SortedOnce
  OnceOrCyclic

PROPERTIES
  CollectsExactlyDue
  EveryTimerFires

CHECK_DEADLOCK FALSE
