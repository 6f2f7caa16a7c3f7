SPECIFICATION PoolFairSpec
CONSTANT m_threadsnum = 4
INVARIANTS
  PoolInv
  PoolComplete
  StopWaitsForAll
PROPERTY PoolRunsAndStops
CHECK_DEADLOCK FALSE
