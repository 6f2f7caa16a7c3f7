SPECIFICATION Spec

CONSTANTS
  t1 = t1
  t2 = t2
  f1 = f1
  f2 = f2
  old = old
  blank = blank
  Threads <- TwoThreads
  Files <- TwoFiles
  Present <- NoneOrOne
  m_maxnum = 1
  MaxCalls <- FiveCalls

INVARIANTS
  OneSlotPerFile
  RwIsWhole

PROPERTY RwReturns

CHECK_DEADLOCK FALSE
