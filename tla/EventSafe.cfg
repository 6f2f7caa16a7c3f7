SPECIFICATION Spec

CONSTANTS
  w1 = w1
  w2 = w2
  w3 = w3
  r1 = r1
  r2 = r2
  r3 = r3
  None = None
  Fds <- OneFd
  Pollable <- OneFd
  Workers <- ThreeWorkers
  Regs <- AllRegs
  FdOf <- AtOne
  TypeOf <- ReadReadWrite
  Callbacks <- TwoCallbacks
  Scheduled <- TwoOfThree
  Cancels <- AndTheNext
  UintMod = 8

SYMMETRY Symmetry

INVARIANTS
  HandedOnce
  WaitingIsCurrent
  SchedulerIsThere
  KnownToKernel
  WaitingEventsCount
