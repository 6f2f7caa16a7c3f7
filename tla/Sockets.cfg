SPECIFICATION Spec

CONSTANTS
  u1 = u1
  u2 = u2
  c1 = c1
  Users <- TwoUsers
  Kinds <- AllKinds
  Clients <- OneClient
  Limit = 6
  SchedulerFds = 3
  TableSize = 5

INVARIANTS
  ConnectedIsOwn
  NoReportedLost
  AcceptedIsRegistered

PROPERTY EveryClientServed

CHECK_DEADLOCK FALSE
