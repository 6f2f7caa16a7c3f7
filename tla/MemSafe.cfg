SPECIFICATION Spec

CONSTANTS
  t1 = t1
  t2 = t2
  Threads <- TwoThreads
  BigUsers <- OneThread
  Sizes <- SmallAndBig
  node_size = 2
  node_num = 2
  list_num = 4
  block_size = 10
  pointer = 2
  Releases = {"delete_object", "recycle_memory", "delete"}
  MaxRegions = 4

INVARIANTS
  OwnRegion
  FitsItsPiece

CHECK_DEADLOCK FALSE
