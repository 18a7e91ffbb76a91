CONSTANTS
  p1 = p1  p2 = p2
  Procs = {p1, p2}
  Creator = p1
  Size = 11
  HeaderSize = 2
  NFreeLists = 3
  BlockSize <- Powers
  Requests <- SmallRequests
SPECIFICATION FairSpec
INVARIANTS WellFormed FreeListsSound NoStaleLink
PROPERTIES ImplementsArena AllocReturns
CHECK_DEADLOCK FALSE
