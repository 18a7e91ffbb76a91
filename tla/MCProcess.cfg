CONSTANTS
  p1 = p1  p2 = p2  p3 = p3
  Null = Null
  Procs = {p1, p2, p3}
  Address <- ShortAddress
  countMask = 3
  MaxLoops = 6
SPECIFICATION Spec
INVARIANTS WellFormed OwnPointer SafePointInTime
CHECK_DEADLOCK FALSE
