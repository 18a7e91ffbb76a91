SPECIFICATION Spec
CONSTANTS
  t1 = t1
  t2 = t2
  Threads = {t1, t2}
  Primary = Primary
  Free = Free
  NurserySize = 6
  gc_size = 7
  Large = 3
  Requests <- MCRequests
INVARIANTS WellFormed AsAsked Initialised
PROPERTIES PoisonedForGood CallEnds
CHECK_DEADLOCK FALSE
