CONSTANTS
  t1 = t1  t2 = t2
  Threads = {t1, t2}
  Keys <- SomeKeys
  InitKeys <- SomeInitKeys
  NoThread = NoThread
  NoAnswer = NoAnswer
SPECIFICATION Spec
INVARIANTS WellFormed NoExistingKey
PROPERTY ImplementsInterner
