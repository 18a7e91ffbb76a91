SPECIFICATION TableSpec
CONSTANTS
  Threads = {t1, t2}
  Keys <- MCKeys
  Loads <- MCLoads
  None = None
  NoAnswer = NoAnswer
INVARIANTS TableWellFormed CompleteAtRest
PROPERTY AbsentOnlyWhileLoading
