CONSTANTS
  p1 = p1  p2 = p2
  Procs = {p1}
  Strings <- SixStrings
  initialSymbolStrings <- Initial
  Loads <- SomeLoads
  Arity <- Arities
  SymbolArity <- WrittenArities
  MaxLength = 13
  Nil = Nil
  NoAnswer = NoAnswer
SPECIFICATION FairSpec
INVARIANTS SymbolsWellFormed
PROPERTIES MemoryGrows ImplementsInterner CallReturns
CHECK_DEADLOCK FALSE
