SPECIFICATION Spec
CONSTANTS
  Threads = {t1, t2}
  Strings = {"Symbol", "yourself", "at:put:"}
  Arity <- MCArity
  METACLASS_OFFSET = 23
  Asked = {7, 22, 30, 45}
  EndSymbol = 50
  UniqueSymbols = 2
  Free = Free
  NoAnswer = NoAnswer
INVARIANTS WellFormed
PROPERTY ClassesInternNames
