CONSTANTS
  p1 = p1  p2 = p2
  m1 = m1  m2 = m2  m3 = m3  m4 = m4
  s1 = s1  s2 = s2  s3 = s3  s4 = s4
  EmptyTable = EmptyTable
  None = None
  Procs = {p1, p2}
  Methods = {m1, m2, m3, m4}
  Sigs = {s1, s2, s3, s4}
  SigOf <- Recompiled
  SelectorHash <- SpreadHash
  HashRange = 100
  MaxWords = 60
  MaxHash = 80
SPECIFICATION FairSpec
INVARIANTS WellFormed ProbeChains
PROPERTIES ImplementsDictionary TablesGrow AddMethodReturns
CHECK_DEADLOCK FALSE
