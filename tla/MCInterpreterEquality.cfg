SPECIFICATION Spec
CONSTANTS
  IntLimit = 32
  IsizeLimit = 64
  NurseryRoom = 2
  Images <- MCEqualityImages
  Tests <- MCEqualityTests
INVARIANT ResultAsMeant
CHECK_DEADLOCK FALSE
