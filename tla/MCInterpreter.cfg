SPECIFICATION Spec
CONSTANTS
  IntLimit = 32
  IsizeLimit = 64
  NurseryRoom = 2
  Images <- MCImages
  Tests <- MCTests
INVARIANTS WellFormed FramesMatchCalls ResultAsMeant
PROPERTIES BelowUntouched Ends
CHECK_DEADLOCK FALSE
