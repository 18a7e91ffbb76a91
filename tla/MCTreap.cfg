CONSTANTS
  Keys <- FiveKeys
  Sizes <- TwoSizes
SPECIFICATION Spec
INVARIANTS WellFormed FreeListExact RoomAsPromised LessEqualIsFloor
PROPERTY ImplementsSlotTable
