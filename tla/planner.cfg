CONSTANTS
  Problems <- Shops
  Order = "ATC"
  Tries = 7
  Stride = 30
SPECIFICATION Spec
INVARIANT TypeOK
INVARIANT OnlyShortOfOperations
INVARIANT ScanFindsLeast
INVARIANT PlacedInOrder
INVARIANT CrewsAndToolsApart
INVARIANT PostsWithinCapacity
CHECK_DEADLOCK FALSE
