CONSTANTS
  Cards <- TwoCrewCards
  MaxIter = 3
  Repaired <- TwoCrewCards
SPECIFICATION Spec
INVARIANT OwnImagesPass
CHECK_DEADLOCK FALSE
