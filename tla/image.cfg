CONSTANTS
  Cards <- SomeCards
  MaxIter = 3
  Repaired <- LoneCrewCards
SPECIFICATION Spec
INVARIANT OwnImagesPass
INVARIANT StaleImagesFail
INVARIANT KernelPlansAreClean
CHECK_DEADLOCK FALSE
