CONSTANTS
  Problems <- EventShops
  Order = "GREED"
  Events <- AllEvents
  Limits <- SomeWindow
  MaxRounds = 2
SPECIFICATION ReplanSpec
INVARIANT ReplanTypeOK
INVARIANT OnlyFreedVisitsMove
INVARIANT BrokenSlotConsumed
INVARIANT NoBrokenVisitMissed
INVARIANT ClosureHitsAreBroken
INVARIANT NoWorkInClosures
INVARIANT FrozenStaysFeasible
CHECK_DEADLOCK FALSE
