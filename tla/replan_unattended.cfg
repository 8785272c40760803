CONSTANTS
  Problems <- UnattendedShops
  Order = "GREED"
  Events <- AllEvents
  Limits <- NoWindow
  MaxRounds = 1
SPECIFICATION ReplanSpec
INVARIANT NoWorkInClosures
CHECK_DEADLOCK FALSE
