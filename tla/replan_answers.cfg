CONSTANTS
  Problems <- FewShops
  Order = "GREED"
  Events <- FewEvents
  Limits <- NoWindow
  MaxRounds = 1
SPECIFICATION FairReplanSpec
PROPERTY EventsAreAnswered
CHECK_DEADLOCK FALSE
