SPECIFICATION Spec
CONSTANTS
  DayLength = 2
  RetryTimeout = 1
  StallThreshold = 3
  DeadTimeout = 4
  SweepDelay = 1
  PurchaseTimeout = 2
  MainLaunchDay = 1
  JackpotDays = 2
  StartLevel = 1
  Inputs = {"ticket", "far", "bet", "afking"}
  MaxDay = 2
  MaxLevel = 2
  MaxAsks = 3
INVARIANTS
  WaitsOnlyForVrf
PROPERTIES
  TicketsBlind
