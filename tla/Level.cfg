SPECIFICATION Spec
CONSTANTS
  DayLength = 2
  RetryTimeout = 1
  StallThreshold = 3
  DeadTimeout = 4
  SweepDelay = 1
  PurchaseTimeout = 2
  MainLaunchDay = 1
  JackpotDays = 2
  StartLevel = 99
  Inputs = {"ticket", "award", "far", "decimator", "nudge"}
  MaxDay = 4
  MaxLevel = 100
  MaxAsks = 4
PROPERTIES
  EveryTicketDrawn
  DayUndisturbed
