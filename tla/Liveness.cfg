SPECIFICATION FairSpec
CONSTANTS
  DayLength = 2
  RetryTimeout = 1
  StallThreshold = 3
  DeadTimeout = 4
  SweepDelay = 1
  PurchaseTimeout = 1
  MainLaunchDay = 3
  JackpotDays = 1
  StartLevel = 0
  Inputs = {"ticket", "retry", "loan"}
  MaxDay = 4
  MaxLevel = 2
  MaxAsks = 3
PROPERTIES
  EndingsStick
  Progress
