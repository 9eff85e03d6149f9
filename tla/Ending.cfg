SPECIFICATION Spec
CONSTANTS
  DayLength = 2
  RetryTimeout = 1
  StallThreshold = 3
  DeadTimeout = 4
  SweepDelay = 1
  PurchaseTimeout = 1
  MainLaunchDay = 1
  JackpotDays = 2
  StartLevel = 1
  Inputs = {"ticket", "box", "retry", "swap", "reserved"}
  MaxDay = 2
  MaxLevel = 1
  MaxAsks = 4
INVARIANTS
  SelectedWorkRuns
PROPERTIES
  WordNeverReplaced
  TerminalDrawFair
  OverIsFinal
