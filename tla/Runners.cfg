SPECIFICATION FairSpec
CONSTANTS
  Runners = {r1, r2}
  Trees = {c1, c2}
  Nobody = nobody
  Batches = 2
  MaxFaults = 2
  Casts = {"foundry", "hardhat", "campaign", "foundries", "hardhats"}
INVARIANTS
  ReadersStopped
  UserFilesBack
  GreenIsRecorded
  GreenIsReal
PROPERTIES
  AppendOnly
  InterruptedEnds
CHECK_DEADLOCK FALSE
