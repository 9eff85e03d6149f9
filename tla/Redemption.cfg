SPECIFICATION Spec
CONSTANTS
  Holders = {h1, h2}
  Acquired = {h2}
  Wrapper = wrapper
  Pools = pools
  WrapperShare = 2
  PoolShare = 1
  Rolls = {21, 175}
  Percents = {75}
  Grain = 1
  MinValue = 1
  MinLootbox = 2
  Amounts = {1, 2}
  Gains = {3}
  MaxClaimable = 4
  MaxBatches = 3
INVARIANTS
  ReserveBacksPending
  PaidExactlyOnce
  BooksBalance
  ClaimsCovered
PROPERTIES
  LeaversDoNotDilute
  RolledOnce
CHECK_DEADLOCK FALSE
