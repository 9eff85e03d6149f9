SPECIFICATION Spec
CONSTANTS
  Voters = {v1, v2}
  Owner = owner
  Token = 2
  Pool = 2
  Day = 1
  AdminStall = 1
  CommunityStall = 7
  Lifetime = 7
  ProposeBps = 4000
  MaxProposals = 2
INVARIANTS
  OneSwapPerEpoch
PROPERTIES
  SwapOnlyInItsOutage
