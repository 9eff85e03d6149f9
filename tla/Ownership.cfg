SPECIFICATION Spec
CONSTANTS
  Owners = {a, b}
  Delegates = {}
  Nobody = Nobody
  Creator = a
  Refill = 3
  Lifetime = 2
  MaxProposals = 2
  MaxBlock = 2
INVARIANTS
  VoteIsControlled
  MandateIsSound
CHECK_DEADLOCK FALSE
