SPECIFICATION ScopesSpec
CONSTANTS
  Names = {"f", "g"}
  MaxDepth = 4
  MaxLine = 4
INVARIANT AccessTagged

CHECK_DEADLOCK FALSE
