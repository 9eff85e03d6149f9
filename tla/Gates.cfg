SPECIFICATION GatesSpec
CONSTANTS
  MaxSource = 5
  Names = {"f", "g"}
  MaxDepth = 3
  MaxLine = 4
  Catalog <- MCCatalog
  HardhatTests <- MCHardhatTests
  InvariantShards = 2
  IntegrationShards = 2
  DefaultCap = 2
  MaxMoved = 2
  MaxTokens = 4
  AdvancePartitions = 3
  Functions = {"f", "g"}
  Roots = {"r"}
  Aliases <- MCAliases
  Takes <- MCTakes
  Words = {"word"}
  OtherNames = {"amount"}
  Satellites = {"coin"}
  Statements = {"x"}
  MaxReviewed = 2
  MaxLines = 3
  DispatchTargets = {"m", "n", "other"}
  Modules = {"m", "n"}
  MaxWidth = 3
  MaxCarried = 5
  MaxNest = 2
  MaxScanned = 5
  Dirs = {"a", "b", "c"}
  PlainFiles = {"x"}
  Top = "a"
  Sources = {"p", "q"}
  Missing = "none"
  Elsewhere = "elsewhere"
  Callables = {"a", "b", "c"}
  FnType <- MCFnType
  Deployments = {"m", "n"}
  MaxBaseline = 2
  MaxSites = 3
  MaxBody = 3
  Slots = {"s1", "s2"}
  RootOf <- MCRootOf
  Scenarios = {"S", "T"}
  Window = 2
  MaxTxs = 3
  MaxRuns = 2
  Widths = {8, 20, 32}
  Lengths = {2, 5}
  SymbolSides = 2
  WildSides = 3
  PlayerLanes <- MCPlayerLanes
  Symbols = {0, 1}
  Colors = {0, 1}
  Base <- MCBase
  EthAdd <- MCEthAdd
  WwxrpTop <- MCWwxrpTop
  Knees <- MCKnees
  FlipCurve <- MCFlipCurve
  WwxrpCurve <- MCWwxrpCurve
  WwxrpFloor = 57
  WwxrpFactor <- MCWwxrpFactor
  CentixUnit = 10
  BpsUnit = 100
  Scale = 1000
  Stakes = {1, 7}
  Activities = {0, 1, 4, 31}
  TagNames = {"A", "B"}
  TagValues = {0, 1, 2, noliteral}
  NoLiteral = noliteral
  Hashes <- MCHashes
  GasLines <- MCGasLines
  Workers = {"worker"}
  MaxPinned = 2
  Pushed = {64, 128, 160, 132}
  MaxOps = 5
  Contracts = {"G", "H"}
  Pointers = {128, 160, 192}
  SourceUnits = {"a", "b"}
  Scoped = {"a"}
  MaxChanges = 4
  StorageNames = {"p", "q", "r"}
  MaxDeclared = 3
  BPS = 4
  Pools = {1, 3, 7}
  Quantities = {1, 2, 7}
INVARIANTS
  MaskingExact
  ScopesExact
  RunAsSelected
  RowsReviewed
  CallsReviewed
  SitesReviewed
  InputsCaptured
  CensusTrue
  OddsTrue
  MoneyConserved
CHECK_DEADLOCK FALSE
