SPECIFICATION Spec
CONSTANTS
  Lenses = {"logic"}
  Writers <- MCWriters
  Critics <- LogicPool
  Orchestrator = "gemma4-small"
  IdentityOf <- MCIdentityOf
  FamilyOf <- MCFamilyOf
  MinTicks = 2
  HardCap = 3
  PolishCap = 1
  RewriteCap = 1
  StagnationLimit = 2
  CyclePeriod = 2
  Selection = "fewest_defects"
  Paths = {"question"}
  WriterAttempts = 1
  Depth <- LogicTwoDeep
  CritiqueAttempts = 1
  ConfirmAttempts = 1
  StrikeLimit = 2
  DisputeBudget = 0
  MaxPerPass = 0
  Keys <- MCKeys
  CategoryOf <- MCCategoryOf
  FloorOf <- MCFloorOf
  Stylistic = {"style"}
  Mechanical = {}
  Reports <- LogicReports
  Outages = {{}}
  MaxRestarts = 0
INVARIANTS
  AcceptedIsDoubleChecked
  ShipsItsOwnFindings
PROPERTIES
  TopUpAsksSomeoneNew
  KeepsContract
CHECK_DEADLOCK FALSE
