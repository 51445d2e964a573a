SPECIFICATION Spec
CONSTANTS
  Lenses = {"logic", "evidence"}
  Writers <- MCWriters
  Critics <- BothPools
  Orchestrator = "gemma4-small"
  IdentityOf <- MCIdentityOf
  FamilyOf <- MCFamilyOf
  MinTicks = 1
  HardCap = 2
  PolishCap = 1
  RewriteCap = 1
  StagnationLimit = 2
  CyclePeriod = 2
  Selection = "fewest_defects"
  Paths = {"seed"}
  WriterAttempts = 1
  Depth <- BothOneDeep
  CritiqueAttempts = 1
  ConfirmAttempts = 1
  StrikeLimit = 1
  DisputeBudget = 0
  MaxPerPass = 0
  Keys <- MCKeys
  CategoryOf <- MCCategoryOf
  FloorOf <- MCFloorOf
  Stylistic = {"style"}
  Mechanical = {}
  Reports <- MajorOrClean
  Outages = {{}, {"mistral"}, {"glm"}}
  MaxRestarts = 1
INVARIANTS
  ConclusionNeedsEveryLens
PROPERTIES
  UnconfirmedOnlyWhenRosterLimited
CHECK_DEADLOCK FALSE
