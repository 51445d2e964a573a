SPECIFICATION Spec
CONSTANTS
  Lenses = {"evidence"}
  Writers <- OneWriter
  Critics <- EvidencePool
  Orchestrator = "gemma4-small"
  IdentityOf <- MCIdentityOf
  FamilyOf <- MCFamilyOf
  MinTicks = 2
  HardCap = 5
  PolishCap = 1
  RewriteCap = 1
  StagnationLimit = 2
  CyclePeriod = 2
  Selection = "fewest_defects"
  Paths = {"question"}
  WriterAttempts = 1
  Depth <- EvidenceOneDeep
  CritiqueAttempts = 1
  ConfirmAttempts = 0
  StrikeLimit = 0
  DisputeBudget = 0
  MaxPerPass = 0
  Keys <- MCKeys
  CategoryOf <- MCCategoryOf
  FloorOf <- MCFloorOf
  Stylistic = {"style"}
  Mechanical = {}
  Reports <- StallReports
  Outages = {{}}
  MaxRestarts = 0
INVARIANTS
  StepsWithinRecursionLimit
PROPERTIES
  RewriteIsJudged
CHECK_DEADLOCK FALSE
