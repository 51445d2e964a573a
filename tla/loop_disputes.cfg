SPECIFICATION FairSpec
CONSTANTS
  Lenses = {"evidence"}
  Writers <- OneWriter
  Critics <- EvidencePool
  Orchestrator = "deepseek"
  IdentityOf <- MCIdentityOf
  FamilyOf <- MCFamilyOf
  MinTicks = 2
  HardCap = 3
  PolishCap = 1
  RewriteCap = 1
  StagnationLimit = 3
  CyclePeriod = 2
  Selection = "fewest_defects"
  Paths = {"question"}
  WriterAttempts = 1
  Depth <- EvidenceTwoDeep
  CritiqueAttempts = 0
  ConfirmAttempts = 1
  StrikeLimit = 0
  DisputeBudget = 2
  MaxPerPass = 2
  Keys <- MCKeys
  CategoryOf <- MCCategoryOf
  FloorOf <- MCFloorOf
  Stylistic = {"style"}
  Mechanical = {"misrepresented"}
  Reports <- DisputedReports
  Outages = {{}}
  MaxRestarts = 0
PROPERTIES
  RulingsStand
  Terminates
CHECK_DEADLOCK FALSE
