SPECIFICATION FairSpec
CONSTANTS
  Runs <- OneRun
  Workers = {w1, w2}
  Nodes = 2
  MaxQueueDepth = 1
  MaxResumes = 2
  MaxDeferrals = 2
  Refining = FALSE
  Deployments = {1, 2}
  MaxBoots = 4
  MaxByHand = 2
INVARIANTS
  TypeOK
  OneDriver
  LiveStatusIsReal
  FruitlessAttemptsAreCapped
PROPERTIES
  LiveRunsSettle
CHECK_DEADLOCK FALSE
