SPECIFICATION Spec
CONSTANTS
  Runs <- OneRun
  Workers = {w1, w2}
  Nodes = 2
  MaxQueueDepth = 1
  MaxResumes = 2
  MaxDeferrals = 2
  Refining = TRUE
  Deployments = {1, 2}
  MaxBoots = 4
  MaxByHand = 2
INVARIANTS
  OneDriver
CHECK_DEADLOCK FALSE
