SPECIFICATION Spec
CONSTANTS
  w1 = w1
  w2 = w2
  Aliases = {w1, w2}
  Pool <- MCPool
  Failures <- MCFailures
  Hints = {9}
  CallRetries = 2
  RepairRetries = 1
  MaxToolRounds = 2
  Backoff = 2
  BackoffMax = 4
  HintCap = 6
  Lookups = 3
  WriterAttempts = 5
  RepairCap = 1
  Starts = {1}
  Others = {w1}
  Tooled = TRUE
  OpsMode = TRUE
INVARIANTS
  RetriesAreSpaced
  PinnedModeIsProven
  ConversationIsAnswerable
  AccountRefusalIsNoVerdict
  UnreadDraftIsLastResort
PROPERTY WalksEnd
CHECK_DEADLOCK FALSE
