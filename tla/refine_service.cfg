SPECIFICATION FairSpec
CONSTANTS
  r1 = r1
  r2 = r2
  r3 = r3
  Requests = {r1, r2, r3}
  Questions = {"why?", " why?", "how?"}
  Asks <- MCAsks
  KeyOf <- MCKeyOf
  Suggestions = {"chip"}
  Concurrency = 1
  CacheEntries = 1
  CacheTTL = 1
  OfferEntries = 2
  OfferTTL = 1
  Lingers = TRUE
  MaxTime = 2
INVARIANTS
  PermitsAreConserved
  OneComputationPerQuestion
  VerifiedIsGenuine
PROPERTIES
  EverySuggestReturns
CHECK_DEADLOCK FALSE
