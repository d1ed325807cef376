CONSTANTS
  t1 = t1
  Accounts = {1, 2}
  Components <- MCPair
  Threshold = 2
  Poisoned = {1}
  Ticks = {t1}
  MaxCrashes = 1
SPECIFICATION FairSpec
INVARIANTS AlertOnce Rearmed
PROPERTIES OutageReported
