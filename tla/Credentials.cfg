CONSTANTS
  t1 = t1
  w1 = w1
  q1 = q1
  q2 = q2
  a1 = a1
  a2 = a2
  None = None
  MaxGrants = 3
  MaxVersion = 2
  Ticks = {t1}
  Checks = {w1}
  Callbacks = {q1, q2}
  Attempts = {a1}
  Owner = TRUE
  Faults = {"network", "store", "end"}
SPECIFICATION FairSpec
INVARIANTS AttemptOnce RotationKept
PROPERTIES ComesBack
