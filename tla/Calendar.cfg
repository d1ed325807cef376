CONSTANTS
  a = a
  b = b
  s1 = s1
  s2 = s2
  NoDeadline = NoDeadline
  Tasks <- MCTasks
  EventIds <- MCEventIds
  Deadlines = {a, b}
  Syncs = {s1}
  MaxEdits = 1
  Faults = {"api", "person", "crash"}
SPECIFICATION FairSpec
INVARIANTS NoDuplicateEvent PassReconciles
PROPERTIES ClosedRemoved
