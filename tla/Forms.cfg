CONSTANTS
  Announcements <- MCAnnouncements
  MaxTask = 3
  MaxLog = 2
  Dates = {"d1"}
  Dated <- MCDated
  f = f
  g = g
  Requests = {f, g}
SPECIFICATION Spec
INVARIANTS OneChild AuditCurrent
SYMMETRY Symmetry
CHECK_DEADLOCK FALSE  \* the bound on history rows may hold up a handler
