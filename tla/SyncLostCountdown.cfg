CONSTANTS
  a1 = a1
  n1 = n1
  NoDate = NoDate
  Coursework = {a1}
  Announcements = {}
  Deadlines <- MCDeadline
  Step <- MCStep
  Horizon <- MCHorizon
  Course <- MCCourse
  Contains <- MCContains
  Title <- MCTitle
  Profiles = {}
  LegacyProfile <- MCLegacy
  Unlinked = TRUE
  MaxEdits = 3
  Faults = {}
  MaxFaults = 0
SPECIFICATION Spec
CHECK_DEADLOCK FALSE
INVARIANTS CountdownPlanned
