CONSTANTS
  a1 = a1
  n1 = n1
  NoDate = NoDate
  Coursework = {a1}
  Announcements = {n1}
  Deadlines <- MCDeadline
  Step <- MCStep
  Horizon <- MCHorizon
  Course <- MCCourse
  Contains <- MCContains
  Title <- MCTitle
  Profiles <- MCProfiles
  LegacyProfile <- MCLegacy
  Unlinked = TRUE
  MaxEdits = 2
  Faults = {"api", "db", "profile", "relevance", "crash", "check"}
  MaxFaults = 1
SPECIFICATION FairSpec
CHECK_DEADLOCK FALSE
INVARIANTS AnnouncedOnce NoStaleCountdown
PROPERTIES CancelledWasGone CompletionRespected EventuallyReconciled
