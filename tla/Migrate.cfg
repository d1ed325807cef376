CONSTANTS
  Tables = {"tasks", "class_reminders", "reminders"}
  Schema = {"tasks", "reminders"}
  Legacy <- MCLegacy
  Parents = {"tasks"}
  Scripts <- MCScripts
  Procs = {1, 2}
  MaxCrashes = 1
SPECIFICATION FairMigrationSpec
INVARIANTS OpenIsMigrated DataKept
PROPERTIES Usable
