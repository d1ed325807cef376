CONSTANTS
  Slots <- MCSlots
  DayLength = 4
  Lookahead = 2
  Horizon = 3
  Edits = {"strike", "rearrange"}
  MaxEdits = 2
  Faults = {"scrape", "store", "crash"}
SPECIFICATION ClassSpec
INVARIANTS TimetableMirrors AnnouncedOnce
PROPERTIES NoneMissed
