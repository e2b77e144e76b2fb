SPECIFICATION MCSpec
CONSTANTS
  Job = {j1, j2}
  MaxEvents = 2
CHECK_DEADLOCK FALSE
INVARIANTS UpdatesDoNotRace
