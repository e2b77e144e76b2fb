SPECIFICATION MCSpec
CONSTANTS
  Job = {j1, j2}
  MaxEvents = 3
SYMMETRY Perms
CHECK_DEADLOCK FALSE
INVARIANTS HoldsAct DisplayTells
PROPERTIES CallsAreSeen
