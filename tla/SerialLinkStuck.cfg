SPECIFICATION Spec
CONSTANTS
  Destinations = 2
  MaxRounds = 3
  MaxOutput = 3
INVARIANTS NobodyStuck
CHECK_DEADLOCK FALSE
