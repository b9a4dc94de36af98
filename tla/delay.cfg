SPECIFICATION DelaySpec
CONSTANTS
  Lengths = {1, 3, 4}
  References <- MCReferences
  Spans = {0, 1, 5}
  MaxHandling = 4
  Horizon = 9
INVARIANT DueOnPhase
CHECK_DEADLOCK FALSE
