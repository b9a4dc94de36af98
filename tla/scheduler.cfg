SPECIFICATION FairSpec
CONSTANTS
  Intervals = {0, 2}
  Phases = {"unset", "noon"}
  FactoryInterval = 2
  MaxWrites = 2
  MaxUpsets = 2
  MayStop = TRUE
INVARIANTS NoLostChange NoTornRefresh TimerMatchesEntry
PROPERTY KeepsTicking
CHECK_DEADLOCK FALSE
