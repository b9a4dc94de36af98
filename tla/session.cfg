SPECIFICATION Spec
CONSTANTS
  Keys <- MCKeys
  Kind <- MCKind
  Delayed <- MCDelayed
  Scenarios <- SafetyScenarios
  NoKey = NoKey
  Paths = {p1}
  ActivePaths = {p1}
  Timers = {t1, t2, t3}
  MaxRetryCount = 1
  Recurring = {}
CHECK_DEADLOCK FALSE
SYMMETRY TimerSymmetry
INVARIANTS NothingOwedIsLost RecordsConserved RetryAlwaysComing DeferredWritesApplied
PROPERTIES BootstrapLatchSound SessionsDoNotOverlap
