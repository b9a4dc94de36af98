SPECIFICATION FairSpec
CONSTANTS
  Keys <- LivenessKeys
  Kind <- LivenessKind
  Delayed = {}
  Scenarios <- LivenessScenarios
  NoKey = NoKey
  Paths = {p1}
  ActivePaths = {}
  Timers = {t1, t2}
  MaxRetryCount = 1
  Recurring = {"tick"}
CHECK_DEADLOCK FALSE
PROPERTY OwedDelivered
