CONSTANTS
  r1 = r1 r2 = r2 a = a b = b c = c w1 = w1 w2 = w2
  Gens = {a, b, c}
  Plans <- MCPlans
  Runners = {r1, r2}
  RunnerOf <- MCRunnerOf
  Path <- MCPath
  Interval <- MCInterval
  Config <- MCConfig
  Width = 6
  Leaf = {0, 1, 2, 3, 4, 5, 9}
  Workers = {w1, w2}
  QueueDepth = 1
  MaxRuns = 4
  ResultCount = 2
SPECIFICATION WritersSpec
INVARIANTS EachScheduledOnce QuietAfterStop TicksInBand OneSweep
PROPERTIES KeepsTicking RequestsAnswered
CHECK_DEADLOCK FALSE
