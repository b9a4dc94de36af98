CONSTANTS
  Counters <- MCCounters
  Names <- MCNames
  Factory <- MCFactory
  Manifests <- MCManifests
  Serves <- MCServes
  AppUUID <- MCAppUUID
  Injected = {"bad"}
  Requests <- MCRequests
  Commands <- MCCommands
  Jobs = {j1, j2}
  RowAdds <- MCRowAdds
  RowDeletes <- MCRowDeletes
  Budgets <- MCBudgets
SPECIFICATION Spec
INVARIANT Inventory
PROPERTIES ResultsTrue OperationsReported
