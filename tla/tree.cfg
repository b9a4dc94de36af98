SPECIFICATION Spec
CONSTANTS
  Counters <- MCCounters
  Profile <- MCProfile
  Apps <- MCApps
  Watched <- MCWatched
  Deferred <- MCDeferred
  Tables <- MCTables
  Reads <- MCReads
  SpvRequests <- MCSpvRequests
  SpaRequests <- MCSpaRequests
  AddRequests <- MCAddRequests
  DeleteRequests <- MCDeleteRequests
  UspSets <- MCUspSets
  UspAdds <- MCUspAdds
  UspDeletes <- MCUspDeletes
  DeviceWrites <- MCDeviceWrites
  Expressions <- MCExpressions
  Configurations <- MCConfigurations
  Names <- MCNames
  Templates <- MCTemplates
  DataModel <- MCDataModel
  MaxRows = 2
  MaxDeferred = 1
INVARIANTS CountersAgree NoUnreportedInstance ObserverCatchesUp
PROPERTY AcceptedWritesKeep
CHECK_DEADLOCK TRUE
