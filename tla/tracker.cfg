SPECIFICATION SlicesSpec
CONSTANTS
  Keys = {k1}
  NoKey = NoKey
  Paths = {p1}
  MaxEvents = 2
  MaxRecords = 1
  Triggered = {"Startup", "Periodic", "TransferComplete", "Retry"}
INVARIANT EventArrayInOrder
PROPERTY RefinesTracker
CHECK_DEADLOCK FALSE
