SPECIFICATION Spec
CONSTANTS
    MaxClients = 3
    MaxRetained = 2
    Senders <- MCSenders
    Restarts <- MCRestarts
    Paths <- MCPaths
    Subs <- MCSubs
    Standing <- MCStanding
    PushSubs <- MCPushSubs
    Configs <- MCConfigs
    Plans <- MCPlans
INVARIANTS
    OutageIsSilent
    ReportsReach
PROPERTIES
    ReportsInOrder
    CompleteComesFirst
    FirmwareSlotFrees
CHECK_DEADLOCK FALSE
