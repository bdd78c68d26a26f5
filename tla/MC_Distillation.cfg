SPECIFICATION FairSpec
CONSTANTS
    TurnWorker <- MCTurnWorker
    MaintenanceWorker <- MCMaintenanceWorker
    Raw <- MCRaw
    Batch = 1
    NewNodes = 2
    NoOne = NoOne
    MaxFaults = 2
CHECK_DEADLOCK FALSE
INVARIANTS
    TypeOK
    AtMostOneLateWrite
    KnowledgeBeforeDistilled
PROPERTIES
    LiveClaimKept
    BacklogDrained
