SPECIFICATION Spec
CONSTANTS
    TurnWorker <- MCTurnWorker
    MaintenanceWorker <- OneMaintenanceWorker
    Raw <- MCRaw
    Batch = 2
    NewNodes = 1
    NoOne = NoOne
    MaxFaults = 1
CHECK_DEADLOCK FALSE
INVARIANTS
    LostLeaseCannotCommit
