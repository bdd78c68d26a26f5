SPECIFICATION FairSpec
CONSTANTS
    Profile = "memory_aware"
    Call <- MCCall
    ReadOnly <- MCReadOnly
    Idempotent <- MCIdempotent
    Outputs <- MCOutputs
    MaxCalls = 3
    MaxToolRounds = 1
    MaxGraphSteps = 16
    MaxCrashes = 1
    MaxStale = 0
CHECK_DEADLOCK FALSE
INVARIANTS
    TypeOK
    ModelRequestNotResent
    ReplayIsFenced
    SideEffectsRunAlone
    ReplayInputIntact
PROPERTIES
    FinishedTurnIsRecorded
    TurnReturns
