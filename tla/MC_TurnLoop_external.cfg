SPECIFICATION Spec
CONSTANTS
    Profile = "external_context"
    Call <- MCCall
    ReadOnly <- MCReadOnly
    Idempotent <- MCIdempotent
    Outputs <- ShortOutputs
    MaxCalls = 3
    MaxToolRounds = 2
    MaxGraphSteps = 13
    MaxCrashes = 3
    MaxStale = 0
VIEW WithoutExecutions
CHECK_DEADLOCK FALSE
INVARIANTS
    ModelRequestNotResent
    ReplayIsFenced
    ReplayInputIntact
