SPECIFICATION Spec
CONSTANTS
    Profile = "memory_aware"
    Call <- MCCall
    ReadOnly <- MCReadOnly
    Idempotent <- MCIdempotent
    Outputs <- OneOutput
    MaxCalls = 3
    MaxToolRounds = 1
    MaxGraphSteps = 16
    MaxCrashes = 0
    MaxStale = 1
VIEW WithoutExecutions
CHECK_DEADLOCK FALSE
PROPERTIES
    PersistedResultNotAskedAgain
