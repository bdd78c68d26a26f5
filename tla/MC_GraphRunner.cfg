SPECIFICATION FairSpec
CONSTANTS
    NodeId <- MCNodeId
    Registered <- MCRegistered
    Start = "plan"
    Branch <- MCBranch
    Edge <- MCEdge
    Emits <- UncheckedEmits
    Finishing <- MCFinishing
    Pausing <- MCPausing
    ToolNode <- MCToolNode
    NoNode = NoNode
    MaxGraphSteps = 6
    MaxCrashes = 2
    MaxStale = 1
CHECK_DEADLOCK FALSE
INVARIANTS
    TypeOK
    CheckpointOnGraphPath
    StepBudget
PROPERTIES
    StoppedStaysStopped
    RunReturns
