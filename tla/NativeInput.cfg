\* Two units and a rest, one failure, one cancel, one silence unit.
CONSTANTS
    Unit = 2
    Chunks <- TwoChunks
    Limit = 4
    Commits = {"audio", "silent", "input", "hold"}
    Cancels = {"input.cancel", "response.cancel"}
    MaxInput = 6
    MaxTasks = 3
    MaxSilence = 1
    MaxEpoch = 1
    MaxFailures = 1
SPECIFICATION Spec
INVARIANTS
    TypeOK
    CommitsInWireOrder
    NothingLost
    HeardInOrder
    BudgetKept
CHECK_DEADLOCK FALSE
