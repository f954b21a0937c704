\* One id opened twice, two operations, a running clock.
CONSTANTS
    Stages = {0, 1}
    EntryStage = 0
    OpIds = {a, b}
    Sids = {s1}
    CompletedLimit = 1
    IdleTtl = 1
    DisconnectGrace = 1
    MaxSessions = 1
    MaxTime = 1
    MaxSeq = 3
    MaxGeneration = 1
    MaxConfig = 1
    NoFence = NoFence
    NoTime = NoTime
    NoSession = NoSession
    NoAppend = NoAppend
    Fences <- TurnFences
SYMMETRY OpSymmetry
SPECIFICATION Spec
INVARIANTS
    TypeOK
    AppendsNumbered
    AppendedOnce
    BindingsTracked
    LeaseFollowsAppend
PROPERTIES
    NoCancelledInput
    FenceMovesForward
CHECK_DEADLOCK FALSE
