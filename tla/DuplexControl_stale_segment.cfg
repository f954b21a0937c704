\* A segment of a cancelled turn is forwarded.
CONSTANTS
    Stages = {0, 1}
    EntryStage = 0
    NextStage = 1
    OpIds = {a}
    Sids = {s1}
    CompletedLimit = 1
    IdleTtl = 1
    DisconnectGrace = 1
    MaxSessions = 2
    MaxSeq = 1
    MaxGeneration = 0
    MaxFailures = 0
    Events = {"forward"}
    NoFence = NoFence
    NoTime = NoTime
    NoSession = NoSession
    NoRecord = NoRecord
    NoMessage = NoMessage
    Fences <- OneFences
SPECIFICATION Spec
INVARIANTS
    NoCrash
CHECK_DEADLOCK FALSE
