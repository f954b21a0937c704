\* One incarnation, everything that may go wrong.
CONSTANTS
    Stages = {0, 1}
    EntryStage = 0
    NextStage = 1
    OpIds = {a}
    Sids = {s1}
    CompletedLimit = 1
    IdleTtl = 1
    DisconnectGrace = 1
    MaxSessions = 2
    MaxSeq = 1
    MaxGeneration = 1
    MaxFailures = 1
    Events = {"open_error", "abort_error", "submit_error", "disconnect", "forward", "stage_error", "replica_death"}
    NoFence = NoFence
    NoTime = NoTime
    NoSession = NoSession
    NoRecord = NoRecord
    NoMessage = NoMessage
    Fences <- OneFences
SPECIFICATION Spec
INVARIANTS
    TypeOK
    TerminalHasCleanup
    NoSubmitDuringUndo
CHECK_DEADLOCK FALSE
