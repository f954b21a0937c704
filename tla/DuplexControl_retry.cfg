\* One incarnation, appends that go stale, two aborts that raise: cleanups are
\* retried until they succeed.
CONSTANTS
    Stages = {0, 1}
    EntryStage = 0
    NextStage = 1
    OpIds = {a}
    Sids = {s1}
    CompletedLimit = 1
    IdleTtl = 1
    DisconnectGrace = 1
    MaxSessions = 2
    MaxSeq = 1
    MaxGeneration = 1
    MaxFailures = 2
    Events = {"open_error", "abort_error", "forward"}
    NoFence = NoFence
    NoTime = NoTime
    NoSession = NoSession
    NoRecord = NoRecord
    NoMessage = NoMessage
    Fences <- OneFences
SPECIFICATION FairSpec
INVARIANTS
    StageRequestsOwned
PROPERTIES
    ClosingEnds
    ControlsAnswered
CHECK_DEADLOCK FALSE
