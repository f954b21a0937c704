\* Two ids, nothing fails: the reaper works through the control cleanups it saw.
CONSTANTS
    Stages = {0, 1}
    EntryStage = 0
    NextStage = 1
    OpIds = {a}
    Sids = {s1, s2}
    CompletedLimit = 1
    IdleTtl = 1
    DisconnectGrace = 1
    MaxSessions = 2
    MaxSeq = 1
    MaxGeneration = 0
    MaxFailures = 0
    Events = {}
    NoFence = NoFence
    NoTime = NoTime
    NoSession = NoSession
    NoRecord = NoRecord
    NoMessage = NoMessage
    Fences <- TwoFences
SPECIFICATION Spec
PROPERTIES
    LiveSessionStays
CHECK_DEADLOCK FALSE
