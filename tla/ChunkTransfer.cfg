\* A plain and a resumable stream, one place in the running queue, two steps in flight,
\* chunks of two tokens, which a step may cut.
CONSTANTS
    r1 = r1
    r2 = r2
    Requests = {r1, r2}
    Resumable = {r2}
    MaxRunning = 1
    Depth = 2
    ChunkTokens = 2
    MaxChunks = 2
    MaxLead = 1
    NoRequest = NoRequest
    NoStatus = NoStatus
SPECIFICATION FairSpec
INVARIANTS
    TypeOK

    
    
CHECK_DEADLOCK FALSE
