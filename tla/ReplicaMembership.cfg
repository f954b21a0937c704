\* One replica from the start, one that registers later; one time-out of a live replica.
CONSTANTS
    a1 = a1
    a2 = a2
    r1 = r1
    r2 = r2
    Addrs = {a1, a2}
    Initial = {a1}
    Requests = {r1}
    NoAddr = NoAddr
    NoRequest = NoRequest
    MaxFaults = 1
    WatcherLags = FALSE
SPECIFICATION Spec
INVARIANTS
    TypeOK
    ActiveHasClient
    ProcessorLeftovers
PROPERTIES
    GoneIsAnswered
    HubCatchesUp
CHECK_DEADLOCK FALSE
