\* A replica marked ERROR during a gap in its heartbeats is promoted again.
CONSTANTS
    a1 = a1
    a2 = a2
    r1 = r1
    r2 = r2
    Addrs = {a1}
    Initial = {a1}
    Requests = {}
    NoAddr = NoAddr
    NoRequest = NoRequest
    MaxFaults = 1
    WatcherLags = FALSE
SPECIFICATION Spec
PROPERTIES
    ListedIsAttached
CHECK_DEADLOCK FALSE
