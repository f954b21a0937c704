\* Two calls, one with a timeout.
CONSTANTS
    Callers = {c1, c2}
    Impatient = {c1}
    Fatal = Fatal
    Empty = Empty
    TimedOut = TimedOut
    Rejected = Rejected
SPECIFICATION FairSpec
INVARIANTS
    TypeOK
    NobodyStranded
PROPERTIES
    TerminalReleases
    CallsKept
CHECK_DEADLOCK FALSE
