\* Two requests that may run together and one that may not, in both modes.
CONSTANTS
    r1 = r1
    r2 = r2
    r3 = r3
    k1 = k1
    k2 = k2
    Requests = {r1, r2, r3}
    KeyOf <- MCKeyOf
    MaxRunning = 2
    NoKey = NoKey
    Steps = 2
    Modes = {"step", "request"}
    Failures = {"activation", "states", "forward", "result"}
SYMMETRY Symmetry
SPECIFICATION Spec
INVARIANTS
    TypeOK
    BatchCompatible
    CacheTracked
    ConsumerAnswered
    EndedIsReleased
CHECK_DEADLOCK FALSE
