\* Two resumes, of which some fail, and two tasks that overflow the journal.
CONSTANTS
    Conns = {c1, c2, c3}
    First = c1
    Senders = {s1, s2}
    NoConn = NoConn
    JournalLimit = 1
    MaxEvents = 2
    Events = {"silence", "ttl"}
SYMMETRY Symmetry
SPECIFICATION Spec
INVARIANTS
    TypeOK
    GapFree
    ResyncFirst
    TokenAccepted
    DetachedHasGrace
CHECK_DEADLOCK FALSE
