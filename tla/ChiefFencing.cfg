\* Two processes, two sessions, a clock that advances and is set back by one (within
\* the tolerance) and by two (beyond it), an audit tail of two events.
CONSTANTS
    p1 = p1
    p2 = p2
    s1 = s1
    s2 = s2
    Procs = {p1, p2}
    Sessions = {s1, s2}
    NoProc = NoProc
    NoSession = NoSession
    TTLs = {1}
    Skew = 1
    AuditTailMax = 2
    MaxClock = 2
    MaxToken = 3
    MaxSeq = 3
    MaxWrites = 1
SPECIFICATION Spec
SYMMETRY Symmetry
INVARIANTS
    HandlerFenced
    LeaseNotStranded
    PublishableRecord
PROPERTIES
    ImplementsLease
