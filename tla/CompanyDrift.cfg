\* One owner, one request and one restore of the ledger file.
CONSTANTS
    r1 = r1
    r2 = r2
    r3 = r3
    r4 = r4
    None = None
    Requests = {r1}
    Ids <- Given
    Outcomes = {"committed"}
    Writers = {o1}
    Owners = {o1}
    Mishaps = 1
    Faults = 0
SPECIFICATION Spec
INVARIANTS
    MismatchIsUnknown
CHECK_DEADLOCK FALSE
