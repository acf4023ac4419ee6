\* A start that arrives after a close that was killed before it removed the
\* session mapping.
CONSTANTS
    p1 = p1
    p2 = p2
    child = child
    steward = steward
    a1 = a1
    a2 = a2
    root = root
    x = x
    y = y
    any = any
    north = north
    south = south
    A = A
    B = B
    j1 = j1
    Packets = {p1}
    Parent <- Alone
    Lane <- Apart
    Lanes = {north}
    Synthesis = {}
    Legacy = {}
    Budget <- NoBudget
    Parallel = FALSE
    Jobs = {}
    Owner <- ByFirst
    Roots = {root}
    Agents = {a1, a2}
    Events <- OneStart
    Wild = any
    Kinds = {x}
    Plans = {A}
    Root = Root
    None = None
    Cuts = {TRUE, FALSE}
    Unbound = {}
    Cited = {a1}
    MaxArms = 1
    MaxRecords = 1
SPECIFICATION Spec
INVARIANTS
    OpenIncidentBlocksClose

CHECK_DEADLOCK FALSE
