\* Two specialist packets in one lane, a child packet, a job and a synthesis, while
\* the plan file is edited, approved and edited back.
CONSTANTS
    p1 = p1
    p2 = p2
    child = child
    steward = steward
    a1 = a1
    a2 = a2
    root = root
    x = x
    y = y
    any = any
    north = north
    south = south
    A = A
    B = B
    j1 = j1
    Packets = {p1, p2, child, steward}
    Parent <- Nested
    Lane <- OneLane
    Lanes = {north}
    Synthesis = {steward}
    Legacy = {}
    Budget <- NoBudget
    Parallel = TRUE
    Jobs = {j1}
    Owner <- ByFirst
    Roots = {root}
    Agents = {a1, a2}
    Events <- PairStarts
    Wild = any
    Kinds = {x}
    Plans = {A, B}
    Root = Root
    None = None
    Cuts = {FALSE}
    Unbound = {}
    Cited = {}
    MaxArms = 1
    MaxRecords = 1
SPECIFICATION Spec
SYMMETRY AnyPlan
INVARIANTS
    WorkNested
    SynthesisCurrent
CHECK_DEADLOCK FALSE
