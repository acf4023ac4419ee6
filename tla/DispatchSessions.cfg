\* One agent id serves two packets one after the other and starts helpers twice;
\* mappings are written, half written, refused, removed and left behind by a
\* killed close.
CONSTANTS
    p1 = p1
    p2 = p2
    child = child
    steward = steward
    a1 = a1
    a2 = a2
    root = root
    x = x
    y = y
    any = any
    north = north
    south = south
    A = A
    B = B
    j1 = j1
    Packets = {p1, p2}
    Parent <- Alone
    Lane <- Apart
    Lanes = {north, south}
    Synthesis = {}
    Legacy = {}
    Budget <- OneEach
    Parallel = FALSE
    Jobs = {}
    Owner <- ByFirst
    Roots = {root}
    Agents = {a1, a2}
    Events <- ReuseStarts
    Wild = any
    Kinds = {x}
    Plans = {A}
    Root = Root
    None = None
    Cuts = {TRUE, FALSE}
    Unbound = {a1}
    Cited = {a1, a2}
    MaxArms = 1
    MaxRecords = 1
SPECIFICATION Spec
INVARIANTS
    HelpersOwned
    ClosedStaysQuiet
PROPERTIES
    DispatchFinal
CHECK_DEADLOCK FALSE
