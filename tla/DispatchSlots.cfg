\* Two packets in two lanes, an exact and a wildcard slot of one root session,
\* two arms each, and a Chief record that changes once.
CONSTANTS
    p1 = p1
    p2 = p2
    child = child
    steward = steward
    a1 = a1
    a2 = a2
    root = root
    x = x
    y = y
    any = any
    north = north
    south = south
    A = A
    B = B
    j1 = j1
    Packets = {p1, p2}
    Parent <- Alone
    Lane <- Apart
    Lanes = {north, south}
    Synthesis = {}
    Legacy = {p2}
    Budget <- NoBudget
    Parallel = TRUE
    Jobs = {}
    Owner <- ByFirst
    Roots = {root}
    Agents = {a1, a2}
    Events <- RootStarts
    Wild = any
    Kinds = {x, any}
    Plans = {A}
    Root = Root
    None = None
    Cuts = {FALSE}
    Unbound = {}
    Cited = {}
    MaxArms = 2
    MaxRecords = 2
SPECIFICATION Spec
INVARIANTS
    OffersSound
PROPERTIES
    ImplementsOffers
CHECK_DEADLOCK FALSE
