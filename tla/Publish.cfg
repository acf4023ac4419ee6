\* Commands that meet in a tree that is not there yet, or a creator, writers, readers
\* and recovery in an initialized one with one kill and one failing call.
CONSTANTS
    p1 = p1
    p2 = p2
    p3 = p3
    q1 = q1
    q2 = q2
    v1 = v1
    v2 = v2
    None = None
    Procs = {q1, q2}
    Values = {v1, v2}
    Commands = {"create", "write", "recover", "read"}
    Fresh = FALSE
    Inodes = {1, 2, 3, 4, 5, 6, 7, 8}
    Nonces = {1, 2, 3}
    MaxRuns = 4
    Kills = 1
    Faults = 1
    Parts = {"bootstrap", "recovery"}
SPECIFICATION PublishSpec
SYMMETRY AnyNewcomer
INVARIANTS
    OneHolder
    MarkerFirst
    ResidueIsDead
PROPERTIES
    InitYieldsToChief
    ReadersSeeFiles
    CommandsFinish
CHECK_DEADLOCK FALSE
