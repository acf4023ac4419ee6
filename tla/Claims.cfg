\* Two ordinary tasks with two pieces of work; or an ordinary task and a mini task,
\* two legacy rows (one with scope that did not parse) and one piece of work:
\* adoption, audit, import and the rollback of start-mini.  A kill between any two
\* writes in both.
CONSTANTS
    t1 = t1
    t2 = t2
    m1 = m1
    k1 = k1
    k2 = k2
    w1 = w1
    w2 = w2
    Tasks = {t1, t2, m1}
    Minis = {m1}
    Tokens = {k1, k2}
    Works = {w1, w2}
    Rows = {k1, k2}
    Unclear = {k2}
    None = None
    LockSets <- Named
    RowLocks <- Owned
    Parts = {"work", "legacy"}
SPECIFICATION ClaimsSpec
INVARIANTS
    WorkExclusion
    AdoptionKeepsScope
PROPERTIES
    NoEarlyRelease
    GrantClear
    ImplementsTable
CHECK_DEADLOCK FALSE
