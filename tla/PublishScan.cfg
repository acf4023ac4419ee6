\* A recovery scans while a process is still making the lock.
CONSTANTS
    p1 = p1
    p2 = p2
    p3 = p3
    q1 = q1
    q2 = q2
    v1 = v1
    v2 = v2
    None = None
    Procs = {q1, q2}
    Values = {v1}
    Commands = {"init", "plan", "acquire", "recover"}
    Fresh = TRUE
    Inodes = {1, 2, 3, 4, 5, 6}
    Nonces = {1, 2, 3}
    MaxRuns = 5
    Kills = 0
    Faults = 0
    Parts = {"recovery"}
SPECIFICATION PublishSpec
INVARIANTS
    LiveWritersFinishFirst
CHECK_DEADLOCK FALSE
