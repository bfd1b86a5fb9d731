SPECIFICATION PumpFairSpec
CONSTANTS
    c1 = c1
    c2 = c2
    t1 = t1
    t2 = t2
    p1 = p1
    NoThread = NoThread
    Commands = {c1, c2}
    PumpThreads = {t1, t2}
    Pool = {p1}
    Outcomes = {"done"}
    MaxJobs = 4
    MaxRestarts = 0
CHECK_DEADLOCK FALSE
PROPERTY AcceptedWorkIsClaimed
