SPECIFICATION Spec
CONSTANTS
    t1 = t1
    t2 = t2
    alice = alice
    bob = bob
    NoPlan = NoPlan
    Nothing = Nothing
    Threads = {t1, t2}
    ApiScenarios <- MCApiScenarios
    Owner = alice
    MaxApiFaults = 1
    MaxRunRev = 2
    MaxPlanRev = 2
    s1 = s1
    s2 = s2
    x = x
    y = y
    e = e
    key1 = key1
    Nobody = Nobody
    Procs = {s1, s2}
    Artifacts = {x, y, e}
    Hashes = {"g", "h", "i"}
    Keys = {key1}
    External = {e}
    Expiring = {x, e}
    Scenarios <- MCScenarios
    Budget = 2
    MaxFaults = 1
    c1 = c1
    c2 = c2
    u1 = u1
    u2 = u2
    w1 = w1
    w2 = w2
    NoThread = NoThread
    Commands = {c1, c2}
    PumpThreads = {u1, u2}
    Pool = {w1, w2}
    Outcomes = {"done", "due", "later", "raised"}
    MaxJobs = 3
    MaxRestarts = 1
INVARIANT ApiTypeOK
INVARIANT AnswersAreTrue
INVARIANT OneOutcome
INVARIANT OneEffectPerKey
INVARIANT PlatformTypeOK
INVARIANT PublishedBytesExist
INVARIANT PinsHold
INVARIANT PumpTypeOK
INVARIANT OnePump
INVARIANT ShutdownAdmitsOneBatch
PROPERTY BindingIsFinal
PROPERTY PlanMovesForward
PROPERTY DeletedStaysDeleted
PROPERTY PumpsComeToRest
