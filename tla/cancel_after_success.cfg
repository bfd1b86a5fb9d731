SPECIFICATION Spec
CONSTANTS
    w1 = w1
    w2 = w2
    s1 = s1
    s2 = s2
    submit = submit
    resume = resume
    cancel = cancel
    NoOwner = NoOwner
    NoJob = NoJob
    Workers <- MCWorkers
    WorkerId <- MCOwnIds
    Stages <- MCStages
    Deps <- MCParallel
    Required = {s2}
    Final = {s2}
    ReviewStages = {}
    ReplaySafe = {}
    Handled <- MCStages
    HandlerOutcomes = {"SUCCEEDED"}
    Submits = {submit}
    Resumes = {}
    Cancels = {cancel}
    MaxRetries = 1
    MaxActive = 2
    MaxFaults = 0
CHECK_DEADLOCK FALSE
PROPERTY SucceededRunStays
