SPECIFICATION Spec
CONSTANTS
    w1 = w1
    w2 = w2
    s1 = s1
    s2 = s2
    submit = submit
    resume = resume
    cancel = cancel
    NoOwner = NoOwner
    NoJob = NoJob
    Workers <- MCWorkers
    WorkerId <- MCOwnIds
    Stages <- MCStages
    Deps <- MCChain
    Required <- MCStages
    Final = {s2}
    ReviewStages = {}
    ReplaySafe = {}
    Handled <- MCStages
    HandlerOutcomes = {"SUCCEEDED", "TERMINAL"}
    Submits = {submit}
    Resumes = {resume}
    Cancels = {}
    MaxRetries = 1
    MaxActive = 1
    MaxFaults = 1
CHECK_DEADLOCK FALSE
PROPERTY UnknownOutcomeStays
