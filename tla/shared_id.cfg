SPECIFICATION Spec
CONSTANTS
    w1 = w1
    w2 = w2
    s1 = s1
    s2 = s2
    submit = submit
    resume = resume
    cancel = cancel
    NoOwner = NoOwner
    NoJob = NoJob
    Workers <- MCWorkers
    WorkerId <- MCSharedId
    Stages <- MCStages
    Deps <- MCChain
    Required <- MCStages
    Final = {s2}
    ReviewStages = {s1}
    ReplaySafe = {}
    Handled <- MCStages
    HandlerOutcomes = {"SUCCEEDED", "TRANSIENT", "BLOCKED"}
    Submits = {submit}
    Resumes = {resume}
    Cancels = {cancel}
    MaxRetries = 1
    MaxActive = 1
    MaxFaults = 1
CHECK_DEADLOCK FALSE
PROPERTY StaleWorkerCannotFinalize
