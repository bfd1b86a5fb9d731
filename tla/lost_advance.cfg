SPECIFICATION FairSpec
CONSTANTS
    w1 = w1
    w2 = w2
    s1 = s1
    s2 = s2
    submit = submit
    resume = resume
    cancel = cancel
    NoOwner = NoOwner
    NoJob = NoJob
    Workers <- MCOneWorker
    WorkerId <- MCOwnId
    Stages <- MCStages
    Deps <- MCChain
    Required <- MCStages
    Final = {s2}
    ReviewStages = {}
    ReplaySafe = {s1}
    Handled <- MCStages
    HandlerOutcomes = {"SUCCEEDED", "TRANSIENT"}
    Submits = {submit}
    Resumes = {resume}
    Cancels = {cancel}
    MaxRetries = 1
    MaxActive = 1
    MaxFaults = 1
CHECK_DEADLOCK FALSE
PROPERTY RunningMeansWork
