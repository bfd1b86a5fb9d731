SPECIFICATION Spec
CONSTANTS
    w1 = w1
    w2 = w2
    s1 = s1
    s2 = s2
    submit = submit
    resume = resume
    cancel = cancel
    NoOwner = NoOwner
    NoJob = NoJob
    Workers <- MCWorkers
    WorkerId <- MCOwnIds
    Stages <- MCStages
    Deps <- MCChain
    Required <- MCStages
    Final = {s2}
    ReviewStages = {s1}
    ReplaySafe = {}
    Handled <- MCStages
    HandlerOutcomes = {"SUCCEEDED", "TRANSIENT", "BLOCKED"}
    Submits = {submit}
    Resumes = {resume}
    Cancels = {cancel}
    MaxRetries = 1
    MaxActive = 2
    MaxFaults = 1
SYMMETRY MCSymmetry
CHECK_DEADLOCK FALSE
INVARIANT TypeOK
INVARIANT AtMostOneDelivery
INVARIANT PrerequisitesHold
INVARIANT RunSuccessIsEarned
PROPERTY StaleWorkerCannotFinalize
PROPERTY TerminalJobsStay
PROPERTY CancellationIsFinal
PROPERTY RecordedResultDecides
PROPERTY ImplementsLifecycle
