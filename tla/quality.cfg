SPECIFICATION Spec
CONSTANTS
    Null = Null
    Bad = Bad
    Tick = 10
    Contents <- MCContents
    Faulty <- MCFaulty
    MaxFaults = 2
    AcceptedHypothesis <- MCHypothesis
    ErResults <- MCErResults
    Groupings <- MCGroupings
    MaxReruns = 1
    Datasets <- MCDatasets
    Policies <- MCPolicies
    Counts = {2, 3}
    Hash <- MCHash
    SampleRank <- MCRank
    MaxPartitionFaults = 1
    MaxExecutions = 2
    Blank = Blank
    Torn = Torn
    NoFile = NoFile
    FileKinds = {"CSV", "PARQUET", "XLSX"}
    Uploads <- MCUploads
    ExtractionPolicies <- MCExtraction
    MaxWrites = 3
    MaxAttempts = 2
    MaxStagingFaults = 1
INVARIANT FailureIsNotClean
CHECK_DEADLOCK FALSE
