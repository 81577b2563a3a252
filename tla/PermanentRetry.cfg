SPECIFICATION Spec
CONSTANTS
    MaxJobs = 1
    NumWorkers = 1
    MaxRetries = 1
    Priorities = {0}
    Inputs = {"missing"}
    PollLimit = 1
    Scenarios <- QuietScenarios
INVARIANT PermanentIsNotRetried
