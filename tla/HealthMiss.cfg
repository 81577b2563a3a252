SPECIFICATION Spec
CONSTANTS
    MaxJobs = 2
    NumWorkers = 1
    MaxRetries = 1
    Priorities = {0}
    Inputs = {"text"}
    PollLimit = 1
    Scenarios <- HealthScenarios
INVARIANT NoSubmissionWhileRendering
