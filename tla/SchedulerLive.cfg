SPECIFICATION FairSpec
CONSTANTS
    MaxJobs = 2
    NumWorkers = 1
    MaxRetries = 1
    Priorities = {0, 1}
    Inputs = {"text", "missing"}
    PollLimit = 1
    Scenarios <- LiveScenarios
PROPERTIES
    JobSettles
    WorkerIsFreed
