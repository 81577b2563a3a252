SPECIFICATION FairSpec
CONSTANTS
    MaxJobs = 1
    NumWorkers = 1
    MaxRetries = 1
    Priorities = {0}
    Inputs = {"text"}
    PollLimit = 1
    Scenarios <- DownloadScenarios
PROPERTY RetryIsTaken
