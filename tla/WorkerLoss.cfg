SPECIFICATION FairSpec
CONSTANTS
    MaxJobs = 1
    NumWorkers = 2
    MaxRetries = 1
    Priorities = {0}
    Inputs = {"text"}
    PollLimit = 1
    Scenarios <- DeathScenarios
PROPERTY LostJobIsRequeued
