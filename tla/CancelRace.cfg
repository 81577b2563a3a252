SPECIFICATION Spec
CONSTANTS
    MaxJobs = 1
    NumWorkers = 1
    MaxRetries = 0
    Priorities = {0}
    Inputs = {"text"}
    PollLimit = 1
    Scenarios <- CancelScenarios
PROPERTY TerminalIsFinal
