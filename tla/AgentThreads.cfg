SPECIFICATION FairSpec
CONSTANTS
    MaxJobs = 3
    NumWorkers = 1
    MaxRetries = 0
    AgentEventSets = {{"cancel"}, {"uncaught", "death"}}
INVARIANTS
    ThreadsTypeOK
    DoneHasOutput
    BusyMeansWorking
PROPERTIES
    RenderOutcomeIsKept
    RenderEnds
    ImplementsAgentPool
