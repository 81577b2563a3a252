SPECIFICATION Spec
CONSTANTS
    MaxJobs = 2
    NumWorkers = 2
    MaxRetries = 1
    Priorities = {0}
    Inputs = {"frames"}
    PollLimit = 2
    Scenarios <- SafetyScenarios
INVARIANTS
    TypeOK
    RetryBudget
    FailedMeansExhausted
    CompletedHasOwnOutput
    HolderIsAssigned
    IInv
    RenderIsLatestAttempt
    RenderInv
    LifeInv
PROPERTIES
    OutcomeIsKept
    ImplementsLifecycle
