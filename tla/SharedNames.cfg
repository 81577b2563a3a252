SPECIFICATION Spec
CONSTANTS
    NumJobs = 2
    MaxTries = 2
    Names = {"a", "b"}
    Stocked = {}
    Plans <- LibraryPlans
INVARIANT
    OwnFrames
CHECK_DEADLOCK FALSE
