SPECIFICATION Spec
CONSTANTS
    NumJobs = 2
    MaxTries = 2
    Names = {"a", "b", "c", "d", "x"}
    Stocked = {"a", "b", "c"}
    Plans <- AllPlans
INVARIANTS
    RenderPathTypeOK
    OwnNamesOwnFrames
    PromptImagesExist
    PromptFits
PROPERTIES
    PicturesInOrder
    PromptIsWired
    OneModel
CHECK_DEADLOCK FALSE
