SPECIFICATION FairSpec
CONSTANTS
    NumAccounts = 2
    ColabAccounts = {2}
    Cap = 1
INVARIANTS
    ProvisionTypeOK
    CapHolds
    StrayIsNext
    AccountsWithinCap
PROPERTIES
    RegisteredStays
    StartEnds
