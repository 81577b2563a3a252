SPECIFICATION FairSpec
CONSTANTS
    Modes = {"quick", "named"}
    MaxFaults = 3
INVARIANTS
    TunnelTypeOK
    RegisteredIsKnown
    BlipIsTolerated
PROPERTY Rejoins
