SPECIFICATION LiveSpec
CONSTANTS
    NArms = 2
    Faulty <- TeardownReliable
    Overlap = FALSE
    UpdateRate = 500
INVARIANTS
    TeardownPowersOff
    NoLiveSessionLeft
PROPERTIES
    LostLinkLeavesActive
    HeldProgramStopsCommands
