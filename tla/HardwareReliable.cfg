SPECIFICATION LiveSpec
CONSTANTS
    NArms = 2
    Faulty = {}
    Overlap = FALSE
    UpdateRate = 500
INVARIANTS
    ConfigureRecovers
PROPERTIES
    StoppedRobotIsDeactivated
    CallbacksReturn
