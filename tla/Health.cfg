SPECIFICATION Spec
CONSTANTS
    NArms = 2
    Interval = 3
    Duration = 4
    ErrThresh = 2
    Gaps = {"fetch", "session"}
INVARIANTS
    IInv
    AllLongWarned
    BufferSound
    SaturationComplete
    SaturationSound
