SPECIFICATION LiveSpec
CONSTANTS
    NArms = 2
    Interval = 3
    Duration = 4
    ErrThresh = 2
    Gaps = {}
PROPERTIES
    BufferWarned
