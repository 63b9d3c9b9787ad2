SPECIFICATION LiveSpec
CONSTANTS
    NArms = 2
    Prismatic = {}
    Positions <- ThreePositions
    Epsilon = 1
    M2MM = 1000
    ThreshCnt = 1
    BufSize = 1
    BufCap = 2
    IntMax = 2
    Overflow = FALSE
    SeqMod = 3
INVARIANTS
    IInv
    CommandReached
    SentTogether
PROPERTIES
    SeqContinuous
    RestDrains
