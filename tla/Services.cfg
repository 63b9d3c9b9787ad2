SPECIFICATION LiveSpec
CONSTANTS
    NArms = 2
    Requests <- SomeRequests
    MaxSig = 512
    Word <- SomeWord
    Signals <- SomeSignals
    Inputs = {1001}
    ErrorCodes = {5, 6}
INVARIANTS
    IInv
PROPERTIES
    GetSignalRight
    SetSignalRight
    DestructorReturns
