SPECIFICATION LiveSpec
CONSTANTS
    Errors = {e1, e2}
    NoError = none
    FetchFails = TRUE
INVARIANTS
    IInv
    NoUseAfterReset
PROPERTIES
    LifeSpec
    RepeatExplained
    PersistingErrorReported
    StopReturns
