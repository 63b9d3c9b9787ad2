SPECIFICATION Spec
CONSTANTS
    NArms = 2
    Faulty <- AllFaults
    Overlap = TRUE
    UpdateRate = 500
INVARIANTS
    IInv
    WriteGate
    ThreadNotRestarted
    QuietWhenClosed
    DriverOutlivesCalls
    FinalizedIsQuiet
    SuccessMeansStopped
    ActivatedArmsStarted
PROPERTIES
    LifecycleSpec
    PublisherLifeSpec
