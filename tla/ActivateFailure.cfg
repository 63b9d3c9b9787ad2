SPECIFICATION Spec
CONSTANTS
    NArms = 1
    Faulty = {}
    Overlap = FALSE
    UpdateRate = 500
INVARIANTS
    InactiveIsStopped
