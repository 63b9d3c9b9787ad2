\* Two arms, two axes of each kind, three requests: two for N and Nm, one for counters.
SPECIFICATION LiveSpec
CONSTANTS
    NArms = 2
    Dim = 2
    Requests = {r1, r2, r3}
    NmRequests = {r1, r2}
    None = None
INVARIANTS
    ReadIsWhole
    NoIndeterminateScale
PROPERTIES
    ModeAdopted
