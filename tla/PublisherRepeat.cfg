SPECIFICATION Spec
CONSTANTS
    Errors = {e1, e2}
    NoError = none
    FetchFails = TRUE
PROPERTIES
    NoRepeat
