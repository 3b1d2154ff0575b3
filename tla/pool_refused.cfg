\* No worker connects.
SPECIFICATION Spec
CONSTANTS
    Workers = {w1, w2}
    NumFiles = 2
    Capacity = 2
    MaxRefused = 2
    NoFile = NoFile
CHECK_DEADLOCK FALSE
INVARIANTS CompletedMeansAll
