\* Two workers that may or may not connect, a channel of one, a Stop.
SPECIFICATION Spec
CONSTANTS
    Workers = {w1, w2}
    NumFiles = 4
    Capacity = 1
    MaxRefused = 2
    NoFile = NoFile
CHECK_DEADLOCK FALSE
INVARIANTS RetainsAfterAll ConnectedMeansAll
PROPERTIES RunReturns
