\* Two workers, a channel of one, any damage, two blobs that cannot be hashed, a StopScan.
SPECIFICATION Spec
CONSTANTS
    Workers = {w1, w2}
    NumEntries = 4
    Capacity = 1
    MaxUnreached = 2
    NoEntry = NoEntry
CHECK_DEADLOCK FALSE
INVARIANT VerdictRight
 
