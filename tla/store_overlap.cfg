\* One file listed twice: two workers on it at once, a fault; fairness of the workers and of the runs.
SPECIFICATION FairSpec
CONSTANTS
    Files = {f1}
    Workers = {w1, w2}
    Blobs = {b1, b2, b3, b4}
    NoFile = NoFile
    NoHash = NoHash
    NoBlob = NoBlob
    Torn = Torn
    SizeOf <- SizeMod2
    MaxVersions = 2
    MaxEdits = 1
    MaxFaults = 1
    Reverts = FALSE
    Overlap = TRUE
    StrictClock = TRUE
CHECK_DEADLOCK FALSE
INVARIANTS VersionCap NumsUnique
PROPERTIES EventuallyBackedUp
