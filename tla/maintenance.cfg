\* One file: a purge of it, two of its versions, two days of runs, an edit, a failure.
SPECIFICATION MCMaintSpec
SYMMETRY PurgersAlike
CONSTANTS
    Files = {f1}
    Workers = {w1}
    Blobs = {b1, b2, b3}
    NoFile = NoFile
    NoHash = NoHash
    NoBlob = NoBlob
    Torn = Torn
    SizeOf <- OneSize
    MaxVersions = 2
    MaxEdits = 1
    MaxFaults = 1
    Reverts = FALSE
    Overlap = FALSE
    StrictClock = TRUE
    Purgers = {p1, p2}
    Scopes <- WholeTree
    Retention = 1
    MaxDays = 2
INVARIANTS MaintTypeOK DanglingExplained
PROPERTIES BlobFirst VersionPurgeExact KeptWhileUnseen
CHECK_DEADLOCK FALSE
