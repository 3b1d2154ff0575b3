\* An edit that is taken back while the file is backed up.
SPECIFICATION Spec
CONSTANTS
    Files = {f1}
    Workers = {w1}
    Blobs = {b1, b2, b3}
    NoFile = NoFile
    NoHash = NoHash
    NoBlob = NoBlob
    Torn = Torn
    SizeOf <- OneSize
    MaxVersions = 2
    MaxEdits = 3
    MaxFaults = 0
    Reverts = TRUE
    Overlap = FALSE
    StrictClock = TRUE
INVARIANTS FastPathSound
