\* One file, two versions kept of up to five uploads, racing edits, a fault.
SPECIFICATION Spec
SYMMETRY WorkersAndBlobs
CONSTANTS
    Files = {f1}
    Workers = {w1}
    Blobs = {b1, b2, b3, b4, b5}
    NoFile = NoFile
    NoHash = NoHash
    NoBlob = NoBlob
    Torn = Torn
    SizeOf <- OneSize
    MaxVersions = 2
    MaxEdits = 3
    MaxFaults = 1
    Reverts = FALSE
    Overlap = FALSE
    StrictClock = TRUE
INVARIANTS TypeOK StoreInv NumberedByAge FastPathSound NeighboursDiffer NoOrphans
PROPERTIES OnlyOldestGoes HistorySpec
