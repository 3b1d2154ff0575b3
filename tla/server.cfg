\* Two requests at a time, one command, two columns, two old schedules; from nothing and from a single-file installation.
SPECIFICATION ServerSpec
CONSTANTS
    MaxSalts = 2
    Handlers = {h1, h2}
    Ids = {1, 2}
    Columns = 2
    LegacyRows <- OldSchedules
    Scanning = {"legacy"}
    MaxRequests = 4
    MaxFaults = 2
SYMMETRY HandlersAlike
INVARIANTS ServerTypeOK SaltOnDisk EntriesCurrent SettingsKept
PROPERTY RestoredIsDump
CHECK_DEADLOCK FALSE
