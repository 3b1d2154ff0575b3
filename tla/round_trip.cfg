\* An upload whose source may fail, and without compression its server; a restore of any version.
SPECIFICATION RSpec
CONSTANTS
    MaxChunks = 3
    FailingWith = {FALSE}
    MaxVersion = 3
CHECK_DEADLOCK FALSE
INVARIANTS RestoreTypeOK OkMeansWhole RestoredWhole NoFalseAlarm
PROPERTIES UploadReturns GoroutinesEnd RestoreReturns
