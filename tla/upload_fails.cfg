\* Compression, and a server that may fail.
SPECIFICATION Spec
CONSTANTS
    MaxChunks = 2
    FailingWith = {TRUE}
CHECK_DEADLOCK FALSE
PROPERTIES UploadReturns
