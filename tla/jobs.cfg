\* Two callers, a Stop, a crash or a failed update; the goroutines are fair.
SPECIFICATION FairSpec
CONSTANTS
    Callers = {c1, c2}
    Stoppers = {s1}
    MaxJobs = 3
    MaxFaults = 1
    NoJob = NoJob
CHECK_DEADLOCK FALSE
INVARIANTS TypeOK OneRun JobOwned CancelFnLive
PROPERTIES LedgerSpec JobsSettle AgentFrees
