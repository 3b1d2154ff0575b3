\* A run that starts while another one is returning.
SPECIFICATION Spec
CONSTANTS
    Callers = {c1, c2}
    Stoppers = {s1}
    MaxJobs = 2
    MaxFaults = 0
    NoJob = NoJob
CHECK_DEADLOCK FALSE
INVARIANTS Stoppable
