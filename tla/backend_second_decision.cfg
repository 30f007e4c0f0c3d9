\* Two decisions for one paused run: the second resumes what the first completed.
SPECIFICATION Spec
CONSTANTS
    Runs = {r1, r2}
    Keys = {k1}
    MaxWorkers = 4
    MaxConcurrency = 2
    MaxQueue = 2
    MaxSubmissions = 3
    Env = {}
    NONE = NONE
PROPERTIES
    TerminalRunIsNotResumed
CHECK_DEADLOCK FALSE
