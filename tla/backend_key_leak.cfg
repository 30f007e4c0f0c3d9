\* A submission refused by a full queue keeps its key.
SPECIFICATION Spec
CONSTANTS
    Runs = {r1, r2}
    Keys = {k1}
    MaxWorkers = 4
    MaxConcurrency = 1
    MaxQueue = 1
    MaxSubmissions = 3
    Env = {}
    NONE = NONE
INVARIANTS
    OpenKeyIsInFlight
CHECK_DEADLOCK FALSE
