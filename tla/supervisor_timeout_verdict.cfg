\* A TIMEOUT verdict leaves a paused run that no decision can resume.
SPECIFICATION Spec
CONSTANTS
    MaxTasks = 2
    Plans <- SmallPlans
    MaxRetries = 2
    MaxSteps = 20
    MaxEscalations = 1
    Verdicts <- RequestStatus
    Faults = {}
    NONE = NONE
INVARIANTS
    PausedRunIsResumable
CHECK_DEADLOCK FALSE
