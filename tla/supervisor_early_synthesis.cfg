\* A SYNTHESIS task that depends on nothing runs before the other tasks.
SPECIFICATION Spec
CONSTANTS
    MaxTasks = 2
    Plans <- SmallPlans
    MaxRetries = 2
    MaxSteps = 20
    MaxEscalations = 1
    Verdicts <- ReviewVerdicts
    Faults = {}
    NONE = NONE
INVARIANTS
    SynthesisAfterAllTasks
CHECK_DEADLOCK FALSE
