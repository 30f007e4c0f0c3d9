\* A reviewer's MODIFIED verdict on an answered request requeues its task.
SPECIFICATION Spec
CONSTANTS
    MaxTasks = 2
    Plans <- SmallPlans
    MaxRetries = 2
    MaxSteps = 20
    MaxEscalations = 2
    Verdicts <- ReviewVerdicts
    Faults = {}
    NONE = NONE
PROPERTIES
    CompletedIsNeverRequeued
CHECK_DEADLOCK FALSE
