\* Plans that plan again among them, documented verdicts, no faults.
SPECIFICATION FairSpec
CONSTANTS
    MaxTasks = 3
    Plans <- LivePlans
    MaxRetries = 2
    MaxSteps = 23
    MaxEscalations = 3
    Verdicts <- ReviewVerdicts
    Faults = {}
    NONE = NONE
PROPERTIES
    RunReachesResult
    WithinStepBudget
    ImplementsLifecycle
CHECK_DEADLOCK FALSE
