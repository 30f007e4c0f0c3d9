\* One run, every plan shape, every status the API accepts, both faults.
SPECIFICATION Spec
CONSTANTS
    MaxTasks = 3
    Plans <- AllPlans
    MaxRetries = 2
    MaxSteps = 20
    MaxEscalations = 2
    Verdicts <- RequestStatus
    Faults = {"raise", "crash"}
    NONE = NONE
INVARIANTS
    TypeOK
    WorkIsReady
    NoWorkDuringReview
    ReviewHasRequest
    CompletedRunIsWhole
    DeadlockNeedsReviewer
PROPERTIES
    CompletedStaysCompleted
    ResumableUntilResult
    ResultIsFinal
CHECK_DEADLOCK FALSE
