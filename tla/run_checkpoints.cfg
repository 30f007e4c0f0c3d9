\* The SQL stores lose the checkpoints of a run's first execution.
SPECIFICATION Spec
CONSTANTS
    NONE = NONE
    Public = public
    Inner = inner
    RunIds = {public, inner}
    Stores = {"sqlite", "postgres"}
    Subscribers = {s1}
    MaxSubscribers = 1
    QueueSize = 2
    Reviewers = {r1}
    Deciders <- SomeDeciders
    Cancellers = {c1}
    Deadline = deadline
    MaxFaults = 0
INVARIANT
    AllCheckpointsListed
CHECK_DEADLOCK FALSE
