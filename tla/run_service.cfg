\* Three stores; overlapping decisions, a cancellation, a deadline, an error of the
\* database and an event stream.
SPECIFICATION FairSpec
CONSTANTS
    NONE = NONE
    Public = public
    Inner = inner
    RunIds = {public, inner}
    Stores = {"memory", "sqlite", "postgres"}
    Subscribers = {s1}
    MaxSubscribers = 1
    QueueSize = 2
    Reviewers = {r1, r2}
    Deciders <- SomeDeciders
    Cancellers = {c1}
    Deadline = deadline
    MaxFaults = 1
INVARIANTS
    TypeOK
    NoEarlyEnd
    EventTellsStore
    CheckpointsFollowRun
    WorkerSurvives
    RefusedRunIsNotStored
PROPERTIES
    ResultIsFinal
    EndEventKept
    ClientIsAnswered
    StreamsEnd
CHECK_DEADLOCK FALSE
