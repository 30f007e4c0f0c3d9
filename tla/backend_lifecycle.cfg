\* Three runs, a key, two workers: submissions, cancellations, exceptions and a
\* shutdown in any order.
SPECIFICATION FairSpec
CONSTANTS
    Runs = {r1, r2, r3}
    Keys = {k1}
    MaxWorkers = 4
    MaxConcurrency = 2
    MaxQueue = 2
    MaxSubmissions = 3
    Env = {"raise"}
    NONE = NONE
INVARIANTS
    TypeOK
    OneRunPerKey
    FixedPool
    OneWorkerPerRun
    NoWorkAfterResult
    JobMatchesStore
PROPERTIES
    ResultIsFinal
    EverySubmissionAnswered
    ShutdownEnds
CHECK_DEADLOCK FALSE
