\* One execution of each agent, with six routers, every small plan, and a store that
\* is written, killed and loaded.
SPECIFICATION FairSpec
CONSTANTS
    NONE = NONE
    Names = {"gemini", "groq", "local"}
    Routers <- SomeRouters
    MaxRetries = 1
    Documents <- SomeDocuments
    ChunkSize = 4
    ChunkOverlap = 1
    Dimensions = {1, 2}
    MaxChunks = 3
    TaskIds <- Ids
    Plans <- AllPlans
    Tools = {"search", "calculator"}
INVARIANTS
    TypeOK
    AcceptedPlansAreRunnable
    IndexMatchesChunks
PROPERTIES
    ImplementsFailover
CHECK_DEADLOCK FALSE
