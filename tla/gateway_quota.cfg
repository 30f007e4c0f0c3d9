\* Nine deployments; one principal and one address, windows of three ticks.
SPECIFICATION Spec
CONSTANTS
    NONE = NONE
    Principals = {rita}
    RoleOf <- RoleOfPrincipal
    Addresses = {address}
    PublicLimit = 1
    PrincipalLimit = 2
    Window = 3
    TicksPerSecond = 2
    MaxKeys = 1
    MaxTime = 7
    Deployments <- SomeDeployments
INVARIANTS
    TypeOK
    RetryAfterIsExact
    BuiltInStayOut
PROPERTIES
    ImplementsQuota
    RefusedTakesNoQuota
CHECK_DEADLOCK FALSE
