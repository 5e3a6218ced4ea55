SPECIFICATION ApiSpec
CONSTANTS
    InitialDelay = 250000
    MaxDelay = 64000000
    MaxCalls = 2
INVARIANTS
    BoundedRetry
    ResultIsTrue
    RepeatedOnlyAfterLoss
PROPERTIES
    CallReturns
CHECK_DEADLOCK FALSE
