SPECIFICATION SSpec
CONSTANTS
    Hosts = {h1, h2}
    NoHost = NoHost
    RequestLengths = {0, 2}
    ResponseLengths = {0, 2, 3}
    Counts = {1}
    IntRange = 8
    HeaderLength = 2
    MaxRequests = 3
    Exclusive = TRUE
    MaxSimple = 2
INVARIANTS
    NothingLeftOpen
PROPERTIES
    PromiseSpec
CHECK_DEADLOCK FALSE
