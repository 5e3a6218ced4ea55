SPECIFICATION Spec
CONSTANTS
    Hosts = {h1, h2}
    NoHost = NoHost
    RequestLengths = {0, 2}
    ResponseLengths = {0, 2}
    Counts = {1, 2}
    IntRange = 8
    HeaderLength = 2
    MaxRequests = 3
    Exclusive = FALSE
INVARIANTS
    TypeOK
    Connected
    Framing
PROPERTIES
    ReconnectAfterError
    AnswersOwnRequest
    CallsReturn
CHECK_DEADLOCK FALSE
