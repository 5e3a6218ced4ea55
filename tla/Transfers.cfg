SPECIFICATION PartSpec
CONSTANTS
    Tools = {t1, t2}
    Paths = {a}
    None = None
    User = User
    Block = 2
    FirstDelay = 250
    MaxDelay = 500
    MaxLen = 2
    Buffer = 2
    MaxUpload = 3
    MaxChanges = 2
    MaxRuns = 2
    MaxNodes = 2
    Unit = 1
    Growth = 2
    MaxMac = 8
    MaxFiles = 2
    NoResult = NoResult
SYMMETRY Symmetry
INVARIANTS
    DoneIsWhole
    NoLeftovers
    NodeIsSound
    MacIdentifies
PROPERTIES
    OthersUntouched
CHECK_DEADLOCK FALSE
