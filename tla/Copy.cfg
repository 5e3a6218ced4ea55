SPECIFICATION MCSpec
CONSTANTS
    Slash = Slash
    Dot = Dot
    DotDot = DotDot
    Empty = Empty
    None = None
    MaxPath = 100
    User = User
    MaxUser = 1
    NewHandles = {"n1", "n2", "n3", "n4"}
    R = R
    A = A
    B = B
    LocalPaths <- MCPaths
    RemotePath <- MCRemotePath
    Sides <- MCSides
    CommandLines <- MCCommandLines
    Locals <- OneLevel
INVARIANTS
    DownloadAccounted
    UploadAccounted
    LinksAccounted
PROPERTIES
    NothingOverwritten
    DryRunForetells
CHECK_DEADLOCK FALSE
