SPECIFICATION MCSpec
CONSTANTS
    Handles = {h1, h2}
    Me = Me
    Stranger = Stranger
    None = None
    Answers <- MCAnswers
    MaxRounds = 2
    Slash = Slash
    Dot = Dot
    DotDot = DotDot
    Empty = Empty
    MaxPath = 7
    R = R
    A = A
    B = B
INVARIANTS
    NoForgedKey
    Complete
    PrintsWhatPathsName
CHECK_DEADLOCK FALSE
