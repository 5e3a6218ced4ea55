SPECIFICATION Spec
CONSTANTS
    Handles = {f1, f2}
    Names = {a}
    Users = {u1}
    Root = Root
    Inbox = Inbox
    Network = Network
    None = None
    MaxRuns = 2
    MaxNodes = 7
INVARIANTS
    ConflictsExtended
