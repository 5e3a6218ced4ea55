SPECIFICATION Spec
CONSTANTS
    Handles = {f1, f2, f3}
    Names = {a, b}
    Users = {u1}
    Root = Root
    Inbox = Inbox
    Network = Network
    None = None
    MaxRuns = 2
    MaxNodes = 5
SYMMETRY Symmetry
INVARIANTS
    TypeOK
    WellLinked
    Coherent
PROPERTIES
    CreatedIsFound
