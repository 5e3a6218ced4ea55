SPECIFICATION Spec
CONSTANTS
    Procs = {p1, p2}
    Items = {i1}
    Sids = {s1, s2}
    None = None
    MaxAge = 1
    MaxTime = 3
    MaxRuns = 3
SYMMETRY Symmetry
INVARIANTS
    FreshWhenServed
    DeadSessionTimesOut
    CacheFollowsTools
CHECK_DEADLOCK FALSE
