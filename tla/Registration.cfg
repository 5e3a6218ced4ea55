SPECIFICATION Spec
CONSTANTS
    Tools = {t1}
    Emails = {e1, e2}
    Passwords = {p1, p2}
    None = None
    MaxRegs = 2
    MaxRuns = 3
INVARIANTS
    VerifiedSignsIn
    ConfirmedIsOwn
PROPERTIES
    KeysSetOnce
CHECK_DEADLOCK FALSE
