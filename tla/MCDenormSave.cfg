SPECIFICATION Spec
INVARIANTS
    IInv
    TypeOK
    StaleForCause
    CachedForCause
CONSTANTS
    Sessions = {s1, s2}
    Value = {0, 1}
    Start = 0
    Modes = {"atomic", "autocommit"}
    None = None
    MaxSteps = 4
    MaxFailures = 1
    MaxWrites = 2
    MaxKeys = 4
SYMMETRY MCSymmetry
CHECK_DEADLOCK FALSE
