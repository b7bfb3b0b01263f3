SPECIFICATION Spec
PROPERTY RecomputedBySave
CONSTANTS
    Sessions = {s1}
    Value = {0, 1}
    Start = 0
    Modes = {"atomic"}
    None = None
    MaxSteps = 4
    MaxFailures = 1
    MaxWrites = 2
    MaxKeys = 5
CHECK_DEADLOCK FALSE
