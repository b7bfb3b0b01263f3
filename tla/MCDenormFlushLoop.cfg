SPECIFICATION FairSpec
INVARIANTS
    TypeOK
    ReadYourWrites
    GivesUpForCause
    IInv
PROPERTY
    EveryFlushEnds
CONSTANTS
    a = a
    b = b
    a1 = a1
    b1 = b1
    Flushers = {middleware, command}
    Outer = {command}
    Apps = {app}
    Rows = {a, b}
    Keys = {a1, b1}
    Of <- MCOf
    Graphs <- MCGraphs
    Statements <- MCStatements
    None = None
    MaxFlushPasses = 2
    MaxRetries = 1
    MaxWrites = 1
    MaxErrors = 1
CHECK_DEADLOCK FALSE
