SPECIFICATION FairSpec
INVARIANTS
    IInv
    TypeOK
    PassesBounded
    OneCopy
PROPERTY
    AllButPoisonDrained
CONSTANTS
    a = a
    b = b
    x = x
    Pairs = {a, b, x}
    Cascade <- MCCascade
    Orders <- MCOrders
    Poison = {x}
    Workers = {w1, w2}
    None = None
    ChunkSize = 2
    MaxPasses = 2
    MaxChords = 6
    MaxWrites = 1
    MaxFaults = 1
CHECK_DEADLOCK FALSE
