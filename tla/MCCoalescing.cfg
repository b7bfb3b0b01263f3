SPECIFICATION Spec
INVARIANT
    FlushedIsConsistent
CONSTANTS
    F = F
    P = P
    Title = Title
    Digest = Digest
    Name = Name
    Full = Full
    Letter = Letter
    Writers = {app}
    Workers = {w1}
    Objects <- MCObjects
    Plain <- MCPlain
    Denorm <- MCDenorm
    Owner <- MCOwner
    Reads <- MCReads
    Watches <- MCReads
    FkReads <- MCNoFk
    Safe <- MCSafe
    Deletable = {P}
    Value = {0, 1}
    Absent = Absent
    None = None
    Compute <- MCCompute
    Val0 <- MCVal0
    Markers0 = {}
    MaxPasses = 2
    MaxOps = 2
    MaxCrashes = 0
CHECK_DEADLOCK FALSE
