SPECIFICATION FairSpec
INVARIANTS
    TypeOK
    NoLostInvalidation
    ExclusiveRecompute
    IInv
PROPERTIES
    OwnRowStable
    DroppedIsRedundant
    KeepsContract
    EventuallyDrained
    EventuallyConsistent
CONSTANTS
    F = F
    P = P
    Title = Title
    Digest = Digest
    Name = Name
    Full = Full
    Letter = Letter
    Writers = {app}
    Workers = {w1, w2}
    Objects <- MCObjects
    Plain <- MCPlain
    Denorm <- MCDenorm
    Owner <- MCOwner
    Reads <- MCReads
    Watches <- MCReads
    FkReads <- MCNoFk
    Safe <- MCSafe
    Deletable = {F, P}
    Value = {0, 1}
    Absent = Absent
    None = None
    Compute <- MCCompute
    Val0 <- MCValRebuild
    Markers0 <- MCMarkersRebuild
    MaxPasses = 2
    MaxOps = 2
    MaxCrashes = 1
CHECK_DEADLOCK FALSE
