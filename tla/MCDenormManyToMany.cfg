SPECIFICATION Spec
INVARIANTS
    IInv
    TypeOK
    DriftsOnlyByRace
    RejectsOnlyByRace
CONSTANTS
    i1 = i1
    i2 = i2
    o1 = o1
    o2 = o2
    Tx = {t1, t2}
    Items = {i1, i2}
    Owners = {o1, o2}
    Content <- MCContent
    Item0 <- MCItem0
    Links0 <- MCLinks0
    Absent = Absent
    Same = Same
    None = None
    MaxOps = 2
SYMMETRY MCSymmetry
CHECK_DEADLOCK FALSE
