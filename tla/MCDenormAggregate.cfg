SPECIFICATION Spec
INVARIANTS
    IInv
    TypeOK
    NeverNegative
PROPERTY
    AlwaysExact
CONSTANTS
    r1 = r1
    r2 = r2
    o1 = o1
    o2 = o2
    Tx = {t1, t2}
    Rows = {r1, r2}
    Owners = {o1, o2}
    Content <- MCContent
    Row0 <- MCRow0
    Absent = Absent
    Same = Same
    Null = Null
    None = None
    MaxOps = 2
CHECK_DEADLOCK FALSE
