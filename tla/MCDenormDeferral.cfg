SPECIFICATION Spec
INVARIANTS
    IInv
    TypeOK
    DeferredIsMarked
PROPERTY
    EagerSettles
CONSTANTS
    profile = profile
    post = post
    full_name = full_name
    summary = summary
    teaser = teaser
    title = title
    Objects = {profile, post}
    Cells = {full_name, summary, teaser, title}
    Owner <- MCOwner
    FromOwnRow = {full_name, title}
    Safe = {full_name}
    Required = {title}
    AlwaysDirty = {post}
    Targets <- MCTargets
    Exists0 = {profile}
    MaxDepth = 3
    MaxOps = 6
    MaxCrashes = 1
CHECK_DEADLOCK FALSE
