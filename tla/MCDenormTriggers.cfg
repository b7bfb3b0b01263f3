SPECIFICATION Spec
INVARIANTS
    IInv
    NoUnderFire
PROPERTIES
    NoSelfRemark
    RebuildCovers
CONSTANTS
    Member = Member
    Post = Post
    Tag = Tag
    Bookmark = Bookmark
    Tables <- MCTables
    Columns <- MCColumns
    Keyed <- MCKeyed
    Pks <- MCPks
    Contents <- MCContents
    Relations <- MCRelations
    AlwaysSkip <- MCNothing
    AlwaysOnly <- MCNothing
    Versions = {1, 2}
    Code <- MCCode
    Rows0 <- MCRows0
    CtIds = {1, 2}
    Ct0 <- MCCt0
    None = None
    Undeclared = Undeclared
    Absent = Absent
    Null = Null
    Unset = 0
    LegacySelf <- MCLegacySelf
    BatchSize = 2
    MaxStatements = 2
    MaxFlushes = 1
    MaxAdmin = 2
    MaxSteps = 4
CHECK_DEADLOCK FALSE
