SPECIFICATION Spec
CONSTANTS
    Threads = {t1, t2, t3, t4}
    MmapLimit = 2
    FdLimit = 1
    NDEBUG = FALSE
    MaxMappings = 4
    Tasks = {a, b, c, d}
    Reentrant = {d}
    BufferSize = 2
    Manifest = FALSE
    Filename <- MCFilename
    Target <- MCTarget
    Contents <- MCContents
    ReadSize = 2
    MaxWrites = 2
    MaxReads = 1
    MaxCrashes = 1
    Procs = {p1, p2, p3}
    Shared = {p1}
    Lockers <- MCLockers
    ProcOf <- MCProcOf
    NoProc = NoProc
INVARIANTS
    Accounted
    MappingsLimited
    FdsLimited
    OnceInOrder
    WrittenOrGone
    ReplaceIsAtomic
    ReadIsWhole
    OnePerProcess
    NothingLeft
    AloneKeepsLock
PROPERTIES
    OnlySelfLockBlocks
CHECK_DEADLOCK FALSE
