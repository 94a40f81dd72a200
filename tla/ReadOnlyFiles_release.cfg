SPECIFICATION FilesSpec
CONSTANTS
    Threads = {t1, t2, t3}
    MmapLimit = 1
    FdLimit = 1
    NDEBUG = TRUE
    MaxMappings = 4
INVARIANTS
    MappingsLimited
CHECK_DEADLOCK FALSE
