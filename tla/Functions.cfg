SPECIFICATION Spec
CONSTANTS
    Radix = 2
    MaxVarint = 4
    Fixed32 = 2
    Fixed64 = 3
    MaxLength = 3
    Tags = {1, 2}
    FilterKeys = {p, q}
    Policies = {1, 5}
    HashBits = 5
    Rotation = 3
    ByteBits = 2
    MinBits = 4
    MaxProbes = 3
    MaxKeys = 2
    MaxFilters = 2
    kBlockSize = 24
    Addresses = {8, 32, 56, 80}
    Sizes = {1, 3, 6, 9}
    MaxAllocations = 4
    Pieces <- MCPieces
    MaxPieces = 2
    kStackBufferSize = 8
    LogThreads = {t1, t2}
    HeaderSize = 2
    Formats <- MCFormats
    Undefined <- MCUndefined
    NL <- MCNL
    MaxLogs = 2
INVARIANTS
    SeparatorDivides
    NoFalseNegatives
    RegionsDisjoint
    ExtendIsCrc
    LineWhole
CHECK_DEADLOCK FALSE
