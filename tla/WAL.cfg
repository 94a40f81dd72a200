SPECIFICATION Spec
CONSTANTS
    BlockSize = 7
    HeaderSize = 3
    BufferSize = 4
    Manifest = TRUE
    Records <- MCRecords
    FaultyRecords <- MCFaultyRecords
    SizeModulus = 1024
    InitialOffsets = {0, 1, 8, 13}
    FaultyOffsets = {0}
    MaxRecords = 3
    MaxReopens = 1
INVARIANTS
    OffsetFollowsFile
    ReturnsWhatWasAdded
    ReturnsAllAcknowledged
    TornTailIsSilent
    LastOffsetExact
PROPERTIES
    RecoveryEnds
CHECK_DEADLOCK FALSE
