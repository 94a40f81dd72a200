SPECIFICATION LoggerSpec
CONSTANTS
    kStackBufferSize = 8
    LogThreads = {t1}
    HeaderSize = 2
    Formats <- MCFormats
    Undefined <- MCUndefined
    NL <- MCNL
    MaxLogs = 2
INVARIANTS
    FormatsEntry
CHECK_DEADLOCK FALSE
