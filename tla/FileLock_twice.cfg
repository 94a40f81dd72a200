SPECIFICATION LockSpec
CONSTANTS
    Procs = {p1, p2}
    Shared = {p1}
    Lockers <- MCLockers
    ProcOf <- MCProcOf
    NoProc = NoProc
INVARIANTS
    HeldIsLocked
