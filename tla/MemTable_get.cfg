SPECIFICATION Spec
CONSTANTS
    Radix = 2
    MaxVarint = 4
    Fixed32 = 2
    Fixed64 = 3
    UserKeys <- MCUserKeys
    Values <- MCValues
    Batches = {b1, b2}
    MaxRecords = 2
    MaxSequence = 3
    Deleted <- MCDeleted
    MaxCut = 1
SYMMETRY Symmetry
INVARIANTS
    GetTakesVisible
CHECK_DEADLOCK FALSE
