SPECIFICATION InternalKeySpec
CONSTANTS
    Radix = 2
    MaxVarint = 4
    Fixed32 = 2
    Fixed64 = 3
    MaxString = 3
    Sequences = {1, 2}
INVARIANTS
    ParsesBack
CHECK_DEADLOCK FALSE
