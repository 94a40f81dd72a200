SPECIFICATION FairSpec
CONSTANTS
    Readers = {r1}
    Writer = Writer
    Keys <- MCKeys
    Null <- MCNull
    kMaxHeight = 3
INVARIANTS
    NoWildRead
    LevelsSorted
PROPERTIES
    Linearizable
    CallsReturn
