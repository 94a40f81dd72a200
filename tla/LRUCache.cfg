SPECIFICATION MCSpec
CONSTANTS
    k1 = k1
    k2 = k2
    k3 = k3
    Handles = {h1, h2, h3}
    Keys <- MCKeys
    Hash <- MCHash
    MinLength = 1
    Charges <- MCCharges
    Capacities <- MCCapacities
    MaxHeld = 2
    Null = Null
    NoKey = NoKey
    kNumShardBits = 1
    ShardHashBits = 2
    KeyHash <- MCKeyHash
    TotalCapacity = 3
    EntryCharges = {1, 2}
    Scanners = {s1}
    MaxIds = 1
INVARIANTS
    RefsCounted
    ListsPartition
    TableExact
    UsageExact
    NothingLeaks
    TableIsMap
    ScansSeeAll
PROPERTIES
    PinnedStays
    FitsOrPinned
CHECK_DEADLOCK FALSE
