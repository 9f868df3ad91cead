SPECIFICATION FairSpec
CONSTANTS
    Capacity = 2
    MaxPayloads = 3
    MaxBackgrounds = 2
    MaxKills = 1
INVARIANTS
    TypeOK
    NoLossNoDuplication
    DropCountKept
    BackgroundFlushBarrier
PROPERTIES
    QueueSpec
    EventuallySettles
