SPECIFICATION FairSpec
CONSTANTS
    PacketWindowLen = 2
    MessageWindowLen = 3
    Pids <- SmallPids
    MsgIds <- SmallIds
    OrderedIds <- EvenIds
    MaxBatch = 2
    MaxPackets = 4
INVARIANTS
    TypeOK
    NothingLost
    AtMostOnce
    InOrderNoGap
    AcksAreExact
    IInv
PROPERTIES
    NeverForgets
    PollDrains
    DeliveredInTheEnd
