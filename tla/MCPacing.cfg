SPECIFICATION FairSpec
CONSTANTS
    PacketWindowLen = 3
    MessageWindowLen = 2
    Latencies = {1, 5}
    MaxSkew = 1
    ScoreIds = 8
    MinForced = 4
    MaxResend = 12
    DurationMax = 1000000
    MaxMessages = 1
    MaxLost = 4
INVARIANTS
    KeeperIsNewest
    ScoreGrantedOnce
PROPERTY
    ReliableArrives
