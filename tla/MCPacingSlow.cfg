SPECIFICATION FairSpec
CONSTANTS
    PacketWindowLen = 3
    MessageWindowLen = 2
    Latencies = {6}
    MaxSkew = 1
    ScoreIds = 8
    MinForced = 4
    MaxResend = 16
    DurationMax = 1000000
    MaxMessages = 1
    MaxLost = 0
PROPERTY
    EveryMessageArrives
