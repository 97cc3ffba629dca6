SPECIFICATION Spec
CONSTANTS
    PacketWindowLen = 3
    MessageWindowLen = 2
    Latencies = {1}
    MaxSkew = 1
    ScoreIds = 8
    MinForced = 4
    MaxResend = 16
    DurationMax = 40
    MaxMessages = 1
    MaxLost = 4
INVARIANT
    BackoffIsMaxedOut
