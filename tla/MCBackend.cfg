SPECIFICATION FairSpec
CONSTANTS
    Latency = 0
    Jitter = 1
    Deltas = {1}
    Sizes = {1, 4}
    Mtu = 5
    SigLen = 2
    MaxSent = 2
    MaxArrived = 3
    MaxTime = 2
INVARIANTS
    NoneSkipped
    OnTime
PROPERTY
    ReadInTheEnd
