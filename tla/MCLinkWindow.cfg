SPECIFICATION Spec
CONSTANTS
    PacketWindowLen = 2
    MessageWindowLen = 3
    Capacity = 2
    Sizes = {1}
    MaxBudget = 2
    SentKinds = {"Reliable", "ReliableUnordered"}
    Scores = {2}
    MaxReorder = 3
    MaxMessages = 3
    MaxPackets = 3
INVARIANTS
    AckSound
    ReliableNotLost
PROPERTIES
    KeepsPromise
