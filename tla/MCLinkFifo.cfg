SPECIFICATION Spec
CONSTANTS
    PacketWindowLen = 2
    MessageWindowLen = 2
    Capacity = 2
    Sizes = {1}
    MaxBudget = 2
    SentKinds = {"Reliable"}
    Scores = {2}
    MaxReorder = 0
    MaxMessages = 3
    MaxPackets = 4
INVARIANTS
    AckSound
    ReliableNotLost
PROPERTIES
    KeepsPromise
