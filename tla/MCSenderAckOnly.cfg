SPECIFICATION Spec
CONSTANTS
    PacketWindowLen = 2
    MessageWindowLen = 2
    Capacity = 2
    Sizes = {2}
    MaxBudget = 3
    MaxMessages = 2
    MaxPackets = 3
    MaxAcks = 1
INVARIANTS
    OneAckOnlyPacketPerFrame
