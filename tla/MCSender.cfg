SPECIFICATION Spec
CONSTANTS
    PacketWindowLen = 2
    MessageWindowLen = 2
    Capacity = 2
    Sizes = {1, 2}
    MaxBudget = 2
    MaxMessages = 3
    MaxPackets = 3
    MaxAcks = 2
INVARIANTS
    TypeOK
    NoneForgotten
    CandidatesAreQueued
    UnreliableOnce
    CoveredWasAcked
    PacketsAreSound
    InFlightIsExact
PROPERTIES
    NeverResendsAcked
