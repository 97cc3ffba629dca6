SPECIFICATION FairSpec
CONSTANTS
    a1 = a1
    a2 = a2
    PacketWindowLen = 2
    MessageWindowLen = 2
    Addrs <- TwoPeers
    HeartbeatTimeout = 3
    MaxDelta = 2
    Deltas = {0, 1, 4}
    PeerMessages <- OneOfEach
    MaxPackets = 2
    MaxConnects = 2
INVARIANTS
    TypeOK
    EventsTellConnections
PROPERTIES
    TimeoutsAreExact
    LeavesNothing
    SilentPeersLeave
