SPECIFICATION PartsSpec
CONSTANTS
    PageBits = 4
    MessageWindowLen = 4
    PacketWindowLen = 3
    Inline = 2
    HistoryLen = 4
    RecordFreq = 3
    CrcBits = 8
    ChunkBits = 4
    Generator <- Divisor
    BitLens = {3, 10}
    MaxId = 7
    MaxSent = 5
    MaxPacked = 3
    Times = {1, 3, 4}
    Deltas = {0, 2, 6}
    MaxRecords = 6
    MaxData = 3
    Signature <- OneVersion
INVARIANTS
    ShiftsKeepBits
    BitsAreTheWindows
    PacketsAreCountedOnce
    MedianIsTheMiddle
    ChecksumCatches
