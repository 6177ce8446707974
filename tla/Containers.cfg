CONSTANTS
    RMaxPackno = 5
    Limits = {0, 1, 3}
    InitialElems = 2
    TMaxPackno = 7
    TMaxRanges = 3
    TCountMax = 8
    AConn = {a1, a2, a3, a4, a5, a6}
    ATimes = {1, 2}
    MItem = {m1, m2, m3, m4, m5}
    MVals = {1, 2, 3}
    PCid = {1, 2, 3}
    Hash <- FilterBits
    PerPage = 2
    MinLife = 1
    PMaxTime = 3
    PMaxPages = 3
    QCid = {q1, q2}
    MaxReqs = 3
    MaxConns = 2
    MinReset = 2
    MaxReset = 5
    Sizes = {5}
    MaxPackno = 2
    MaxOut = 2
    MaxRanges = 0
    RetxSinceAck = 2
    AnySinceAck = 2
    SendFails = FALSE
    MaxOff = 4
    DataSize = 2
    Events = {"resegment", "inefficient"}
    W1 = 4
    W2 = 16
    PackSize = 8
    Thresh = 6
    PacketRooms = {3, 6}
    MaxPackets = 2
    HblockSize = 3
    WriteSizes = {1, 4, 9}
    StreamCredits = {9, 24}
    ConnCredits = {12, 30}
    IOVECS = 2
    PreadvMin = 1
    MaxWrites = 4
    PpRequests = {r1, r2}
    PpLimits = {0, 1}
    MaxPromises = 2
    PpSize = 3
    PpWrites = {0, 1, 3}
SPECIFICATION MCSpec
INVARIANTS
    IgnoredLongEnough
    PacketQueueIsSound
    AckIsPending
    DeliveryIsTolerated
    WritesAreFramed
    
PROPERTIES
    ImplementsHistory
    TinyHistoryIsRight
    HeapsServeEarliest
    ImplementsByteStream
