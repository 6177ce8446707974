SPECIFICATION MCSpec
CONSTANTS
    V1 = 8
    V2 = 32
    V3 = 128
    Rooms = {20, 37, 80}
    Numbers = {0, 7, 8, 32, 128}
    Sizes = {0, 1, 7, 8, 12}
    RangeCounts = {1, 3, 8, 11}
    MinAckRoom = 36
    MAX_RANGES = 10
    MaxFrames = 2
    BASE = 4
    MANTISSA = 3
    EXPONENT = 3
    GRooms = {14, 60}
    GNumbers = {1, 17, 300, 5000}
    GSizes = {0, 1, 2, 9}
    GPacknos = {1, 2, 5, 9, 17}
    GDelays = {100, 1000}
    OUT_RANGES = 3
    GMaxFrames = 2
    ScidLens = {0, 8}
    TokenLens = {3, 9}
    DataSizes = {4, 6}
    MaxCoalesced = 2
    TV1 = 64
    TV2 = 256
    TV3 = 1024
    BUFSZ = 128
    Limits = {0, 60, 300}
    StreamsIn = 2
    PeerLimits = {0, 1, 2}
    MaxRaise = 3
    MaxOpened = 3
    MaxPending = 2
    IdleTo = 3
    NoprogTo = 4
    MaxRtt = 1
    MaxStreams = 1
    MaxCalls = 2
    GM_MAX_PACKETS = 4
    GM_MAX_DEFERRED = 2
    RejPackets = 1
    GmVersions = {43, 50}
    MaxArrivals = 3
    GcRoles = {"client", "server"}
    MaxStreamsIn = 2
    MaxStreamsOut = {3}
    GcQuota = 3
    OddWith = {"none"}
    Offered = {{1}, {2}, {3}}
    MaxId = 7
    PeerIds = {2, 5, 7}
    Made = {0, 2}
    MaxInputs = 2
    HcRoles = {"client", "server"}
    HcVersions = {27, 29}
    HcStreams = {0, 1}
    HcMaxSaid = 3
    PfvBuf = 3
    UniStreams = {1, 2}
    HcModes = {"contents", "classes"}
INVARIANTS
    FramesRoundTrip
    
    TransParamsAgree
    StreamLimitsSound
    
    
    HttpControlSound
CHECK_DEADLOCK FALSE
