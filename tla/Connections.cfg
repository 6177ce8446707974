SPECIFICATION MCSpec
CONSTANTS
    MAX_PACKETS = 4
    MAX_STASHED = 3
    MIN_BUFFERED = 3
    ChloLen = 2
    HskLen = 1
    CliNos = {0, 1, 7}
    MaxIn = 3
    MiniEvents = {"early_data", "alert", "close"}
    BASE = 12
    MAX_BITS = 3
    N_IN_FLIGHT = 2
    REORDER_THRESH = 1
    NEXT_LIMIT = 1
    FIRST_PACKNO = 8
    MaxUnretx = 1
    MaxPackets = 6
    MaxRtos = 1
    MaxGen = 2
    N_CCES = 3
    N_DCES = 2
    N_PATHS = 2
    N_CHALS = 2
    PeerLimit = 2
    Addrs = {0, 1}
    Modes = {"retire", "migrate"}
    MaxSeq = 2
    MaxScid = 1
    MaxChals = 2
    CliVers = {{3}, {1, 2, 3}}
    SrvVers = {1, 2}
INVARIANTS
    
    PacketsOpen
    
CHECK_DEADLOCK FALSE
