\* One stream of up to three bytes; both windows start at two bytes and may grow.
CONSTANTS
    Stream = {s1}
    MaxOff = 3
    StreamWin = 2
    MaxSfcw = 3
    ConnWin = 2
    MaxCfcw = 3
    Events = {"peer_reset", "peer_stop", "early_close"}
SPECIFICATION FairSpec
CHECK_DEADLOCK FALSE
INVARIANTS
    FlowIsExact
PROPERTIES
    EndIsReached
    ClosedIsFreed
